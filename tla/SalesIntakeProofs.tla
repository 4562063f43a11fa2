-------------------------- MODULE SalesIntakeProofs --------------------------
(***************************************************************************)
(* What holds of the intake of sales for any number of feeds, documents,   *)
(* customers and sessions: totals of imported customers are those of their *)
(* sales, no document of a committed feed is missing, a content_hash tells *)
(* a sale's content, and amounts mean in a file what was written there.    *)
(***************************************************************************)
EXTENDS SalesIntake, FiniteSetTheorems, SequenceTheorems, TLAPS

----------------------------------------------------------------------------
(* Sums.                                                                   *)

\* A function that adds up f over the subsets of T, in the order in which
\* MapThenSumSet takes the elements.
Pick(s) == CHOOSE y \in s : TRUE

Adds(g, f, T) ==
    \A s \in SUBSET T : g[s] = IF s = {} THEN 0 ELSE f[Pick(s)] + g[s \ {Pick(s)}]

LEMMA PickIn == ASSUME NEW s, s # {} PROVE Pick(s) \in s
  BY DEF Pick

\* f weighs the elements of T, and e those of U, f's among them.
Extends(f, T, e, U) ==
    /\ f \in [T -> Int] /\ e \in [U -> Int]
    /\ T \subseteq U
    /\ \A x \in T : e[x] = f[x]

\* Two functions that add up agree where both are defined: else take a smallest
\* set on which they do not.
LEMMA AddsUnique ==
    ASSUME NEW T, IsFiniteSet(T), NEW U, NEW f, NEW e, Extends(f, T, e, U),
           NEW g, Adds(g, f, T), NEW h, Adds(h, e, U)
    PROVE  \A s \in SUBSET T : g[s] = h[s] /\ g[s] \in Int
<1> USE DEF Extends
<1> DEFINE Bad == {s \in SUBSET T : ~(g[s] = h[s] /\ g[s] \in Int)}
<1>1. SUFFICES ASSUME Bad # {} PROVE FALSE
  OBVIOUS
<1>2. PICK s \in Bad : \A r \in Bad : ~ (<<r, s>> \in StrictSubsetOrdering(T))
  <2>1. IsWellFoundedOn(StrictSubsetOrdering(T), SUBSET T)
    BY FS_StrictSubsetOrderingWellFounded, FS_FiniteSubsetsOfFinite
  <2>2. Bad \subseteq SUBSET T
    OBVIOUS
  <2> HIDE DEF Bad
  <2>3. QED
    BY <1>1, <2>1, <2>2, WFMin
<1>3. s \in SUBSET T /\ s \in SUBSET U
  OBVIOUS
<1> DEFINE x == Pick(s)
<1>4. s # {}
  <2>1. g[{}] = 0 /\ h[{}] = 0
    BY DEF Adds
  <2>2. QED
    BY <2>1
<1>5. x \in s
  BY <1>4, PickIn
<1>6. g[s] = f[x] + g[s \ {x}] /\ h[s] = e[x] + h[s \ {x}]
  BY <1>3, <1>4 DEF Adds
<1>7. s \ {x} \notin Bad
  <2>1. s \ {x} \in SUBSET T /\ s \ {x} # s
    BY <1>3, <1>5
  <2>2. <<s \ {x}, s>> \in StrictSubsetOrdering(T)
    BY <1>3, <2>1 DEF StrictSubsetOrdering
  <2>3. QED
    BY <1>2, <2>2
<1>8. g[s \ {x}] = h[s \ {x}] /\ g[s \ {x}] \in Int
  BY <1>3, <1>7
<1>9. e[x] = f[x] /\ f[x] \in Int
  BY <1>3, <1>5
<1> HIDE DEF x
<1>10. g[s] = h[s] /\ g[s] \in Int
  BY <1>6, <1>8, <1>9
<1>11. QED
  BY <1>10

\* There is one: else take a smallest set without one, and add up the sums of
\* its proper subsets.
LEMMA AddsExists ==
    ASSUME NEW S, IsFiniteSet(S), NEW f \in [S -> Int]
    PROVE  \E g : Adds(g, f, S)
<1> DEFINE Bad == {T \in SUBSET S : ~ \E g : Adds(g, [x \in T |-> f[x]], T)}
<1>1. SUFFICES ASSUME Bad # {} PROVE FALSE
  <2>1. S \notin Bad => \E g : Adds(g, [x \in S |-> f[x]], S)
    OBVIOUS
  <2>2. [x \in S |-> f[x]] = f
    OBVIOUS
  <2>3. QED
    BY <2>1, <2>2
<1>2. PICK T \in Bad : \A U \in Bad : ~ (<<U, T>> \in StrictSubsetOrdering(S))
  <2>1. IsWellFoundedOn(StrictSubsetOrdering(S), SUBSET S)
    BY FS_StrictSubsetOrderingWellFounded, FS_FiniteSubsetsOfFinite
  <2>2. Bad \subseteq SUBSET S
    OBVIOUS
  <2> HIDE DEF Bad
  <2>3. QED
    BY <1>1, <2>1, <2>2, WFMin
<1> DEFINE F(U) == [x \in U |-> f[x]]
           G(U) == CHOOSE g : Adds(g, F(U), U)
<1>3. T \in SUBSET S
  OBVIOUS
<1>4. ASSUME NEW U \in SUBSET T, U # T
      PROVE  Adds(G(U), F(U), U)
  <2>1. <<U, T>> \in StrictSubsetOrdering(S)
    BY <1>3, <1>4 DEF StrictSubsetOrdering
  <2>2. U \notin Bad /\ U \in SUBSET S
    BY <1>2, <1>3, <2>1
  <2>3. \E g : Adds(g, F(U), U)
    BY <2>2
  <2>4. QED
    BY <2>3
<1> DEFINE h == [s \in SUBSET T |-> IF s = {} THEN 0
                                    ELSE f[Pick(s)] + G(s \ {Pick(s)})[s \ {Pick(s)}]]
<1>5. ASSUME NEW s \in SUBSET T, s # {}
      PROVE  Pick(s) \in s /\ s \ {Pick(s)} \in SUBSET T /\ s \ {Pick(s)} # T
  <2>1. Pick(s) \in s
    BY <1>5, PickIn
  <2>2. QED
    BY <2>1
<1>6. ASSUME NEW U \in SUBSET T, U # T
      PROVE  G(U)[U] = h[U]
  <2>1. Adds(G(U), F(U), U) /\ U \in SUBSET U
    BY <1>4, <1>6
  <2>2. CASE U = {}
    <3>1. h[U] = 0
      BY <2>2
    <3> HIDE DEF G, F, h
    <3>2. G(U)[U] = 0
      BY <2>1, <2>2 DEF Adds
    <3>3. QED
      BY <3>1, <3>2
  <2>3. CASE U # {}
    <3> DEFINE V == U \ {Pick(U)}
    <3>1. Pick(U) \in U /\ V \in SUBSET T /\ V # T /\ V \subseteq U
      BY <1>5, <2>3
    <3>2. G(U)[U] = F(U)[Pick(U)] + G(U)[V]
      <4> HIDE DEF G, F
      <4>1. QED
        BY <2>1, <2>3 DEF Adds
    <3>3. G(V)[V] = G(U)[V]
      <4>1. Adds(G(V), F(V), V)
        BY <1>4, <3>1
      <4>2. IsFiniteSet(V)
        BY <1>3, <3>1, FS_Subset
      <4>3. F(V) \in [V -> Int] /\ F(U) \in [U -> Int] /\ \A y \in V : F(U)[y] = F(V)[y]
        BY <1>3, <1>6, <3>1
      <4>4. PICK p, q, a, b : p = G(V) /\ q = G(U) /\ a = F(V) /\ b = F(U)
        OBVIOUS
      <4> HIDE DEF F, G, V
      <4>5. Extends(a, V, b, U)
        <5>1. a \in [V -> Int] /\ b \in [U -> Int] /\ \A y \in V : b[y] = a[y]
          BY <4>3, <4>4
        <5>2. V \subseteq U
          BY <3>1
        <5>3. QED
          BY <5>1, <5>2 DEF Extends
      <4>6. Adds(p, a, V)
        BY <4>1, <4>4
      <4>7. Adds(q, b, U)
        BY <2>1, <4>4
      <4>8. p[V] = q[V]
        BY <4>2, <4>5, <4>6, <4>7, AddsUnique
      <4>9. QED
        BY <4>4, <4>8
    <3>4. h[U] = f[Pick(U)] + G(V)[V]
      BY <2>3
    <3>5. F(U)[Pick(U)] = f[Pick(U)]
      BY <3>1
    <3> HIDE DEF F, G, V, h
    <3>6. QED
      BY <3>2, <3>3, <3>4, <3>5
  <2>4. QED
    BY <2>2, <2>3
<1>7. Adds(h, F(T), T)
  <2> SUFFICES ASSUME NEW s \in SUBSET T
               PROVE  h[s] = IF s = {} THEN 0 ELSE F(T)[Pick(s)] + h[s \ {Pick(s)}]
    BY DEF Adds
  <2>1. CASE s = {}
    BY <2>1
  <2>2. CASE s # {}
    <3>1. h[s] = f[Pick(s)] + G(s \ {Pick(s)})[s \ {Pick(s)}]
      BY <2>2
    <3>2. Pick(s) \in T
      BY <1>5, <2>2
    <3>3. F(T)[Pick(s)] = f[Pick(s)]
      BY <3>2
    <3>4. G(s \ {Pick(s)})[s \ {Pick(s)}] = h[s \ {Pick(s)}]
      BY <1>5, <1>6, <2>2
    <3> HIDE DEF F, G, h
    <3>5. QED
      BY <2>2, <3>1, <3>3, <3>4
  <2>3. QED
    BY <2>1, <2>2
<1>8. QED
  BY <1>7

\* The records of u that count, and what they add up to.
Counted(records, u) ==
    {k \in Keys : records[k] # Nothing /\ records[k].customer = u /\ ~records[k].cancelled}

LEMMA WorthAdds ==
    ASSUME NEW records \in [Keys -> SaleRecords \cup {Nothing}], NEW u,
           NEW T, T = Counted(records, u),
           NEW f \in [T -> Int], \A k \in T : f[k] = records[k].amount
    PROVE  \E g : Adds(g, f, T) /\ Worth(records, u) = g[T]
<1>2. IsFiniteSet(T)
  BY IntakeAssumption, FS_Subset DEF Counted
<1>3. PICK g : Adds(g, f, T)
  BY <1>2, AddsExists
<1> DEFINE E(i, s) == IF s = {} THEN 0
                      ELSE LET x == CHOOSE y \in s : TRUE
                           IN  records[x].amount + i[s \ {x}]
           Iter(i) == i = [s \in SUBSET T |-> E(i, s)]
           j == [s \in SUBSET T |-> g[s]]
<1>4. ASSUME NEW i, NEW s \in SUBSET T
      PROVE  E(i, s) = IF s = {} THEN 0 ELSE f[Pick(s)] + i[s \ {Pick(s)}]
  <2>1. s # {} => f[Pick(s)] = records[Pick(s)].amount
    BY PickIn
  <2>2. QED
    BY <2>1 DEF Pick
<1>5. Iter(j)
  <2>1. \A s \in SUBSET T : j[s] = E(j, s)
    <3> TAKE s \in SUBSET T
    <3>1. E(j, s) = IF s = {} THEN 0 ELSE f[Pick(s)] + j[s \ {Pick(s)}]
      <4> HIDE DEF E, j
      <4>1. QED
        BY <1>4
    <3>2. g[s] = IF s = {} THEN 0 ELSE f[Pick(s)] + g[s \ {Pick(s)}]
      BY <1>3 DEF Adds
    <3>3. j[s] = g[s] /\ j[s \ {Pick(s)}] = g[s \ {Pick(s)}]
      OBVIOUS
    <3> HIDE DEF E, j
    <3>4. QED
      BY <3>1, <3>2, <3>3
  <2>2. j = [s \in SUBSET T |-> j[s]]
    OBVIOUS
  <2> HIDE DEF E, j
  <2>3. QED
    BY <2>1, <2>2
<1>6. Worth(records, u) = (CHOOSE i : Iter(i))[T]
  BY DEF Worth, MapThenSumSet, MapThenFoldSet, Counted
<1> HIDE DEF j
<1>7. PICK i : Iter(i) /\ Worth(records, u) = i[T]
  <2> HIDE DEF Iter
  <2>1. QED
    BY <1>5, <1>6
<1>8. Adds(i, f, T)
  <2> SUFFICES ASSUME NEW s \in SUBSET T
               PROVE  i[s] = IF s = {} THEN 0 ELSE f[Pick(s)] + i[s \ {Pick(s)}]
    BY DEF Adds
  <2>1. i[s] = E(i, s)
    <3> HIDE DEF E
    <3>1. QED
      BY <1>7
  <2> HIDE DEF E
  <2>2. QED
    BY <1>4, <2>1
<1>9. QED
  BY <1>7, <1>8

LEMMA WorthIsInt ==
    ASSUME NEW records \in [Keys -> SaleRecords \cup {Nothing}], NEW u
    PROVE  Worth(records, u) \in Int
<1> DEFINE T == Counted(records, u)
           f == [k \in T |-> records[k].amount]
<1>1. f \in [T -> Int] /\ \A k \in T : f[k] = records[k].amount
  BY DEF Counted, SaleRecords
<1>2. IsFiniteSet(T) /\ T = Counted(records, u)
  BY IntakeAssumption, FS_Subset DEF Counted
<1> HIDE DEF T, f
<1>3. PICK g : Adds(g, f, T) /\ Worth(records, u) = g[T]
  BY <1>1, <1>2, WorthAdds
<1>4. T \in SUBSET T /\ Extends(f, T, f, T)
  BY <1>1 DEF Extends
<1>5. g[T] \in Int
  BY <1>2, <1>3, <1>4, AddsUnique
<1>6. QED
  BY <1>3, <1>5

\* The same sales of u, at the same amounts, amount to the same.
LEMMA WorthSame ==
    ASSUME NEW r \in [Keys -> SaleRecords \cup {Nothing}],
           NEW q \in [Keys -> SaleRecords \cup {Nothing}],
           NEW u,
           Counted(r, u) = Counted(q, u),
           \A k \in Counted(r, u) : r[k].amount = q[k].amount
    PROVE  Worth(r, u) = Worth(q, u)
<1> DEFINE T == Counted(r, u)
           f == [k \in T |-> r[k].amount]
<1>1. f \in [T -> Int] /\ \A k \in T : f[k] = r[k].amount /\ f[k] = q[k].amount
  BY DEF Counted, SaleRecords
<1>2. IsFiniteSet(T)
  BY IntakeAssumption, FS_Subset DEF Counted
<1>3. T = Counted(q, u) /\ T = Counted(r, u)
  OBVIOUS
<1> HIDE DEF T, f
<1>4. PICK g : Adds(g, f, T) /\ Worth(r, u) = g[T]
  BY <1>1, <1>3, WorthAdds
<1>5. PICK h : Adds(h, f, T) /\ Worth(q, u) = h[T]
  BY <1>1, <1>3, WorthAdds
<1>6. T \in SUBSET T /\ Extends(f, T, f, T)
  BY <1>1 DEF Extends
<1>7. g[T] = h[T]
  BY <1>2, <1>4, <1>5, <1>6, AddsUnique
<1>8. QED
  BY <1>4, <1>5, <1>7

----------------------------------------------------------------------------
(* Totals and tiers.                                                       *)

\* A set of naturals with a bound has a greatest element: else the least of
\* its bounds would have a smaller one.
LEMMA BoundedHasMax ==
    ASSUME NEW S \in SUBSET Nat, S # {}, NEW b \in Nat, \A x \in S : x <= b
    PROVE  \E m \in S : \A x \in S : x <= m
<1> DEFINE Bounds == {c \in Nat : \A x \in S : x <= c}
           Less == {p \in Nat \X Nat : p[1] < p[2]}
<1>1. PICK c \in Bounds : \A d \in Bounds : ~ (<<d, c>> \in Less)
  <2>1. IsWellFoundedOn(Less, Nat)
    BY NatLessThanWellFounded DEF OpToRel
  <2>2. Bounds # {} /\ Bounds \subseteq Nat
    OBVIOUS
  <2> HIDE DEF Bounds, Less
  <2>3. QED
    BY <2>1, <2>2, WFMin
<1>2. c \in Nat /\ \A x \in S : x <= c
  OBVIOUS
<1>3. CASE c \in S
  BY <1>2, <1>3
<1>4. CASE c \notin S
  <2>1. \A x \in S : x \in Nat /\ x < c
    BY <1>2, <1>4
  <2>2. PICK x \in S : TRUE
    OBVIOUS
  <2>3. c - 1 \in Nat /\ \A y \in S : y <= c - 1
    BY <1>2, <2>1, <2>2
  <2>4. c - 1 \in Bounds /\ <<c - 1, c>> \in Less
    BY <1>2, <2>3
  <2>5. QED
    BY <1>1, <2>4
<1>5. QED
  BY <1>3, <1>4

LEMMA TotalIsNat ==
    ASSUME NEW records \in [Keys -> SaleRecords \cup {Nothing}], NEW u
    PROVE  TotalOf(records, u) \in Nat
<1>1. Worth(records, u) \in Int
  BY WorthIsInt
<1> DEFINE w == Worth(records, u)
           m == CHOOSE x \in {0, w} : \A y \in {0, w} : x >= y
<1>2. TotalOf(records, u) = m
  BY DEF TotalOf, Max
<1> HIDE DEF w
<1>3. w \in Int
  BY <1>1 DEF w
<1>4. \E x \in {0, w} : \A y \in {0, w} : x >= y
  BY <1>3
<1>5. m \in {0, w} /\ m >= 0
  BY <1>4
<1> HIDE DEF m
<1>6. QED
  BY <1>2, <1>3, <1>5

LEMMA RowIsProgress ==
    ASSUME NEW total \in Nat
    PROVE  ProgressRow(total) \in ProgressRows
<1> DEFINE S == {0} \cup {a \in TierAmounts : a <= total}
<1>1. S \in SUBSET Nat /\ S # {} /\ \A x \in S : x <= total
  <2>1. TierAmounts \subseteq Nat
    BY IntakeAssumption
  <2>2. S \in SUBSET Nat
    <3> SUFFICES ASSUME NEW x \in S PROVE x \in Nat
      OBVIOUS
    <3>1. x = 0 \/ x \in TierAmounts
      OBVIOUS
    <3>2. QED
      BY <2>1, <3>1
  <2>3. \A x \in S : x <= total
    <3> TAKE x \in S
    <3>1. x = 0 \/ x <= total
      OBVIOUS
    <3>2. QED
      BY <3>1
  <2>4. QED
    BY <2>2, <2>3
<1> HIDE DEF S
<1>2. \E m \in S : \A x \in S : x <= m
  BY <1>1, BoundedHasMax
<1>3. \E m \in S : \A x \in S : m >= x
  BY <1>1, <1>2
<1>4. Max(S) \in S
  BY <1>3 DEF Max
<1>5. TierFor(total) \in Nat
  BY <1>1, <1>4 DEF TierFor, S
<1>6. QED
  BY <1>5 DEF ProgressRow, ProgressRows

\* Of two views of the sales with the same sales of u, at the same amounts.
LEMMA TotalSame ==
    ASSUME NEW r \in [Keys -> SaleRecords \cup {Nothing}],
           NEW q \in [Keys -> SaleRecords \cup {Nothing}],
           NEW u,
           \A k \in Keys : \/ r[k] = q[k]
                           \/ /\ r[k] = Nothing \/ r[k].customer # u
                              /\ q[k] = Nothing \/ q[k].customer # u
    PROVE  TotalOf(r, u) = TotalOf(q, u)
<1>1. Counted(r, u) = Counted(q, u)
  BY DEF Counted
<1>2. \A k \in Counted(r, u) : r[k].amount = q[k].amount
  BY DEF Counted
<1>3. Worth(r, u) = Worth(q, u)
  BY <1>1, <1>2, WorthSame
<1>4. QED
  BY <1>3 DEF TotalOf

----------------------------------------------------------------------------
(* Records.                                                                *)

LEMMA RecordedIsSale ==
    ASSUME NEW d \in Document
    PROVE  /\ Recorded(d) \in SaleRecords
           /\ Recorded(d).customer = d.customer
           /\ Recorded(d).hash = Content(Recorded(d))
           /\ Recorded(d).hash = Content(d)
  BY DEF Document, Recorded, SaleRecords, Content

LEMMA OverwriteSale ==
    ASSUME NEW cur \in SaleRecords, NEW loaded, NEW new \in SaleRecords
    PROVE  /\ Overwrite(cur, loaded, new) \in SaleRecords
           /\ Overwrite(cur, loaded, new).customer \in {cur.customer, new.customer}
           /\ loaded = cur => Overwrite(cur, loaded, new) = new
<1>1. DOMAIN cur = {"customer", "amount", "cancelled", "hash"}
  BY DEF SaleRecords
<1> DEFINE x == Overwrite(cur, loaded, new)
           V(c) == IF new[c] # loaded[c] THEN new[c] ELSE cur[c]
<1>2. x = [customer |-> V("customer"), amount |-> V("amount"),
           cancelled |-> V("cancelled"), hash |-> V("hash")]
  BY <1>1 DEF Overwrite
<1>3. /\ V("customer") \in Customers /\ V("amount") \in Int /\ V("cancelled") \in BOOLEAN
      /\ V("hash") \in (Customers \X Int \X BOOLEAN) \cup {Nothing}
  BY DEF SaleRecords
<1>4. /\ V("customer") \in {cur.customer, new.customer}
      /\ loaded = cur => \A c \in {"customer", "amount", "cancelled", "hash"} : V(c) = new[c]
  OBVIOUS
<1>5. new = [customer |-> new.customer, amount |-> new.amount,
             cancelled |-> new.cancelled, hash |-> new.hash]
  BY DEF SaleRecords
<1> HIDE DEF V, x
<1>6. QED
  BY <1>2, <1>3, <1>4, <1>5 DEF SaleRecords, x

LEMMA OverwriteRow ==
    ASSUME NEW cur \in ProgressRows, NEW loaded, NEW new \in ProgressRows
    PROVE  /\ Overwrite(cur, loaded, new) \in ProgressRows
           /\ loaded = cur => Overwrite(cur, loaded, new) = new
<1>1. DOMAIN cur = {"total", "tier"}
  BY DEF ProgressRows
<1> DEFINE x == Overwrite(cur, loaded, new)
           V(c) == IF new[c] # loaded[c] THEN new[c] ELSE cur[c]
<1>2. x = [total |-> V("total"), tier |-> V("tier")]
  BY <1>1 DEF Overwrite
<1>3. V("total") \in Nat /\ V("tier") \in Nat
  BY DEF ProgressRows
<1>4. loaded = cur => V("total") = new.total /\ V("tier") = new.tier
  OBVIOUS
<1>5. new = [total |-> new.total, tier |-> new.tier]
  BY DEF ProgressRows
<1> HIDE DEF V, x
<1>6. QED
  BY <1>2, <1>3, <1>4, <1>5 DEF ProgressRows, x

----------------------------------------------------------------------------
(* The places of a transaction.                                            *)

OnRows(s) == txn[s].pc \in {"reference", "refer", "sale", "upsert"}
Progressing(s) == txn[s].pc \in {"progress", "store"}

\* What is known of a transaction at each of its places; of a feed, that the
\* session sees the sales of the documents before the one at hand.
Placed(s) ==
    LET t == txn[s] IN
    t # Idle =>
      /\ OnRows(s) => t.op = "commit" /\ t.row \in DOMAIN RowsOf[t.feed]
      /\ t.op # "recalculate" => t.feed \in Feeds
      /\ t.pc \in {"reference", "refer"} => SourceOf[t.feed] = "csv"
      /\ t.added # {} => t.feed \in Feeds /\ SourceOf[t.feed] = "csv"
      /\ t.pc = "upsert" => /\ t.saw \in SaleRecords \cup {Nothing}
                            /\ t.saw # Nothing => View(s, Doc(s).key) # Nothing
      /\ Progressing(s) => t.customer \in Customers
      /\ t.pc = "store" => /\ t.saw \in ProgressRows \cup {Nothing}
                           /\ t.saw # Nothing => progress[t.customer] # Nothing
      /\ \A k \in Keys : t.memory[k] # Nothing => View(s, k) # Nothing
      /\ t.op = "commit" =>
           \A i \in DOMAIN RowsOf[t.feed] :
             ~OnRows(s) \/ i < t.row => View(s, RowsOf[t.feed][i].key) # Nothing
      /\ \A k \in Keys : t.wrote[k] # Nothing => t.wrote[k].customer \in CustomersOf(k)

PlacedInv ==
    /\ IntakeTypeOK
    /\ \A k \in Keys : sale[k] # Nothing => sale[k].customer \in CustomersOf(k)
    /\ \A s \in Sessions : Placed(s)

LEMMA IdleIsNone == Idle \notin Transaction
  BY DEF Idle, Transaction

LEMMA DocsAreDocuments ==
    ASSUME NEW f \in Feeds, NEW i \in DOMAIN RowsOf[f]
    PROVE  /\ RowsOf[f] \in Seq(Document)
           /\ RowsOf[f][i] \in Document
           /\ i \in 1 .. Len(RowsOf[f])
           /\ RowsOf[f][i].customer \in CustomersOf(RowsOf[f][i].key)
           /\ SourceOf[f] = "erp" => RowsOf[f][i].customer \in Handled
<1>1. RowsOf[f] \in Seq(Document)
  BY IntakeAssumption
<1>2. RowsOf[f][i] \in Document /\ i \in 1 .. Len(RowsOf[f])
  BY <1>1
<1>3. SourceOf[f] = "erp" => RowsOf[f][i].customer \in Handled
  BY IntakeAssumption
<1>4. RowsOf[f][i].customer \in Customers
  BY <1>2 DEF Document
<1>5. RowsOf[f][i].customer \in CustomersOf(RowsOf[f][i].key)
  BY <1>4 DEF CustomersOf
<1>6. QED
  BY <1>1, <1>2, <1>3, <1>5

\* Where GoTo leads.
LEMMA GoesTo ==
    ASSUME NEW t \in Transaction, NEW i \in Nat \ {0}, t.feed \in Feeds, NEW g, g = GoTo(t, i)
    PROVE  /\ g \in Transaction
           /\ g.row = i
           /\ \/ g.pc = "total" /\ i > Len(RowsOf[t.feed])
              \/ /\ g.pc \in {"reference", "sale"} /\ i \in DOMAIN RowsOf[t.feed]
                 /\ g.pc = "reference" <=> SourceOf[t.feed] = "csv"
           /\ g.op = t.op /\ g.feed = t.feed /\ g.saw = t.saw /\ g.wrote = t.wrote
           /\ g.memory = t.memory /\ g.added = t.added /\ g.affected = t.affected
           /\ g.customer = t.customer /\ g.total = t.total /\ g.result = t.result
<1> DEFINE pc == IF i > Len(RowsOf[t.feed]) THEN "total"
                 ELSE IF SourceOf[t.feed] = "csv" THEN "reference" ELSE "sale"
<1>1. g = [t EXCEPT !.row = i, !.pc = pc]
  BY DEF GoTo
<1>2. pc \in {"total", "reference", "sale"}
  OBVIOUS
<1>3. RowsOf[t.feed] \in Seq(Document)
  BY IntakeAssumption
<1>4. \/ pc = "total" /\ i > Len(RowsOf[t.feed])
      \/ /\ pc \in {"reference", "sale"} /\ i \in DOMAIN RowsOf[t.feed]
         /\ pc = "reference" <=> SourceOf[t.feed] = "csv"
  BY <1>3
<1> HIDE DEF pc
<1>5. g.row = i /\ g.pc = pc /\ g \in Transaction
  BY <1>1, <1>2 DEF Transaction
<1>6. /\ g.op = t.op /\ g.feed = t.feed /\ g.saw = t.saw /\ g.wrote = t.wrote
      /\ g.memory = t.memory /\ g.added = t.added /\ g.affected = t.affected
      /\ g.customer = t.customer /\ g.total = t.total /\ g.result = t.result
  BY <1>1 DEF Transaction
<1>7. QED
  BY <1>4, <1>5, <1>6

LEMMA FreshIsTransaction ==
    ASSUME NEW op \in {"commit", "cancel", "recalculate"}, NEW f \in Feeds \cup {Nothing},
           NEW S \in SUBSET Customers
    PROVE  Fresh(op, f, S) \in Transaction
  BY DEF Fresh, Transaction

\* What a session has found stays there: no row is ever deleted.
LEMMA OthersPlaced ==
    ASSUME IntakeTypeOK, NEW s \in Sessions, Placed(s), txn'[s] = txn[s],
           \A k \in Keys : sale[k] # Nothing => sale'[k] # Nothing,
           \A u \in Customers : progress[u] # Nothing => progress'[u] # Nothing
    PROVE  Placed(s)'
<1>1. SUFFICES ASSUME txn[s] # Idle PROVE Placed(s)'
  BY DEF Placed
<1>2. txn[s] \in Transaction
  BY <1>1 DEF IntakeTypeOK
<1>3. \A k \in Keys : View(s, k) # Nothing => View(s, k)' # Nothing
  BY DEF View
<1>4. OnRows(s)' = OnRows(s) /\ Progressing(s)' = Progressing(s) /\ Doc(s)' = Doc(s)
  BY DEF OnRows, Progressing, Doc
<1>5. OnRows(s) => Doc(s).key \in Keys
  <2> SUFFICES ASSUME OnRows(s) PROVE Doc(s).key \in Keys
    OBVIOUS
  <2>1. txn[s].feed \in Feeds /\ txn[s].row \in DOMAIN RowsOf[txn[s].feed]
    BY <1>1 DEF Placed
  <2>2. QED
    BY <2>1, DocsAreDocuments DEF Doc, Document
<1>6. \A i \in DOMAIN RowsOf[txn[s].feed] : txn[s].op = "commit" => RowsOf[txn[s].feed][i].key \in Keys
  <2> SUFFICES ASSUME NEW i \in DOMAIN RowsOf[txn[s].feed], txn[s].op = "commit"
               PROVE  RowsOf[txn[s].feed][i].key \in Keys
    OBVIOUS
  <2>1. txn[s].feed \in Feeds
    BY <1>1 DEF Placed
  <2>2. QED
    BY <2>1, DocsAreDocuments DEF Document
<1>7. txn[s].pc = "upsert" => OnRows(s)
  BY DEF OnRows
<1>8. txn[s].pc = "store" => Progressing(s)
  BY DEF Progressing
<1>9. QED
  BY <1>1, <1>3, <1>4, <1>5, <1>6, <1>7, <1>8 DEF Placed
LEMMA LocksTyped ==
    ASSUME IntakeTypeOK, NEW s \in Sessions, NEW u \in Customers, NEW k \in Keys
    PROVE  /\ [refLock EXCEPT ![u] = s] \in [Customers -> Sessions \cup {NoSession}]
           /\ [saleLock EXCEPT ![k] = s] \in [Keys -> Sessions \cup {NoSession}]
           /\ [rowLock EXCEPT ![u] = s] \in [Customers -> Sessions \cup {NoSession}]
  BY DEF IntakeTypeOK

LocksTypeOK ==
    /\ refLock \in [Customers -> Sessions \cup {NoSession}]
    /\ saleLock \in [Keys -> Sessions \cup {NoSession}]
    /\ rowLock \in [Customers -> Sessions \cup {NoSession}]

\* A step inside a transaction, after which txn[s] is row.
LEMMA MovePlaced ==
    ASSUME PlacedInv, NEW s \in Sessions, NEW row \in Transaction,
           txn' = [txn EXCEPT ![s] = row], UNCHANGED rows, LocksTypeOK', Placed(s)'
    PROVE  PlacedInv'
<1>1. IntakeTypeOK
  BY DEF PlacedInv
<1>2. txn' \in [Sessions -> Transaction \cup {Idle}]
  BY <1>1 DEF IntakeTypeOK
<1>3. IntakeTypeOK'
  BY <1>1, <1>2 DEF IntakeTypeOK, LocksTypeOK, rows
<1>4. ASSUME NEW r \in Sessions
      PROVE  Placed(r)'
  <2>1. CASE r = s
    BY <2>1
  <2>2. CASE r # s
    <3>1. txn'[r] = txn[r]
      BY <1>1, <2>2 DEF IntakeTypeOK
    <3>2. Placed(r) /\ sale' = sale /\ progress' = progress
      BY DEF PlacedInv, rows
    <3>3. QED
      BY <1>1, <3>1, <3>2, OthersPlaced
  <2>3. QED
    BY <2>1, <2>2
<1>5. \A k \in Keys : sale'[k] # Nothing => sale'[k].customer \in CustomersOf(k)
  BY DEF PlacedInv, rows
<1>6. QED
  BY <1>3, <1>4, <1>5 DEF PlacedInv

\* What is known of a session in a transaction.
LEMMA InPlace ==
    ASSUME PlacedInv, NEW s \in Sessions, txn[s].pc # "idle"
    PROVE  /\ IntakeTypeOK
           /\ txn[s] # Idle /\ txn[s] \in Transaction
           /\ Placed(s)
           /\ OnRows(s) => /\ txn[s].feed \in Feeds /\ txn[s].row \in DOMAIN RowsOf[txn[s].feed]
                           /\ Doc(s) \in Document /\ Doc(s).key \in Keys
                           /\ Doc(s).customer \in CustomersOf(Doc(s).key)
                           /\ Doc(s).customer \in Customers
                           /\ txn[s].row \in Nat \ {0}
<1>1. txn[s] # Idle /\ IntakeTypeOK /\ Placed(s)
  BY DEF PlacedInv, Idle
<1>2. txn[s] \in Transaction
  BY <1>1 DEF IntakeTypeOK
<1>3. ASSUME OnRows(s)
      PROVE  /\ txn[s].feed \in Feeds /\ txn[s].row \in DOMAIN RowsOf[txn[s].feed]
             /\ Doc(s) \in Document /\ Doc(s).key \in Keys
             /\ Doc(s).customer \in CustomersOf(Doc(s).key)
             /\ Doc(s).customer \in Customers
             /\ txn[s].row \in Nat \ {0}
  <2>1. txn[s].feed \in Feeds /\ txn[s].row \in DOMAIN RowsOf[txn[s].feed]
    BY <1>1, <1>3 DEF Placed
  <2>2. Doc(s) \in Document /\ Doc(s).customer \in CustomersOf(Doc(s).key)
    BY <2>1, DocsAreDocuments DEF Doc
  <2>3. Doc(s).key \in Keys /\ Doc(s).customer \in Customers
    BY <2>2 DEF Document
  <2>4. txn[s].row \in 1 .. Len(RowsOf[txn[s].feed]) /\ Len(RowsOf[txn[s].feed]) \in Nat
    BY <2>1, DocsAreDocuments
  <2>5. QED
    BY <2>1, <2>2, <2>3, <2>4
<1>4. QED
  BY <1>1, <1>2, <1>3

LEMMA LoadedIsSale ==
    ASSUME PlacedInv, NEW s \in Sessions, txn[s].pc # "idle", NEW k \in Keys
    PROVE  /\ View(s, k) \in SaleRecords \cup {Nothing}
           /\ Loaded(s, k) \in SaleRecords \cup {Nothing}
           /\ Loaded(s, k) # Nothing => View(s, k) # Nothing /\ Loaded(s, k).customer = View(s, k).customer
           /\ View(s, k) # Nothing => Loaded(s, k) # Nothing /\ View(s, k).customer \in CustomersOf(k)
           /\ txn[s].memory[k] = View(s, k) => Loaded(s, k) = View(s, k)
<1>1. txn[s] \in Transaction /\ Placed(s) /\ txn[s] # Idle /\ IntakeTypeOK
  BY InPlace
<1>2. txn[s].memory[k] \in SaleRecords \cup {Nothing} /\ txn[s].wrote[k] \in SaleRecords \cup {Nothing}
  BY <1>1 DEF Transaction
<1>3. View(s, k) \in SaleRecords \cup {Nothing}
  BY <1>1, <1>2 DEF IntakeTypeOK, View
<1>4. View(s, k) # Nothing => View(s, k).customer \in CustomersOf(k)
  BY <1>1 DEF View, Placed, PlacedInv
<1>5. CASE txn[s].memory[k] = Nothing
  BY <1>3, <1>4, <1>5 DEF Loaded
<1>6. CASE txn[s].memory[k] # Nothing
  <2>1. View(s, k) # Nothing
    BY <1>1, <1>6 DEF Placed
  <2> DEFINE m == txn[s].memory[k]
             c == View(s, k).customer
  <2>2. Loaded(s, k) = [m EXCEPT !.customer = c]
    BY <1>6 DEF Loaded
  <2>3. m \in SaleRecords /\ c \in Customers
    BY <1>2, <1>3, <1>6, <2>1 DEF SaleRecords
  <2> HIDE DEF m, c
  <2>4. Loaded(s, k) \in SaleRecords /\ Loaded(s, k).customer = c
    BY <2>2, <2>3 DEF SaleRecords
  <2>5. m.customer = c => Loaded(s, k) = m
    BY <2>2, <2>3 DEF SaleRecords
  <2>6. Nothing \notin SaleRecords
    BY IntakeAssumption
  <2>7. QED
    BY <1>3, <1>4, <2>1, <2>4, <2>5, <2>6 DEF m, c
<1>7. QED
  BY <1>5, <1>6
----------------------------------------------------------------------------
(* The places are kept by every step.                                      *)

\* A transaction that begins; the first document or, for want of one, the
\* totals follow.
LEMMA BeginKeepsPlaces ==
    ASSUME PlacedInv, NEW s \in Sessions,
           \/ \E f \in Feeds : BeginFeed(s, f) \/ BeginCancel(s, f)
           \/ BeginRecalculation(s)
    PROVE  PlacedInv'
<1>1. IntakeTypeOK /\ LocksTypeOK' /\ UNCHANGED rows
  BY DEF PlacedInv, BeginFeed, BeginCancel, BeginRecalculation, IntakeTypeOK, LocksTypeOK, locks
<1>2. ASSUME NEW f \in Feeds, BeginFeed(s, f)
      PROVE  PlacedInv'
  <2> DEFINE t == Fresh("commit", f, {})
             row == GoTo(t, 1)
  <2>1. t \in Transaction /\ t.feed = f
    BY FreshIsTransaction DEF Fresh
  <2>2. /\ t.op = "commit" /\ t.added = {} /\ t.wrote = [k \in Keys |-> Nothing]
        /\ t.memory = [k \in Keys |-> Nothing]
    BY DEF Fresh
  <2>3. txn' = [txn EXCEPT ![s] = row]
    BY <1>2 DEF BeginFeed
  <2> HIDE DEF t, row
  <2>4. /\ row \in Transaction /\ row.row = 1 /\ row.feed = f /\ row.op = "commit" /\ row.added = {}
        /\ row.wrote = t.wrote /\ row.memory = t.memory
        /\ \/ row.pc = "total" /\ 1 > Len(RowsOf[f])
           \/ /\ row.pc \in {"reference", "sale"} /\ 1 \in DOMAIN RowsOf[f]
              /\ row.pc = "reference" <=> SourceOf[f] = "csv"
    BY <2>1, <2>2, GoesTo DEF row
  <2>5. txn'[s] = row
    BY <1>1, <2>3 DEF IntakeTypeOK
  <2>6. /\ row.pc = "total" => RowsOf[f] = << >> /\ DOMAIN RowsOf[f] = {}
        /\ \A i \in DOMAIN RowsOf[f] : ~ (i < 1)
    <3>1. RowsOf[f] \in Seq(Document)
      BY IntakeAssumption
    <3>2. QED
      BY <2>4, <3>1
  <2>7. row.pc \notin {"total", "sale"} => row.pc = "reference"
    BY <2>4
  <2>8. Placed(s)'
    BY <2>2, <2>4, <2>5, <2>6, <2>7 DEF Placed, OnRows, Progressing
  <2>9. QED
    BY <1>1, <2>3, <2>4, <2>8, MovePlaced
<1>3. ASSUME NEW op \in {"cancel", "recalculate"}, NEW f \in Feeds \cup {Nothing}, NEW S \in SUBSET Customers,
             op = "cancel" => f \in Feeds, txn' = [txn EXCEPT ![s] = Fresh(op, f, S)]
      PROVE  PlacedInv'
  <2> DEFINE row == Fresh(op, f, S)
  <2>1. row \in Transaction
    BY FreshIsTransaction
  <2>2. txn'[s] = row
    BY <1>1, <1>3 DEF IntakeTypeOK
  <2>3. /\ row.pc = "total" /\ row.op = op /\ row.feed = f /\ row.added = {}
        /\ row.wrote = [k \in Keys |-> Nothing] /\ row.memory = [k \in Keys |-> Nothing]
    BY DEF Fresh
  <2> HIDE DEF row
  <2>4. Placed(s)'
    BY <1>3, <2>2, <2>3 DEF Placed, OnRows, Progressing
  <2>5. txn' = [txn EXCEPT ![s] = row]
    BY <1>3 DEF row
  <2>6. QED
    BY <1>1, <2>1, <2>4, <2>5, MovePlaced
<1>4. ASSUME NEW f \in Feeds, BeginCancel(s, f)
      PROVE  PlacedInv'
  <2>1. txn' = [txn EXCEPT ![s] = Fresh("cancel", f, {})]
    BY <1>4 DEF BeginCancel
  <2>2. {} \in SUBSET Customers
    OBVIOUS
  <2>3. QED
    BY <1>3, <2>1, <2>2
<1>5. ASSUME BeginRecalculation(s)
      PROVE  PlacedInv'
  <2>1. PICK S \in SUBSET Handled : txn' = [txn EXCEPT ![s] = Fresh("recalculate", Nothing, S)]
    BY <1>5 DEF BeginRecalculation
  <2>2. S \in SUBSET Customers
    BY IntakeAssumption
  <2>3. QED
    BY <1>3, <2>1, <2>2
<1>6. QED
  BY <1>2, <1>4, <1>5

LEMMA ReferenceKeepsPlaces ==
    ASSUME PlacedInv, NEW s \in Sessions, ReadReference(s) \/ WriteReference(s)
    PROVE  PlacedInv'
<1>1. /\ IntakeTypeOK /\ txn[s] # Idle /\ txn[s] \in Transaction /\ Placed(s)
      /\ txn[s].feed \in Feeds /\ Doc(s).customer \in Customers /\ OnRows(s)
      /\ txn[s].pc \in {"reference", "refer"}
  <2>1. txn[s].pc # "idle" /\ OnRows(s) /\ txn[s].pc \in {"reference", "refer"}
    BY DEF ReadReference, WriteReference, At, OnRows
  <2>2. QED
    BY <2>1, InPlace
<1> DEFINE t == txn[s]
           u == Doc(s).customer
<1>2. ASSUME NEW row \in Transaction, txn' = [txn EXCEPT ![s] = row], row.pc \in {"refer", "sale"},
             row.op = t.op, row.feed = t.feed, row.row = t.row, row.wrote = t.wrote, row.memory = t.memory
      PROVE  Placed(s)'
  <2>1. txn'[s] = row /\ sale' = sale
    BY <1>1, <1>2 DEF IntakeTypeOK, ReadReference, WriteReference, rows
  <2>2. \A k \in Keys : View(s, k)' = View(s, k)
    BY <1>2, <2>1 DEF View
  <2>3. \A i \in DOMAIN RowsOf[t.feed] : RowsOf[t.feed][i].key \in Keys
    BY <1>1, DocsAreDocuments DEF Document
  <2>4. OnRows(s)' /\ ~Progressing(s)' /\ row.pc \notin {"upsert", "store", "reference"}
    BY <1>2, <2>1 DEF OnRows, Progressing
  <2>5. /\ t.feed \in Feeds /\ SourceOf[t.feed] = "csv" /\ t.op = "commit"
        /\ t.row \in DOMAIN RowsOf[t.feed]
    BY <1>1 DEF Placed
  <2>6. /\ \A k \in Keys : t.memory[k] # Nothing => View(s, k) # Nothing
        /\ \A i \in DOMAIN RowsOf[t.feed] : i < t.row => View(s, RowsOf[t.feed][i].key) # Nothing
        /\ \A k \in Keys : t.wrote[k] # Nothing => t.wrote[k].customer \in CustomersOf(k)
    BY <1>1, <2>5 DEF Placed
  <2> HIDE DEF t
  <2>7. QED
    BY <1>1, <1>2, <2>1, <2>2, <2>3, <2>4, <2>5, <2>6 DEF Placed
<1>3. CASE ReadReference(s)
  <2> DEFINE saw == IF u \in known \cup t.added THEN u ELSE Nothing
             row == [t EXCEPT !.pc = "refer", !.saw = saw]
  <2>1. txn' = [txn EXCEPT ![s] = row] /\ UNCHANGED <<rows, locks>>
    BY <1>1, <1>3 DEF ReadReference, IntakeTypeOK
  <2>2. saw \in Customers \cup {Nothing}
    BY <1>1
  <2> HIDE DEF saw
  <2>3. row \in Transaction /\ row.pc = "refer"
    BY <1>1, <2>2 DEF Transaction
  <2>4. row.op = t.op /\ row.feed = t.feed /\ row.row = t.row /\ row.wrote = t.wrote /\ row.memory = t.memory
    BY <1>1 DEF Transaction
  <2>5. LocksTypeOK'
    BY <1>1, <2>1 DEF IntakeTypeOK, LocksTypeOK, locks
  <2> HIDE DEF row, t
  <2>6. QED
    BY <1>2, <2>1, <2>3, <2>4, <2>5, MovePlaced
<1>4. CASE WriteReference(s)
  <2> DEFINE row == [t EXCEPT !.pc = "sale", !.added = @ \cup {u}]
  <2>1. txn' = [txn EXCEPT ![s] = row] /\ UNCHANGED rows
    BY <1>1, <1>4 DEF WriteReference, IntakeTypeOK
  <2>2. row \in Transaction /\ row.pc = "sale"
    BY <1>1 DEF Transaction
  <2>3. row.op = t.op /\ row.feed = t.feed /\ row.row = t.row /\ row.wrote = t.wrote /\ row.memory = t.memory
    BY <1>1 DEF Transaction
  <2>4. LocksTypeOK'
    BY <1>1, <1>4 DEF IntakeTypeOK, LocksTypeOK, WriteReference
  <2> HIDE DEF row, t
  <2>5. QED
    BY <1>2, <2>1, <2>2, <2>3, <2>4, MovePlaced
<1>5. QED
  BY <1>3, <1>4

LEMMA ReadSaleKeepsPlaces ==
    ASSUME PlacedInv, NEW s \in Sessions, ReadSale(s)
    PROVE  PlacedInv'
<1> DEFINE t == txn[s]
           k == Doc(s).key
           row == [t EXCEPT !.pc = "upsert", !.saw = Loaded(s, k)]
<1>1. txn[s].pc = "sale" /\ OnRows(s)
  BY DEF ReadSale, At, OnRows
<1>2. /\ IntakeTypeOK /\ t # Idle /\ t \in Transaction /\ Placed(s) /\ k \in Keys
      /\ t.feed \in Feeds
  BY <1>1, InPlace
<1>3. /\ Loaded(s, k) \in SaleRecords \cup {Nothing}
      /\ Loaded(s, k) # Nothing => View(s, k) # Nothing
  BY <1>1, <1>2, LoadedIsSale
<1>4. txn' = [txn EXCEPT ![s] = row] /\ UNCHANGED <<rows, locks>>
  BY <1>2 DEF ReadSale, IntakeTypeOK
<1> DEFINE x == Loaded(s, k)
<1> HIDE DEF x
<1>5. row = [t EXCEPT !.pc = "upsert", !.saw = x]
  BY DEF x
<1> HIDE DEF row
<1>6. row \in Transaction /\ row.pc = "upsert" /\ row.saw = x
  BY <1>2, <1>3, <1>5 DEF Transaction, x
<1>7. /\ row.op = t.op /\ row.feed = t.feed /\ row.row = t.row /\ row.wrote = t.wrote
      /\ row.memory = t.memory /\ row.added = t.added
  BY <1>2, <1>5 DEF Transaction
<1>8. LocksTypeOK'
  BY <1>2, <1>4 DEF IntakeTypeOK, LocksTypeOK, locks
<1>9. Placed(s)'
  <2>1. txn'[s] = row /\ sale' = sale
    BY <1>2, <1>4 DEF IntakeTypeOK, rows
  <2>2. \A j \in Keys : View(s, j)' = View(s, j)
    BY <1>7, <2>1 DEF View
  <2>3. \A i \in DOMAIN RowsOf[t.feed] : RowsOf[t.feed][i].key \in Keys
    BY <1>2, DocsAreDocuments DEF Document
  <2>4. OnRows(s)' /\ ~Progressing(s)' /\ Doc(s)' = Doc(s)
    BY <1>6, <1>7, <2>1 DEF OnRows, Progressing, Doc
  <2>5. t.op = "commit" /\ t.row \in DOMAIN RowsOf[t.feed]
    BY <1>1, <1>2 DEF Placed
  <2>6. /\ \A j \in Keys : t.memory[j] # Nothing => View(s, j) # Nothing
        /\ \A i \in DOMAIN RowsOf[t.feed] : i < t.row => View(s, RowsOf[t.feed][i].key) # Nothing
        /\ \A j \in Keys : t.wrote[j] # Nothing => t.wrote[j].customer \in CustomersOf(j)
        /\ t.added # {} => t.feed \in Feeds /\ SourceOf[t.feed] = "csv"
    BY <1>2, <2>5 DEF Placed
  <2>7. x # Nothing => View(s, Doc(s).key) # Nothing
    BY <1>3 DEF x
  <2>8. x \in SaleRecords \cup {Nothing}
    BY <1>3 DEF x
  <2> HIDE DEF t
  <2>9. QED
    BY <1>2, <1>6, <1>7, <2>1, <2>2, <2>3, <2>4, <2>5, <2>6, <2>7, <2>8 DEF Placed
<1>10. QED
  BY <1>4, <1>6, <1>8, <1>9, MovePlaced

\* What WriteSale writes for its document.
New(s) ==
    IF txn[s].saw = Nothing THEN Recorded(Doc(s))
    ELSE Overwrite(View(s, Doc(s).key), txn[s].saw, Recorded(Doc(s)))

\* The next document follows, or the totals if this was the last.
LEMMA WriteSaleKeepsPlaces ==
    ASSUME PlacedInv, NEW s \in Sessions, WriteSale(s)
    PROVE  PlacedInv'
<1> PICK t : t = txn[s]
  OBVIOUS
<1> PICK k : k = Doc(s).key
  OBVIOUS
<1> PICK new : new = New(s)
  OBVIOUS
<1>1. txn[s].pc = "upsert" /\ OnRows(s)
  BY DEF WriteSale, At, OnRows
<1>2. /\ IntakeTypeOK /\ t # Idle /\ t \in Transaction /\ Placed(s) /\ k \in Keys
      /\ t.feed \in Feeds /\ t.row \in DOMAIN RowsOf[t.feed] /\ t.row \in Nat \ {0}
      /\ Doc(s) \in Document /\ Doc(s).customer \in CustomersOf(k) /\ Doc(s).customer \in Customers
  BY <1>1, InPlace
<1>3. /\ View(s, k) \in SaleRecords \cup {Nothing}
      /\ View(s, k) # Nothing => View(s, k).customer \in CustomersOf(k)
  BY <1>1, <1>2, LoadedIsSale
<1>4. /\ t.saw \in SaleRecords \cup {Nothing}
      /\ t.saw # Nothing => View(s, k) # Nothing
      /\ t.op = "commit"
  BY <1>1, <1>2 DEF Placed
<1>5. Recorded(Doc(s)) \in SaleRecords /\ Recorded(Doc(s)).customer = Doc(s).customer
  BY <1>2, RecordedIsSale
<1>6. new \in SaleRecords /\ new # Nothing /\ new.customer \in CustomersOf(k)
  <2>1. Nothing \notin SaleRecords
    BY IntakeAssumption
  <2>2. CASE t.saw = Nothing
    BY <1>2, <1>5, <2>1, <2>2 DEF New
  <2>3. CASE t.saw # Nothing
    <3>1. View(s, k) \in SaleRecords /\ View(s, k).customer \in CustomersOf(k)
      BY <1>3, <1>4, <2>3
    <3>2. new = Overwrite(View(s, k), t.saw, Recorded(Doc(s)))
      BY <2>3 DEF New
    <3>3. new \in SaleRecords /\ new.customer \in {View(s, k).customer, Doc(s).customer}
      BY <1>5, <3>1, <3>2, OverwriteSale
    <3>4. QED
      BY <1>2, <2>1, <3>1, <3>3
  <2>4. QED
    BY <2>2, <2>3
<1>7. /\ UNCHANGED rows
      /\ LocksTypeOK'
  BY <1>2, LocksTyped DEF WriteSale, IntakeTypeOK, LocksTypeOK
<1>8. \/ /\ t.saw # Nothing
         /\ txn' = [txn EXCEPT ![s] = GoTo([t EXCEPT !.memory[k] = t.saw], t.row + 1)]
      \/ txn' = [txn EXCEPT ![s] =
           GoTo([t EXCEPT !.wrote[k] = new,
                          !.memory[k] = Recorded(Doc(s)),
                          !.affected = @ \cup {Doc(s).customer}], t.row + 1)]
  BY <1>2 DEF WriteSale, Skips, New, IntakeTypeOK
<1>9. ASSUME NEW m \in Transaction, NEW row, row = GoTo(m, t.row + 1), txn' = [txn EXCEPT ![s] = row],
             m.op = t.op, m.feed = t.feed, m.added = t.added,
             m.memory[k] # Nothing, m.wrote[k] # Nothing \/ View(s, k) # Nothing,
             \A j \in Keys : /\ j # k => m.memory[j] = t.memory[j] /\ m.wrote[j] = t.wrote[j]
                             /\ t.wrote[j] # Nothing => m.wrote[j] # Nothing
                             /\ m.wrote[j] # Nothing => m.wrote[j].customer \in CustomersOf(j)
      PROVE  PlacedInv'
  <2>1. t.row + 1 \in Nat \ {0} /\ m.feed \in Feeds
    BY <1>2, <1>9
  <2>2. /\ row \in Transaction /\ row.row = t.row + 1 /\ row.feed = t.feed /\ row.op = "commit"
        /\ row.added = t.added /\ row.wrote = m.wrote /\ row.memory = m.memory
        /\ \/ row.pc = "total" /\ t.row + 1 > Len(RowsOf[t.feed])
           \/ /\ row.pc \in {"reference", "sale"} /\ t.row + 1 \in DOMAIN RowsOf[t.feed]
              /\ row.pc = "reference" <=> SourceOf[t.feed] = "csv"
    BY <1>4, <1>9, <2>1, GoesTo
  <2>3. txn'[s] = row /\ sale' = sale
    BY <1>2, <1>7, <1>9 DEF IntakeTypeOK, rows
  <2>4. \A j \in Keys : View(s, j) # Nothing => View(s, j)' # Nothing
    BY <1>9, <2>2, <2>3 DEF View
  <2>5. View(s, k)' # Nothing
    BY <1>2, <1>9, <2>2, <2>3 DEF View
  <2>6. ASSUME NEW j \in Keys, m.memory[j] # Nothing
        PROVE  View(s, j)' # Nothing
    <3>1. CASE j = k
      BY <2>5, <3>1
    <3>2. CASE j # k
      <4>1. t.memory[j] # Nothing
        BY <1>9, <2>6, <3>2
      <4>2. View(s, j) # Nothing
        BY <1>2, <4>1 DEF Placed
      <4>3. QED
        BY <2>4, <4>2
    <3>3. QED
      BY <3>1, <3>2
  <2>7. ASSUME NEW i \in DOMAIN RowsOf[t.feed], row.pc # "total" => i < t.row + 1
        PROVE  View(s, RowsOf[t.feed][i].key)' # Nothing
    <3>1. RowsOf[t.feed][i].key \in Keys
      BY <1>2, DocsAreDocuments DEF Document
    <3>2. i \in 1 .. Len(RowsOf[t.feed]) /\ Len(RowsOf[t.feed]) \in Nat
      BY <1>2, DocsAreDocuments
    <3>3. i < t.row \/ i = t.row
      BY <1>2, <2>2, <2>7, <3>2
    <3>4. i = t.row => RowsOf[t.feed][i].key = k
      BY DEF Doc
    <3>5. i < t.row => View(s, RowsOf[t.feed][i].key) # Nothing
      BY <1>2, <1>4 DEF Placed
    <3>6. QED
      BY <2>4, <2>5, <3>1, <3>3, <3>4, <3>5
  <2>8. /\ t.added # {} => t.feed \in Feeds /\ SourceOf[t.feed] = "csv"
        /\ row.pc \notin {"upsert", "store", "progress", "refer"}
    BY <1>2, <2>2 DEF Placed
  <2>9. /\ OnRows(s)' => row.pc # "total" /\ row.row \in DOMAIN RowsOf[t.feed]
        /\ row.pc # "total" => OnRows(s)'
        /\ ~Progressing(s)'
    BY <2>2, <2>3, <2>8 DEF OnRows, Progressing
  <2>10. Placed(s)'
    <3>1. OnRows(s)' => row.op = "commit" /\ row.row \in DOMAIN RowsOf[row.feed]
      BY <2>2, <2>9
    <3>2. /\ row.feed \in Feeds
          /\ row.pc \in {"reference", "refer"} => SourceOf[row.feed] = "csv"
          /\ row.added # {} => row.feed \in Feeds /\ SourceOf[row.feed] = "csv"
          /\ row.pc # "upsert" /\ row.pc # "store" /\ ~Progressing(s)'
      BY <1>2, <2>2, <2>8, <2>9
    <3>3. \A j \in Keys : row.memory[j] # Nothing => View(s, j)' # Nothing
      BY <2>2, <2>6
    <3>4. \A i \in DOMAIN RowsOf[row.feed] :
            (row.pc # "total" => i < row.row) => View(s, RowsOf[row.feed][i].key)' # Nothing
      BY <2>2, <2>7
    <3>5. \A i \in DOMAIN RowsOf[row.feed] :
            (OnRows(s)' => i < row.row) => View(s, RowsOf[row.feed][i].key)' # Nothing
      BY <2>9, <3>4
    <3>6. \A j \in Keys : row.wrote[j] # Nothing => row.wrote[j].customer \in CustomersOf(j)
      BY <1>9, <2>2
    <3>7. QED
      BY <2>3, <3>1, <3>2, <3>3, <3>5, <3>6 DEF Placed
  <2>11. QED
    BY <1>7, <1>9, <2>2, <2>10, MovePlaced
<1>10. \A j \in Keys : t.wrote[j] # Nothing => t.wrote[j].customer \in CustomersOf(j)
  BY <1>2 DEF Placed
<1>11. ASSUME t.saw # Nothing,
              txn' = [txn EXCEPT ![s] = GoTo([t EXCEPT !.memory[k] = t.saw], t.row + 1)]
       PROVE  PlacedInv'
  <2> DEFINE m == [t EXCEPT !.memory[k] = t.saw]
  <2>1. m \in Transaction /\ m.memory[k] = t.saw /\ \A j \in Keys : j # k => m.memory[j] = t.memory[j]
    BY <1>2, <1>4 DEF Transaction
  <2>2. m.op = t.op /\ m.feed = t.feed /\ m.added = t.added /\ m.wrote = t.wrote
    BY <1>2 DEF Transaction
  <2> HIDE DEF m
  <2>3. txn' = [txn EXCEPT ![s] = GoTo(m, t.row + 1)]
    BY <1>11 DEF m
  <2>4. \A j \in Keys : /\ j # k => m.memory[j] = t.memory[j] /\ m.wrote[j] = t.wrote[j]
                        /\ t.wrote[j] # Nothing => m.wrote[j] # Nothing
                        /\ m.wrote[j] # Nothing => m.wrote[j].customer \in CustomersOf(j)
    BY <1>10, <2>1, <2>2
  <2>5. m.memory[k] # Nothing /\ View(s, k) # Nothing
    BY <1>4, <1>11, <2>1
  <2>6. QED
    BY <1>9, <2>1, <2>2, <2>3, <2>4, <2>5
<1>12. ASSUME txn' = [txn EXCEPT ![s] =
                GoTo([t EXCEPT !.wrote[k] = new,
                               !.memory[k] = Recorded(Doc(s)),
                               !.affected = @ \cup {Doc(s).customer}], t.row + 1)]
       PROVE  PlacedInv'
  <2> DEFINE rec == Recorded(Doc(s))
             u == Doc(s).customer
             m == [t EXCEPT !.wrote[k] = new, !.memory[k] = rec, !.affected = @ \cup {u}]
  <2>1. txn' = [txn EXCEPT ![s] = GoTo(m, t.row + 1)]
    BY <1>12
  <2>2. rec \in SaleRecords /\ u \in Customers /\ rec # Nothing
    BY <1>2, <1>5, IntakeAssumption
  <2> HIDE DEF rec, u
  <2>3. /\ m \in Transaction /\ m.memory[k] = rec /\ m.wrote[k] = new
        /\ \A j \in Keys : j # k => m.memory[j] = t.memory[j] /\ m.wrote[j] = t.wrote[j]
    BY <1>2, <1>6, <2>2 DEF Transaction
  <2>4. m.op = t.op /\ m.feed = t.feed /\ m.added = t.added
    BY <1>2 DEF Transaction
  <2> HIDE DEF m
  <2>5. \A j \in Keys : m.wrote[j] # Nothing => m.wrote[j].customer \in CustomersOf(j)
    BY <1>6, <1>10, <2>3
  <2>6. QED
    BY <1>6, <1>9, <2>1, <2>2, <2>3, <2>4, <2>5
<1>13. QED
  BY <1>8, <1>11, <1>12

\* After the documents only the progress is at stake.
LEMMA TotalsKeepPlaces ==
    ASSUME PlacedInv, NEW s \in Sessions, NEW t, t = txn[s],
           t.pc \in {"total", "progress", "store"},
           NEW row \in Transaction, txn' = [txn EXCEPT ![s] = row],
           row.pc \in {"total", "progress", "store"},
           row.op = t.op, row.feed = t.feed, row.wrote = t.wrote, row.memory = t.memory, row.added = t.added,
           row.pc \in {"progress", "store"} => row.customer \in Customers,
           row.pc = "store" => row.saw = progress[row.customer],
           UNCHANGED rows, LocksTypeOK'
    PROVE  PlacedInv'
<1>1. /\ IntakeTypeOK /\ t # Idle /\ t \in Transaction /\ Placed(s)
  <2>1. t.pc # "idle"
    OBVIOUS
  <2>2. QED
    BY <2>1, InPlace
<1>2. txn'[s] = row /\ sale' = sale /\ progress' = progress
  BY <1>1 DEF IntakeTypeOK, rows
<1>3. \A k \in Keys : View(s, k)' = View(s, k)
  BY <1>2 DEF View
<1>4. ~OnRows(s) /\ ~OnRows(s)' /\ (Progressing(s)' <=> row.pc \in {"progress", "store"})
  BY <1>2 DEF OnRows, Progressing
<1>5. t.op = "commit" =>
        \A i \in DOMAIN RowsOf[t.feed] : RowsOf[t.feed][i].key \in Keys /\ View(s, RowsOf[t.feed][i].key) # Nothing
  <2> SUFFICES ASSUME t.op = "commit", NEW i \in DOMAIN RowsOf[t.feed]
               PROVE  RowsOf[t.feed][i].key \in Keys /\ View(s, RowsOf[t.feed][i].key) # Nothing
    OBVIOUS
  <2>1. t.feed \in Feeds
    BY <1>1 DEF Placed
  <2>2. RowsOf[t.feed][i].key \in Keys
    BY <2>1, DocsAreDocuments DEF Document
  <2>3. QED
    BY <1>1, <1>4, <2>2 DEF Placed
<1>6. /\ t.op # "recalculate" => t.feed \in Feeds
      /\ t.added # {} => t.feed \in Feeds /\ SourceOf[t.feed] = "csv"
      /\ \A k \in Keys : t.memory[k] # Nothing => View(s, k) # Nothing
      /\ \A k \in Keys : t.wrote[k] # Nothing => t.wrote[k].customer \in CustomersOf(k)
  BY <1>1 DEF Placed
<1>7. row.pc = "store" => row.saw \in ProgressRows \cup {Nothing}
  BY <1>1 DEF IntakeTypeOK
<1>8. Placed(s)'
  <2>1. row.pc \notin {"reference", "refer", "upsert"}
    OBVIOUS
  <2>2. \A k \in Keys : /\ row.memory[k] # Nothing => View(s, k)' # Nothing
                        /\ row.wrote[k] # Nothing => row.wrote[k].customer \in CustomersOf(k)
    BY <1>3, <1>6
  <2>3. row.op = "commit" => \A i \in DOMAIN RowsOf[row.feed] : View(s, RowsOf[row.feed][i].key)' # Nothing
    <3> SUFFICES ASSUME t.op = "commit", NEW i \in DOMAIN RowsOf[t.feed], NEW k, k = RowsOf[t.feed][i].key
                 PROVE  View(s, k)' # Nothing
      OBVIOUS
    <3>1. k \in Keys /\ View(s, k) # Nothing
      BY <1>5
    <3>2. QED
      BY <1>3, <3>1
  <2>4. QED
    BY <1>2, <1>4, <1>6, <1>7, <2>1, <2>2, <2>3 DEF Placed
<1>9. QED
  BY <1>8, MovePlaced

LEMMA AddUpKeepsPlaces ==
    ASSUME PlacedInv, NEW s \in Sessions, AddUp(s)
    PROVE  PlacedInv'
<1> PICK t : t = txn[s]
  OBVIOUS
<1> DEFINE sales == [k \in Keys |-> Loaded(s, k)]
<1>1. t.pc = "total" /\ t.pc # "idle"
  BY DEF AddUp, At
<1>2. t \in Transaction /\ IntakeTypeOK
  BY <1>1, InPlace
<1>3. sales \in [Keys -> SaleRecords \cup {Nothing}]
  BY <1>1, LoadedIsSale
<1>4. PICK u \in Customers :
        txn' = [txn EXCEPT ![s].pc = "progress", ![s].customer = u,
                           ![s].affected = @ \ {u}, ![s].total = TotalOf(sales, u)]
  BY <1>2 DEF AddUp, Transaction
<1> DEFINE total == TotalOf(sales, u)
           row == [t EXCEPT !.pc = "progress", !.customer = u, !.affected = @ \ {u}, !.total = total]
<1>5. total \in Nat
  <2> HIDE DEF sales
  <2>1. QED
    BY <1>3, TotalIsNat
<1>6. txn' = [txn EXCEPT ![s] = row]
  <2> HIDE DEF total, sales
  <2>1. txn' = [txn EXCEPT ![s].pc = "progress", ![s].customer = u,
                           ![s].affected = @ \ {u}, ![s].total = total]
    BY <1>4 DEF total
  <2>2. QED
    BY <1>2, <2>1 DEF IntakeTypeOK
<1>7. UNCHANGED rows /\ LocksTypeOK'
  BY <1>2 DEF AddUp, IntakeTypeOK, LocksTypeOK, locks
<1> HIDE DEF total
<1>8. row \in Transaction /\ row.pc = "progress" /\ row.customer = u
  BY <1>2, <1>5 DEF Transaction
<1>9. row.op = t.op /\ row.feed = t.feed /\ row.wrote = t.wrote /\ row.memory = t.memory /\ row.added = t.added
  BY <1>2 DEF Transaction
<1> HIDE DEF row
<1>10. QED
  BY <1>1, <1>6, <1>7, <1>8, <1>9, TotalsKeepPlaces

LEMMA ReadProgressKeepsPlaces ==
    ASSUME PlacedInv, NEW s \in Sessions, ReadProgress(s)
    PROVE  PlacedInv'
<1> PICK t : t = txn[s]
  OBVIOUS
<1>1. t.pc = "progress" /\ t.pc # "idle"
  BY DEF ReadProgress, At
<1>2. t \in Transaction /\ IntakeTypeOK /\ t.customer \in Customers
  <2>1. t \in Transaction /\ IntakeTypeOK /\ Placed(s) /\ t # Idle
    BY <1>1, InPlace
  <2>2. QED
    BY <1>1, <2>1 DEF Placed, Progressing
<1> PICK saw : saw = progress[t.customer]
  OBVIOUS
<1> DEFINE row == [t EXCEPT !.pc = "store", !.saw = saw]
<1>3. saw \in ProgressRows \cup {Nothing}
  BY <1>2 DEF IntakeTypeOK
<1>4. txn' = [txn EXCEPT ![s] = row] /\ UNCHANGED <<rows, locks>>
  BY <1>2 DEF ReadProgress, IntakeTypeOK
<1>5. LocksTypeOK'
  BY <1>2, <1>4 DEF IntakeTypeOK, LocksTypeOK, locks
<1>6. row \in Transaction /\ row.pc = "store" /\ row.saw = progress[row.customer] /\ row.customer \in Customers
  BY <1>2, <1>3 DEF Transaction
<1>7. row.op = t.op /\ row.feed = t.feed /\ row.wrote = t.wrote /\ row.memory = t.memory /\ row.added = t.added
  BY <1>2 DEF Transaction
<1> HIDE DEF row
<1>8. QED
  BY <1>1, <1>4, <1>5, <1>6, <1>7, TotalsKeepPlaces

\* What StoreProgress writes for its customer.
NewRow(s) ==
    IF txn[s].saw = Nothing THEN ProgressRow(txn[s].total)
    ELSE Overwrite(progress[txn[s].customer], txn[s].saw, ProgressRow(txn[s].total))

LEMMA NewRowIsRow ==
    ASSUME PlacedInv, NEW s \in Sessions, txn[s].pc = "store"
    PROVE  /\ NewRow(s) \in ProgressRows
           /\ NewRow(s) # Nothing
           /\ txn[s].saw = progress[txn[s].customer] => NewRow(s) = ProgressRow(txn[s].total)
<1> PICK t : t = txn[s]
  OBVIOUS
<1>1. t.pc # "idle"
  OBVIOUS
<1>2. t \in Transaction /\ IntakeTypeOK /\ t.customer \in Customers /\ t.saw \in ProgressRows \cup {Nothing}
  <2>1. t \in Transaction /\ IntakeTypeOK /\ Placed(s) /\ t # Idle
    BY <1>1, InPlace
  <2>2. QED
    BY <2>1 DEF Placed, Progressing
<1>3. t.saw # Nothing => progress[t.customer] \in ProgressRows
  <2>1. Placed(s) /\ t # Idle
    BY <1>1, InPlace
  <2>2. t.saw # Nothing => progress[t.customer] # Nothing
    BY <2>1 DEF Placed
  <2>3. QED
    BY <1>2, <2>2 DEF IntakeTypeOK
<1>4. t.total \in Nat
  BY <1>2 DEF Transaction
<1>5. ProgressRow(t.total) \in ProgressRows
  BY <1>4, RowIsProgress
<1>6. Nothing \notin ProgressRows
  BY IntakeAssumption
<1>7. CASE t.saw = Nothing
  BY <1>5, <1>6, <1>7 DEF NewRow
<1>8. CASE t.saw # Nothing
  <2>1. NewRow(s) = Overwrite(progress[t.customer], t.saw, ProgressRow(t.total))
    BY <1>8 DEF NewRow
  <2>2. QED
    BY <1>3, <1>5, <1>6, <1>8, <2>1, OverwriteRow
<1>9. QED
  BY <1>7, <1>8

LEMMA StoreProgressKeepsPlaces ==
    ASSUME PlacedInv, NEW s \in Sessions, StoreProgress(s)
    PROVE  PlacedInv'
<1> PICK t : t = txn[s]
  OBVIOUS
<1> PICK new : new = NewRow(s)
  OBVIOUS
<1> PICK u : u = t.customer
  OBVIOUS
<1>1. t.pc = "store" /\ t.pc # "idle"
  BY DEF StoreProgress, At
<1>2. t \in Transaction /\ IntakeTypeOK /\ u \in Customers
  <2>1. t \in Transaction /\ IntakeTypeOK /\ Placed(s) /\ t # Idle
    BY <1>1, InPlace
  <2>2. QED
    BY <1>1, <2>1 DEF Placed, Progressing
<1> DEFINE row == [t EXCEPT !.pc = "total", !.result[u] = new]
<1>3. new \in ProgressRows
  BY <1>1, NewRowIsRow
<1>4. txn' = [txn EXCEPT ![s].pc = "total", ![s].result[u] = new]
  BY DEF StoreProgress, NewRow
<1>5. txn' = [txn EXCEPT ![s] = row]
  BY <1>2, <1>4 DEF IntakeTypeOK
<1>6. UNCHANGED rows /\ LocksTypeOK'
  BY <1>2, LocksTyped DEF StoreProgress, IntakeTypeOK, LocksTypeOK
<1>7. row \in Transaction /\ row.pc = "total"
  BY <1>2, <1>3 DEF Transaction
<1>8. row.op = t.op /\ row.feed = t.feed /\ row.wrote = t.wrote /\ row.memory = t.memory /\ row.added = t.added
  BY <1>2 DEF Transaction
<1> HIDE DEF row
<1>9. QED
  BY <1>1, <1>5, <1>6, <1>7, <1>8, TotalsKeepPlaces

\* The end of a transaction, and what it commits.
LEMMA EndKeepsPlaces ==
    ASSUME PlacedInv, NEW s \in Sessions, Release(s),
           sale' \in [Keys -> SaleRecords \cup {Nothing}],
           progress' \in [Customers -> ProgressRows \cup {Nothing}],
           known' \subseteq Customers, archived' \subseteq Customers,
           batch' \in [Feeds -> {"previewed", "committed", "cancelled"}],
           \A k \in Keys : sale[k] # Nothing => sale'[k] # Nothing,
           \A u \in Customers : progress[u] # Nothing => progress'[u] # Nothing,
           \A k \in Keys : sale'[k] # Nothing => sale'[k].customer \in CustomersOf(k)
    PROVE  PlacedInv'
<1>1. IntakeTypeOK
  BY DEF PlacedInv
<1>2. IntakeTypeOK'
  BY <1>1 DEF IntakeTypeOK, Release
<1>3. ASSUME NEW r \in Sessions
      PROVE  Placed(r)'
  <2>1. CASE r = s
    <3>1. txn'[r] = Idle
      BY <1>1, <2>1 DEF IntakeTypeOK, Release
    <3>2. QED
      BY <3>1 DEF Placed
  <2>2. CASE r # s
    <3>1. txn'[r] = txn[r] /\ Placed(r)
      BY <1>1, <2>2 DEF IntakeTypeOK, Release, PlacedInv
    <3>2. QED
      BY <1>1, <3>1, OthersPlaced
  <2>3. QED
    BY <2>1, <2>2
<1>4. QED
  BY <1>2, <1>3 DEF PlacedInv

LEMMA RollBackKeepsPlaces ==
    ASSUME PlacedInv, NEW s \in Sessions, RollBack(s)
    PROVE  PlacedInv'
<1>1. Release(s) /\ UNCHANGED rows
  BY DEF RollBack
<1>2. IntakeTypeOK /\ \A k \in Keys : sale[k] # Nothing => sale[k].customer \in CustomersOf(k)
  BY DEF PlacedInv
<1>3. QED
  BY <1>1, <1>2, EndKeepsPlaces DEF IntakeTypeOK, rows

LEMMA CommitKeepsPlaces ==
    ASSUME PlacedInv, NEW s \in Sessions, Commit(s)
    PROVE  PlacedInv'
<1>1. txn[s].pc # "idle"
  BY DEF Commit, At
<1>2. txn[s] \in Transaction /\ IntakeTypeOK /\ Placed(s) /\ txn[s] # Idle
  BY <1>1, InPlace
<1>3. \A k \in Keys : /\ View(s, k) \in SaleRecords \cup {Nothing}
                      /\ View(s, k) # Nothing => View(s, k).customer \in CustomersOf(k)
                      /\ sale[k] # Nothing => View(s, k) # Nothing
  <2> TAKE k \in Keys
  <2>1. View(s, k) \in SaleRecords \cup {Nothing}
    BY <1>1, LoadedIsSale
  <2>2. View(s, k) # Nothing => View(s, k).customer \in CustomersOf(k)
    BY <1>1, LoadedIsSale
  <2>3. QED
    BY <2>1, <2>2 DEF View
<1>4. Release(s) /\ sale' = [k \in Keys |-> View(s, k)]
  BY DEF Commit
<1>5. sale' \in [Keys -> SaleRecords \cup {Nothing}]
  BY <1>3, <1>4
<1>6. \A u \in Customers : /\ txn[s].result[u] \in ProgressRows \cup {Nothing}
                           /\ progress[u] \in ProgressRows \cup {Nothing}
  BY <1>2 DEF Transaction, IntakeTypeOK
<1>7. /\ progress' \in [Customers -> ProgressRows \cup {Nothing}]
      /\ \A u \in Customers : progress[u] # Nothing => progress'[u] # Nothing
  BY <1>6 DEF Commit
<1>8. known' \subseteq Customers /\ archived' \subseteq Customers
  BY <1>2 DEF Commit, Transaction, IntakeTypeOK
<1>9. batch' \in [Feeds -> {"previewed", "committed", "cancelled"}]
  <2>1. txn[s].op \in {"commit", "cancel", "recalculate"}
    BY <1>2 DEF Transaction
  <2>2. CASE txn[s].op = "commit"
    BY <1>2, <2>2 DEF Commit, IntakeTypeOK
  <2>3. CASE txn[s].op = "cancel"
    BY <1>2, <2>3 DEF Commit, IntakeTypeOK
  <2>4. CASE txn[s].op = "recalculate"
    BY <1>2, <2>4 DEF Commit, IntakeTypeOK
  <2>5. QED
    BY <2>1, <2>2, <2>3, <2>4
<1>10. \A k \in Keys : /\ sale[k] # Nothing => sale'[k] # Nothing
                       /\ sale'[k] # Nothing => sale'[k].customer \in CustomersOf(k)
  BY <1>3, <1>4
<1>11. QED
  BY <1>4, <1>5, <1>7, <1>8, <1>9, <1>10, EndKeepsPlaces

LEMMA StaffKeepsPlaces ==
    ASSUME PlacedInv,
           \/ \E k \in HandKeys, u \in Handled, a \in Amounts : EnterSale(k, u, a)
           \/ \E u \in Handled : ArchiveCustomer(u)
    PROVE  PlacedInv'
<1>1. IntakeTypeOK /\ UNCHANGED <<progress, known, batch, txn, refLock, saleLock, rowLock>>
  BY DEF PlacedInv, EnterSale, ArchiveCustomer, locks
<1>2. /\ HandKeys \subseteq Keys /\ Handled \subseteq Customers /\ Amounts \subseteq Int
      /\ Nothing \notin SaleRecords
  BY IntakeAssumption
<1>3. /\ sale' \in [Keys -> SaleRecords \cup {Nothing}] /\ archived' \subseteq Customers
      /\ \A k \in Keys : sale[k] # Nothing => sale'[k] # Nothing
      /\ \A k \in Keys : sale'[k] # Nothing => sale'[k].customer \in CustomersOf(k)
  <2>1. ASSUME NEW k \in HandKeys, NEW u \in Handled, NEW a \in Amounts, EnterSale(k, u, a)
        PROVE  /\ sale' \in [Keys -> SaleRecords \cup {Nothing}] /\ archived' \subseteq Customers
               /\ \A j \in Keys : sale[j] # Nothing => sale'[j] # Nothing
               /\ \A j \in Keys : sale'[j] # Nothing => sale'[j].customer \in CustomersOf(j)
    <3> DEFINE x == [customer |-> u, amount |-> a, cancelled |-> FALSE, hash |-> Nothing]
    <3>0. k \in Keys /\ u \in Customers /\ a \in Int
      BY <1>2
    <3>1. x \in SaleRecords /\ x # Nothing /\ x.customer = u /\ u \in CustomersOf(k)
      <4>1. x \in SaleRecords
        BY <3>0 DEF SaleRecords
      <4>2. u \in CustomersOf(k)
        BY <3>0 DEF CustomersOf
      <4>3. QED
        BY <1>2, <4>1, <4>2
    <3>2. sale' = [sale EXCEPT ![k] = x] /\ sale[k] = Nothing /\ archived' = archived
      BY <2>1 DEF EnterSale
    <3> HIDE DEF x
    <3>3. QED
      BY <1>1, <3>0, <3>1, <3>2 DEF PlacedInv, IntakeTypeOK
  <2>2. ASSUME NEW u \in Handled, ArchiveCustomer(u)
        PROVE  /\ sale' \in [Keys -> SaleRecords \cup {Nothing}] /\ archived' \subseteq Customers
               /\ \A j \in Keys : sale[j] # Nothing => sale'[j] # Nothing
               /\ \A j \in Keys : sale'[j] # Nothing => sale'[j].customer \in CustomersOf(j)
    BY <1>1, <1>2, <2>2 DEF ArchiveCustomer, PlacedInv, IntakeTypeOK
  <2>3. QED
    BY <2>1, <2>2
<1>4. IntakeTypeOK'
  BY <1>1, <1>3 DEF IntakeTypeOK
<1>5. ASSUME NEW r \in Sessions
      PROVE  Placed(r)'
  <2>1. txn'[r] = txn[r] /\ Placed(r)
    BY <1>1 DEF PlacedInv
  <2>2. QED
    BY <1>1, <1>3, <2>1, OthersPlaced
<1>6. QED
  BY <1>3, <1>4, <1>5 DEF PlacedInv

LEMMA InitPlaced ==
    ASSUME Init PROVE PlacedInv
<1>1. \A u \in Customers : TotalOf(Opening, u) \in Nat
  BY IntakeAssumption, TotalIsNat
<1>2. \A u \in Customers : ProgressRow(TotalOf(Opening, u)) \in ProgressRows
  BY <1>1, RowIsProgress
<1>3. progress \in [Customers -> ProgressRows \cup {Nothing}]
  BY <1>2 DEF Init
<1>4. sale \in [Keys -> SaleRecords \cup {Nothing}]
  BY IntakeAssumption DEF Init
<1>5. IntakeTypeOK
  BY <1>3, <1>4 DEF Init, IntakeTypeOK
<1>6. \A s \in Sessions : Placed(s)
  BY DEF Init, Placed
<1>7. ASSUME NEW k \in Keys, sale[k] # Nothing
      PROVE  sale[k].customer \in CustomersOf(k)
  <2>1. sale[k] = Opening[k] /\ sale[k].customer \in Customers
    BY <1>4, <1>7 DEF Init, SaleRecords
  <2>2. QED
    BY <1>7, <2>1 DEF CustomersOf
<1>8. QED
  BY <1>5, <1>6, <1>7 DEF PlacedInv

LEMMA NextKeepsPlaces ==
    ASSUME PlacedInv, [Next]_vars
    PROVE  PlacedInv'
<1>1. CASE UNCHANGED vars
  <2>1. UNCHANGED <<rows, txn, locks>> /\ IntakeTypeOK
    BY <1>1 DEF vars, PlacedInv
  <2>2. IntakeTypeOK'
    BY <2>1 DEF IntakeTypeOK, rows, locks
  <2>3. ASSUME NEW r \in Sessions
        PROVE  Placed(r)'
    <3>1. txn'[r] = txn[r] /\ Placed(r) /\ sale' = sale /\ progress' = progress
      BY <2>1 DEF PlacedInv, rows
    <3>2. QED
      BY <2>1, <3>1, OthersPlaced
  <2>4. QED
    BY <2>1, <2>2, <2>3 DEF PlacedInv, rows
<1>2. CASE Next
  <2>1. ASSUME NEW s \in Sessions, NEW f \in Feeds, BeginFeed(s, f) \/ BeginCancel(s, f)
        PROVE  PlacedInv'
    BY <2>1, BeginKeepsPlaces
  <2>2. ASSUME NEW s \in Sessions, BeginRecalculation(s)
        PROVE  PlacedInv'
    BY <2>2, BeginKeepsPlaces
  <2>3. ASSUME NEW s \in Sessions, Step(s)
        PROVE  PlacedInv'
    <3>1. CASE ReadReference(s) \/ WriteReference(s)
      BY <3>1, ReferenceKeepsPlaces
    <3>2. CASE ReadSale(s)
      BY <3>2, ReadSaleKeepsPlaces
    <3>3. CASE WriteSale(s)
      BY <3>3, WriteSaleKeepsPlaces
    <3>4. CASE AddUp(s)
      BY <3>4, AddUpKeepsPlaces
    <3>5. CASE ReadProgress(s)
      BY <3>5, ReadProgressKeepsPlaces
    <3>6. CASE StoreProgress(s)
      BY <3>6, StoreProgressKeepsPlaces
    <3>7. CASE Commit(s)
      BY <3>7, CommitKeepsPlaces
    <3>8. CASE Collide(s) \/ Refuse(s)
      BY <3>8, RollBackKeepsPlaces DEF Collide, Refuse
    <3>9. QED
      BY <2>3, <3>1, <3>2, <3>3, <3>4, <3>5, <3>6, <3>7, <3>8 DEF Step
  <2>4. ASSUME NEW s \in Sessions, Disconnect(s) \/ DetectDeadlock(s)
        PROVE  PlacedInv'
    BY <2>4, RollBackKeepsPlaces DEF Disconnect, DetectDeadlock
  <2>5. CASE \/ \E k \in HandKeys, u \in Handled, a \in Amounts : EnterSale(k, u, a)
             \/ \E u \in Handled : ArchiveCustomer(u)
    BY <2>5, StaffKeepsPlaces
  <2>6. QED
    BY <1>2, <2>1, <2>2, <2>3, <2>4, <2>5 DEF Next
<1>3. QED
  BY <1>1, <1>2

LEMMA AlwaysPlaced == Spec => []PlacedInv
<1>1. Init => PlacedInv
  BY InitPlaced
<1>2. PlacedInv /\ [Next]_vars => PlacedInv'
  BY NextKeepsPlaces
<1>3. QED
  BY <1>1, <1>2, PTL DEF Spec

\* The variables keep their types: rows, transactions and locks are what
\* ImportService, SyncService and ProgressService write, for any feeds.
THEOREM IntakeTypeCorrect == Spec => []IntakeTypeOK
<1>1. PlacedInv => IntakeTypeOK
  BY DEF PlacedInv
<1>2. QED
  BY <1>1, AlwaysPlaced, PTL

----------------------------------------------------------------------------
(* Feeds.                                                                  *)

\* Sales and feeds change when a transaction commits; staff only add sales.
LEMMA OnlyCommitsChangeSales ==
    ASSUME PlacedInv, [Next]_vars
    PROVE  \/ \E s \in Sessions : Commit(s)
           \/ \E k \in HandKeys, u \in Handled, a \in Amounts : EnterSale(k, u, a)
           \/ UNCHANGED <<sale, batch, progress>>
<1>1. ASSUME NEW s \in Sessions, Step(s), ~Commit(s)
      PROVE  UNCHANGED <<sale, batch, progress>>
  <2>1. CASE ReadReference(s) \/ WriteReference(s) \/ ReadSale(s) \/ WriteSale(s)
    BY <2>1 DEF ReadReference, WriteReference, ReadSale, WriteSale, rows
  <2>2. CASE AddUp(s) \/ ReadProgress(s) \/ StoreProgress(s)
    BY <2>2 DEF AddUp, ReadProgress, StoreProgress, rows
  <2>3. CASE Collide(s) \/ Refuse(s)
    BY <2>3 DEF Collide, Refuse, RollBack, rows
  <2>4. QED
    BY <1>1, <2>1, <2>2, <2>3 DEF Step
<1>2. ASSUME NEW s \in Sessions,
             \/ \E f \in Feeds : BeginFeed(s, f) \/ BeginCancel(s, f)
             \/ BeginRecalculation(s)
             \/ Disconnect(s) \/ DetectDeadlock(s)
      PROVE  UNCHANGED <<sale, batch, progress>>
  BY <1>2 DEF BeginFeed, BeginCancel, BeginRecalculation, Disconnect, DetectDeadlock, RollBack, rows
<1>3. ASSUME NEW u \in Handled, ArchiveCustomer(u)
      PROVE  UNCHANGED <<sale, batch, progress>>
  BY <1>3 DEF ArchiveCustomer
<1>4. CASE UNCHANGED vars
  BY <1>4 DEF vars, rows
<1>5. QED
  BY <1>1, <1>2, <1>3, <1>4 DEF Next

LEMMA CommitBringsFeed ==
    ASSUME PlacedInv, CommittedFeedIsIn, NEW s \in Sessions, Commit(s)
    PROVE  CommittedFeedIsIn'
<1> PICK t : t = txn[s]
  OBVIOUS
<1>1. t.pc = "total" /\ t.pc # "idle"
  BY DEF Commit, At
<1>2. t \in Transaction /\ IntakeTypeOK /\ Placed(s) /\ t # Idle
  BY <1>1, InPlace
<1>3. sale' = [k \in Keys |-> View(s, k)]
  BY DEF Commit
<1> SUFFICES ASSUME NEW f \in Feeds, batch'[f] = "committed", NEW i \in DOMAIN RowsOf[f],
                    NEW k, k = RowsOf[f][i].key
             PROVE  sale'[k] # Nothing
  BY DEF CommittedFeedIsIn
<1>4. k \in Keys
  BY DocsAreDocuments DEF Document
<1>5. CASE t.op = "commit" /\ f = t.feed
  <2>1. ~OnRows(s)
    BY <1>1 DEF OnRows
  <2>2. View(s, k) # Nothing
    BY <1>2, <1>5, <2>1 DEF Placed
  <2>3. QED
    BY <1>3, <1>4, <2>2
<1>6. CASE ~(t.op = "commit" /\ f = t.feed)
  <2>1. t.op \in {"commit", "cancel", "recalculate"} /\ batch \in [Feeds -> {"previewed", "committed", "cancelled"}]
    BY <1>2 DEF Transaction, IntakeTypeOK
  <2>2. batch' = CASE t.op = "commit" -> [batch EXCEPT ![t.feed] = "committed"]
                   [] t.op = "cancel" -> [batch EXCEPT ![t.feed] = "cancelled"]
                   [] OTHER -> batch
    BY DEF Commit
  <2>3. batch[f] = "committed"
    <3>1. CASE t.op = "commit"
      BY <1>6, <2>1, <2>2, <3>1
    <3>2. CASE t.op = "cancel"
      BY <2>1, <2>2, <3>2
    <3>3. CASE t.op = "recalculate"
      BY <2>1, <2>2, <3>3
    <3>4. QED
      BY <2>1, <3>1, <3>2, <3>3
  <2>4. sale[k] # Nothing
    BY <2>3 DEF CommittedFeedIsIn
  <2>5. QED
    BY <1>3, <1>4, <2>4 DEF View
<1>7. QED
  BY <1>5, <1>6

LEMMA NextKeepsFeeds ==
    ASSUME PlacedInv, CommittedFeedIsIn, [Next]_vars
    PROVE  CommittedFeedIsIn'
<1>1. ASSUME NEW s \in Sessions, Commit(s)
      PROVE  CommittedFeedIsIn'
  BY <1>1, CommitBringsFeed
<1>2. ASSUME NEW k \in HandKeys, NEW u \in Handled, NEW a \in Amounts, EnterSale(k, u, a)
      PROVE  CommittedFeedIsIn'
  <2> DEFINE x == [customer |-> u, amount |-> a, cancelled |-> FALSE, hash |-> Nothing]
  <2>1. sale' = [sale EXCEPT ![k] = x] /\ sale[k] = Nothing /\ batch' = batch
    BY <1>2 DEF EnterSale
  <2> HIDE DEF x
  <2>2. \A f \in Feeds : \A i \in DOMAIN RowsOf[f] :
          sale[RowsOf[f][i].key] # Nothing => sale'[RowsOf[f][i].key] = sale[RowsOf[f][i].key]
    BY <2>1
  <2>3. QED
    BY <2>1, <2>2 DEF CommittedFeedIsIn
<1>3. CASE UNCHANGED <<sale, batch, progress>>
  BY <1>3 DEF CommittedFeedIsIn
<1>4. QED
  BY <1>1, <1>2, <1>3, OnlyCommitsChangeSales

\* Once a feed is committed, there is a sale for each of its documents: the
\* loops over the documents catch every exception (imports/service.py:524-527,
\* sync/service.py:503-514), but a document that could not be flushed ends
\* the transaction, and all before it are in the session's view.
THEOREM CommittedFeedsAreIn == Spec => []CommittedFeedIsIn
<1>1. Init => CommittedFeedIsIn
  BY DEF Init, CommittedFeedIsIn
<1>2. PlacedInv /\ CommittedFeedIsIn /\ [Next]_vars => CommittedFeedIsIn'
  BY NextKeepsFeeds
<1>3. QED
  BY <1>1, <1>2, AlwaysPlaced, PTL DEF Spec

----------------------------------------------------------------------------
(* Customers who are only imported: whatever a transaction does for one    *)
(* comes after it has written the customer's reference, and so holds the   *)
(* customer alone.                                                         *)

Imported == Customers \ Handled

\* The sales as session s sees them.
Viewed(s) == [k \in Keys |-> View(s, k)]

Serial(s, u) ==
    LET t == txn[s] IN
    t # Idle =>
      /\ u \in t.added => refLock[u] = s
      /\ t.pc \in {"sale", "upsert"} /\ Doc(s).customer = u => u \in t.added
      /\ u \in t.affected => u \in t.added
      /\ \A k \in Keys : u \in CustomersOf(k) =>
           /\ t.memory[k] # Nothing => u \in t.added /\ t.memory[k] = View(s, k)
           /\ t.wrote[k] # Nothing =>
                /\ u \in t.added
                /\ t.wrote[k].hash = Content(t.wrote[k])
                /\ u \in t.affected \/ (Progressing(s) /\ t.customer = u) \/ t.result[u] # Nothing
           /\ t.pc = "upsert" /\ Doc(s).key = k => t.saw = View(s, k)
      /\ Progressing(s) /\ t.customer = u => u \in t.added /\ t.total = TotalOf(Viewed(s), u)
      /\ t.pc = "store" /\ t.customer = u => t.saw = progress[u]
      /\ t.result[u] # Nothing =>
           u \in t.added /\ ~OnRows(s) /\ t.result[u] = ProgressRow(TotalOf(Viewed(s), u))

SerialInv ==
    /\ PlacedInv
    /\ \A s \in Sessions : \A u \in Imported : Serial(s, u)

LEMMA ViewedIsSales ==
    ASSUME PlacedInv, NEW s \in Sessions, txn[s] # Idle
    PROVE  Viewed(s) \in [Keys -> SaleRecords \cup {Nothing}]
<1>1. txn[s].pc # "idle"
  BY IdleIsNone DEF PlacedInv, IntakeTypeOK, Transaction
<1>2. \A k \in Keys : View(s, k) \in SaleRecords \cup {Nothing}
  BY <1>1, LoadedIsSale
<1>3. QED
  BY <1>2 DEF Viewed

\* What a session has gathered for u stays true while others move, when they
\* leave alone what it holds.
LEMMA OthersSerial ==
    ASSUME OneCustomerPerKey, PlacedInv, PlacedInv', NEW s \in Sessions, NEW u \in Imported, Serial(s, u),
           txn'[s] = txn[s],
           txn[s] # Idle /\ u \in txn[s].added =>
             /\ refLock'[u] = refLock[u]
             /\ progress'[u] = progress[u]
             /\ \A k \in Keys : u \in CustomersOf(k) => sale'[k] = sale[k]
    PROVE  Serial(s, u)'
<1>1. SUFFICES ASSUME txn[s] # Idle PROVE Serial(s, u)'
  BY DEF Serial
<1> PICK t : t = txn[s]
  OBVIOUS
<1>2. t.pc # "idle" /\ t \in Transaction /\ u \in Customers
  <2>1. t \in Transaction
    BY <1>1 DEF PlacedInv, IntakeTypeOK
  <2>2. QED
    BY <2>1 DEF Transaction, Imported
<1>3. t' = t /\ txn'[s] = t
  OBVIOUS
<1>4. OnRows(s)' = OnRows(s) /\ Progressing(s)' = Progressing(s) /\ Doc(s)' = Doc(s)
  BY DEF OnRows, Progressing, Doc
<1>5. u \in t.added => \A k \in Keys : u \in CustomersOf(k) => View(s, k)' = View(s, k)
  BY <1>1 DEF View
<1>6. u \in t.added => TotalOf(Viewed(s)', u) = TotalOf(Viewed(s), u)
  <2> SUFFICES ASSUME u \in t.added
               PROVE  TotalOf(Viewed(s)', u) = TotalOf(Viewed(s), u)
    OBVIOUS
  <2>1. Viewed(s) \in [Keys -> SaleRecords \cup {Nothing}]
    BY <1>1, ViewedIsSales
  <2>2. Viewed(s)' \in [Keys -> SaleRecords \cup {Nothing}]
    <3>1. t \in Transaction /\ sale' \in [Keys -> SaleRecords \cup {Nothing}]
      BY <1>2 DEF PlacedInv, IntakeTypeOK
    <3>2. \A k \in Keys : View(s, k)' \in SaleRecords \cup {Nothing}
      BY <3>1 DEF View, Transaction
    <3>3. QED
      BY <3>2 DEF Viewed
  <2>3. ASSUME NEW k \in Keys
        PROVE  \/ Viewed(s)'[k] = Viewed(s)[k]
               \/ /\ Viewed(s)'[k] = Nothing \/ Viewed(s)'[k].customer # u
                  /\ Viewed(s)[k] = Nothing \/ Viewed(s)[k].customer # u
    <3>1. Viewed(s)'[k] = View(s, k)' /\ Viewed(s)[k] = View(s, k)
      BY DEF Viewed
    <3>2. View(s, k) # Nothing => View(s, k).customer \in CustomersOf(k)
      BY <1>2, LoadedIsSale
    <3>3. View(s, k)' # Nothing => View(s, k)'.customer \in CustomersOf(k)
      BY <1>1 DEF PlacedInv, Placed, View
    <3>4. CASE u \in CustomersOf(k)
      BY <1>5, <3>1, <3>4
    <3>5. CASE u \notin CustomersOf(k)
      BY <3>1, <3>2, <3>3, <3>5
    <3>6. QED
      BY <3>4, <3>5
  <2>4. QED
    BY <2>1, <2>2, <2>3, TotalSame
<1>7. t.pc = "upsert" => OnRows(s) /\ Doc(s).key \in Keys /\ Doc(s).customer \in CustomersOf(Doc(s).key)
  BY <1>2, InPlace DEF OnRows
<1>8. t.pc = "upsert" /\ u \in CustomersOf(Doc(s).key) => u \in t.added
  <2> SUFFICES ASSUME t.pc = "upsert", u \in CustomersOf(Doc(s).key)
               PROVE  u \in t.added
    OBVIOUS
  <2>1. CustomersOf(Doc(s).key) = {u}
    BY <1>7 DEF OneCustomerPerKey, Imported
  <2>2. Doc(s).customer = u
    BY <1>7, <2>1
  <2>3. QED
    BY <1>1, <2>2 DEF Serial
<1>9. CASE u \notin t.added
  <2>1. /\ ~(t.pc \in {"sale", "upsert"} /\ Doc(s).customer = u) /\ u \notin t.affected
        /\ \A k \in Keys : u \in CustomersOf(k) =>
             /\ t.memory[k] = Nothing /\ t.wrote[k] = Nothing
             /\ ~(t.pc = "upsert" /\ Doc(s).key = k)
        /\ ~(Progressing(s) /\ t.customer = u)
        /\ t.result[u] = Nothing
    BY <1>1, <1>8, <1>9 DEF Serial
  <2>2. t.pc # "store" \/ t.customer # u
    BY <2>1 DEF Progressing
  <2>3. QED
    BY <1>3, <1>4, <1>9, <2>1, <2>2 DEF Serial
<1>10. CASE u \in t.added
  <2>1. refLock'[u] = s /\ progress'[u] = progress[u]
    BY <1>1, <1>10 DEF Serial
  <2>2. /\ u \in t.affected => u \in t.added
        /\ Progressing(s) /\ t.customer = u => t.total = TotalOf(Viewed(s), u)
        /\ t.pc = "store" /\ t.customer = u => t.saw = progress[u]
        /\ t.result[u] # Nothing => ~OnRows(s) /\ t.result[u] = ProgressRow(TotalOf(Viewed(s), u))
    BY <1>1 DEF Serial
  <2>3. ASSUME NEW k \in Keys, u \in CustomersOf(k)
        PROVE  /\ t.memory[k] # Nothing => t.memory[k] = View(s, k)'
               /\ t.wrote[k] # Nothing =>
                    /\ t.wrote[k].hash = Content(t.wrote[k])
                    /\ u \in t.affected \/ (Progressing(s) /\ t.customer = u) \/ t.result[u] # Nothing
               /\ t.pc = "upsert" /\ Doc(s).key = k => t.saw = View(s, k)'
    <3>1. View(s, k)' = View(s, k)
      BY <1>5, <1>10, <2>3
    <3>2. QED
      BY <1>1, <2>3, <3>1 DEF Serial
  <2>4. TotalOf(Viewed(s), u)' = TotalOf(Viewed(s), u)
    BY <1>6, <1>10
  <2>5. QED
    BY <1>3, <1>4, <1>10, <2>1, <2>2, <2>3, <2>4 DEF Serial
<1>11. QED
  BY <1>9, <1>10

\* A step inside a transaction of s, which leaves the locks of others alone.
LEMMA MoveSerial ==
    ASSUME OneCustomerPerKey, SerialInv, PlacedInv', NEW s \in Sessions, NEW row,
           txn' = [txn EXCEPT ![s] = row], UNCHANGED rows,
           \A u \in Imported : refLock[u] \in Sessions \ {s} => refLock'[u] = refLock[u],
           \A u \in Imported : Serial(s, u)'
    PROVE  SerialInv'
<1> SUFFICES ASSUME NEW r \in Sessions, NEW u \in Imported PROVE Serial(r, u)'
  BY DEF SerialInv
<1>1. CASE r = s
  BY <1>1
<1>2. CASE r # s
  <2>1. txn'[r] = txn[r] /\ sale' = sale /\ progress' = progress /\ Serial(r, u) /\ PlacedInv
    BY <1>2 DEF SerialInv, PlacedInv, IntakeTypeOK, rows
  <2>2. txn[r] # Idle /\ u \in txn[r].added => refLock'[u] = refLock[u]
    <3> SUFFICES ASSUME txn[r] # Idle, u \in txn[r].added
                 PROVE  refLock'[u] = refLock[u]
      OBVIOUS
    <3>1. refLock[u] = r
      BY <2>1 DEF Serial
    <3>2. QED
      BY <1>2, <3>1
  <2>3. QED
    BY <2>1, <2>2, OthersSerial
<1>3. QED
  BY <1>1, <1>2

\* A transaction that begins has done nothing yet.
LEMMA BeginSerial ==
    ASSUME OneCustomerPerKey, SerialInv, NEW s \in Sessions,
           \/ \E f \in Feeds : BeginFeed(s, f) \/ BeginCancel(s, f)
           \/ BeginRecalculation(s)
    PROVE  SerialInv'
<1>1. PlacedInv'
  BY BeginKeepsPlaces DEF SerialInv
<1>2. IntakeTypeOK /\ UNCHANGED rows /\ refLock' = refLock
  BY DEF SerialInv, PlacedInv, BeginFeed, BeginCancel, BeginRecalculation, locks
<1>3. ASSUME NEW row, txn' = [txn EXCEPT ![s] = row],
             row.added = {}, row.wrote = [k \in Keys |-> Nothing], row.memory = [k \in Keys |-> Nothing],
             row.result = [u \in Customers |-> Nothing], row.affected \subseteq Handled,
             row.pc \notin {"upsert", "progress", "store"},
             row.pc = "sale" => /\ row.feed \in Feeds /\ SourceOf[row.feed] = "erp"
                                /\ row.row \in DOMAIN RowsOf[row.feed]
      PROVE  SerialInv'
  <2>1. txn'[s] = row
    BY <1>2, <1>3 DEF IntakeTypeOK
  <2>2. ASSUME NEW u \in Imported
        PROVE  Serial(s, u)'
    <3>1. u \in Customers /\ u \notin Handled
      BY DEF Imported
    <3>2. ~Progressing(s)'
      BY <1>3, <2>1 DEF Progressing
    <3>3. row.pc \in {"sale", "upsert"} => Doc(s)'.customer # u
      <4> SUFFICES ASSUME row.pc = "sale" PROVE Doc(s)'.customer # u
        BY <1>3
      <4>1. Doc(s)' = RowsOf[row.feed][row.row]
        BY <2>1 DEF Doc
      <4>2. Doc(s)'.customer \in Handled
        BY <1>3, <4>1, DocsAreDocuments
      <4>3. QED
        BY <3>1, <4>2
    <3>4. QED
      BY <1>3, <2>1, <3>1, <3>2, <3>3 DEF Serial
  <2>3. QED
    BY <1>1, <1>2, <1>3, <2>2, MoveSerial
<1>4. ASSUME NEW f \in Feeds, BeginFeed(s, f)
      PROVE  SerialInv'
  <2> DEFINE t == Fresh("commit", f, {})
             row == GoTo(t, 1)
  <2>1. t \in Transaction /\ t.feed = f
    BY FreshIsTransaction DEF Fresh
  <2>2. /\ t.added = {} /\ t.wrote = [k \in Keys |-> Nothing] /\ t.affected = {}
        /\ t.memory = [k \in Keys |-> Nothing] /\ t.result = [u \in Customers |-> Nothing]
    BY DEF Fresh
  <2>3. txn' = [txn EXCEPT ![s] = row]
    BY <1>4 DEF BeginFeed
  <2> HIDE DEF t, row
  <2>4. /\ row.row = 1 /\ row.feed = f /\ row.added = t.added /\ row.affected = t.affected
        /\ row.wrote = t.wrote /\ row.memory = t.memory /\ row.result = t.result
        /\ \/ row.pc = "total"
           \/ /\ row.pc \in {"reference", "sale"} /\ 1 \in DOMAIN RowsOf[f]
              /\ row.pc = "reference" <=> SourceOf[f] = "csv"
    BY <2>1, GoesTo DEF row
  <2>5. row.pc = "sale" => SourceOf[f] = "erp" /\ 1 \in DOMAIN RowsOf[f]
    <3>1. SourceOf \in [Feeds -> {"csv", "erp"}]
      BY IntakeAssumption
    <3>2. QED
      BY <2>4, <3>1
  <2>6. row.pc \notin {"upsert", "progress", "store"}
    BY <2>4
  <2>7. QED
    BY <1>3, <2>2, <2>3, <2>4, <2>5, <2>6
<1>5. ASSUME NEW op, NEW f, NEW S \in SUBSET Handled, txn' = [txn EXCEPT ![s] = Fresh(op, f, S)]
      PROVE  SerialInv'
  <2> DEFINE row == Fresh(op, f, S)
  <2>1. /\ row.added = {} /\ row.wrote = [k \in Keys |-> Nothing] /\ row.affected = S /\ row.pc = "total"
        /\ row.memory = [k \in Keys |-> Nothing] /\ row.result = [u \in Customers |-> Nothing]
    BY DEF Fresh
  <2>2. txn' = [txn EXCEPT ![s] = row]
    BY <1>5
  <2> HIDE DEF row
  <2>3. QED
    BY <1>3, <2>1, <2>2
<1>6. ASSUME NEW f \in Feeds, BeginCancel(s, f)
      PROVE  SerialInv'
  <2>1. txn' = [txn EXCEPT ![s] = Fresh("cancel", f, {})]
    BY <1>6 DEF BeginCancel
  <2>2. {} \in SUBSET Handled
    OBVIOUS
  <2>3. QED
    BY <1>5, <2>1, <2>2
<1>7. ASSUME BeginRecalculation(s)
      PROVE  SerialInv'
  <2>1. PICK S \in SUBSET Handled : txn' = [txn EXCEPT ![s] = Fresh("recalculate", Nothing, S)]
    BY <1>7 DEF BeginRecalculation
  <2>2. QED
    BY <1>5, <2>1
<1>8. QED
  BY <1>4, <1>6, <1>7

\* While the documents are being taken, what has been gathered for u is what
\* was written and whom to recalculate.
LEMMA OnRowsSerial ==
    ASSUME SerialInv, NEW s \in Sessions, NEW u \in Imported, OnRows(s), NEW t, t = txn[s]
    PROVE  /\ t \in Transaction /\ t # Idle /\ t.feed \in Feeds /\ Placed(s) /\ IntakeTypeOK
           /\ Doc(s) \in Document /\ Doc(s).key \in Keys
           /\ Doc(s).customer \in CustomersOf(Doc(s).key) /\ Doc(s).customer \in Customers
           /\ u \in Customers /\ u \notin Handled /\ t.result[u] = Nothing
           /\ u \in t.added => refLock[u] = s
           /\ t.pc \in {"sale", "upsert"} /\ Doc(s).customer = u => u \in t.added
           /\ u \in t.affected => u \in t.added
           /\ \A k \in Keys : u \in CustomersOf(k) =>
                /\ t.memory[k] # Nothing => u \in t.added /\ t.memory[k] = View(s, k)
                /\ t.wrote[k] # Nothing =>
                     u \in t.added /\ t.wrote[k].hash = Content(t.wrote[k]) /\ u \in t.affected
                /\ t.pc = "upsert" /\ Doc(s).key = k => t.saw = View(s, k)
<1>1. t.pc # "idle" /\ ~Progressing(s)
  BY DEF OnRows, Progressing
<1>2. /\ t \in Transaction /\ t # Idle /\ t.feed \in Feeds /\ Placed(s) /\ IntakeTypeOK
      /\ Doc(s) \in Document /\ Doc(s).key \in Keys
      /\ Doc(s).customer \in CustomersOf(Doc(s).key) /\ Doc(s).customer \in Customers
  BY <1>1, InPlace DEF SerialInv
<1>3. u \in Customers /\ u \notin Handled /\ Serial(s, u)
  BY DEF SerialInv, Imported
<1>4. /\ t.result[u] = Nothing
      /\ u \in t.added => refLock[u] = s
      /\ t.pc \in {"sale", "upsert"} /\ Doc(s).customer = u => u \in t.added
      /\ u \in t.affected => u \in t.added
  BY <1>2, <1>3 DEF Serial
<1>5. ASSUME NEW k \in Keys, u \in CustomersOf(k)
      PROVE  /\ t.memory[k] # Nothing => u \in t.added /\ t.memory[k] = View(s, k)
             /\ t.wrote[k] # Nothing =>
                  u \in t.added /\ t.wrote[k].hash = Content(t.wrote[k]) /\ u \in t.affected
             /\ t.pc = "upsert" /\ Doc(s).key = k => t.saw = View(s, k)
  BY <1>1, <1>2, <1>3, <1>4, <1>5 DEF Serial
<1>6. QED
  BY <1>2, <1>3, <1>4, <1>5

LEMMA ReferenceSerial ==
    ASSUME OneCustomerPerKey, SerialInv, NEW s \in Sessions, ReadReference(s) \/ WriteReference(s)
    PROVE  SerialInv'
<1> PICK t : t = txn[s]
  OBVIOUS
<1> PICK v : v = Doc(s).customer
  OBVIOUS
<1>1. PlacedInv' /\ IntakeTypeOK /\ UNCHANGED rows
  BY ReferenceKeepsPlaces DEF SerialInv, PlacedInv, ReadReference, WriteReference
<1>2. OnRows(s) /\ t \in Transaction /\ v \in Customers
  <2>1. OnRows(s) /\ t.pc # "idle"
    BY DEF ReadReference, WriteReference, At, OnRows
  <2>2. QED
    BY <2>1, InPlace DEF SerialInv
<1>3. ASSUME NEW row, txn' = [txn EXCEPT ![s] = row],
             row.wrote = t.wrote, row.memory = t.memory, row.affected = t.affected, row.result = t.result,
             row.row = t.row, row.feed = t.feed,
             \/ row.pc = "refer" /\ row.added = t.added /\ refLock' = refLock
             \/ /\ row.pc = "sale" /\ row.added = t.added \cup {v}
                /\ refLock' = [refLock EXCEPT ![v] = s] /\ refLock[v] \in {s, NoSession}
      PROVE  SerialInv'
  <2>1. txn'[s] = row /\ sale' = sale
    BY <1>1, <1>3 DEF IntakeTypeOK, rows
  <2>2. Doc(s)' = Doc(s) /\ ~Progressing(s)' /\ \A k \in Keys : View(s, k)' = View(s, k)
    <3>1. row.pc = "refer" \/ row.pc = "sale"
      BY <1>3
    <3>2. ~Progressing(s)'
      BY <2>1, <3>1 DEF Progressing
    <3>3. Doc(s)' = Doc(s)
      BY <1>3, <2>1 DEF Doc
    <3>4. \A k \in Keys : View(s, k)' = View(s, k)
      BY <1>3, <2>1 DEF View
    <3>5. QED
      BY <3>2, <3>3, <3>4
  <2>3. \A u \in Imported : refLock[u] \in Sessions \ {s} => refLock'[u] = refLock[u]
    <3> SUFFICES ASSUME NEW u \in Imported, refLock[u] \in Sessions \ {s}
                 PROVE  refLock'[u] = refLock[u]
      OBVIOUS
    <3>1. NoSession \notin Sessions
      BY IntakeAssumption
    <3>2. refLock[v] \in {s, NoSession} => u # v
      BY <3>1
    <3>3. u \in DOMAIN refLock
      BY <1>1 DEF IntakeTypeOK, Imported
    <3>4. QED
      BY <1>3, <3>2, <3>3
  <2>4. ASSUME NEW u \in Imported
        PROVE  Serial(s, u)'
    <3>1. /\ u \in row.added => refLock'[u] = s
          /\ row.pc \in {"sale", "upsert"} /\ v = u => u \in row.added
          /\ u \in t.added => u \in row.added
      <4>1. u \in t.added => refLock[u] = s
        BY <1>2, OnRowsSerial
      <4>2. refLock \in [Customers -> Sessions \cup {NoSession}]
        BY <1>1 DEF IntakeTypeOK
      <4>3. CASE row.pc = "refer" /\ row.added = t.added /\ refLock' = refLock
        BY <4>1, <4>3
      <4>4. CASE /\ row.pc = "sale" /\ row.added = t.added \cup {v}
                 /\ refLock' = [refLock EXCEPT ![v] = s]
        BY <1>2, <4>1, <4>2, <4>4
      <4>5. QED
        BY <1>3, <4>3, <4>4
    <3>2. /\ u \in row.affected => u \in row.added
          /\ row.result[u] = Nothing
          /\ row.pc \notin {"upsert", "store"}
      BY <1>2, <1>3, <3>1, OnRowsSerial
    <3>3. ASSUME NEW k \in Keys, u \in CustomersOf(k)
          PROVE  /\ row.memory[k] # Nothing => u \in row.added /\ row.memory[k] = View(s, k)'
                 /\ row.wrote[k] # Nothing =>
                      u \in row.added /\ row.wrote[k].hash = Content(row.wrote[k]) /\ u \in row.affected
      BY <1>2, <1>3, <2>2, <3>1, <3>3, OnRowsSerial
    <3>4. QED
      BY <2>1, <2>2, <3>1, <3>2, <3>3 DEF Serial
  <2>5. QED
    BY <1>1, <1>3, <2>3, <2>4, MoveSerial
<1>4. CASE ReadReference(s)
  <2> PICK saw : saw = IF v \in known \cup t.added THEN v ELSE Nothing
    OBVIOUS
  <2> DEFINE row == [t EXCEPT !.pc = "refer", !.saw = saw]
  <2>1. txn' = [txn EXCEPT ![s] = row] /\ refLock' = refLock
    BY <1>1, <1>4 DEF ReadReference, IntakeTypeOK, locks
  <2>2. /\ row.pc = "refer" /\ row.added = t.added
        /\ row.wrote = t.wrote /\ row.memory = t.memory /\ row.affected = t.affected
        /\ row.result = t.result /\ row.row = t.row /\ row.feed = t.feed
    BY <1>2 DEF Transaction
  <2> HIDE DEF row
  <2>3. QED
    BY <1>3, <2>1, <2>2
<1>5. CASE WriteReference(s)
  <2> DEFINE row == [t EXCEPT !.pc = "sale", !.added = @ \cup {v}]
  <2>1. txn' = [txn EXCEPT ![s] = row] /\ refLock' = [refLock EXCEPT ![v] = s]
    BY <1>1, <1>5 DEF WriteReference, IntakeTypeOK
  <2>2. /\ row.pc = "sale" /\ row.added = t.added \cup {v}
        /\ row.wrote = t.wrote /\ row.memory = t.memory /\ row.affected = t.affected
        /\ row.result = t.result /\ row.row = t.row /\ row.feed = t.feed
    BY <1>2 DEF Transaction
  <2>3. refLock[v] \in {s, NoSession}
    <3>1. Blockers(s) = {} /\ At(s, "refer")
      BY <1>5 DEF WriteReference
    <3>2. Blockers(s) = {refLock[v]} \ {s, NoSession}
      BY <3>1 DEF Blockers, At
    <3>3. QED
      BY <3>1, <3>2
  <2> HIDE DEF row
  <2>4. QED
    BY <1>3, <2>1, <2>2, <2>3
<1>6. QED
  BY <1>4, <1>5

LEMMA ReadSaleSerial ==
    ASSUME OneCustomerPerKey, SerialInv, NEW s \in Sessions, ReadSale(s)
    PROVE  SerialInv'
<1> PICK t : t = txn[s]
  OBVIOUS
<1> PICK d : d = Doc(s).key
  OBVIOUS
<1> PICK x : x = Loaded(s, d)
  OBVIOUS
<1> DEFINE row == [t EXCEPT !.pc = "upsert", !.saw = x]
<1>1. PlacedInv' /\ IntakeTypeOK /\ UNCHANGED rows /\ refLock' = refLock
  BY ReadSaleKeepsPlaces DEF SerialInv, PlacedInv, ReadSale, locks
<1>2. OnRows(s) /\ t.pc = "sale" /\ t \in Transaction /\ d \in Keys
  <2>1. OnRows(s) /\ t.pc = "sale" /\ t.pc # "idle"
    BY DEF ReadSale, At, OnRows
  <2>2. QED
    BY <2>1, InPlace DEF SerialInv
<1>3. txn' = [txn EXCEPT ![s] = row]
  BY <1>1 DEF ReadSale, IntakeTypeOK
<1>4. /\ row.pc = "upsert" /\ row.saw = x /\ row.added = t.added
      /\ row.wrote = t.wrote /\ row.memory = t.memory /\ row.affected = t.affected
      /\ row.result = t.result /\ row.row = t.row /\ row.feed = t.feed
  BY <1>2 DEF Transaction
<1> HIDE DEF row
<1>5. txn'[s] = row /\ sale' = sale
  BY <1>1, <1>3 DEF IntakeTypeOK, rows
<1>6. Doc(s)' = Doc(s) /\ ~Progressing(s)' /\ \A k \in Keys : View(s, k)' = View(s, k)
  BY <1>4, <1>5 DEF Doc, Progressing, View
<1>7. ASSUME NEW u \in Imported
      PROVE  Serial(s, u)'
  <2>1. /\ u \in row.added => refLock'[u] = s
        /\ Doc(s).customer = u => u \in row.added
        /\ u \in row.affected => u \in row.added
        /\ row.result[u] = Nothing
    BY <1>1, <1>2, <1>4, OnRowsSerial
  <2>2. ASSUME NEW k \in Keys, u \in CustomersOf(k)
        PROVE  /\ row.memory[k] # Nothing => u \in row.added /\ row.memory[k] = View(s, k)'
               /\ row.wrote[k] # Nothing =>
                    u \in row.added /\ row.wrote[k].hash = Content(row.wrote[k]) /\ u \in row.affected
    BY <1>2, <1>4, <1>6, <2>2, OnRowsSerial
  <2>3. ASSUME u \in CustomersOf(d)
        PROVE  x = View(s, d)
    <3>1. t.memory[d] # Nothing => t.memory[d] = View(s, d)
      BY <1>2, <2>3, OnRowsSerial
    <3>2. t.memory[d] = View(s, d) => Loaded(s, d) = View(s, d)
      BY <1>2, LoadedIsSale DEF SerialInv
    <3>3. QED
      BY <3>1, <3>2 DEF Loaded
  <2>4. ASSUME NEW k \in Keys, u \in CustomersOf(k), Doc(s).key = k
        PROVE  row.saw = View(s, k)'
    BY <1>4, <1>6, <2>3, <2>4
  <2>5. QED
    BY <1>4, <1>5, <1>6, <2>1, <2>2, <2>4 DEF Serial
<1>8. QED
  BY <1>1, <1>3, <1>7, MoveSerial

\* The sale that WriteSale writes for an imported customer is its document's.
LEMMA NewIsRecorded ==
    ASSUME OneCustomerPerKey, SerialInv, NEW s \in Sessions, txn[s].pc = "upsert",
           NEW u \in Imported, u \in CustomersOf(Doc(s).key)
    PROVE  /\ Doc(s).customer = u /\ u \in txn[s].added
           /\ txn[s].saw = View(s, Doc(s).key)
           /\ New(s) = Recorded(Doc(s))
<1> PICK t : t = txn[s]
  OBVIOUS
<1> PICK k : k = Doc(s).key
  OBVIOUS
<1>1. OnRows(s) /\ t.pc # "idle"
  BY DEF OnRows
<1>2. /\ Doc(s) \in Document /\ k \in Keys /\ Doc(s).customer \in CustomersOf(k)
      /\ t.saw = View(s, k) /\ Doc(s).customer = u => u \in t.added
  BY <1>1, OnRowsSerial
<1>3. CustomersOf(k) = {u}
  BY <1>2 DEF OneCustomerPerKey, Imported
<1>4. Doc(s).customer = u /\ u \in t.added /\ t.saw = View(s, k)
  <2>1. Doc(s).customer = u
    BY <1>2, <1>3
  <2>2. QED
    BY <1>1, <1>2, <2>1, OnRowsSerial
<1>5. View(s, k) \in SaleRecords \cup {Nothing}
  BY <1>1, <1>2, LoadedIsSale DEF SerialInv
<1>6. Recorded(Doc(s)) \in SaleRecords
  BY <1>2, RecordedIsSale
<1>7. New(s) = Recorded(Doc(s))
  <2>1. CASE t.saw = Nothing
    BY <2>1 DEF New
  <2>2. CASE t.saw # Nothing
    <3>1. View(s, k) \in SaleRecords /\ New(s) = Overwrite(View(s, k), t.saw, Recorded(Doc(s)))
      BY <1>4, <1>5, <2>2 DEF New
    <3>2. QED
      BY <1>4, <1>6, <3>1, OverwriteSale
  <2>3. QED
    BY <2>1, <2>2
<1>8. QED
  BY <1>4, <1>7

LEMMA WriteSaleSerial ==
    ASSUME OneCustomerPerKey, SerialInv, NEW s \in Sessions, WriteSale(s)
    PROVE  SerialInv'
<1> PICK t : t = txn[s]
  OBVIOUS
<1> PICK k : k = Doc(s).key
  OBVIOUS
<1> PICK v : v = Doc(s).customer
  OBVIOUS
<1> PICK new : new = New(s)
  OBVIOUS
<1> PICK rec : rec = Recorded(Doc(s))
  OBVIOUS
<1>1. PlacedInv' /\ IntakeTypeOK /\ UNCHANGED rows /\ refLock' = refLock
  BY WriteSaleKeepsPlaces DEF SerialInv, PlacedInv, WriteSale
<1>2. OnRows(s) /\ t.pc = "upsert" /\ t.pc # "idle"
  BY DEF WriteSale, At, OnRows
<1>3. /\ t \in Transaction /\ k \in Keys /\ t.feed \in Feeds /\ t.row \in Nat \ {0}
      /\ Doc(s) \in Document /\ v \in Customers
  BY <1>2, InPlace DEF SerialInv
<1>4. rec \in SaleRecords /\ rec # Nothing /\ rec.hash = Content(rec)
  BY <1>3, RecordedIsSale, IntakeAssumption
<1>5. ASSUME NEW m \in Transaction, NEW row, row = GoTo(m, t.row + 1), txn' = [txn EXCEPT ![s] = row],
             m.feed = t.feed, m.added = t.added, m.result = t.result,
             t.affected \subseteq m.affected, m.affected \subseteq t.affected \cup {v},
             \A j \in Keys : j # k => m.memory[j] = t.memory[j] /\ m.wrote[j] = t.wrote[j],
             \A u \in Imported : u \in CustomersOf(k) =>
               /\ m.memory[k] = IF m.wrote[k] # Nothing THEN m.wrote[k] ELSE sale[k]
               /\ m.wrote[k] # Nothing => m.wrote[k].hash = Content(m.wrote[k]) /\ u \in m.affected
      PROVE  SerialInv'
  <2>1. t.row + 1 \in Nat \ {0} /\ m.feed \in Feeds
    BY <1>3, <1>5
  <2>2. /\ row.row = t.row + 1 /\ row.feed = t.feed /\ row.added = t.added /\ row.affected = m.affected
        /\ row.wrote = m.wrote /\ row.memory = m.memory /\ row.result = t.result
        /\ \/ row.pc = "total"
           \/ /\ row.pc \in {"reference", "sale"} /\ t.row + 1 \in DOMAIN RowsOf[t.feed]
              /\ row.pc = "reference" <=> SourceOf[t.feed] = "csv"
    BY <1>5, <2>1, GoesTo
  <2>3. txn'[s] = row /\ sale' = sale
    BY <1>1, <1>5 DEF IntakeTypeOK, rows
  <2>4. row.pc \in {"total", "reference", "sale"}
    BY <2>2
  <2>5. ~Progressing(s)' /\ row.pc \notin {"upsert", "store"}
    BY <2>3, <2>4 DEF Progressing
  <2>6. ASSUME NEW u \in Imported
        PROVE  Serial(s, u)'
    <3>1. row.pc = "sale" => Doc(s)'.customer # u
      <4> SUFFICES ASSUME row.pc = "sale" PROVE Doc(s)'.customer # u
        OBVIOUS
      <4>1. Doc(s)' = RowsOf[t.feed][t.row + 1]
        BY <2>2, <2>3 DEF Doc
      <4>2. SourceOf[t.feed] = "erp"
        <5>1. SourceOf[t.feed] # "csv" /\ SourceOf \in [Feeds -> {"csv", "erp"}]
          BY <2>2, IntakeAssumption
        <5>2. QED
          BY <1>3, <5>1
      <4>3. Doc(s)'.customer \in Handled
        BY <1>3, <2>2, <4>1, <4>2, DocsAreDocuments
      <4>4. QED
        BY <4>3 DEF Imported
    <3>2. /\ u \in row.added => refLock'[u] = s
          /\ row.result[u] = Nothing
          /\ v = u => u \in t.added
          /\ u \in t.affected => u \in t.added
      BY <1>1, <1>2, <2>2, OnRowsSerial
    <3>3. u \in row.affected => u \in row.added
      BY <1>5, <2>2, <3>2
    <3>4. ASSUME NEW j \in Keys, u \in CustomersOf(j)
          PROVE  /\ row.memory[j] # Nothing => u \in row.added /\ row.memory[j] = View(s, j)'
                 /\ row.wrote[j] # Nothing =>
                      u \in row.added /\ row.wrote[j].hash = Content(row.wrote[j]) /\ u \in row.affected
      <4>1. View(s, j)' = IF m.wrote[j] # Nothing THEN m.wrote[j] ELSE sale[j]
        BY <2>2, <2>3 DEF View
      <4>2. CASE j = k
        <5>1. u \in row.added
          BY <1>2, <2>2, <3>4, <4>2, NewIsRecorded
        <5>2. QED
          BY <1>5, <2>2, <3>4, <4>1, <4>2, <5>1
      <4>3. CASE j # k
        <5>1. m.memory[j] = t.memory[j] /\ m.wrote[j] = t.wrote[j]
          BY <1>5, <4>3
        <5>2. View(s, j)' = View(s, j)
          BY <4>1, <5>1 DEF View
        <5>3. /\ t.memory[j] # Nothing => u \in t.added /\ t.memory[j] = View(s, j)
              /\ t.wrote[j] # Nothing =>
                   u \in t.added /\ t.wrote[j].hash = Content(t.wrote[j]) /\ u \in t.affected
          BY <1>2, <3>4, OnRowsSerial
        <5>4. QED
          BY <1>5, <2>2, <5>1, <5>2, <5>3
      <4>4. QED
        BY <4>2, <4>3
    <3>5. QED
      BY <2>3, <2>5, <3>1, <3>2, <3>3, <3>4 DEF Serial
  <2>7. QED
    BY <1>1, <1>5, <2>6, MoveSerial
<1>6. ASSUME NEW u \in Imported, u \in CustomersOf(k)
      PROVE  /\ new = rec /\ v = u
             /\ t.saw = IF t.wrote[k] # Nothing THEN t.wrote[k] ELSE sale[k]
             /\ t.wrote[k] # Nothing => t.wrote[k].hash = Content(t.wrote[k]) /\ u \in t.affected
  <2>1. new = rec /\ v = u /\ t.saw = View(s, k)
    BY <1>2, <1>6, NewIsRecorded
  <2>2. t.wrote[k] # Nothing => t.wrote[k].hash = Content(t.wrote[k]) /\ u \in t.affected
    BY <1>2, <1>3, <1>6, OnRowsSerial
  <2>3. QED
    BY <2>1, <2>2 DEF View
<1>7. \/ txn' = [txn EXCEPT ![s] = GoTo([t EXCEPT !.memory[k] = t.saw], t.row + 1)]
      \/ txn' = [txn EXCEPT ![s] =
           GoTo([t EXCEPT !.wrote[k] = new, !.memory[k] = rec, !.affected = @ \cup {v}], t.row + 1)]
  BY <1>1 DEF WriteSale, New, IntakeTypeOK
<1>8. t.saw \in SaleRecords \cup {Nothing}
  BY <1>2, <1>3, IdleIsNone DEF SerialInv, PlacedInv, Placed
<1>9. new \in SaleRecords
  <2>1. View(s, k) \in SaleRecords \cup {Nothing} /\ (t.saw # Nothing => View(s, k) # Nothing)
    BY <1>2, <1>3, IdleIsNone, LoadedIsSale DEF SerialInv, PlacedInv, Placed
  <2>2. t.saw # Nothing => new = Overwrite(View(s, k), t.saw, rec) /\ View(s, k) \in SaleRecords
    BY <2>1 DEF New
  <2>3. t.saw = Nothing => new = rec
    BY DEF New
  <2>4. QED
    BY <1>4, <2>2, <2>3, OverwriteSale
<1>10. CASE txn' = [txn EXCEPT ![s] = GoTo([t EXCEPT !.memory[k] = t.saw], t.row + 1)]
  <2> DEFINE m == [t EXCEPT !.memory[k] = t.saw]
  <2>1. m \in Transaction /\ m.memory[k] = t.saw /\ \A j \in Keys : j # k => m.memory[j] = t.memory[j]
    BY <1>3, <1>8 DEF Transaction
  <2>2. m.feed = t.feed /\ m.added = t.added /\ m.wrote = t.wrote /\ m.affected = t.affected /\ m.result = t.result
    BY <1>3 DEF Transaction
  <2> HIDE DEF m
  <2>3. txn' = [txn EXCEPT ![s] = GoTo(m, t.row + 1)]
    BY <1>10 DEF m
  <2>4. \A u \in Imported : u \in CustomersOf(k) =>
          /\ m.memory[k] = IF m.wrote[k] # Nothing THEN m.wrote[k] ELSE sale[k]
          /\ m.wrote[k] # Nothing => m.wrote[k].hash = Content(m.wrote[k]) /\ u \in m.affected
    BY <1>6, <2>1, <2>2
  <2>5. QED
    BY <1>5, <2>1, <2>2, <2>3, <2>4
<1>11. CASE txn' = [txn EXCEPT ![s] =
              GoTo([t EXCEPT !.wrote[k] = new, !.memory[k] = rec, !.affected = @ \cup {v}], t.row + 1)]
  <2> DEFINE m == [t EXCEPT !.wrote[k] = new, !.memory[k] = rec, !.affected = @ \cup {v}]
  <2>1. /\ m \in Transaction /\ m.memory[k] = rec /\ m.wrote[k] = new /\ m.affected = t.affected \cup {v}
        /\ \A j \in Keys : j # k => m.memory[j] = t.memory[j] /\ m.wrote[j] = t.wrote[j]
    <3> DEFINE wrote == [t.wrote EXCEPT ![k] = new]
               memory == [t.memory EXCEPT ![k] = rec]
    <3>1. /\ t \in Transaction /\ k \in Keys /\ t.wrote \in [Keys -> SaleRecords \cup {Nothing}]
          /\ t.memory \in [Keys -> SaleRecords \cup {Nothing}] /\ v \in Customers
          /\ t.affected \subseteq Customers
      BY <1>3, <1>4 DEF Transaction
    <3>2. /\ wrote \in [Keys -> SaleRecords \cup {Nothing}] /\ wrote[k] = new
          /\ \A j \in Keys : j # k => wrote[j] = t.wrote[j]
      BY <1>9, <3>1
    <3>3. /\ memory \in [Keys -> SaleRecords \cup {Nothing}] /\ memory[k] = rec
          /\ \A j \in Keys : j # k => memory[j] = t.memory[j]
      BY <1>4, <3>1
    <3>4. m = [t EXCEPT !.wrote = wrote, !.memory = memory, !.affected = t.affected \cup {v}]
      BY <3>1 DEF Transaction
    <3> HIDE DEF wrote, memory, m
    <3>5. m \in Transaction /\ m.wrote = wrote /\ m.memory = memory /\ m.affected = t.affected \cup {v}
      BY <3>1, <3>2, <3>3, <3>4 DEF Transaction
    <3>6. QED
      BY <3>2, <3>3, <3>5
  <2>2. m.feed = t.feed /\ m.added = t.added /\ m.result = t.result
    BY <1>3 DEF Transaction
  <2> HIDE DEF m
  <2>3. txn' = [txn EXCEPT ![s] = GoTo(m, t.row + 1)]
    BY <1>11 DEF m
  <2>4. \A u \in Imported : u \in CustomersOf(k) =>
          /\ m.memory[k] = IF m.wrote[k] # Nothing THEN m.wrote[k] ELSE sale[k]
          /\ m.wrote[k] # Nothing => m.wrote[k].hash = Content(m.wrote[k]) /\ u \in m.affected
    BY <1>4, <1>6, <2>1
  <2>5. QED
    BY <1>5, <2>1, <2>2, <2>3, <2>4
<1>12. QED
  BY <1>7, <1>10, <1>11

\* What a session adds up for u are the sales it sees: none that it holds in
\* memory is another there.
LEMMA LoadedTotal ==
    ASSUME SerialInv, NEW s \in Sessions, txn[s].pc # "idle", NEW u \in Imported
    PROVE  TotalOf([k \in Keys |-> Loaded(s, k)], u) = TotalOf(Viewed(s), u)
<1> DEFINE sales == [k \in Keys |-> Loaded(s, k)]
<1>1. PlacedInv /\ txn[s] # Idle /\ Serial(s, u)
  BY InPlace DEF SerialInv
<1>2. sales \in [Keys -> SaleRecords \cup {Nothing}]
  BY <1>1, LoadedIsSale
<1>3. Viewed(s) \in [Keys -> SaleRecords \cup {Nothing}]
  BY <1>1, ViewedIsSales
<1>4. ASSUME NEW k \in Keys
      PROVE  \/ sales[k] = Viewed(s)[k]
             \/ /\ sales[k] = Nothing \/ sales[k].customer # u
                /\ Viewed(s)[k] = Nothing \/ Viewed(s)[k].customer # u
  <2>1. sales[k] = Loaded(s, k) /\ Viewed(s)[k] = View(s, k)
    BY DEF Viewed
  <2>2. /\ Loaded(s, k) # Nothing =>
             View(s, k) # Nothing /\ Loaded(s, k).customer = View(s, k).customer
        /\ View(s, k) # Nothing => View(s, k).customer \in CustomersOf(k)
        /\ txn[s].memory[k] = View(s, k) => Loaded(s, k) = View(s, k)
    BY <1>1, LoadedIsSale
  <2>3. CASE u \in CustomersOf(k)
    <3>1. txn[s].memory[k] # Nothing => txn[s].memory[k] = View(s, k)
      BY <1>1, <2>3 DEF Serial
    <3>2. QED
      BY <2>1, <2>2, <3>1 DEF Loaded
  <2>4. CASE u \notin CustomersOf(k)
    BY <2>1, <2>2, <2>4
  <2>5. QED
    BY <2>3, <2>4
<1> HIDE DEF sales
<1>5. QED
  BY <1>2, <1>3, <1>4, TotalSame DEF sales

\* How a step after the documents, to row, goes on to recalculate u.
Gathers(s, row, u) ==
    LET t == txn[s] IN
    /\ u \in t.affected => u \in row.affected \/ (row.pc = "progress" /\ row.customer = u)
    /\ t.pc \in {"progress", "store"} /\ t.customer = u =>
         (row.pc \in {"progress", "store"} /\ row.customer = u) \/ row.result[u] # Nothing
    /\ row.pc \in {"progress", "store"} /\ row.customer = u =>
         u \in t.added /\ row.total = TotalOf(Viewed(s), u)
    /\ row.pc = "store" /\ row.customer = u => row.saw = progress[u]
    /\ t.result[u] # Nothing => row.result[u] # Nothing
    /\ row.result[u] # t.result[u] =>
         u \in t.added /\ row.result[u] = ProgressRow(TotalOf(Viewed(s), u))

\* After the documents, what has been written is no longer touched.
LEMMA TotalsSerial ==
    ASSUME OneCustomerPerKey, SerialInv, PlacedInv', NEW s \in Sessions, NEW t, t = txn[s],
           t.pc \in {"total", "progress", "store"},
           NEW row, txn' = [txn EXCEPT ![s] = row], UNCHANGED rows, refLock' = refLock,
           row.pc \in {"total", "progress", "store"},
           row.wrote = t.wrote, row.memory = t.memory, row.added = t.added,
           row.affected \subseteq t.affected,
           \A u \in Imported : Gathers(s, row, u)
    PROVE  SerialInv'
<1>1. IntakeTypeOK /\ txn[s] # Idle
  <2>1. t.pc # "idle"
    OBVIOUS
  <2>2. QED
    BY <2>1, InPlace DEF SerialInv
<1>2. txn'[s] = row /\ sale' = sale /\ progress' = progress
  BY <1>1 DEF IntakeTypeOK, rows
<1>3. (\A k \in Keys : View(s, k)' = View(s, k)) /\ Viewed(s)' = Viewed(s)
  BY <1>2 DEF View, Viewed
<1>4. /\ ~OnRows(s) /\ ~OnRows(s)'
      /\ Progressing(s) <=> t.pc \in {"progress", "store"}
      /\ Progressing(s)' <=> row.pc \in {"progress", "store"}
      /\ row.pc \notin {"sale", "upsert"}
  BY <1>2 DEF OnRows, Progressing
<1>5. ASSUME NEW u \in Imported
      PROVE  Serial(s, u)'
  <2>1. Serial(s, u) /\ Gathers(s, row, u)
    BY DEF SerialInv
  <2>2. /\ u \in row.added => refLock'[u] = s
        /\ u \in t.affected => u \in t.added
        /\ t.result[u] # Nothing =>
             u \in t.added /\ t.result[u] = ProgressRow(TotalOf(Viewed(s), u))
    BY <1>1, <2>1 DEF Serial
  <2>3. ASSUME NEW k \in Keys, u \in CustomersOf(k)
        PROVE  /\ row.memory[k] # Nothing => u \in row.added /\ row.memory[k] = View(s, k)'
               /\ row.wrote[k] # Nothing =>
                    /\ u \in row.added
                    /\ row.wrote[k].hash = Content(row.wrote[k])
                    /\ u \in row.affected \/ (Progressing(s)' /\ row.customer = u) \/ row.result[u] # Nothing
    <3>1. /\ t.memory[k] # Nothing => u \in t.added /\ t.memory[k] = View(s, k)
          /\ t.wrote[k] # Nothing =>
               /\ u \in t.added
               /\ t.wrote[k].hash = Content(t.wrote[k])
               /\ u \in t.affected \/ (Progressing(s) /\ t.customer = u) \/ t.result[u] # Nothing
      BY <1>1, <2>1, <2>3 DEF Serial
    <3>2. QED
      BY <1>3, <1>4, <2>1, <3>1 DEF Gathers
  <2>4. row.result[u] # Nothing =>
          u \in row.added /\ row.result[u] = ProgressRow(TotalOf(Viewed(s), u))
    BY <2>1, <2>2 DEF Gathers
  <2>5. /\ Progressing(s)' /\ row.customer = u => u \in row.added /\ row.total = TotalOf(Viewed(s), u)
        /\ row.pc = "store" /\ row.customer = u => row.saw = progress'[u]
        /\ u \in row.affected => u \in row.added
    BY <1>2, <1>4, <2>1, <2>2 DEF Gathers
  <2>6. TotalOf(Viewed(s), u)' = TotalOf(Viewed(s), u)
    BY <1>3
  <2>7. QED
    BY <1>2, <1>4, <2>2, <2>3, <2>4, <2>5, <2>6 DEF Serial
<1>6. QED
  BY <1>5, MoveSerial

LEMMA AddUpSerial ==
    ASSUME OneCustomerPerKey, SerialInv, NEW s \in Sessions, AddUp(s)
    PROVE  SerialInv'
<1> PICK t : t = txn[s]
  OBVIOUS
<1> DEFINE sales == [k \in Keys |-> Loaded(s, k)]
<1>1. PlacedInv' /\ IntakeTypeOK /\ UNCHANGED rows /\ refLock' = refLock
  BY AddUpKeepsPlaces DEF SerialInv, PlacedInv, AddUp, locks
<1>2. t.pc = "total" /\ t.pc # "idle"
  BY DEF AddUp, At
<1>3. t \in Transaction /\ t # Idle
  BY <1>2, InPlace DEF SerialInv
<1>4. PICK u \in t.affected :
        txn' = [txn EXCEPT ![s].pc = "progress", ![s].customer = u,
                           ![s].affected = @ \ {u}, ![s].total = TotalOf(sales, u)]
  BY DEF AddUp
<1> PICK total : total = TotalOf(sales, u)
  OBVIOUS
<1> DEFINE row == [t EXCEPT !.pc = "progress", !.customer = u, !.affected = @ \ {u}, !.total = total]
<1>5. txn' = [txn EXCEPT ![s] = row]
  <2> HIDE DEF sales
  <2>1. txn' = [txn EXCEPT ![s].pc = "progress", ![s].customer = u,
                           ![s].affected = @ \ {u}, ![s].total = total]
    BY <1>4
  <2>2. QED
    BY <1>1, <2>1 DEF IntakeTypeOK
<1>6. /\ row.pc = "progress" /\ row.customer = u /\ row.affected = t.affected \ {u} /\ row.total = total
      /\ row.wrote = t.wrote /\ row.memory = t.memory /\ row.added = t.added /\ row.result = t.result
  BY <1>3 DEF Transaction
<1> HIDE DEF row
<1>7. u \in Imported => u \in t.added /\ total = TotalOf(Viewed(s), u)
  <2> SUFFICES ASSUME u \in Imported PROVE u \in t.added /\ total = TotalOf(Viewed(s), u)
    OBVIOUS
  <2>1. u \in t.added
    BY <1>3 DEF SerialInv, Serial
  <2>2. QED
    BY <1>2, <2>1, LoadedTotal
<1>8. \A w \in Imported : Gathers(s, row, w)
  BY <1>2, <1>6, <1>7 DEF Gathers
<1>9. QED
  BY <1>1, <1>2, <1>5, <1>6, <1>8, TotalsSerial

LEMMA ReadProgressSerial ==
    ASSUME OneCustomerPerKey, SerialInv, NEW s \in Sessions, ReadProgress(s)
    PROVE  SerialInv'
<1> PICK t : t = txn[s]
  OBVIOUS
<1> PICK saw : saw = progress[t.customer]
  OBVIOUS
<1> DEFINE row == [t EXCEPT !.pc = "store", !.saw = saw]
<1>1. PlacedInv' /\ IntakeTypeOK /\ UNCHANGED rows /\ refLock' = refLock
  BY ReadProgressKeepsPlaces DEF SerialInv, PlacedInv, ReadProgress, locks
<1>2. t.pc = "progress" /\ t.pc # "idle"
  BY DEF ReadProgress, At
<1>3. t \in Transaction /\ t # Idle
  BY <1>2, InPlace DEF SerialInv
<1>4. txn' = [txn EXCEPT ![s] = row]
  BY <1>1 DEF ReadProgress, IntakeTypeOK
<1>5. /\ row.pc = "store" /\ row.saw = saw /\ row.customer = t.customer /\ row.total = t.total
      /\ row.affected = t.affected /\ row.wrote = t.wrote /\ row.memory = t.memory
      /\ row.added = t.added /\ row.result = t.result
  BY <1>3 DEF Transaction
<1> HIDE DEF row
<1>6. \A u \in Imported : t.customer = u => u \in t.added /\ t.total = TotalOf(Viewed(s), u)
  BY <1>2, <1>3 DEF SerialInv, Serial, Progressing
<1>7. \A w \in Imported : Gathers(s, row, w)
  BY <1>2, <1>5, <1>6 DEF Gathers
<1>8. QED
  BY <1>1, <1>2, <1>4, <1>5, <1>7, TotalsSerial

LEMMA StoreProgressSerial ==
    ASSUME OneCustomerPerKey, SerialInv, NEW s \in Sessions, StoreProgress(s)
    PROVE  SerialInv'
<1> PICK t : t = txn[s]
  OBVIOUS
<1> PICK new : new = NewRow(s)
  OBVIOUS
<1> PICK u : u = t.customer
  OBVIOUS
<1> DEFINE row == [t EXCEPT !.pc = "total", !.result[u] = new]
<1>1. PlacedInv' /\ IntakeTypeOK /\ UNCHANGED rows /\ refLock' = refLock
  BY StoreProgressKeepsPlaces DEF SerialInv, PlacedInv, StoreProgress
<1>2. t.pc = "store" /\ t.pc # "idle" /\ Progressing(s)
  BY DEF StoreProgress, At, Progressing
<1>3. t \in Transaction /\ t # Idle /\ Placed(s) /\ u \in Customers
  BY <1>2, InPlace DEF SerialInv, Placed
<1>4. txn' = [txn EXCEPT ![s] = row]
  <2>1. txn' = [txn EXCEPT ![s].pc = "total", ![s].result[u] = new]
    BY DEF StoreProgress, NewRow
  <2>2. QED
    BY <1>1, <2>1 DEF IntakeTypeOK
<1>5. /\ row.pc = "total" /\ row.affected = t.affected /\ row.wrote = t.wrote /\ row.memory = t.memory
      /\ row.added = t.added /\ row.result = [t.result EXCEPT ![u] = new]
  BY <1>3 DEF Transaction
<1>6. row.result[u] = new /\ \A w \in Customers : w # u => row.result[w] = t.result[w]
  BY <1>3, <1>5 DEF Transaction
<1> HIDE DEF row
<1>7. new # Nothing
  BY <1>2, NewRowIsRow DEF SerialInv
<1>8. u \in Imported => u \in t.added /\ new = ProgressRow(TotalOf(Viewed(s), u))
  <2> SUFFICES ASSUME u \in Imported PROVE u \in t.added /\ new = ProgressRow(TotalOf(Viewed(s), u))
    OBVIOUS
  <2>1. u \in t.added /\ t.total = TotalOf(Viewed(s), u) /\ t.saw = progress[u]
    BY <1>2, <1>3 DEF SerialInv, Serial
  <2>2. QED
    BY <1>2, <2>1, NewRowIsRow DEF SerialInv
<1>9. ASSUME NEW w \in Imported
      PROVE  /\ t.customer = w => row.result[w] # Nothing
             /\ t.result[w] # Nothing => row.result[w] # Nothing
             /\ row.result[w] # t.result[w] =>
                  w \in t.added /\ row.result[w] = ProgressRow(TotalOf(Viewed(s), w))
  <2>1. w \in Customers
    BY DEF Imported
  <2>2. QED
    BY <1>6, <1>7, <1>8, <2>1
<1>10. \A w \in Imported : Gathers(s, row, w)
  <2> TAKE w \in Imported
  <2>1. /\ row.pc \notin {"progress", "store"} /\ row.affected = t.affected
        /\ t.customer = w => row.result[w] # Nothing
        /\ t.result[w] # Nothing => row.result[w] # Nothing
        /\ row.result[w] # t.result[w] =>
             w \in t.added /\ row.result[w] = ProgressRow(TotalOf(Viewed(s), w))
    BY <1>5, <1>9
  <2>2. QED
    BY <2>1 DEF Gathers
<1>11. /\ t.pc \in {"total", "progress", "store"} /\ row.pc \in {"total", "progress", "store"}
       /\ row.wrote = t.wrote /\ row.memory = t.memory /\ row.added = t.added
       /\ row.affected \subseteq t.affected
  BY <1>2, <1>5
<1>12. QED
  BY <1>1, <1>4, <1>10, <1>11, TotalsSerial

\* A transaction that ends, without or with what it has written.
LEMMA EndSerial ==
    ASSUME OneCustomerPerKey, SerialInv, PlacedInv', NEW s \in Sessions, Release(s),
           txn[s] # Idle,
           \A u \in Imported : u \notin txn[s].added =>
             /\ progress'[u] = progress[u]
             /\ \A k \in Keys : u \in CustomersOf(k) => sale'[k] = sale[k]
    PROVE  SerialInv'
<1>1. PlacedInv /\ IntakeTypeOK
  BY DEF SerialInv, PlacedInv
<1> SUFFICES ASSUME NEW r \in Sessions, NEW u \in Imported PROVE Serial(r, u)'
  BY DEF SerialInv
<1>2. CASE r = s
  <2>1. txn'[r] = Idle
    BY <1>1, <1>2 DEF IntakeTypeOK, Release
  <2>2. QED
    BY <2>1 DEF Serial
<1>3. CASE r # s
  <2>1. txn'[r] = txn[r] /\ Serial(r, u)
    BY <1>1, <1>3 DEF IntakeTypeOK, Release, SerialInv
  <2>2. ASSUME txn[r] # Idle, u \in txn[r].added
        PROVE  /\ refLock'[u] = refLock[u] /\ progress'[u] = progress[u]
               /\ \A k \in Keys : u \in CustomersOf(k) => sale'[k] = sale[k]
    <3>1. refLock[u] = r /\ u \in Customers
      BY <2>1, <2>2 DEF Serial, Imported
    <3>2. refLock'[u] = refLock[u]
      BY <1>3, <3>1 DEF Release
    <3>3. CASE u \notin txn[s].added
      BY <3>2, <3>3
    <3>4. CASE u \in txn[s].added
      <4>1. refLock[u] = s
        BY <3>4 DEF SerialInv, Serial
      <4>2. QED
        BY <1>3, <3>1, <4>1
    <3>5. QED
      BY <3>3, <3>4
  <2>3. QED
    BY <1>1, <2>1, <2>2, OthersSerial
<1>4. QED
  BY <1>2, <1>3

LEMMA RollBackSerial ==
    ASSUME OneCustomerPerKey, SerialInv, NEW s \in Sessions, txn[s].pc # "idle", RollBack(s)
    PROVE  SerialInv'
<1>1. PlacedInv' /\ txn[s] # Idle
  BY RollBackKeepsPlaces, InPlace DEF SerialInv
<1>2. Release(s) /\ sale' = sale /\ progress' = progress
  BY DEF RollBack, rows
<1>3. QED
  BY <1>1, <1>2, EndSerial

\* What a commit brings for an imported customer: nothing, or all the
\* customer's sales with the total that they make.
LEMMA CommitBrings ==
    ASSUME SerialInv, NEW s \in Sessions, Commit(s), NEW u \in Imported
    PROVE  /\ u \notin txn[s].added =>
                /\ progress'[u] = progress[u]
                /\ \A k \in Keys : u \in CustomersOf(k) => sale'[k] = sale[k]
           /\ \/ /\ progress'[u] = progress[u]
                 /\ \A k \in Keys : u \in CustomersOf(k) => sale'[k] = sale[k]
              \/ progress'[u] = ProgressRow(TotalOf(sale', u))
           /\ \A k \in Keys : u \in CustomersOf(k) =>
                sale'[k] = sale[k] \/ sale'[k].hash = Content(sale'[k])
<1> PICK t : t = txn[s]
  OBVIOUS
<1>1. t.pc = "total" /\ t.pc # "idle" /\ ~Progressing(s)
  BY DEF Commit, At, Progressing
<1>2. t \in Transaction /\ t # Idle /\ Placed(s) /\ Serial(s, u) /\ u \in Customers
  BY <1>1, InPlace DEF SerialInv, Imported
<1>3. /\ sale' = [k \in Keys |-> View(s, k)]
      /\ progress'[u] = IF t.result[u] # Nothing THEN t.result[u] ELSE progress[u]
  BY <1>2 DEF Commit
<1>4. sale' = Viewed(s)
  BY <1>3 DEF Viewed
<1>5. \A k \in Keys : u \in CustomersOf(k) /\ t.wrote[k] # Nothing =>
        /\ u \in t.added
        /\ t.wrote[k].hash = Content(t.wrote[k])
        /\ u \in t.affected \/ t.result[u] # Nothing
  BY <1>1, <1>2 DEF Serial
<1>6. t.result[u] # Nothing => u \in t.added /\ t.result[u] = ProgressRow(TotalOf(Viewed(s), u))
  BY <1>2 DEF Serial
<1>7. u \notin t.affected
  <2>1. CASE t.affected = {}
    BY <2>1
  <2>2. CASE GivesUp(s)
    <3>1. t.feed \in Feeds /\ SourceOf[t.feed] = "erp"
      BY <1>2, <2>2 DEF GivesUp, Transaction
    <3>2. t.added = {}
      BY <1>2, <3>1 DEF Placed
    <3>3. u \in t.affected => u \in t.added
      BY <1>2 DEF Serial
    <3>4. QED
      BY <3>2, <3>3
  <2>3. QED
    BY <2>1, <2>2 DEF Commit
<1>8. \A k \in Keys : sale'[k] = IF t.wrote[k] # Nothing THEN t.wrote[k] ELSE sale[k]
  BY <1>3 DEF View
<1>9. u \notin t.added =>
        /\ progress'[u] = progress[u]
        /\ \A k \in Keys : u \in CustomersOf(k) => sale'[k] = sale[k]
  BY <1>3, <1>5, <1>6, <1>8
<1>10. CASE t.result[u] = Nothing
  BY <1>3, <1>5, <1>7, <1>8, <1>9, <1>10
<1>11. CASE t.result[u] # Nothing
  <2>1. progress'[u] = ProgressRow(TotalOf(sale', u))
    BY <1>3, <1>4, <1>6, <1>11
  <2>2. \A k \in Keys : u \in CustomersOf(k) => sale'[k] = sale[k] \/ sale'[k].hash = Content(sale'[k])
    BY <1>5, <1>8
  <2>3. QED
    BY <1>9, <2>1, <2>2
<1>12. QED
  BY <1>10, <1>11

LEMMA CommitSerial ==
    ASSUME OneCustomerPerKey, SerialInv, NEW s \in Sessions, Commit(s)
    PROVE  SerialInv'
<1>1. txn[s].pc # "idle"
  BY DEF Commit, At
<1>2. PlacedInv' /\ txn[s] # Idle /\ Release(s)
  BY <1>1, CommitKeepsPlaces, InPlace DEF SerialInv, Commit
<1>3. \A u \in Imported : u \notin txn[s].added =>
        /\ progress'[u] = progress[u]
        /\ \A k \in Keys : u \in CustomersOf(k) => sale'[k] = sale[k]
  <2> TAKE u \in Imported
  <2>1. QED
    BY CommitBrings
<1>4. QED
  BY <1>2, <1>3, EndSerial

\* Sales by hand are those of other customers.
LEMMA StaffSpares ==
    ASSUME OneCustomerPerKey, NEW u \in Imported, NEW k \in Keys, u \in CustomersOf(k),
           PlacedInv,
           \/ \E j \in HandKeys, v \in Handled, a \in Amounts : EnterSale(j, v, a)
           \/ \E v \in Handled : ArchiveCustomer(v)
    PROVE  sale'[k] = sale[k]
<1>1. CASE \E v \in Handled : ArchiveCustomer(v)
  BY <1>1 DEF ArchiveCustomer
<1>2. ASSUME NEW j \in HandKeys, NEW v \in Handled, NEW a \in Amounts, EnterSale(j, v, a)
      PROVE  sale'[k] = sale[k]
  <2>1. j # k
    <3> SUFFICES ASSUME j = k PROVE FALSE
      OBVIOUS
    <3>1. v \in Customers
      BY IntakeAssumption
    <3>2. v \in CustomersOf(k)
      BY <3>1 DEF CustomersOf
    <3>3. CustomersOf(k) = {u} /\ u \notin Handled
      BY DEF OneCustomerPerKey, Imported
    <3>4. QED
      BY <3>2, <3>3
  <2> DEFINE x == [customer |-> v, amount |-> a, cancelled |-> FALSE, hash |-> Nothing]
  <2>2. sale' = [sale EXCEPT ![j] = x]
    BY <1>2 DEF EnterSale
  <2> HIDE DEF x
  <2>3. QED
    BY <2>1, <2>2 DEF PlacedInv, IntakeTypeOK
<1>3. QED
  BY <1>1, <1>2

LEMMA StaffSerial ==
    ASSUME OneCustomerPerKey, SerialInv,
           \/ \E k \in HandKeys, u \in Handled, a \in Amounts : EnterSale(k, u, a)
           \/ \E u \in Handled : ArchiveCustomer(u)
    PROVE  SerialInv'
<1>1. PlacedInv /\ PlacedInv'
  BY StaffKeepsPlaces DEF SerialInv
<1>2. txn' = txn /\ refLock' = refLock /\ progress' = progress
  BY DEF EnterSale, ArchiveCustomer, locks
<1> SUFFICES ASSUME NEW r \in Sessions, NEW u \in Imported PROVE Serial(r, u)'
  BY <1>1 DEF SerialInv
<1>3. \A k \in Keys : u \in CustomersOf(k) => sale'[k] = sale[k]
  BY <1>1, StaffSpares
<1>4. Serial(r, u)
  BY DEF SerialInv
<1>5. QED
  BY <1>1, <1>2, <1>3, <1>4, OthersSerial

LEMMA NextSerial ==
    ASSUME OneCustomerPerKey, SerialInv, [Next]_vars
    PROVE  SerialInv'
<1>1. CASE UNCHANGED vars
  <2>1. PlacedInv /\ PlacedInv'
    BY NextKeepsPlaces DEF SerialInv
  <2>2. txn' = txn /\ refLock' = refLock /\ progress' = progress /\ sale' = sale
    BY <1>1 DEF vars, rows, locks
  <2>3. ASSUME NEW r \in Sessions, NEW u \in Imported
        PROVE  Serial(r, u)'
    <3>1. Serial(r, u)
      BY DEF SerialInv
    <3>2. QED
      BY <2>1, <2>2, <3>1, OthersSerial
  <2>4. QED
    BY <2>1, <2>3 DEF SerialInv
<1>2. CASE Next
  <2>1. ASSUME NEW s \in Sessions, NEW f \in Feeds, BeginFeed(s, f) \/ BeginCancel(s, f)
        PROVE  SerialInv'
    BY <2>1, BeginSerial
  <2>2. ASSUME NEW s \in Sessions, BeginRecalculation(s)
        PROVE  SerialInv'
    BY <2>2, BeginSerial
  <2>3. ASSUME NEW s \in Sessions, Step(s)
        PROVE  SerialInv'
    <3>1. CASE ReadReference(s) \/ WriteReference(s)
      BY <3>1, ReferenceSerial
    <3>2. CASE ReadSale(s)
      BY <3>2, ReadSaleSerial
    <3>3. CASE WriteSale(s)
      BY <3>3, WriteSaleSerial
    <3>4. CASE AddUp(s)
      BY <3>4, AddUpSerial
    <3>5. CASE ReadProgress(s)
      BY <3>5, ReadProgressSerial
    <3>6. CASE StoreProgress(s)
      BY <3>6, StoreProgressSerial
    <3>7. CASE Commit(s)
      BY <3>7, CommitSerial
    <3>8. CASE Collide(s) \/ Refuse(s)
      <4>1. RollBack(s) /\ txn[s].pc # "idle"
        BY <3>8 DEF Collide, Collides, Refuse, At
      <4>2. QED
        BY <4>1, RollBackSerial
    <3>9. QED
      BY <2>3, <3>1, <3>2, <3>3, <3>4, <3>5, <3>6, <3>7, <3>8 DEF Step
  <2>4. ASSUME NEW s \in Sessions, Disconnect(s) \/ DetectDeadlock(s)
        PROVE  SerialInv'
    BY <2>4, RollBackSerial DEF Disconnect, DetectDeadlock, At
  <2>5. CASE \/ \E k \in HandKeys, u \in Handled, a \in Amounts : EnterSale(k, u, a)
             \/ \E u \in Handled : ArchiveCustomer(u)
    BY <2>5, StaffSerial
  <2>6. QED
    BY <1>2, <2>1, <2>2, <2>3, <2>4, <2>5 DEF Next
<1>3. QED
  BY <1>1, <1>2

LEMMA InitSerial ==
    ASSUME Init PROVE SerialInv
<1>1. \A s \in Sessions : \A u \in Imported : Serial(s, u)
  BY DEF Init, Serial
<1>2. QED
  BY <1>1, InitPlaced DEF SerialInv

----------------------------------------------------------------------------
(* The totals and the hashes of imported customers.                        *)

LEMMA TotalsStep ==
    ASSUME OneCustomerPerKey, SerialInv, SerialInv', ImportedTotalsRight, [Next]_vars
    PROVE  ImportedTotalsRight'
<1>1. PlacedInv /\ PlacedInv'
  BY DEF SerialInv
<1> SUFFICES ASSUME NEW u \in Imported, NEW j \in Keys, sale'[j] # Nothing, sale'[j].customer = u
             PROVE  progress'[u] = ProgressRow(TotalOf(sale', u))
  BY DEF ImportedTotalsRight, Imported
<1>2. u \in CustomersOf(j)
  BY <1>1 DEF PlacedInv
<1>3. CASE /\ progress'[u] = progress[u]
           /\ \A k \in Keys : u \in CustomersOf(k) => sale'[k] = sale[k]
  <2>1. sale[j] # Nothing /\ sale[j].customer = u
    BY <1>2, <1>3
  <2>2. progress[u] = ProgressRow(TotalOf(sale, u))
    BY <2>1 DEF ImportedTotalsRight, Imported
  <2>3. /\ sale \in [Keys -> SaleRecords \cup {Nothing}]
        /\ sale' \in [Keys -> SaleRecords \cup {Nothing}]
    BY <1>1 DEF PlacedInv, IntakeTypeOK
  <2>4. \A k \in Keys : \/ sale'[k] = sale[k]
                        \/ /\ sale'[k] = Nothing \/ sale'[k].customer # u
                           /\ sale[k] = Nothing \/ sale[k].customer # u
    BY <1>1, <1>3 DEF PlacedInv
  <2>5. TotalOf(sale', u) = TotalOf(sale, u)
    BY <2>3, <2>4, TotalSame
  <2>6. QED
    BY <1>3, <2>2, <2>5
<1>4. ASSUME NEW s \in Sessions, Commit(s)
      PROVE  progress'[u] = ProgressRow(TotalOf(sale', u))
  BY <1>3, <1>4, CommitBrings
<1>5. ASSUME NEW k \in HandKeys, NEW v \in Handled, NEW a \in Amounts, EnterSale(k, v, a)
      PROVE  progress'[u] = ProgressRow(TotalOf(sale', u))
  <2>1. progress' = progress
    BY <1>5 DEF EnterSale
  <2>2. \A i \in Keys : u \in CustomersOf(i) => sale'[i] = sale[i]
    BY <1>1, <1>5, StaffSpares
  <2>3. QED
    BY <1>3, <2>1, <2>2
<1>6. CASE UNCHANGED <<sale, batch, progress>>
  BY <1>3, <1>6
<1>7. QED
  BY <1>1, <1>4, <1>5, <1>6, OnlyCommitsChangeSales

\* The total and the tier of a customer who is only imported, and whose sales
\* are nobody else's, are at any time those of the committed sales, for any
\* batches: the reference is locked before the first read of the sales
\* (imports/service.py:670-677) until the progress is committed with them.
THEOREM ImportedTotalsAreRight ==
    ASSUME OneCustomerPerKey PROVE Spec => []ImportedTotalsRight
<1>1. Init => SerialInv /\ ImportedTotalsRight
  <2>1. ASSUME Init PROVE ImportedTotalsRight
    <3> SUFFICES ASSUME NEW u \in Imported, NEW k \in Keys, sale[k] # Nothing, sale[k].customer = u
                 PROVE  progress[u] = ProgressRow(TotalOf(sale, u))
      BY DEF ImportedTotalsRight, Imported
    <3>1. u \in known /\ u \in Customers
      BY <2>1 DEF Init, Imported
    <3>2. QED
      BY <2>1, <3>1 DEF Init
  <2>2. QED
    BY <2>1, InitSerial
<1>2. SerialInv /\ ImportedTotalsRight /\ [Next]_vars => (SerialInv /\ ImportedTotalsRight)'
  BY NextSerial, TotalsStep
<1>3. QED
  BY <1>1, <1>2, PTL DEF Spec

LEMMA HashStep ==
    ASSUME OneCustomerPerKey, SerialInv, SerialInv', HashTellsContent, [Next]_vars
    PROVE  HashTellsContent'
<1>1. PlacedInv /\ PlacedInv'
  BY DEF SerialInv
<1> SUFFICES ASSUME NEW k \in Keys, sale'[k] # Nothing, sale'[k].customer \notin Handled
             PROVE  sale'[k].hash = Content(sale'[k])
  BY DEF HashTellsContent
<1> PICK u : u = sale'[k].customer
  OBVIOUS
<1>2. u \in CustomersOf(k) /\ u \in Imported
  <2>1. sale'[k] \in SaleRecords
    BY <1>1 DEF PlacedInv, IntakeTypeOK
  <2>2. QED
    BY <1>1, <2>1 DEF PlacedInv, Imported, SaleRecords
<1>3. CASE sale'[k] = sale[k]
  BY <1>3 DEF HashTellsContent
<1>4. ASSUME NEW s \in Sessions, Commit(s)
      PROVE  sale'[k].hash = Content(sale'[k])
  BY <1>2, <1>3, <1>4, CommitBrings
<1>5. ASSUME NEW i \in HandKeys, NEW v \in Handled, NEW a \in Amounts, EnterSale(i, v, a)
      PROVE  sale'[k].hash = Content(sale'[k])
  BY <1>1, <1>2, <1>3, <1>5, StaffSpares
<1>6. CASE UNCHANGED <<sale, batch, progress>>
  BY <1>3, <1>6
<1>7. QED
  BY <1>1, <1>4, <1>5, <1>6, OnlyCommitsChangeSales

\* The content_hash of an imported customer's sale, if it is nobody else's,
\* tells what the sale is, for any batches: no two commits ever write it
\* together, so that skipping equal hashes loses nothing
\* (imports/service.py:737-740).
THEOREM HashesTellContent ==
    ASSUME OneCustomerPerKey PROVE Spec => []HashTellsContent
<1>1. Init => SerialInv /\ HashTellsContent
  <2>1. ASSUME Init PROVE HashTellsContent
    BY <2>1, IntakeAssumption DEF Init, HashTellsContent
  <2>2. QED
    BY <2>1, InitSerial
<1>2. SerialInv /\ HashTellsContent /\ [Next]_vars => (SerialInv /\ HashTellsContent)'
  BY NextSerial, HashStep
<1>3. QED
  BY <1>1, <1>2, PTL DEF Spec
----------------------------------------------------------------------------
(* What a written amount is read as.  Join is a fold over a whole that has *)
(* at most four groups, so that it is unfolded group by group.             *)

\* What Join makes of a group that follows what it has joined.
Nought == [digits |-> 0, value |-> 0]

Put(a, b) == [digits |-> a.digits + b.digits, value |-> a.value * 10^b.digits + b.value]

\* A function that joins the groups with the numbers in s, for every s in T, in
\* the order in which FoldLeft takes them.
Joins(g, parts, T) ==
    \A s \in SUBSET T :
      g[s] = IF s = {} THEN Nought ELSE Put(g[s \ {Max(s)}], parts[Max(s)])

LEMMA GreatestOf ==
    ASSUME NEW s \in SUBSET (1..4), s # {}
    PROVE  Max(s) \in s /\ \A y \in s : y <= Max(s)
<1>1. \E x \in s : \A y \in s : x >= y
  <2>1. CASE 4 \in s BY <2>1
  <2>2. CASE 4 \notin s /\ 3 \in s BY <2>2
  <2>3. CASE 4 \notin s /\ 3 \notin s /\ 2 \in s BY <2>3
  <2>4. CASE 4 \notin s /\ 3 \notin s /\ 2 \notin s
    <3>1. \A y \in s : y = 1
      BY <2>4
    <3>2. 1 \in s
      BY <3>1
    <3>3. QED
      BY <3>1, <3>2
  <2>5. QED BY <2>1, <2>2, <2>3, <2>4
<1>2. Max(s) \in s /\ \A y \in s : Max(s) >= y
  BY <1>1 DEF Max
<1>3. QED
  BY <1>2

LEMMA JoinsExists ==
    ASSUME NEW T \in SUBSET (1..4), NEW parts
    PROVE  \E g : g = [s \in SUBSET T |-> g[s]] /\ Joins(g, parts, T)
<1> DEFINE A(s) == IF 1 \in s THEN Put(Nought, parts[1]) ELSE Nought
           B(s) == IF 2 \in s THEN Put(A(s), parts[2]) ELSE A(s)
           C(s) == IF 3 \in s THEN Put(B(s), parts[3]) ELSE B(s)
           D(s) == IF 4 \in s THEN Put(C(s), parts[4]) ELSE C(s)
           g == [s \in SUBSET T |-> D(s)]
<1>1. ASSUME NEW s \in SUBSET T
      PROVE  g[s] = IF s = {} THEN Nought ELSE Put(g[s \ {Max(s)}], parts[Max(s)])
  <2>1. CASE s = {}
    BY <2>1
  <2>2. CASE s # {}
    <3> PICK m : m = Max(s)
      OBVIOUS
    <3>1. m \in s /\ m \in 1..4 /\ \A y \in s : y <= m
      BY <2>2, GreatestOf
    <3>2. s \ {m} \in SUBSET T
      OBVIOUS
    <3>3. D(s) = Put(D(s \ {m}), parts[m])
      <4>1. CASE m = 4
        BY <3>1, <4>1
      <4>2. CASE m = 3
        BY <3>1, <4>2
      <4>3. CASE m = 2
        BY <3>1, <4>3
      <4>4. CASE m = 1
        BY <3>1, <4>4
      <4>5. QED
        BY <3>1, <4>1, <4>2, <4>3, <4>4
    <3>4. g[s] = D(s) /\ g[s \ {m}] = D(s \ {m})
      BY <3>2
    <3> HIDE DEF D, g
    <3>5. QED
      BY <2>2, <3>3, <3>4
  <2>3. QED
    BY <2>1, <2>2
<1>2. g = [s \in SUBSET T |-> g[s]]
  OBVIOUS
<1> HIDE DEF g
<1>3. QED
  BY <1>1, <1>2 DEF Joins

LEMMA JoinJoins ==
    ASSUME NEW n \in 0..4, NEW parts, DOMAIN parts = 1..n
    PROVE  \E g : Joins(g, parts, 1..n) /\ Join(parts) = g[1..n]
<1> DEFINE T == 1..n
           E(i, s) == IF s = {} THEN Nought ELSE Put(i[s \ {Max(s)}], parts[Max(s)])
           Iter(i) == i = [s \in SUBSET T |-> E(i, s)]
<1>1. \E i : Iter(i)
  <2>1. T \in SUBSET (1..4)
    OBVIOUS
  <2>2. PICK g : g = [s \in SUBSET T |-> g[s]] /\ Joins(g, parts, T)
    BY <2>1, JoinsExists
  <2>3. \A s \in SUBSET T : g[s] = E(g, s)
    BY <2>2 DEF Joins
  <2> HIDE DEF E, T
  <2>4. QED
    BY <2>2, <2>3
<1>2. Join(parts) = (CHOOSE i : Iter(i))[T]
  BY DEF Join, FoldLeft, MapThenFoldSet, Put, Nought
<1>3. PICK i : Iter(i) /\ Join(parts) = i[T]
  <2> HIDE DEF Iter
  <2>1. QED
    BY <1>1, <1>2
<1>4. Joins(i, parts, T)
  BY <1>3 DEF Joins
<1>5. QED
  BY <1>3, <1>4

LEMMA JoinNone == Join(<<>>) = Nought
<1>1. PICK g : Joins(g, <<>>, 1..0) /\ Join(<<>>) = g[1..0]
  BY JoinJoins
<1>2. 1..0 = {}
  OBVIOUS
<1>3. QED
  BY <1>1, <1>2 DEF Joins

\* Two functions that join the same groups agree.
Continues(h, q, n, g, p, m) ==
    /\ n \in 0..4 /\ m \in 0..n
    /\ Joins(g, p, 1..m) /\ Joins(h, q, 1..n)
    /\ \A i \in 1..m : p[i] = q[i]

LEMMA JoinsAgree ==
    ASSUME NEW n, NEW m, NEW p, NEW q, NEW g, NEW h, Continues(h, q, n, g, p, m)
    PROVE  g[1..m] = h[1..m]
<1> USE DEF Continues
<1> DEFINE I(k) == 1..k
<1>1. g[{}] = Nought /\ h[{}] = Nought
  BY DEF Joins
<1>2. ASSUME NEW k \in 1..m
      PROVE  /\ g[I(k)] = Put(g[I(k - 1)], p[k])
             /\ h[I(k)] = Put(h[I(k - 1)], p[k])
  <2>1. I(k) # {} /\ I(k) \in SUBSET (1..4) /\ I(k) \in SUBSET (1..m) /\ I(k) \in SUBSET (1..n)
    OBVIOUS
  <2>2. Max(I(k)) \in I(k) /\ \A y \in I(k) : y <= Max(I(k))
    BY <2>1, GreatestOf
  <2>3. Max(I(k)) = k
    BY <2>2
  <2>4. I(k) \ {k} = I(k - 1)
    OBVIOUS
  <2>5. p[k] = q[k]
    OBVIOUS
  <2> HIDE DEF I
  <2>6. QED
    BY <2>1, <2>3, <2>4, <2>5 DEF Joins
<1>3. I(0) = {}
  OBVIOUS
<1> HIDE DEF I
<1>4. m \in 0..4
  OBVIOUS
<1>5. ASSUME NEW k \in 1..m, g[I(k - 1)] = h[I(k - 1)]
      PROVE  g[I(k)] = h[I(k)]
  BY <1>2, <1>5
<1>6. m >= 1 => g[I(1)] = h[I(1)]
  <2>1. I(1 - 1) = I(0)
    OBVIOUS
  <2>2. m >= 1 => 1 \in 1..m
    OBVIOUS
  <2>3. QED
    BY <1>1, <1>3, <1>5, <2>1, <2>2
<1>7. m >= 2 => g[I(2)] = h[I(2)]
  <2>1. I(2 - 1) = I(1)
    OBVIOUS
  <2>2. m >= 2 => 2 \in 1..m /\ m >= 1
    OBVIOUS
  <2>3. QED
    BY <1>5, <1>6, <2>1, <2>2
<1>8. m >= 3 => g[I(3)] = h[I(3)]
  <2>1. I(3 - 1) = I(2)
    OBVIOUS
  <2>2. m >= 3 => 3 \in 1..m /\ m >= 2
    OBVIOUS
  <2>3. QED
    BY <1>5, <1>7, <2>1, <2>2
<1>9. m >= 4 => g[I(4)] = h[I(4)]
  <2>1. I(4 - 1) = I(3)
    OBVIOUS
  <2>2. m >= 4 => 4 \in 1..m /\ m >= 3
    OBVIOUS
  <2>3. QED
    BY <1>5, <1>8, <2>1, <2>2
<1>10. m = 0 \/ m = 1 \/ m = 2 \/ m = 3 \/ m = 4
  BY <1>4
<1>11. g[I(m)] = h[I(m)]
  <2>1. CASE m = 0
    BY <1>1, <1>3, <2>1
  <2>2. CASE m = 1
    BY <1>6, <2>2
  <2>3. CASE m = 2
    BY <1>7, <2>3
  <2>4. CASE m = 3
    BY <1>8, <2>4
  <2>5. CASE m = 4
    BY <1>9, <2>5
  <2>6. QED
    BY <1>10, <2>1, <2>2, <2>3, <2>4, <2>5
<1>12. QED
  BY <1>11 DEF I

LEMMA JoinOneMore ==
    ASSUME NEW n \in 0..3, NEW p, DOMAIN p = 1..n, NEW q, DOMAIN q = 1..(n + 1),
           \A i \in 1..n : p[i] = q[i]
    PROVE  Join(q) = Put(Join(p), q[n + 1])
<1>1. n \in 0..4 /\ n + 1 \in 0..4 /\ n \in 0..(n + 1)
  OBVIOUS
<1>2. PICK g : Joins(g, p, 1..n) /\ Join(p) = g[1..n]
  BY <1>1, JoinJoins
<1>3. PICK h : Joins(h, q, 1..(n + 1)) /\ Join(q) = h[1..(n + 1)]
  BY <1>1, JoinJoins
<1>4. g[1..n] = h[1..n]
  <2> PICK m : m = n + 1
    OBVIOUS
  <2>1. m \in 0..4 /\ n \in 0..m /\ Joins(h, q, 1..m)
    BY <1>1, <1>3
  <2>2. QED
    BY <1>2, <2>1, JoinsAgree DEF Continues
<1>5. h[1..(n + 1)] = Put(h[1..n], q[n + 1])
  <2> PICK s : s = 1..(n + 1)
    OBVIOUS
  <2>1. n + 1 \in s /\ s \in SUBSET (1..4) /\ (\A y \in s : y <= n + 1)
    BY <1>1
  <2>2. Max(s) \in s /\ \A y \in s : y <= Max(s)
    BY <2>1, GreatestOf
  <2>3. Max(s) = n + 1
    BY <2>1, <2>2
  <2>4. s \ {n + 1} = 1..n
    <3>1. \A y \in Int : y \in 1..(n + 1) /\ y # n + 1 <=> y \in 1..n
      OBVIOUS
    <3>2. QED
      BY <3>1
  <2>5. h[s] = Put(h[s \ {Max(s)}], q[Max(s)])
    BY <1>3, <2>1 DEF Joins
  <2>6. QED
    BY <2>3, <2>4, <2>5
<1>6. QED
  BY <1>2, <1>3, <1>4, <1>5

LEMMA JoinAppend ==
    ASSUME NEW G, NEW parts \in Seq(G), Len(parts) <= 3, NEW x \in G
    PROVE  Join(Append(parts, x)) = Put(Join(parts), x)
<1> PICK n : n = Len(parts)
  OBVIOUS
<1> PICK more : more = Append(parts, x)
  OBVIOUS
<1>1. n \in Nat /\ n <= 3
  OBVIOUS
<1>2. n \in 0..3
  BY <1>1
<1>3. /\ DOMAIN parts = 1..n
      /\ DOMAIN more = 1..(n + 1)
      /\ \A i \in 1..n : parts[i] = more[i]
      /\ more[n + 1] = x
  OBVIOUS
<1>4. Join(more) = Put(Join(parts), more[n + 1])
  BY <1>2, <1>3, JoinOneMore
<1>5. QED
  BY <1>3, <1>4

Groups == [digits : Nat, value : Nat]

LEMMA JoinOne ==
    ASSUME NEW x \in Groups
    PROVE  Join(<<x>>) = [digits |-> x.digits, value |-> x.value]
<1>1. <<x>> = Append(<<>>, x) /\ <<>> \in Seq(Groups) /\ Len(<<>>) <= 3
  OBVIOUS
<1>2. Join(<<x>>) = Put(Nought, x)
  BY <1>1, JoinAppend, JoinNone
<1>3. 10^x.digits \in Int /\ x.digits \in Nat /\ x.value \in Nat
  BY DEF Groups
<1>4. 0 * 10^x.digits + x.value = x.value /\ 0 + x.digits = x.digits
  BY <1>3
<1>5. QED
  BY <1>2, <1>4 DEF Put, Nought

LEMMA DigitsOf ==
    ASSUME NEW n \in Nat
    PROVE  Digits(n) \in 1..9 /\ (Digits(n) \in 1..3 <=> n < 1000)
  BY SMT DEF Digits

\* The whole part of an amount: k groups that come to n.
IsWhole(whole, k, n) ==
    /\ k \in 1..3
    /\ whole \in Seq(Groups)
    /\ Len(whole) = k
    /\ Join(whole).value = n
    /\ Join(whole).digits \in Nat \ {0}

LEMMA PartIsWhole ==
    ASSUME NEW n \in Nat
    PROVE  IsWhole(<<Part(n)>>, 1, n)
<1>1. Part(n) \in Groups /\ Part(n).digits \in Nat \ {0} /\ Part(n).value = n
  BY DigitsOf DEF Part, Groups
<1> HIDE DEF Part
<1>2. Join(<<Part(n)>>) = [digits |-> Part(n).digits, value |-> n]
  BY <1>1, JoinOne
<1>3. <<Part(n)>> \in Seq(Groups) /\ Len(<<Part(n)>>) = 1
  BY <1>1
<1>4. QED
  BY <1>1, <1>2, <1>3 DEF IsWhole

\* more is parts, k groups that come to v, and one group; it comes to w.
Extended(more, w, parts, k, v, digits, n) ==
    /\ v \in Nat /\ digits \in Nat /\ n \in Nat
    /\ IsWhole(parts, k, v)
    /\ w = v * 10^digits + n
    /\ more = Append(parts, Exactly(digits, n))

LEMMA AppendJoins ==
    ASSUME NEW more, NEW w, NEW parts, NEW k, NEW v, NEW digits, NEW n,
           Extended(more, w, parts, k, v, digits, n)
    PROVE  /\ more \in Seq(Groups)
           /\ Len(more) = k + 1
           /\ Join(more).value = w
           /\ Join(more).digits \in Nat \ {0}
           /\ \A i \in 1..k : more[i] = parts[i]
           /\ more[k + 1].digits = digits
<1>1. PICK x : x = Exactly(digits, n)
  OBVIOUS
<1>2. x \in Groups /\ x.digits = digits /\ x.value = n
  BY <1>1 DEF Exactly, Groups, Extended
<1>3. parts \in Seq(Groups) /\ Len(parts) = k /\ k \in 1..3
  BY DEF IsWhole, Extended
<1>4. Len(parts) <= 3
  BY <1>3
<1>5. Join(more) = Put(Join(parts), x)
  BY <1>1, <1>2, <1>3, <1>4, JoinAppend DEF Extended
<1>6. Put(Join(parts), x) = [digits |-> Join(parts).digits + digits, value |-> w]
  BY <1>2 DEF Put, IsWhole, Extended
<1>7. PICK d : d = Join(parts).digits + digits
  OBVIOUS
<1>8. d \in Nat \ {0}
  BY <1>7 DEF IsWhole, Extended
<1>9. Join(more).value = w /\ Join(more).digits = d
  BY <1>5, <1>6, <1>7
<1>10. /\ more \in Seq(Groups) /\ Len(more) = k + 1
       /\ (\A i \in 1..k : more[i] = parts[i]) /\ more[k + 1] = x
  BY <1>1, <1>2, <1>3 DEF Extended
<1>11. QED
  BY <1>2, <1>8, <1>9, <1>10

\* Groups that a comma between each two parts into thousands.
Thousands(whole, k) ==
    whole[1].digits \in 1..3 /\ \A i \in 2..k : whole[i].digits = 3

\* q is p and a group of three digits, and comes to u instead of v.
Grows(q, m, u, p, k, v, n) ==
    /\ v \in Nat /\ n \in Nat /\ u = 1000 * v + n
    /\ k \in 1..2 /\ m = k + 1
    /\ IsWhole(p, k, v) /\ Thousands(p, k)
    /\ q = Append(p, Exactly(3, n))

LEMMA GroupJoins ==
    ASSUME NEW q, NEW m, NEW u, NEW p, NEW k, NEW v, NEW n, Grows(q, m, u, p, k, v, n)
    PROVE  IsWhole(q, m, u) /\ Thousands(q, m)
<1> USE DEF Grows
<1>1. 10^3 = 1000
  BY SMT
<1> PICK d : d = 3
  OBVIOUS
<1>2. v * 10^d + n = u
  BY <1>1
<1>3. Extended(q, u, p, k, v, d, n)
  BY <1>2 DEF Extended
<1>4. /\ q \in Seq(Groups)
      /\ Len(q) = k + 1
      /\ Join(q).value = u
      /\ Join(q).digits \in Nat \ {0}
      /\ \A i \in 1..k : q[i] = p[i]
      /\ q[k + 1].digits = d
  <2> HIDE DEF Grows
  <2>1. QED
    BY ONLY <1>3, AppendJoins, Zenon
<1>5. IsWhole(q, m, u)
  BY <1>4 DEF IsWhole
<1>6. \A i \in 2..m : i \in 2..k \/ i = m
  OBVIOUS
<1>7. \A i \in 2..k : i \in 1..k
  OBVIOUS
<1>8. 1 \in 1..k
  OBVIOUS
<1>9. Thousands(q, m)
  BY <1>4, <1>6, <1>7, <1>8 DEF Thousands
<1>10. QED
  BY <1>5, <1>9

LEMMA FirstGroup ==
    ASSUME NEW n \in Nat, n < 1000
    PROVE  IsWhole(<<Part(n)>>, 1, n) /\ Thousands(<<Part(n)>>, 1)
<1>1. Part(n).digits \in 1..3
  BY DigitsOf DEF Part
<1>2. \A i \in 2..1 : FALSE
  OBVIOUS
<1>3. QED
  BY <1>1, <1>2, PartIsWhole DEF Thousands

\* Division and remainder, as far as numbers are written with them.
LEMMA Division ==
    ASSUME NEW n \in Nat
    PROVE  /\ n \div 1000 \in Nat /\ n % 1000 \in Nat
           /\ (1000 * (n \div 1000)) + (n % 1000) = n
  BY SMT

LEMMA GroupedIsWhole ==
    ASSUME NEW n \in Writable
    PROVE  \E k \in 1..3 : IsWhole(Grouped(n), k, n) /\ Thousands(Grouped(n), k)
<1>1. n \in Nat /\ n < 1000000000
  BY SMT DEF Writable
<1>2. PICK h, r : h = n \div 1000 /\ r = n % 1000
  OBVIOUS
<1>3. h \in Nat /\ r \in Nat /\ 1000 * h + r = n
  BY <1>1, <1>2, Division
<1>4. CASE n < 1000
  <2>1. Grouped(n) = <<Part(n)>>
    BY <1>4, SMT DEF Grouped
  <2>2. QED
    BY <1>1, <1>4, <2>1, FirstGroup
<1>5. CASE ~(n < 1000) /\ n < 1000000
  <2>1. Grouped(n) = <<Part(h), Exactly(3, r)>>
    BY <1>2, <1>5, SMT DEF Grouped
  <2>2. h < 1000
    BY <1>3, <1>5, SMT
  <2>3. <<Part(h), Exactly(3, r)>> = Append(<<Part(h)>>, Exactly(3, r))
    OBVIOUS
  <2>4. IsWhole(<<Part(h)>>, 1, h) /\ Thousands(<<Part(h)>>, 1)
    BY <1>3, <2>2, FirstGroup
  <2>5. n = 1000 * h + r /\ 2 = 1 + 1 /\ 1 \in 1..2 /\ 2 \in 1..3
    BY <1>3, SMT
  <2>6. Grows(Grouped(n), 2, n, <<Part(h)>>, 1, h, r)
    BY <1>3, <2>1, <2>3, <2>4, <2>5, SMT DEF Grows
  <2>7. IsWhole(Grouped(n), 2, n) /\ Thousands(Grouped(n), 2)
    BY <2>6, GroupJoins, SMT
  <2>8. QED
    BY <2>5, <2>7
<1>6. CASE ~(n < 1000) /\ ~(n < 1000000)
  <2>1. PICK m, i : m = n \div 1000000 /\ i = (n \div 1000) % 1000
    OBVIOUS
  <2>2. Grouped(n) = <<Part(m), Exactly(3, i), Exactly(3, r)>>
    BY <1>2, <1>6, <2>1, SMT DEF Grouped
  <2>3. m \in Nat /\ m = h \div 1000 /\ i = h % 1000
    BY <1>1, <1>2, <2>1, SMT
  <2>4. i \in Nat /\ 1000 * m + i = h
    BY <1>3, <2>3, Division
  <2>5. m < 1000
    BY <1>1, <1>3, <2>3, <2>4, SMT
  <2>6. PICK p : p = Append(<<Part(m)>>, Exactly(3, i))
    OBVIOUS
  <2>7. IsWhole(<<Part(m)>>, 1, m) /\ Thousands(<<Part(m)>>, 1)
    BY <2>3, <2>5, FirstGroup
  <2>8. n = 1000 * h + r /\ h = 1000 * m + i /\ 2 = 1 + 1 /\ 3 = 2 + 1
    BY <1>3, <2>4, SMT
  <2>9. 1 \in 1..2 /\ 2 \in 1..2 /\ 3 \in 1..3
    BY SMT
  <2>10. Grows(p, 2, h, <<Part(m)>>, 1, m, i)
    BY <2>3, <2>4, <2>6, <2>7, <2>8, <2>9, SMT DEF Grows
  <2>11. IsWhole(p, 2, h) /\ Thousands(p, 2)
    BY <2>10, GroupJoins, SMT
  <2>12. <<Part(m), Exactly(3, i), Exactly(3, r)>> = Append(p, Exactly(3, r))
    BY <2>6
  <2>13. Grows(Grouped(n), 3, n, p, 2, h, r)
    BY <1>3, <2>2, <2>11, <2>12, <2>8, <2>9, SMT DEF Grows
  <2>14. IsWhole(Grouped(n), 3, n) /\ Thousands(Grouped(n), 3)
    BY <2>13, GroupJoins, SMT
  <2>15. QED
    BY <2>14, <2>9
<1>7. QED
  BY <1>4, <1>5, <1>6, SMT

IsScale(scale, d) == scale \in 0..3 /\ d = 10^scale

\* Dividing by a power of ten, and by one that it was multiplied with.
Divided(n, d) ==
    /\ n \div d \in Nat /\ n % d \in Nat
    /\ (n \div d) * d + (n % d) = n
    /\ n \div d <= n

Undone(n, d) == (n * d) \div d = n /\ (n * d) % d = 0

LEMMA Tens ==
    ASSUME NEW scale, NEW d, IsScale(scale, d), NEW n \in Nat
    PROVE  Divided(n, d) /\ Undone(n, d)
<1> USE DEF IsScale
<1>1. 10^0 = 1 /\ 10^1 = 10 /\ 10^2 = 100 /\ 10^3 = 1000
  BY SMT
<1>2. scale = 0 \/ scale = 1 \/ scale = 2 \/ scale = 3
  OBVIOUS
<1>3. CASE scale = 0
  BY <1>1, <1>3, SMT DEF Divided, Undone
<1>4. CASE scale = 1
  BY <1>1, <1>4, SMT DEF Divided, Undone
<1>5. CASE scale = 2
  BY <1>1, <1>5, SMT DEF Divided, Undone
<1>6. CASE scale = 3
  BY <1>1, <1>6, SMT DEF Divided, Undone
<1>7. QED
  BY <1>2, <1>3, <1>4, <1>5, <1>6

\* A text of n, the sign left out, in which at most one mark is a point.
IsText(t, n) ==
    /\ t.negative = FALSE
    /\ Join(t.parts).value = n
    /\ Join(t.parts).digits \in Nat \ {0}
    /\ Points(t) = {} \/ \E i \in Nat : Points(t) = {i}

LEMMA TextIsReadable ==
    ASSUME NEW t, NEW n, IsText(t, n)
    PROVE  Readable(t)
<1>1. Cardinality({}) = 0 /\ \A i : Cardinality({i}) = 1
  BY FS_EmptySet, FS_Singleton
<1>2. PICK c : c = Cardinality(Points(t))
  OBVIOUS
<1>3. c = 0 \/ c = 1
  BY <1>1, <1>2 DEF IsText
<1>4. Join(t.parts).digits > 0
  BY DEF IsText
<1>5. QED
  BY <1>2, <1>3, <1>4 DEF Readable

LEMMA TextIsScaled ==
    ASSUME NEW t, NEW n \in Nat, NEW scale \in 0..3, IsText(t, n), FractionDigits(t) = scale
    PROVE  AmountAccepted(t, scale) /\ MinorUnits(t, scale) = n
<1>1. PICK d : d = 10^scale
  OBVIOUS
<1>2. IsScale(scale, d)
  BY <1>1 DEF IsScale
<1>3. Undone(n, d)
  BY <1>2, Tens
<1>4. Scaled(t, scale) = n * d /\ 10^FractionDigits(t) = d
  BY <1>1 DEF Scaled, IsText
<1>5. Readable(t) /\ t.negative = FALSE
  BY TextIsReadable DEF IsText
<1>6. AmountAccepted(t, scale)
  BY <1>3, <1>4, <1>5 DEF AmountAccepted, Undone
<1>7. MinorUnits(t, scale) = n
  BY <1>3, <1>4 DEF MinorUnits, Undone
<1>8. QED
  BY <1>6, <1>7

LEMMA TextIsMultiplied ==
    ASSUME NEW t, NEW n \in Nat, IsText(t, n), FractionDigits(t) = 0
    PROVE  AmountAccepted(t, 3) /\ MinorUnits(t, 3) = 1000 * n
<1>1. 10^0 = 1 /\ 10^3 = 1000
  BY SMT
<1>2. Scaled(t, 3) = 1000 * n /\ 10^FractionDigits(t) = 1
  BY <1>1 DEF Scaled, IsText
<1>3. Readable(t) /\ t.negative = FALSE
  BY TextIsReadable DEF IsText
<1>4. (1000 * n) \div 1 = 1000 * n /\ (1000 * n) % 1 = 0
  OBVIOUS
<1>5. AmountAccepted(t, 3)
  BY <1>2, <1>3, <1>4 DEF AmountAccepted
<1>6. MinorUnits(t, 3) = 1000 * n
  BY <1>2, <1>4 DEF MinorUnits
<1>7. QED
  BY <1>5, <1>6

\* The digits after a point between whole and the last group.
LEMMA FractionOf ==
    ASSUME NEW t, NEW whole \in Seq(Groups), NEW k \in 1..3, Len(whole) = k,
           NEW x \in Groups, t.parts = Append(whole, x), Points(t) = {k}
    PROVE  FractionDigits(t) = x.digits
<1>1. Points(t) # {} /\ (CHOOSE i \in Points(t) : TRUE) = k
  OBVIOUS
<1>2. FractionDigits(t) = Join(SubSeq(t.parts, k + 1, Len(t.parts))).digits
  BY <1>1 DEF FractionDigits
<1>3. SubSeq(t.parts, k + 1, Len(t.parts)) = <<x>>
  <2>1. t.parts \in Seq(Groups) /\ Len(t.parts) = k + 1 /\ t.parts[k + 1] = x
    OBVIOUS
  <2> PICK p, m : p = t.parts /\ m = k + 1
    OBVIOUS
  <2>2. p \in Seq(Groups) /\ m \in Nat /\ 1 <= m /\ m <= Len(p) /\ p[m] = x
    BY <2>1
  <2>3. SubSeq(p, m, m) = <<p[m]>>
    <3>1. PICK q : q = SubSeq(p, m, m)
      OBVIOUS
    <3>2. (\A i \in m..m : p[i] \in Groups) /\ m \in Int
      BY <2>2
    <3>3. q \in Seq(Groups) /\ Len(q) = 1 /\ q[1] = p[m]
      <4>1. q \in Seq(Groups) /\ Len(q) = (IF m <= m THEN m - m + 1 ELSE 0)
            /\ \A i \in 1 .. m - m + 1 : q[i] = p[m + i - 1]
        BY <3>1, <3>2, SubSeqProperties
      <4>2. QED
        BY <2>2, <4>1
    <3> PICK y : y = p[m]
      OBVIOUS
    <3>4. y \in Groups
      BY <2>2
    <3>5. <<y>> \in Seq(Groups) /\ Len(<<y>>) = 1 /\ <<y>>[1] = y
      BY <3>4
    <3>6. Len(q) = Len(<<y>>) /\ \A i \in 1..Len(q) : q[i] = <<y>>[i]
      BY <3>3, <3>5
    <3>7. q = <<y>>
      BY <3>3, <3>5, <3>6, SeqEqual
    <3>8. QED
      BY <3>1, <3>7
  <2>4. QED
    BY <2>1, <2>2, <2>3
<1>4. Join(<<x>>).digits = x.digits
  <2>1. Join(<<x>>) = [digits |-> x.digits, value |-> x.value]
    BY JoinOne
  <2>2. QED
    BY <2>1
<1>5. QED
  BY <1>2, <1>3, <1>4

\* Commas and a last mark.
Marked(q, k, m) ==
    /\ k \in 1..3 /\ m \in {"comma", "point"}
    /\ q = Append([i \in 1..(k - 1) |-> "comma"], m)

LEMMA MarksOf ==
    ASSUME NEW q, NEW k, NEW m, Marked(q, k, m)
    PROVE  DOMAIN q = 1..k /\ (\A i \in 1..(k - 1) : q[i] = "comma") /\ q[k] = m
<1> USE DEF Marked
<1>1. PICK c : c = [i \in 1..(k - 1) |-> "comma"]
  OBVIOUS
<1>2. PICK j : j = k - 1
  OBVIOUS
<1>3. j \in Nat /\ j + 1 = k
  BY <1>2
<1>4. c = [i \in 1..j |-> "comma"]
  BY <1>1, <1>2
<1>5. c \in Seq({"comma", "point"}) /\ Len(c) = j /\ \A i \in 1..j : c[i] = "comma"
  BY <1>3, <1>4
<1>6. DOMAIN q = 1..(j + 1) /\ (\A i \in 1..j : q[i] = c[i]) /\ q[j + 1] = m
  BY <1>1, <1>5
<1>7. QED
  BY <1>2, <1>3, <1>5, <1>6

\* n written with k groups w before the point that come to u.
Writes(t, w, k, u, n, scale, style) ==
    /\ IsWhole(w, k, u)
    /\ style = "thousands" => Thousands(w, k)
    /\ style # "thousands" => k = 1
    /\ u = n \div 10^scale
    /\ t = LET commas == [i \in 1..(k - 1) |-> "comma"]
           IN  IF scale = 0 THEN [negative |-> FALSE, parts |-> w, marks |-> commas]
               ELSE [negative |-> FALSE,
                     parts |-> Append(w, Exactly(scale, n % 10^scale)),
                     marks |-> Append(commas, IF style = "comma" THEN "comma" ELSE "point")]

LEMMA WithoutFraction ==
    ASSUME NEW n \in Nat, NEW style, NEW t, NEW w, NEW k, NEW u,
           Writes(t, w, k, u, n, 0, style)
    PROVE  IsText(t, n) /\ FractionDigits(t) = 0
<1>1. u = n
  <2>1. PICK d : d = 10^0
    OBVIOUS
  <2>2. d = 1
    BY <2>1, SMT
  <2>3. u = n \div d
    BY <2>1 DEF Writes
  <2>4. QED
    BY <2>2, <2>3
<1>2. /\ t.negative = FALSE /\ t.parts = w
      /\ DOMAIN t.marks = 1..(k - 1) /\ \A i \in 1..(k - 1) : t.marks[i] = "comma"
  BY DEF Writes
<1>3. ~Has(t, "point")
  BY <1>2 DEF Has
<1>4. k \in 1..3 /\ Len(t.parts) = k
  BY <1>2 DEF Writes, IsWhole
<1>5. Points(t) = {}
  <2>1. CASE k = 1
    <3>1. DOMAIN t.marks = {}
      BY <1>2, <2>1
    <3>2. QED
      BY <3>1 DEF Points
  <2>2. CASE k # 1
    <3>1. Thousands(w, k)
      BY <2>2 DEF Writes
    <3>2. LooksLikeThousands(t)
      BY <1>2, <1>4, <3>1 DEF LooksLikeThousands, Thousands
    <3>3. QED
      BY <1>2, <3>2 DEF Points, DropsCommas
  <2>3. QED
    BY <2>1, <2>2
<1>6. IsText(t, n)
  BY <1>1, <1>2, <1>5 DEF IsText, Writes, IsWhole
<1>7. QED
  BY <1>5, <1>6 DEF FractionDigits

LEMMA WithFraction ==
    ASSUME NEW n \in Nat, NEW style, NEW scale \in 1..3, NEW t, NEW w, NEW k, NEW u,
           Writes(t, w, k, u, n, scale, style), style = "comma" => ~LooksLikeThousands(t)
    PROVE  IsText(t, n) /\ FractionDigits(t) = scale
<1>1. PICK d : IsScale(scale, d)
  BY DEF IsScale
<1>2. Divided(n, d)
  BY <1>1, Tens
<1>3. PICK r, m : r = n % d /\ m = IF style = "comma" THEN "comma" ELSE "point"
  OBVIOUS
<1>4. /\ t.negative = FALSE /\ t.parts = Append(w, Exactly(scale, r))
      /\ t.marks = Append([i \in 1..(k - 1) |-> "comma"], m)
  <2>1. d = 10^scale /\ scale # 0
    BY <1>1 DEF IsScale
  <2>2. t = [negative |-> FALSE,
             parts |-> Append(w, Exactly(scale, n % 10^scale)),
             marks |-> Append([i \in 1..(k - 1) |-> "comma"],
                              IF style = "comma" THEN "comma" ELSE "point")]
    BY <2>1, Zenon DEF Writes
  <2>3. t = [negative |-> FALSE,
             parts |-> Append(w, Exactly(scale, r)),
             marks |-> Append([i \in 1..(k - 1) |-> "comma"], m)]
    BY <1>3, <2>1, <2>2, Zenon
  <2>4. QED
    BY <2>3
<1>5. k \in 1..3 /\ m \in {"comma", "point"} /\ IsWhole(w, k, u)
  BY <1>3 DEF Writes, IsWhole
<1>6. DOMAIN t.marks = 1..k /\ (\A i \in 1..(k - 1) : t.marks[i] = "comma") /\ t.marks[k] = m
  <2> PICK q : q = t.marks
    OBVIOUS
  <2>1. q = Append([i \in 1..(k - 1) |-> "comma"], m)
    BY <1>4
  <2>2. Marked(q, k, m)
    BY <1>5, <2>1 DEF Marked
  <2>3. DOMAIN q = 1..k /\ (\A i \in 1..(k - 1) : q[i] = "comma") /\ q[k] = m
    BY <2>2, MarksOf
  <2>4. QED
    BY <2>3
<1>7. u \in Nat /\ r \in Nat /\ u * d + r = n /\ scale \in Nat
  <2>1. u = n \div d
    BY <1>1, Zenon DEF Writes, IsScale
  <2>2. QED
    BY <1>2, <1>3, <2>1 DEF Divided
<1>8. Points(t) = {k}
  <2>1. CASE style = "comma"
    <3>1. k = 1 /\ m = "comma"
      BY <1>3, <2>1 DEF Writes
    <3>2. ~Has(t, "point")
      BY <1>6, <3>1 DEF Has
    <3>3. QED
      BY <1>6, <2>1, <3>1, <3>2 DEF Points, DropsCommas
  <2>2. CASE style # "comma"
    <3>1. m = "point"
      BY <1>3, <2>2
    <3>2. k \in DOMAIN t.marks
      BY <1>5, <1>6
    <3>3. Has(t, "point")
      BY <1>6, <3>1, <3>2 DEF Has
    <3>4. \A i \in 1..k : i = k \/ i \in 1..(k - 1)
      BY <1>5
    <3>5. QED
      BY <1>6, <3>1, <3>2, <3>3, <3>4 DEF Points, DropsCommas
  <2>3. QED
    BY <2>1, <2>2
<1>9. Extended(t.parts, n, w, k, u, scale, r)
  BY <1>1, <1>4, <1>5, <1>7 DEF Extended, IsScale
<1>10. Join(t.parts).value = n /\ Join(t.parts).digits \in Nat \ {0}
  BY <1>9, AppendJoins
<1>11. IsText(t, n)
  BY <1>4, <1>5, <1>8, <1>10 DEF IsText
<1>12. PICK x : x = Exactly(scale, r)
  OBVIOUS
<1>13. x \in Groups /\ x.digits = scale
  BY <1>7, <1>12 DEF Exactly, Groups
<1>14. w \in Seq(Groups) /\ Len(w) = k
  BY <1>5 DEF IsWhole
<1>15. FractionDigits(t) = scale
  BY <1>4, <1>5, <1>8, <1>12, <1>13, <1>14, FractionOf
<1>16. QED
  BY <1>11, <1>15

\* A decimal comma that is taken for one between thousands.
LEMMA WithMistakenComma ==
    ASSUME NEW n \in Nat, NEW t, NEW w, NEW k, NEW u,
           Writes(t, w, k, u, n, 3, "comma"), LooksLikeThousands(t)
    PROVE  IsText(t, n) /\ FractionDigits(t) = 0
<1>1. PICK scale, d : scale = 3 /\ IsScale(scale, d)
  BY DEF IsScale
<1>2. Divided(n, d)
  BY <1>1, Tens
<1>3. PICK r : r = n % d
  OBVIOUS
<1>4. /\ t.negative = FALSE /\ t.parts = Append(w, Exactly(scale, r))
      /\ t.marks = Append([i \in 1..(k - 1) |-> "comma"], "comma")
  BY <1>1, <1>3 DEF Writes, IsScale
<1>5. k = 1 /\ IsWhole(w, k, u)
  BY DEF Writes
<1>6. DOMAIN t.marks = 1..k /\ (\A i \in 1..(k - 1) : t.marks[i] = "comma") /\ t.marks[k] = "comma"
  BY <1>4, <1>5, MarksOf DEF Marked
<1>7. u \in Nat /\ r \in Nat /\ u * d + r = n /\ scale \in Nat
  BY <1>1, <1>2, <1>3 DEF Divided, Writes, IsScale
<1>8. Points(t) = {}
  BY <1>5, <1>6 DEF Points, DropsCommas
<1>9. Extended(t.parts, n, w, k, u, scale, r)
  BY <1>1, <1>4, <1>5, <1>7 DEF Extended, IsScale
<1>10. Join(t.parts).value = n /\ Join(t.parts).digits \in Nat \ {0}
  BY <1>9, AppendJoins
<1>11. IsText(t, n)
  BY <1>4, <1>8, <1>10 DEF IsText
<1>12. QED
  BY <1>8, <1>11 DEF FractionDigits

\* Two groups that look like thousands end in one of three digits, and do if the
\* first of them has at most three.
LEMMA CommaGroups ==
    ASSUME NEW n \in Nat, NEW scale \in 1..3, NEW t, NEW w, NEW k, NEW u,
           Writes(t, w, k, u, n, scale, "comma")
    PROVE  LooksLikeThousands(t) <=> w[1].digits \in 1..3 /\ scale = 3
<1>1. PICK r : r = n % 10^scale
  OBVIOUS
<1>2. PICK x : x = Exactly(scale, r)
  OBVIOUS
<1>3. x.digits = scale
  BY <1>2 DEF Exactly
<1>4. t.parts = Append(w, x)
  <2>1. scale # 0
    OBVIOUS
  <2>2. t = [negative |-> FALSE,
             parts |-> Append(w, x),
             marks |-> Append([i \in 1..(k - 1) |-> "comma"], "comma")]
    BY <1>1, <1>2, <2>1, Zenon DEF Writes
  <2>3. QED
    BY <2>2
<1>5. k = 1 /\ w \in Seq(Groups) /\ Len(w) = 1
  BY DEF Writes, IsWhole
<1>6. PICK q : q = t.parts
  OBVIOUS
<1>7. PICK l : l = Len(q)
  OBVIOUS
<1>8. l = 2 /\ q[1] = w[1] /\ q[2].digits = scale
  <2>1. x \in Groups
    <3>1. PICK d : IsScale(scale, d)
      BY DEF IsScale
    <3>2. r \in Nat
      BY <1>1, <3>1, Tens DEF IsScale, Divided
    <3>3. QED
      BY <1>2, <3>2 DEF Exactly, Groups
  <2>2. q = Append(w, x)
    BY <1>4, <1>6
  <2> PICK j : j = Len(w)
    OBVIOUS
  <2>3. Len(q) = j + 1 /\ (\A i \in 1..j : q[i] = w[i]) /\ q[j + 1] = x
    <3>1. w \in Seq(Groups)
      BY <1>5
    <3>2. QED
      BY <2>1, <2>2, <3>1, AppendProperties
  <2>4. j = 1
    BY <1>5
  <2>5. QED
    BY <1>3, <1>7, <2>3, <2>4
<1>9. \A i \in 2..l : i = 2
  BY <1>8
<1>10. LooksLikeThousands(t) <=> q[1].digits \in 1..3 /\ q[2].digits = 3
  <2>1. 2 \in 2..l
    BY <1>8
  <2>2. QED
    BY <1>6, <1>7, <1>9, <2>1 DEF LooksLikeThousands
<1>11. QED
  BY <1>8, <1>10

\* What a text that is written so comes to.
IsMistaken(t, scale, style) == style = "comma" /\ scale = 3 /\ LooksLikeThousands(t)

LEMMA WrittenIsRead ==
    ASSUME NEW n \in Nat, NEW style, NEW scale \in 0..3, NEW t, NEW w, NEW k, NEW u,
           Writes(t, w, k, u, n, scale, style)
    PROVE  /\ AmountAccepted(t, scale)
           /\ IsMistaken(t, scale, style) => MinorUnits(t, scale) = 1000 * n
           /\ ~IsMistaken(t, scale, style) => MinorUnits(t, scale) = n
<1> USE DEF IsMistaken
<1>1. CASE scale = 0
  <2>1. IsText(t, n) /\ FractionDigits(t) = scale
    BY <1>1, WithoutFraction
  <2>2. QED
    BY <1>1, <2>1, TextIsScaled
<1>2. CASE scale # 0 /\ (style = "comma" => ~LooksLikeThousands(t))
  <2>1. IsText(t, n) /\ FractionDigits(t) = scale
    BY <1>2, WithFraction
  <2>2. AmountAccepted(t, scale) /\ MinorUnits(t, scale) = n
    BY <2>1, TextIsScaled
  <2>3. QED
    BY <1>2, <2>2
<1>3. CASE scale # 0 /\ style = "comma" /\ LooksLikeThousands(t)
  <2>1. scale = 3
    BY <1>3, CommaGroups
  <2>2. IsText(t, n) /\ FractionDigits(t) = 0
    BY <1>3, <2>1, WithMistakenComma
  <2>3. QED
    BY <1>3, <2>1, <2>2, TextIsMultiplied
<1>4. QED
  BY <1>1, <1>2, <1>3

LEMMA WrittenReadsBack ==
    ASSUME NEW n \in Writable
    PROVE  ReadsBack(n)
<1> SUFFICES ASSUME NEW scale \in 0..3, NEW style \in Styles, NEW t, t = Written(n, scale, style)
             PROVE  /\ AmountAccepted(t, scale)
                    /\ MinorUnits(t, scale) =
                         IF Mistaken(n, scale, style) THEN 1000 * n ELSE n
  BY DEF ReadsBack
<1>1. n \in Nat
  BY DEF Writable
<1>2. PICK d : IsScale(scale, d)
  BY DEF IsScale
<1>3. PICK u : u = n \div d
  OBVIOUS
<1>4. u \in Writable
  <2>1. Divided(n, d)
    BY <1>1, <1>2, Tens
  <2>2. QED
    BY <1>3, <2>1, SMT DEF Divided, Writable
<1>5. PICK w : w = IF style = "thousands" THEN Grouped(u) ELSE <<Part(u)>>
  OBVIOUS
<1>6. PICK k : /\ IsWhole(w, k, u)
               /\ style = "thousands" => Thousands(w, k)
               /\ style # "thousands" => k = 1 /\ w = <<Part(u)>>
  <2>1. CASE style = "thousands"
    BY <1>4, <1>5, <2>1, GroupedIsWhole
  <2>2. CASE style # "thousands"
    <3>1. u \in Nat
      BY <1>4 DEF Writable
    <3>2. IsWhole(w, 1, u)
      BY <1>5, <2>2, <3>1, PartIsWhole
    <3>3. QED
      BY <1>5, <2>2, <3>2
  <2>3. QED
    BY <2>1, <2>2
<1>7. Writes(t, w, k, u, n, scale, style)
  <2>1. u = n \div 10^scale
    BY <1>2, <1>3, Zenon DEF IsScale
  <2>2. Len(w) = k
    BY <1>6 DEF IsWhole
  <2>3. t = LET commas == [i \in 1..(k - 1) |-> "comma"]
            IN  IF scale = 0 THEN [negative |-> FALSE, parts |-> w, marks |-> commas]
                ELSE [negative |-> FALSE,
                      parts |-> Append(w, Exactly(scale, n % 10^scale)),
                      marks |-> Append(commas, IF style = "comma" THEN "comma" ELSE "point")]
    BY <1>5, <2>1, <2>2, Zenon DEF Written
  <2>4. QED
    BY <1>6, <2>1, <2>3, Zenon DEF Writes
<1>8. IsMistaken(t, scale, style) <=> Mistaken(n, scale, style)
  <2>1. CASE ~(style = "comma" /\ scale = 3)
    BY <2>1, SMT DEF Mistaken, IsMistaken
  <2>2. CASE style = "comma" /\ scale = 3
    <3>1. LooksLikeThousands(t) <=> w[1].digits \in 1..3
      BY <1>1, <1>7, <2>2, CommaGroups
    <3>2. w[1].digits = Digits(u)
      BY <1>6, <2>2 DEF Part
    <3>3. u \in Nat
      BY <1>4 DEF Writable
    <3>4. Digits(u) \in 1..3 <=> u < 1000
      BY <3>3, DigitsOf
    <3>5. d = 1000
      BY <1>2, <2>2, SMT DEF IsScale
    <3>6. u < 1000 <=> Mistaken(n, scale, style)
      BY <1>1, <1>3, <2>2, <3>5, SMT DEF Mistaken
    <3>7. QED
      BY <2>2, <3>1, <3>2, <3>4, <3>6 DEF IsMistaken
  <2>3. QED
    BY <2>1, <2>2
<1>9. /\ AmountAccepted(t, scale)
      /\ IsMistaken(t, scale, style) => MinorUnits(t, scale) = 1000 * n
      /\ ~IsMistaken(t, scale, style) => MinorUnits(t, scale) = n
  BY <1>1, <1>7, WrittenIsRead
<1>10. CASE Mistaken(n, scale, style)
  BY <1>8, <1>9, <1>10
<1>11. CASE ~Mistaken(n, scale, style)
  BY <1>8, <1>9, <1>11
<1>12. QED
  BY <1>10, <1>11

----------------------------------------------------------------------------
(* Where amounts come from.                                                *)

\* The amount of each of the records is one that a document, the sales
\* imported before or staff give for its key.
Sourced(records) ==
    \A k \in Keys : records[k] # Nothing => records[k].amount \in AmountsOf(k)

\* An amount on record comes to the table from what a transaction has written.
SourcedInv ==
    /\ Sourced(sale)
    /\ \A s \in Sessions : txn[s] # Idle => Sourced(txn[s].wrote)

LEMMA OverwriteAmount ==
    ASSUME NEW cur \in SaleRecords, NEW loaded, NEW new
    PROVE  Overwrite(cur, loaded, new).amount \in {cur.amount, new.amount}
<1>1. "amount" \in DOMAIN cur
  BY DEF SaleRecords
<1>2. QED
  BY <1>1 DEF Overwrite

\* A document's amount is one of its key's.
LEMMA DocAmounts ==
    ASSUME NEW f \in Feeds, NEW i \in DOMAIN RowsOf[f]
    PROVE  RowsOf[f][i].amount \in AmountsOf(RowsOf[f][i].key)
<1> PICK k : k = RowsOf[f][i].key
  OBVIOUS
<1> DEFINE A(g) == {RowsOf[g][j].amount : j \in {n \in DOMAIN RowsOf[g] : RowsOf[g][n].key = k}}
           U == UNION {A(g) : g \in Feeds}
<1>1. RowsOf[f][i].amount \in A(f)
  OBVIOUS
<1>2. U \subseteq AmountsOf(k)
  BY DEF AmountsOf
<1> HIDE DEF A
<1>3. QED
  BY <1>1, <1>2

\* And so are those of the sales imported before and of the sales by hand.
LEMMA OtherAmounts ==
    ASSUME NEW k \in Keys
    PROVE  /\ Opening[k] # Nothing => Opening[k].amount \in AmountsOf(k)
           /\ k \in HandKeys => Amounts \subseteq AmountsOf(k)
<1> DEFINE U == UNION {{RowsOf[f][i].amount : i \in {j \in DOMAIN RowsOf[f] : RowsOf[f][j].key = k}} :
                        f \in Feeds}
<1>1. AmountsOf(k) = U \cup (IF Opening[k] # Nothing THEN {Opening[k].amount} ELSE {})
                       \cup (IF k \in HandKeys THEN Amounts ELSE {})
  BY DEF AmountsOf
<1> HIDE DEF U
<1>2. QED
  BY <1>1

\* A document brings its own amount, and what ReadSale has not found changed
\* keeps the one on record.
LEMMA NewAmount ==
    ASSUME PlacedInv, Sourced(sale), NEW s \in Sessions, txn[s].pc = "upsert",
           Sourced(txn[s].wrote)
    PROVE  Doc(s).key \in Keys /\ New(s).amount \in AmountsOf(Doc(s).key)
<1> PICK t : t = txn[s]
  OBVIOUS
<1> PICK k : k = Doc(s).key
  OBVIOUS
<1>1. /\ Placed(s) /\ k \in Keys /\ t # Idle
      /\ t.feed \in Feeds /\ t.row \in DOMAIN RowsOf[t.feed] /\ Doc(s) \in Document
  <2>1. txn[s].pc # "idle" /\ OnRows(s)
    BY DEF OnRows
  <2>2. QED
    BY <2>1, InPlace
<1>2. Doc(s).amount \in AmountsOf(k)
  BY <1>1, DocAmounts DEF Doc
<1>3. Recorded(Doc(s)).amount = Doc(s).amount
  BY DEF Recorded
<1>4. CASE t.saw = Nothing
  BY <1>1, <1>2, <1>3, <1>4 DEF New
<1>5. CASE t.saw # Nothing
  <2>1. View(s, k) # Nothing
    BY <1>1, <1>5 DEF Placed
  <2>2. View(s, k) \in SaleRecords
    BY <1>1, <2>1, LoadedIsSale
  <2>3. View(s, k).amount \in AmountsOf(k)
    BY <1>1, <2>1 DEF View, Sourced
  <2>4. New(s) = Overwrite(View(s, k), t.saw, Recorded(Doc(s)))
    BY <1>5 DEF New
  <2>5. New(s).amount \in {View(s, k).amount, Doc(s).amount}
    BY <1>3, <2>2, <2>4, OverwriteAmount
  <2>6. QED
    BY <1>1, <1>2, <2>3, <2>5
<1>6. QED
  BY <1>4, <1>5

\* What WriteSale does to what its transaction has written.
LEMMA WriteSaleWrites ==
    ASSUME PlacedInv, NEW s \in Sessions, WriteSale(s)
    PROVE  /\ txn[s].pc = "upsert" /\ txn[s] # Idle
           /\ txn'[s].feed = txn[s].feed /\ txn'[s].row = txn[s].row + 1
           /\ \A j \in Keys : \/ txn'[s].wrote[j] = txn[s].wrote[j]
                               \/ (j = Doc(s).key /\ txn'[s].wrote[j] = New(s))
<1> PICK t : t = txn[s]
  OBVIOUS
<1> PICK k : k = Doc(s).key
  OBVIOUS
<1> PICK new : new = New(s)
  OBVIOUS
<1>1. txn[s].pc = "upsert" /\ txn[s].pc # "idle" /\ OnRows(s)
  BY DEF WriteSale, At, OnRows
<1>2. /\ IntakeTypeOK /\ t # Idle /\ t \in Transaction /\ Placed(s) /\ k \in Keys
      /\ t.feed \in Feeds /\ t.row \in Nat \ {0} /\ Doc(s) \in Document /\ Doc(s).customer \in Customers
  BY <1>1, InPlace
<1>3. t.saw \in SaleRecords \cup {Nothing}
  BY <1>1, <1>2 DEF Placed
<1>4. new \in SaleRecords /\ Recorded(Doc(s)) \in SaleRecords
  <2>1. Recorded(Doc(s)) \in SaleRecords
    BY <1>2, RecordedIsSale
  <2>2. t.saw # Nothing => View(s, k) \in SaleRecords
    BY <1>1, <1>2, LoadedIsSale DEF Placed
  <2>3. QED
    BY <2>1, <2>2, OverwriteSale DEF New
<1>5. \/ txn' = [txn EXCEPT ![s] = GoTo([t EXCEPT !.memory[k] = t.saw], t.row + 1)]
      \/ txn' = [txn EXCEPT ![s] =
           GoTo([t EXCEPT !.wrote[k] = new,
                          !.memory[k] = Recorded(Doc(s)),
                          !.affected = @ \cup {Doc(s).customer}], t.row + 1)]
  BY <1>2 DEF WriteSale, New, IntakeTypeOK
<1>6. ASSUME NEW m \in Transaction, txn' = [txn EXCEPT ![s] = GoTo(m, t.row + 1)], m.feed = t.feed
      PROVE  txn'[s].feed = t.feed /\ txn'[s].row = t.row + 1 /\ txn'[s].wrote = m.wrote
  <2>1. t.row + 1 \in Nat \ {0} /\ m.feed \in Feeds
    BY <1>2, <1>6
  <2>2. txn'[s] = GoTo(m, t.row + 1)
    BY <1>2, <1>6 DEF IntakeTypeOK
  <2> PICK n, g : n = t.row + 1 /\ g = GoTo(m, n)
    OBVIOUS
  <2>3. g.wrote = m.wrote /\ g.feed = m.feed /\ g.row = n
    BY <2>1, GoesTo
  <2>4. QED
    BY <1>6, <2>2, <2>3
<1>7. ASSUME txn' = [txn EXCEPT ![s] = GoTo([t EXCEPT !.memory[k] = t.saw], t.row + 1)]
      PROVE  txn'[s].feed = t.feed /\ txn'[s].row = t.row + 1 /\ txn'[s].wrote = t.wrote
  <2> DEFINE m == [t EXCEPT !.memory[k] = t.saw]
  <2>1. m \in Transaction /\ m.feed = t.feed /\ m.wrote = t.wrote
    BY <1>2, <1>3 DEF Transaction
  <2>2. txn' = [txn EXCEPT ![s] = GoTo(m, t.row + 1)]
    BY <1>7
  <2> HIDE DEF m
  <2>3. QED
    BY <1>6, <2>1, <2>2
<1>8. ASSUME txn' = [txn EXCEPT ![s] =
               GoTo([t EXCEPT !.wrote[k] = new,
                              !.memory[k] = Recorded(Doc(s)),
                              !.affected = @ \cup {Doc(s).customer}], t.row + 1)]
      PROVE  /\ txn'[s].feed = t.feed /\ txn'[s].row = t.row + 1
             /\ txn'[s].wrote[k] = new
             /\ \A j \in Keys : j # k => txn'[s].wrote[j] = t.wrote[j]
  <2> DEFINE rec == Recorded(Doc(s))
             u == Doc(s).customer
             m == [t EXCEPT !.wrote[k] = new, !.memory[k] = rec, !.affected = @ \cup {u}]
  <2>1. txn' = [txn EXCEPT ![s] = GoTo(m, t.row + 1)]
    BY <1>8
  <2>2. rec \in SaleRecords /\ u \in Customers
    BY <1>2, <1>4
  <2> HIDE DEF rec, u
  <2>3. /\ m \in Transaction /\ m.feed = t.feed /\ m.wrote[k] = new
        /\ \A j \in Keys : j # k => m.wrote[j] = t.wrote[j]
    BY <1>2, <1>4, <2>2 DEF Transaction
  <2> HIDE DEF m
  <2>4. QED
    BY <1>6, <2>1, <2>3
<1>9. /\ txn'[s].feed = t.feed /\ txn'[s].row = t.row + 1
      /\ \A j \in Keys : \/ txn'[s].wrote[j] = t.wrote[j]
                          \/ (j = k /\ txn'[s].wrote[j] = new)
  <2> PICK wrote : wrote = txn'[s].wrote
    OBVIOUS
  <2>1. CASE wrote = t.wrote /\ txn'[s].feed = t.feed /\ txn'[s].row = t.row + 1
    BY <2>1
  <2>2. CASE /\ txn'[s].feed = t.feed /\ txn'[s].row = t.row + 1
             /\ wrote[k] = new
             /\ \A j \in Keys : j # k => wrote[j] = t.wrote[j]
    BY <2>2
  <2>3. QED
    BY <1>5, <1>7, <1>8, <2>1, <2>2
<1>10. QED
  BY <1>1, <1>2, <1>9

LEMMA WriteSaleSourced ==
    ASSUME PlacedInv, SourcedInv, NEW s \in Sessions, WriteSale(s)
    PROVE  Sourced(txn'[s].wrote)
<1>1. /\ txn[s].pc = "upsert" /\ txn[s] # Idle
      /\ \A j \in Keys : \/ txn'[s].wrote[j] = txn[s].wrote[j]
                          \/ (j = Doc(s).key /\ txn'[s].wrote[j] = New(s))
  BY WriteSaleWrites
<1>2. Sourced(sale) /\ Sourced(txn[s].wrote)
  BY <1>1 DEF SourcedInv
<1>3. New(s).amount \in AmountsOf(Doc(s).key)
  BY <1>1, <1>2, NewAmount
<1>4. QED
  BY <1>1, <1>2, <1>3 DEF Sourced

\* row is t after a step that neither writes a sale nor comes to a document.
OnRow(t) == t.pc \in {"reference", "refer", "sale", "upsert"}

Stays(row, t) ==
    /\ row.wrote = t.wrote /\ row.feed = t.feed /\ row.row = t.row
    /\ OnRow(row) => OnRow(t)

\* A step that leaves what s has written as it was, or is one of WriteSale, or
\* begins a transaction.
KeepsWritten(s) ==
    \/ txn[s] # Idle /\ Stays(txn'[s], txn[s])
    \/ WriteSale(s)
    \/ \A k \in Keys : txn'[s].wrote[k] = Nothing

\* Only WriteSale writes sales.
LEMMA OnlyWriteSaleWrites ==
    ASSUME PlacedInv, [Next]_vars, NEW s \in Sessions, txn'[s] # Idle
    PROVE  KeepsWritten(s)
<1>1. IntakeTypeOK
  BY DEF PlacedInv
<1>2. txn'[s] = txn[s] => KeepsWritten(s)
  BY DEF KeepsWritten, Stays
<1>3. ASSUME NEW r \in Sessions, NEW row, txn' = [txn EXCEPT ![r] = row], r # s
      PROVE  txn'[s] = txn[s]
  BY <1>1, <1>3 DEF IntakeTypeOK
<1>4. ASSUME NEW r \in Sessions, NEW row, txn' = [txn EXCEPT ![r] = row],
             \/ row = Idle
             \/ txn[r] # Idle /\ Stays(row, txn[r])
             \/ \A k \in Keys : row.wrote[k] = Nothing
      PROVE  KeepsWritten(s)
  <2>1. CASE r # s
    BY <1>2, <1>3, <1>4, <2>1
  <2>2. CASE r = s
    <3>1. txn'[s] = row
      BY <1>1, <1>4, <2>2 DEF IntakeTypeOK
    <3>2. QED
      BY <1>4, <2>2, <3>1 DEF KeepsWritten
  <2>3. QED
    BY <2>1, <2>2
<1>5. ASSUME NEW r \in Sessions, NEW f \in Feeds, BeginFeed(r, f) \/ BeginCancel(r, f)
      PROVE  KeepsWritten(s)
  <2>1. Nothing \in Feeds \cup {Nothing} /\ f \in Feeds \cup {Nothing} /\ {} \in SUBSET Customers
    OBVIOUS
  <2>2. CASE BeginFeed(r, f)
    <3> PICK t : t = Fresh("commit", f, {})
      OBVIOUS
    <3>1. t \in Transaction /\ t.feed = f /\ \A k \in Keys : t.wrote[k] = Nothing
      BY <2>1, FreshIsTransaction DEF Fresh
    <3>2. GoTo(t, 1).wrote = t.wrote
      BY <3>1, GoesTo
    <3>3. txn' = [txn EXCEPT ![r] = GoTo(t, 1)]
      BY <2>2 DEF BeginFeed
    <3>4. QED
      BY <1>4, <3>1, <3>2, <3>3
  <2>3. CASE BeginCancel(r, f)
    <3> PICK t : t = Fresh("cancel", f, {})
      OBVIOUS
    <3>1. \A k \in Keys : t.wrote[k] = Nothing
      BY DEF Fresh
    <3>2. txn' = [txn EXCEPT ![r] = t]
      BY <2>3 DEF BeginCancel
    <3>3. QED
      BY <1>4, <3>1, <3>2
  <2>4. QED
    BY <1>5, <2>2, <2>3
<1>6. ASSUME NEW r \in Sessions, BeginRecalculation(r)
      PROVE  KeepsWritten(s)
  <2>1. PICK S : txn' = [txn EXCEPT ![r] = Fresh("recalculate", Nothing, S)]
    BY <1>6 DEF BeginRecalculation
  <2> PICK t : t = Fresh("recalculate", Nothing, S)
    OBVIOUS
  <2>2. \A k \in Keys : t.wrote[k] = Nothing
    BY DEF Fresh
  <2>3. QED
    BY <1>4, <2>1, <2>2
<1>7. ASSUME NEW r \in Sessions,
             \/ ReadReference(r) \/ WriteReference(r) \/ ReadSale(r)
             \/ AddUp(r) \/ ReadProgress(r) \/ StoreProgress(r)
      PROVE  KeepsWritten(s)
  <2> PICK t : t = txn[r]
    OBVIOUS
  <2>1. txn[r].pc # "idle"
    BY <1>7 DEF ReadReference, WriteReference, ReadSale, AddUp, ReadProgress, StoreProgress, At
  <2>2. t # Idle /\ t \in Transaction
    BY <2>1, InPlace
  <2>3. \E row : txn' = [txn EXCEPT ![r] = row] /\ Stays(row, t)
    <3>1. CASE ReadReference(r)
      <4> DEFINE x == IF Doc(r).customer \in known \cup t.added THEN Doc(r).customer ELSE Nothing
                 row == [t EXCEPT !.pc = "refer", !.saw = x]
      <4>1. txn' = [txn EXCEPT ![r] = row]
        BY <1>1, <3>1 DEF ReadReference, IntakeTypeOK
      <4> HIDE DEF x
      <4>2. Stays(row, t)
        BY <2>2, <3>1 DEF ReadReference, At, Transaction, Stays, OnRow
      <4> HIDE DEF row
      <4>3. QED
        BY <4>1, <4>2
    <3>2. CASE WriteReference(r)
      <4> DEFINE x == t.added \cup {Doc(r).customer}
                 row == [t EXCEPT !.pc = "sale", !.added = x]
      <4>1. txn' = [txn EXCEPT ![r] = row]
        BY <1>1, <3>2 DEF WriteReference, IntakeTypeOK
      <4> HIDE DEF x
      <4>2. Stays(row, t)
        BY <2>2, <3>2 DEF WriteReference, At, Transaction, Stays, OnRow
      <4> HIDE DEF row
      <4>3. QED
        BY <4>1, <4>2
    <3>3. CASE ReadSale(r)
      <4> DEFINE x == Loaded(r, Doc(r).key)
                 row == [t EXCEPT !.pc = "upsert", !.saw = x]
      <4>1. txn' = [txn EXCEPT ![r] = row]
        BY <1>1, <3>3 DEF ReadSale, IntakeTypeOK
      <4> HIDE DEF x
      <4>2. Stays(row, t)
        BY <2>2, <3>3 DEF ReadSale, At, Transaction, Stays, OnRow
      <4> HIDE DEF row
      <4>3. QED
        BY <4>1, <4>2
    <3>4. CASE AddUp(r)
      <4>1. PICK u : txn' = [txn EXCEPT ![r].pc = "progress", ![r].customer = u, ![r].affected = @ \ {u},
                                        ![r].total = TotalOf([k \in Keys |-> Loaded(r, k)], u)]
        BY <3>4 DEF AddUp
      <4> DEFINE x == TotalOf([k \in Keys |-> Loaded(r, k)], u)
                 row == [t EXCEPT !.pc = "progress", !.customer = u, !.affected = @ \ {u}, !.total = x]
      <4>2. txn' = [txn EXCEPT ![r] = row]
        BY <1>1, <4>1 DEF IntakeTypeOK
      <4> HIDE DEF x
      <4>3. Stays(row, t)
        BY <2>2, <3>4 DEF AddUp, At, Transaction, Stays, OnRow
      <4> HIDE DEF row
      <4>4. QED
        BY <4>2, <4>3
    <3>5. CASE ReadProgress(r)
      <4> DEFINE x == progress[t.customer]
                 row == [t EXCEPT !.pc = "store", !.saw = x]
      <4>1. txn' = [txn EXCEPT ![r] = row]
        BY <1>1, <3>5 DEF ReadProgress, IntakeTypeOK
      <4> HIDE DEF x
      <4>2. Stays(row, t)
        BY <2>2, <3>5 DEF ReadProgress, At, Transaction, Stays, OnRow
      <4> HIDE DEF row
      <4>3. QED
        BY <4>1, <4>2
    <3>6. CASE StoreProgress(r)
      <4>1. PICK x : txn' = [txn EXCEPT ![r].pc = "total", ![r].result[t.customer] = x]
        BY <3>6 DEF StoreProgress
      <4> DEFINE row == [t EXCEPT !.pc = "total", !.result[t.customer] = x]
      <4>2. txn' = [txn EXCEPT ![r] = row]
        BY <1>1, <4>1 DEF IntakeTypeOK
      <4>3. Stays(row, t)
        BY <2>2, <3>6 DEF StoreProgress, At, Transaction, Stays, OnRow
      <4> HIDE DEF row
      <4>4. QED
        BY <4>2, <4>3
    <3>7. QED
      BY <1>7, <3>1, <3>2, <3>3, <3>4, <3>5, <3>6
  <2>4. QED
    BY <1>4, <2>2, <2>3
<1>8. ASSUME NEW r \in Sessions, WriteSale(r)
      PROVE  KeepsWritten(s)
  <2>1. CASE r = s
    BY <1>8, <2>1 DEF KeepsWritten
  <2>2. CASE r # s
    <3>1. PICK row : txn' = [txn EXCEPT ![r] = row]
      BY <1>8 DEF WriteSale
    <3>2. QED
      BY <1>2, <1>3, <2>2, <3>1
  <2>3. QED
    BY <2>1, <2>2
<1>9. ASSUME NEW r \in Sessions, Release(r)
      PROVE  KeepsWritten(s)
  <2>1. txn' = [txn EXCEPT ![r] = Idle]
    BY <1>9 DEF Release
  <2>2. QED
    BY <1>4, <2>1
<1>10. ASSUME UNCHANGED txn
       PROVE  KeepsWritten(s)
  BY <1>2, <1>10
<1>11. CASE Next
  <2>1. ASSUME NEW r \in Sessions, Step(r)
        PROVE  KeepsWritten(s)
    <3>1. CASE Commit(r) \/ Collide(r) \/ Refuse(r)
      BY <1>9, <3>1 DEF Commit, Collide, Refuse, RollBack
    <3>2. CASE WriteSale(r)
      BY <1>8, <3>2
    <3>3. QED
      BY <1>7, <2>1, <3>1, <3>2 DEF Step
  <2>2. ASSUME NEW r \in Sessions, Disconnect(r) \/ DetectDeadlock(r)
        PROVE  KeepsWritten(s)
    BY <1>9, <2>2 DEF Disconnect, DetectDeadlock, RollBack
  <2>3. CASE \/ \E k \in HandKeys, u \in Handled, a \in Amounts : EnterSale(k, u, a)
             \/ \E u \in Handled : ArchiveCustomer(u)
    BY <1>10, <2>3 DEF EnterSale, ArchiveCustomer
  <2>4. QED
    BY <1>5, <1>6, <1>11, <2>1, <2>2, <2>3 DEF Next
<1>12. CASE UNCHANGED vars
  BY <1>10, <1>12 DEF vars
<1>13. QED
  BY <1>11, <1>12

LEMMA NextSourced ==
    ASSUME PlacedInv, SourcedInv, [Next]_vars
    PROVE  SourcedInv'
<1>1. ASSUME NEW s \in Sessions, txn'[s] # Idle
      PROVE  Sourced(txn'[s].wrote)
  <2>1. CASE txn[s] # Idle /\ Stays(txn'[s], txn[s])
    BY <2>1 DEF SourcedInv, Stays
  <2>2. CASE WriteSale(s)
    BY <2>2, WriteSaleSourced
  <2>3. CASE \A k \in Keys : txn'[s].wrote[k] = Nothing
    BY <2>3 DEF Sourced
  <2>4. QED
    BY <1>1, <2>1, <2>2, <2>3, OnlyWriteSaleWrites DEF KeepsWritten
<1>2. Sourced(sale')
  <2>1. ASSUME NEW s \in Sessions, Commit(s)
        PROVE  Sourced(sale')
    <3>1. txn[s].pc # "idle"
      BY <2>1 DEF Commit, At
    <3>2. Sourced(sale) /\ Sourced(txn[s].wrote)
      BY <3>1, InPlace DEF SourcedInv
    <3>3. \A k \in Keys : sale'[k] = View(s, k)
      BY <2>1 DEF Commit
    <3>4. QED
      BY <3>2, <3>3 DEF Sourced, View
  <2>2. ASSUME NEW k \in HandKeys, NEW u \in Handled, NEW a \in Amounts, EnterSale(k, u, a)
        PROVE  Sourced(sale')
    <3> DEFINE x == [customer |-> u, amount |-> a, cancelled |-> FALSE, hash |-> Nothing]
    <3>1. sale' = [sale EXCEPT ![k] = x]
      BY <2>2 DEF EnterSale
    <3>2. x.amount \in AmountsOf(k)
      BY OtherAmounts, IntakeAssumption
    <3> HIDE DEF x
    <3>3. DOMAIN sale = Keys
      BY DEF PlacedInv, IntakeTypeOK
    <3>4. \A j \in Keys : sale'[j] = sale[j] \/ (j = k /\ sale'[j] = x)
      BY <3>1, <3>3
    <3>5. QED
      BY <3>2, <3>4 DEF Sourced, SourcedInv
  <2>3. CASE UNCHANGED <<sale, batch, progress>>
    BY <2>3 DEF SourcedInv
  <2>4. QED
    BY <2>1, <2>2, <2>3, OnlyCommitsChangeSales
<1>3. QED
  BY <1>1, <1>2 DEF SourcedInv, Sourced

LEMMA AlwaysSourced == Spec => []SourcedInv
<1>1. Init => SourcedInv
  <2> SUFFICES ASSUME Init PROVE SourcedInv
    OBVIOUS
  <2>1. sale = Opening /\ \A s \in Sessions : txn[s] = Idle
    BY DEF Init
  <2>2. \A k \in Keys : Opening[k] # Nothing => Opening[k].amount \in AmountsOf(k)
    BY OtherAmounts
  <2>3. QED
    BY <2>1, <2>2 DEF SourcedInv, Sourced
<1>2. PlacedInv /\ PlacedInv' /\ SourcedInv /\ [Next]_vars => SourcedInv'
  BY NextSourced
<1>3. QED
  BY <1>1, <1>2, AlwaysPlaced, PTL DEF Spec

\* An amount on record is one that a document, the sales imported before or
\* staff gave for the sale's key, although an update writes only the columns
\* that differ from what its session had loaded, into a row that others may
\* have written since (imports/service.py:742-748, sync/service.py:802-810).
THEOREM AmountsAreGiven ==
    Spec => [](\A k \in Keys : sale[k] # Nothing => sale[k].amount \in AmountsOf(k))
<1>1. SourcedInv => \A k \in Keys : sale[k] # Nothing => sale[k].amount \in AmountsOf(k)
  BY DEF SourcedInv, Sourced
<1>2. QED
  BY <1>1, AlwaysSourced, PTL

\* Every number of up to nine digits means in a file what was written there,
\* with a decimal point, a decimal comma or commas between thousands, for each
\* scale up to 3, but for the decimal comma that _looks_like_thousands_with_commas
\* takes for one between thousands (imports/service.py:85-112).
THEOREM EveryAmountReadsBack == \A n \in Writable : ReadsBack(n)
  BY WrittenReadsBack

\* Whatever feeds are committed, and by however many sessions, each amount on
\* record means the same, or a thousand times as much if it is Mistaken, when
\* it comes again with a file (imports/service.py:85-112), if the amounts that
\* can get on record at all are numbers of up to nine digits.
THEOREM AmountsAreReadBack ==
    ASSUME SamplesSuffice PROVE Spec => []AmountsReadBack
<1>1. SourcedInv => AmountsReadBack
  <2> SUFFICES ASSUME SourcedInv, NEW n \in Samples \cup OnRecord PROVE n \in ReadingBack
    BY DEF AmountsReadBack
  <2>1. n \in Samples
    <3>1. CASE n \in OnRecord
      <4>1. PICK k \in Keys : sale[k] # Nothing /\ n = Abs(sale[k].amount)
        BY <3>1 DEF OnRecord
      <4>2. sale[k].amount \in AmountsOf(k)
        BY <4>1 DEF SourcedInv, Sourced
      <4>3. QED
        BY <4>1, <4>2 DEF SamplesSuffice
    <3>2. QED
      BY <3>1
  <2>2. n \in Writable
    BY <2>1 DEF SamplesSuffice
  <2>3. QED
    BY <2>1, <2>2, WrittenReadsBack DEF ReadingBack
<1>2. QED
  BY <1>1, AlwaysSourced, PTL

----------------------------------------------------------------------------
(* What becomes of a file's lines.                                         *)

\* f counts the numbers in S up to each of them.
CountsUp(f, S) ==
    /\ IsFiniteSet(S) /\ S \subseteq Nat
    /\ f = [i \in S |-> Cardinality({j \in S : j <= i})]

\* Places tell the numbers of a finite set apart and take every value.
LEMMA PlacesCount ==
    ASSUME NEW S, NEW f, CountsUp(f, S)
    PROVE  /\ \A i, k \in S : i < k => f[i] < f[k]
           /\ \A i \in S : f[i] \in 1..Cardinality(S)
           /\ \A n \in 1..Cardinality(S) : \E i \in S : f[i] = n
<1> USE DEF CountsUp
<1> DEFINE B(i) == {j \in S : j <= i}
<1> PICK c : c = Cardinality(S)
  OBVIOUS
<1>1. c \in Nat
  BY FS_CardinalityType
<1>2. ASSUME NEW i \in S
      PROVE  IsFiniteSet(B(i)) /\ Cardinality(B(i)) \in 1..c
  <2>1. B(i) \in SUBSET S /\ B(i) # {}
    OBVIOUS
  <2>2. IsFiniteSet(B(i)) /\ Cardinality(B(i)) <= c
    BY <2>1, FS_Subset
  <2> HIDE DEF B
  <2>3. Cardinality(B(i)) \in Nat /\ Cardinality(B(i)) # 0
    BY <2>1, <2>2, FS_CardinalityType, FS_EmptySet
  <2>4. QED
    BY <1>1, <2>2, <2>3
<1>3. ASSUME NEW i \in S, NEW k \in S, i < k
      PROVE  Cardinality(B(i)) < Cardinality(B(k))
  <2>1. B(i) \in SUBSET B(k) /\ B(i) # B(k)
    <3>1. k \in B(k) /\ k \notin B(i)
      BY <1>3
    <3>2. \A j \in S : j <= i => j <= k
      BY <1>3
    <3>3. QED
      BY <3>1, <3>2
  <2>2. PICK a, b : a = Cardinality(B(i)) /\ b = Cardinality(B(k))
    OBVIOUS
  <2>3. a \in 1..c /\ b \in 1..c /\ IsFiniteSet(B(k))
    BY <1>2, <2>2
  <2> HIDE DEF B
  <2>4. a <= b /\ a # b
    BY <2>1, <2>2, <2>3, FS_Subset
  <2>5. QED
    BY <1>1, <2>2, <2>3, <2>4
<1>4. \A i \in S : f[i] = Cardinality(B(i))
  OBVIOUS
<1>5. \A i, k \in S : i < k => f[i] < f[k]
  BY <1>3, <1>4
<1>6. \A i \in S : f[i] \in 1..c
  BY <1>2, <1>4
<1> HIDE DEF B
<1>7. \A n \in 1..c : \E i \in S : f[i] = n
  <2>1. f \in [S -> 1..c]
    BY <1>6
  <2>2. \A i, k \in S : i # k => f[i] # f[k]
    <3> SUFFICES ASSUME NEW i \in S, NEW k \in S, i < k PROVE f[i] # f[k]
      OBVIOUS
    <3>1. f[i] < f[k] /\ f[i] \in 1..c /\ f[k] \in 1..c
      BY <1>5, <1>6
    <3>2. QED
      BY <1>1, <3>1
  <2>3. f \in Injection(S, 1..c)
    BY <2>1, <2>2 DEF Injection, IsInjective
  <2>4. IsFiniteSet(1..c) /\ Cardinality(1..c) = c
    BY <1>1, FS_Interval
  <2>5. f \in Surjection(S, 1..c)
    BY <2>3, <2>4, FS_Injection
  <2>6. QED
    BY <2>5 DEF Surjection
<1>8. QED
  BY <1>5, <1>6, <1>7

\* The number of the line of each row.
LineOf(file) ==
    [n \in 1..Cardinality(ValidLines(file)) |->
       CHOOSE i \in ValidLines(file) : PlaceOf(file, i) = n]

LEMMA LinesOfRows ==
    ASSUME NEW file, IsFile(file)
    PROVE  /\ DOMAIN PreviewedRows(file) = DOMAIN LineOf(file)
           /\ \A n \in DOMAIN LineOf(file) : /\ LineOf(file)[n] \in ValidLines(file)
                                             /\ PlaceOf(file, LineOf(file)[n]) = n
                                             /\ PreviewedRows(file)[n] = Normalized(file[LineOf(file)[n]])
           /\ \A i \in ValidLines(file) : \E n \in DOMAIN LineOf(file) : LineOf(file)[n] = i
           /\ \A i, k \in ValidLines(file) : i < k => PlaceOf(file, i) < PlaceOf(file, k)
<1> PICK S, l : S = ValidLines(file) /\ l = Len(file)
  OBVIOUS
<1> PICK f : f = [i \in S |-> Cardinality({j \in S : j <= i})]
  OBVIOUS
<1>1. S \in SUBSET (1..l) /\ l \in Nat
  BY DEF ValidLines, IsFile
<1>2. IsFiniteSet(S) /\ S \subseteq Nat
  <2>1. IsFiniteSet(1..l)
    BY <1>1, FS_Interval
  <2>2. QED
    BY <1>1, <2>1, FS_Subset
<1>3. /\ \A i, k \in S : i < k => f[i] < f[k]
      /\ \A i \in S : f[i] \in 1..Cardinality(S)
      /\ \A n \in 1..Cardinality(S) : \E i \in S : f[i] = n
  <2>1. CountsUp(f, S)
    BY <1>2 DEF CountsUp
  <2>2. QED
    BY <2>1, PlacesCount
<1>4. \A i \in S : PlaceOf(file, i) = f[i]
  BY DEF PlaceOf
<1> PICK c : c = Cardinality(S)
  OBVIOUS
<1> PICK g : g = LineOf(file)
  OBVIOUS
<1>5. g = [n \in 1..c |-> CHOOSE i \in S : PlaceOf(file, i) = n]
  BY DEF LineOf
<1>6. ASSUME NEW n \in 1..c
      PROVE  g[n] \in S /\ PlaceOf(file, g[n]) = n
  <2>1. \E i \in S : PlaceOf(file, i) = n
    BY <1>3, <1>4
  <2>2. g[n] = CHOOSE i \in S : PlaceOf(file, i) = n
    BY <1>5
  <2>3. QED
    BY <2>1, <2>2
<1>7. ASSUME NEW i \in S
      PROVE  \E n \in 1..c : g[n] = i
  <2> PICK n : n = f[i]
    OBVIOUS
  <2>1. n \in 1..c
    BY <1>3
  <2>2. g[n] \in S /\ f[g[n]] = f[i]
    BY <1>4, <1>6, <2>1
  <2> PICK k : k = g[n]
    OBVIOUS
  <2>3. k \in S /\ k \in Nat /\ i \in Nat /\ f[k] = n /\ n \in Nat
    BY <1>2, <2>1, <2>2
  <2>4. f[i] = n
    OBVIOUS
  <2>5. ASSUME k < i \/ i < k
        PROVE  n < n
    <3>1. f[k] < f[i] \/ f[i] < f[k]
      BY <1>3, <2>3, <2>5
    <3>2. QED
      BY <2>3, <2>4, <3>1
  <2>6. k = i
    BY <2>3, <2>5
  <2>7. QED
    BY <2>1, <2>6
<1>8. DOMAIN PreviewedRows(file) = 1..c /\ DOMAIN g = 1..c
  BY <1>5 DEF PreviewedRows
<1>9. \A n \in 1..c : PreviewedRows(file)[n] = Normalized(file[g[n]])
  BY <1>5 DEF PreviewedRows
<1>10. \A i, k \in S : i < k => PlaceOf(file, i) < PlaceOf(file, k)
  <2> SUFFICES ASSUME NEW i \in S, NEW k \in S, i < k
               PROVE  PlaceOf(file, i) < PlaceOf(file, k)
    OBVIOUS
  <2>1. f[i] < f[k]
    BY <1>3
  <2>2. QED
    BY <1>4, <2>1
<1>11. QED
  BY <1>6, <1>7, <1>8, <1>9, <1>10

\* Of two rows of a batch the one that comes first is of the line that comes
\* first, every valid line has its row, and no two rows have one key: preview
\* makes all lines that share one invalid (imports/service.py:455-467), so that
\* a commit never updates a sale that it has written itself.
THEOREM BatchesAreTheirFiles ==
    ASSUME NEW file, IsFile(file)
    PROVE  /\ \A i \in ValidLines(file) : \E n \in DOMAIN PreviewedRows(file) :
                PreviewedRows(file)[n] = Normalized(file[i])
           /\ \A m, n \in DOMAIN PreviewedRows(file) : m < n =>
                /\ \E i, k \in ValidLines(file) : /\ i < k
                                                  /\ PreviewedRows(file)[m] = Normalized(file[i])
                                                  /\ PreviewedRows(file)[n] = Normalized(file[k])
                /\ PreviewedRows(file)[m].key # PreviewedRows(file)[n].key
<1> PICK made, g, S : made = PreviewedRows(file) /\ g = LineOf(file) /\ S = ValidLines(file)
  OBVIOUS
<1>1. /\ DOMAIN made = DOMAIN g
      /\ \A n \in DOMAIN g : g[n] \in S /\ PlaceOf(file, g[n]) = n /\ made[n] = Normalized(file[g[n]])
      /\ \A i \in S : \E n \in DOMAIN g : g[n] = i
      /\ \A i, k \in S : i < k => PlaceOf(file, i) < PlaceOf(file, k)
  BY LinesOfRows
<1>2. S \subseteq Nat /\ DOMAIN g \subseteq Nat
  BY DEF ValidLines, LineOf, IsFile
<1>3. \A i \in S : \E n \in DOMAIN made : made[n] = Normalized(file[i])
  BY <1>1
<1>4. ASSUME NEW m \in DOMAIN made, NEW n \in DOMAIN made, m < n
      PROVE  /\ \E i, k \in S : i < k /\ made[m] = Normalized(file[i]) /\ made[n] = Normalized(file[k])
             /\ made[m].key # made[n].key
  <2> PICK i, k : i = g[m] /\ k = g[n]
    OBVIOUS
  <2>1. /\ i \in S /\ made[m] = Normalized(file[i]) /\ PlaceOf(file, i) = m
        /\ k \in S /\ made[n] = Normalized(file[k]) /\ PlaceOf(file, k) = n
    BY <1>1
  <2>2. m \in Nat /\ n \in Nat /\ i \in Nat /\ k \in Nat
    BY <1>1, <1>2, <2>1
  <2>3. i < k
    <3>1. i # k
      BY <1>4, <2>1, <2>2
    <3>2. ~(k < i)
      <4> SUFFICES ASSUME k < i PROVE FALSE
        OBVIOUS
      <4>1. PlaceOf(file, k) < PlaceOf(file, i)
        BY <1>1, <2>1
      <4>2. n < m
        BY <2>1, <4>1
      <4>3. QED
        BY <1>4, <2>2, <4>2
    <3>3. QED
      BY <2>2, <3>1, <3>2
  <2>4. IdempotencyKey(file[i]) # IdempotencyKey(file[k])
    <3>1. Sound(file[i]) /\ ~Duplicate(file, k) /\ i \in DOMAIN file
      BY <2>1 DEF ValidLines
    <3>2. i # k
      BY <2>2, <2>3
    <3>3. QED
      BY <3>1, <3>2 DEF Duplicate
  <2>5. made[m].key = IdempotencyKey(file[i]) /\ made[n].key = IdempotencyKey(file[k])
    BY <2>1 DEF Normalized
  <2>6. QED
    BY <2>1, <2>3, <2>4, <2>5
<1>5. QED
  BY <1>3, <1>4

----------------------------------------------------------------------------
(* Batches and their own sales.                                            *)

\* What a transaction has written is of the documents before the one at hand.
OnceInv ==
    \A s \in Sessions : txn[s] # Idle =>
      \A k \in Keys : txn[s].wrote[k] # Nothing =>
        \E i \in DOMAIN RowsOf[txn[s].feed] :
          /\ RowsOf[txn[s].feed][i].key = k
          /\ OnRow(txn[s]) => i < txn[s].row

LEMMA NextOnce ==
    ASSUME PlacedInv, OnceInv, [Next]_vars
    PROVE  OnceInv'
<1> SUFFICES ASSUME NEW s \in Sessions, txn'[s] # Idle,
                    NEW k \in Keys, txn'[s].wrote[k] # Nothing
             PROVE  \E i \in DOMAIN RowsOf[txn'[s].feed] :
                      /\ RowsOf[txn'[s].feed][i].key = k
                      /\ OnRow(txn'[s]) => i < txn'[s].row
  BY DEF OnceInv
<1> PICK t, row : t = txn[s] /\ row = txn'[s]
  OBVIOUS
<1>1. CASE t # Idle /\ Stays(row, t)
  BY <1>1 DEF OnceInv, Stays
<1>2. CASE WriteSale(s)
  <2>1. /\ t.pc = "upsert" /\ t # Idle /\ row.feed = t.feed /\ row.row = t.row + 1
        /\ \/ row.wrote[k] = t.wrote[k]
           \/ k = Doc(s).key
    BY <1>2, WriteSaleWrites
  <2>2. t.feed \in Feeds /\ t.row \in DOMAIN RowsOf[t.feed] /\ t.row \in Nat
    <3>1. t.pc # "idle" /\ OnRows(s)
      BY <2>1 DEF OnRows
    <3>2. QED
      BY <3>1, InPlace
  <2>3. CASE row.wrote[k] = t.wrote[k]
    <3>1. PICK i \in DOMAIN RowsOf[t.feed] : RowsOf[t.feed][i].key = k /\ i < t.row
      BY <2>1, <2>3 DEF OnceInv, OnRow
    <3>2. i \in Nat
      BY <2>2, DocsAreDocuments
    <3>3. i < t.row + 1
      BY <2>2, <3>1, <3>2
    <3>4. QED
      BY <2>1, <3>1, <3>3
  <2>4. CASE k = Doc(s).key
    <3>1. RowsOf[t.feed][t.row].key = k /\ t.row < t.row + 1
      BY <2>2, <2>4 DEF Doc
    <3>2. QED
      BY <2>1, <2>2, <3>1
  <2>5. QED
    BY <2>1, <2>3, <2>4
<1>3. QED
  BY <1>1, <1>2, OnlyWriteSaleWrites DEF KeepsWritten

\* A batch writes each of its sales once: at any of its documents it has not
\* written the sale with that document's key, because preview has made all
\* lines that share one invalid (imports/service.py:455-467).  So a row that
\* commit_batch finds and updates (:742-748) is never one of its own.
THEOREM BatchesWriteEachSaleOnce ==
    Spec => [](\A s \in Sessions :
                 /\ txn[s] # Idle
                 /\ OnRow(txn[s])
                 /\ SourceOf[txn[s].feed] = "csv"
                 => txn[s].wrote[Doc(s).key] = Nothing)
<1> DEFINE Once == \A s \in Sessions :
                     /\ txn[s] # Idle
                     /\ OnRow(txn[s])
                     /\ SourceOf[txn[s].feed] = "csv"
                     => txn[s].wrote[Doc(s).key] = Nothing
<1>1. Init => OnceInv
  BY DEF Init, OnceInv
<1>2. PlacedInv /\ OnceInv /\ [Next]_vars => OnceInv'
  BY NextOnce
<1>3. PlacedInv /\ OnceInv => Once
  <2> SUFFICES ASSUME PlacedInv, OnceInv, NEW s \in Sessions, NEW t, t = txn[s],
                      t # Idle, OnRow(t), SourceOf[t.feed] = "csv", t.wrote[Doc(s).key] # Nothing
               PROVE  FALSE
    OBVIOUS
  <2>1. t.feed \in Feeds /\ t.row \in DOMAIN RowsOf[t.feed] /\ t.row \in Nat /\ Doc(s).key \in Keys
    <3>1. t.pc # "idle" /\ OnRows(s)
      BY DEF OnRow, OnRows
    <3>2. QED
      BY <3>1, InPlace
  <2>2. PICK i \in DOMAIN RowsOf[t.feed] : RowsOf[t.feed][i].key = Doc(s).key /\ i < t.row
    BY <2>1 DEF OnceInv
  <2> PICK made : made = RowsOf[t.feed]
    OBVIOUS
  <2>3. made = PreviewedRows(FileOf[t.feed])
    BY <2>1 DEF RowsOf
  <2>4. made[i].key # made[t.row].key
    <3>1. IsFile(FileOf[t.feed])
      BY <2>1, IntakeAssumption
    <3>2. i \in DOMAIN made /\ t.row \in DOMAIN made
      BY <2>1, <2>2
    <3>3. QED
      BY <2>2, <2>3, <3>1, <3>2, BatchesAreTheirFiles
  <2>5. QED
    BY <2>2, <2>4 DEF Doc
<1> HIDE DEF Once
<1>4. Spec => []Once
  BY <1>1, <1>2, <1>3, AlwaysPlaced, PTL DEF Spec
<1>5. QED
  BY <1>4 DEF Once
==============================================================================
