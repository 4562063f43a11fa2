--------------------------- MODULE ErpFetchProofs ---------------------------
(***************************************************************************)
(* Proofs about ErpFetch, for any documents, counterparties, workers, page *)
(* size and number of edits.                                               *)
(*                                                                         *)
(* FetchInv adds to the type what keeps the copy from going back.  Alone:  *)
(* one worker at a time executes a run.  Resting: a worker without a run   *)
(* holds nothing to write.  Behind: what is recorded, and what a run is    *)
(* about to record, are versions that the ERP has shown, the latter not    *)
(* the older one.  Three more invariants follow from it: Touched (a run has*)
(* affected the customers it writes for), Passed (what a run has passed by *)
(* it has as it is) and Earned (what a total adds up is the customer's).   *)
(***************************************************************************)
EXTENDS ErpFetch, FiniteSetTheorems, TLAPS

Alone == \A v, w \in Workers : ~At(v, "idle") /\ ~At(w, "idle") => v = w

Resting == \A w \in Workers : At(w, "idle") => run[w].wrote = [d \in Docs |-> 0]

Behind ==
    \A d \in Docs :
      /\ recorded[d] <= Len(versions[d])
      /\ \A w \in Workers :
           \/ run[w].wrote[d] = 0
           \/ recorded[d] <= run[w].wrote[d] /\ run[w].wrote[d] <= Len(versions[d])

FetchInv == FetchTypeOK /\ Alone /\ Resting /\ Behind

----------------------------------------------------------------------------
(* Types.                                                                  *)

LEMMA IdleIsRun == Idle \in Run
BY DEF Idle, Run

LEMMA RunFields ==
    ASSUME FetchTypeOK, NEW w \in Workers
    PROVE  /\ run[w].pc \in {"idle", "connect", "customers", "sales", "recalculate"}
           /\ run[w].offset \in Nat /\ run[w].tries \in Nat
           /\ run[w].found \subseteq Clients
           /\ run[w].wrote \in [Docs -> Nat]
           /\ run[w].failed \in BOOLEAN
           /\ run[w].affected \subseteq Clients
BY DEF FetchTypeOK, Run

LEMMA ListingFinite ==
    ASSUME ErpAssumption PROVE IsFiniteSet(Listing)
<1>1. Listing \subseteq Docs
  BY DEF Listing
<1> QED
  BY <1>1, FS_Subset DEF ErpAssumption

LEMMA PageOfFinite ==
    ASSUME NEW list, IsFiniteSet(list), NEW key, NEW offset
    PROVE  /\ Page(list, key, offset) \subseteq list
           /\ Cardinality(Page(list, key, offset)) \in Nat
<1>1. Page(list, key, offset) \subseteq list
  BY DEF Page
<1> QED
  BY <1>1, FS_Subset, FS_CardinalityType

\* Whatever the provider, a page of sales is a finite set of documents.
LEMMA SalesPageOfDocs ==
    ASSUME ErpAssumption, FetchTypeOK, NEW offset
    PROVE  SalesPage(offset) \subseteq Docs /\ Cardinality(SalesPage(offset)) \in Nat
<1> DEFINE demands == {d \in Docs : DemandListed(d)}
           invoices == {d \in Docs : InvoiceListed(d)}
           documents == {d \in Docs : DocumentListed(d)}
<1>1. /\ demands \subseteq Docs /\ IsFiniteSet(demands)
      /\ invoices \subseteq Docs /\ IsFiniteSet(invoices)
      /\ documents \subseteq Docs /\ IsFiniteSet(documents)
  BY FS_Subset DEF ErpAssumption
<1>2. provider \in {"moysklad", "odoo", "one_c"}
  BY DEF FetchTypeOK, ErpAssumption
<1>3. \E list \in {demands, invoices, documents} :
        SalesPage(offset) = Page(list, Place, offset)
  BY <1>2 DEF SalesPage, DemandPage, InvoicePage, DocumentPage
<1> HIDE DEF demands, invoices, documents
<1> QED
  BY <1>1, <1>3, PageOfFinite

LEMMA TriesEdit ==
    \A r \in Run, n \in Nat :
      LET s == [r EXCEPT !.tries = n]
      IN  s \in Run /\ s.pc = r.pc /\ s.wrote = r.wrote /\ s.affected = r.affected
BY DEF Run

LEMMA RunEdits ==
    /\ \A r \in Run, n \in Nat :
         LET s == [r EXCEPT !.offset = n, !.tries = 0]
         IN  s \in Run /\ s.pc = r.pc /\ s.wrote = r.wrote /\ s.affected = r.affected
    /\ \A r \in Run, pc \in {"sales", "recalculate"} :
         LET s == [r EXCEPT !.offset = 0, !.tries = 0, !.pc = pc]
         IN  s \in Run /\ s.pc = pc /\ s.wrote = r.wrote /\ s.affected = r.affected
    /\ \A r \in Run :
         LET s == [r EXCEPT !.pc = "connect"]
         IN  s \in Run /\ s.pc = "connect" /\ s.wrote = r.wrote /\ s.affected = r.affected
    /\ \A r \in Run :
         LET s == [r EXCEPT !.pc = "customers", !.tries = 0]
         IN  s \in Run /\ s.pc = "customers" /\ s.wrote = r.wrote /\ s.affected = r.affected
BY DEF Run

\* Turning the page changes the cursor, the tries and the place in the run.
LEMMA TurnKeeps ==
    ASSUME NEW r \in Run, NEW page, Cardinality(page) \in Nat,
           NEW next \in {"sales", "recalculate"}
    PROVE  /\ Turn(r, page, next) \in Run
           /\ Turn(r, page, next).pc \in {r.pc, next}
           /\ Turn(r, page, next).wrote = r.wrote
           /\ Turn(r, page, next).affected = r.affected
<1> DEFINE n == r.offset + Cardinality(page)
           full == [r EXCEPT !.offset = n, !.tries = 0]
           last == [r EXCEPT !.offset = 0, !.tries = 0, !.pc = next]
           t == Turn(r, page, next)
<1>1. t \in {full, last}
  BY DEF Turn
<1>2. full \in Run /\ full.pc = r.pc /\ full.wrote = r.wrote /\ full.affected = r.affected
  <2>1. n \in Nat
    BY DEF Run
  <2>2. \A k \in Nat :
          LET s == [r EXCEPT !.offset = k, !.tries = 0]
          IN  s \in Run /\ s.pc = r.pc /\ s.wrote = r.wrote /\ s.affected = r.affected
    BY RunEdits
  <2> QED
    BY <2>1, <2>2
<1>3. last \in Run /\ last.pc = next /\ last.wrote = r.wrote /\ last.affected = r.affected
  <2>1. \A pc \in {"sales", "recalculate"} :
          LET s == [r EXCEPT !.offset = 0, !.tries = 0, !.pc = pc]
          IN  s \in Run /\ s.pc = pc /\ s.wrote = r.wrote /\ s.affected = r.affected
    BY RunEdits
  <2> QED
    BY <2>1
<1> HIDE DEF t, full, last
<1>4. t \in Run /\ t.pc \in {r.pc, next} /\ t.wrote = r.wrote /\ t.affected = r.affected
  BY <1>1, <1>2, <1>3
<1> QED
  BY <1>4 DEF t

LEMMA ViewType ==
    ASSUME FetchTypeOK, NEW w \in Workers
    PROVE  View(w) \in [Docs -> Nat]
<1>1. run[w].wrote \in [Docs -> Nat] /\ recorded \in [Docs -> Nat]
  BY RunFields DEF FetchTypeOK
<1>2. \A d \in Docs : run[w].wrote[d] \in Nat /\ recorded[d] \in Nat
  BY <1>1
<1> QED
  BY <1>2 DEF View

LEMMA CountedType ==
    ASSUME NEW record \in [Docs -> Nat], NEW c
    PROVE  Counted(record, c) \subseteq Sales
<1>1. SUFFICES ASSUME NEW d \in Docs, record[d] # 0 PROVE <<d, record[d]>> \in Sales
  BY DEF Counted
<1>2. record[d] \in Nat \ {0}
  BY <1>1
<1> QED
  BY <1>2 DEF Sales

\* A page of customers that has been upserted.
LEMMA CustomersStep ==
    ASSUME ErpAssumption, FetchTypeOK, NEW w \in Workers, FetchCustomers(w)
    PROVE  \E r \in Run : /\ run' = [run EXCEPT ![w] = r]
                          /\ r.pc # "idle"
                          /\ r.wrote = run[w].wrote /\ r.affected = run[w].affected
<1> DEFINE page == CustomersPage(run[w].offset)
           s == CustomersUpserted(w, page)
           r == Turn(s, page, "sales")
<1>1. page \subseteq parties /\ Cardinality(page) \in Nat
  <2>1. IsFiniteSet(parties)
    BY FS_Subset DEF ErpAssumption, FetchTypeOK
  <2> QED
    BY <2>1, PageOfFinite DEF CustomersPage
<1>2. s \in Run /\ s.pc = "customers" /\ s.wrote = run[w].wrote /\ s.affected = run[w].affected
  <2>1. run[w].found \cup page \subseteq Clients
    BY <1>1, RunFields DEF FetchTypeOK
  <2>2. run[w] \in Run /\ run[w].pc = "customers"
    BY DEF FetchTypeOK, FetchCustomers, At
  <2> QED
    BY <2>1, <2>2 DEF CustomersUpserted, Run
<1>3. r \in Run /\ r.pc \in {"customers", "sales"} /\ r.wrote = run[w].wrote /\ r.affected = run[w].affected
  BY <1>1, <1>2, TurnKeeps
<1>4. run' = [run EXCEPT ![w] = r]
  BY DEF FetchCustomers
<1> QED
  BY <1>3, <1>4

\* The run with a page of documents upserted.
LEMMA SalesUpsertedRun ==
    ASSUME ErpAssumption, FetchTypeOK, NEW w \in Workers, run[w].pc = "sales"
    PROVE  LET page == SalesPage(run[w].offset)
               new == {d \in page : Changes(w, d)}
               s == SalesUpserted(w, page)
           IN  /\ s \in Run /\ s.pc = "sales" /\ s.offset = run[w].offset
               /\ s.wrote = [d \in Docs |-> IF d \in new THEN Len(versions[d])
                                                        ELSE run[w].wrote[d]]
               /\ s.affected = run[w].affected \cup {Mapped(Now(d)).customer : d \in new}
               /\ s.failed = (run[w].failed \/ \E d \in page : Fails(w, d))
<1> DEFINE page == SalesPage(run[w].offset)
           new == {d \in page : Changes(w, d)}
           s == SalesUpserted(w, page)
           wrote == [d \in Docs |-> IF d \in new THEN Len(versions[d]) ELSE run[w].wrote[d]]
           affected == run[w].affected \cup {Mapped(Now(d)).customer : d \in new}
           failed == run[w].failed \/ \E d \in page : Fails(w, d)
<1>1. run[w] \in Run
  BY DEF FetchTypeOK
<1>2. wrote \in [Docs -> Nat]
  BY RunFields DEF FetchTypeOK
<1>3. \A d \in new : Mapped(Now(d)).customer \in Clients
  BY RunFields DEF Changes, Fails, FetchTypeOK
<1>4. s = [run[w] EXCEPT !.wrote = wrote, !.affected = affected, !.failed = failed]
  <2>1. run[w].wrote \in [Docs -> Nat]
    BY RunFields
  <2> QED
    BY <1>1, <2>1 DEF SalesUpserted, Run
<1>5. affected \subseteq Clients
  BY <1>3, RunFields
<1>6. failed \in BOOLEAN
  OBVIOUS
<1> HIDE DEF wrote, affected, failed, s
<1>7. /\ s \in Run /\ s.pc = "sales" /\ s.offset = run[w].offset
      /\ s.wrote = wrote /\ s.affected = affected /\ s.failed = failed
  BY <1>1, <1>2, <1>4, <1>5, <1>6 DEF Run
<1> QED
  BY <1>7 DEF wrote, affected, failed, s

\* A page of documents that has been upserted: each document that changes is
\* written as it is now and its customer is affected, the others stay as the
\* run has them.
LEMMA SalesStep ==
    ASSUME ErpAssumption, FetchTypeOK, NEW w \in Workers, FetchSales(w)
    PROVE  \E r \in Run :
             /\ run' = [run EXCEPT ![w] = r]
             /\ r.pc # "idle"
             /\ run[w].affected \subseteq r.affected
             /\ \A d \in Docs :
                  \/ r.wrote[d] = run[w].wrote[d]
                  \/ /\ r.wrote[d] = Len(versions[d])
                     /\ Mapped(Now(d)).customer \in r.affected
<1> DEFINE page == SalesPage(run[w].offset)
           new == {d \in page : Changes(w, d)}
           s == SalesUpserted(w, page)
           r == Turn(s, page, "recalculate")
           wrote == [d \in Docs |-> IF d \in new THEN Len(versions[d]) ELSE run[w].wrote[d]]
           affected == run[w].affected \cup {Mapped(Now(d)).customer : d \in new}
<1>1. page \subseteq Docs /\ Cardinality(page) \in Nat
  BY SalesPageOfDocs
<1>2. run[w].pc = "sales"
  BY DEF FetchSales, At
<1>5. s \in Run /\ s.pc = "sales" /\ s.wrote = wrote /\ s.affected = affected
  BY <1>2, SalesUpsertedRun
<1>6. /\ r \in Run /\ r.pc \in {"sales", "recalculate"}
      /\ r.wrote = wrote /\ r.affected = affected
  BY <1>1, <1>5, TurnKeeps
<1>7. run' = [run EXCEPT ![w] = r]
  BY DEF FetchSales
<1>8. /\ run[w].affected \subseteq affected
      /\ \A d \in Docs :
           \/ wrote[d] = run[w].wrote[d]
           \/ wrote[d] = Len(versions[d]) /\ Mapped(Now(d)).customer \in affected
  OBVIOUS
<1> HIDE DEF r, wrote, affected
<1> QED
  BY <1>6, <1>7, <1>8

----------------------------------------------------------------------------
(* The invariant.                                                          *)

LEMMA InitFetchInv == ASSUME ErpAssumption PROVE Init => FetchInv
<1> SUFFICES ASSUME Init PROVE FetchInv
  OBVIOUS
<1>1. FetchTypeOK
  BY IdleIsRun DEF Init, FetchTypeOK, ErpAssumption
<1>2. \A w \in Workers : run[w] = Idle
  BY DEF Init
<1>3. Alone /\ Resting
  BY <1>2 DEF Alone, Resting, At, Idle
<1>4. Behind
  <2>1. \A d \in Docs : recorded[d] = 0 /\ Len(versions[d]) \in Nat
    BY DEF Init, ErpAssumption
  <2>2. \A w \in Workers, d \in Docs : run[w].wrote[d] = 0
    BY <1>2 DEF Idle
  <2> QED
    BY <2>1, <2>2 DEF Behind
<1> QED
  BY <1>1, <1>3, <1>4 DEF FetchInv

\* The run of one worker moves on, keeps or replaces what it is about to write
\* by the present version, and nothing else of the invariant changes.
LEMMA RunMoves ==
    ASSUME FetchInv, NEW w \in Workers, NEW r \in Run,
           ~At(w, "idle") \/ \A v \in Workers : At(v, "idle"),
           run' = [run EXCEPT ![w] = r], r.pc # "idle",
           \A d \in Docs : r.wrote[d] \in {run[w].wrote[d], Len(versions[d])},
           UNCHANGED <<provider, versions, deleted, parties, recorded, known,
                       progress, status, archived>>,
           crashed' \in BOOLEAN, steady' \subseteq Docs, shrunk' \in BOOLEAN
    PROVE  FetchInv'
<1>1. FetchTypeOK'
  BY DEF FetchInv, FetchTypeOK
<1>2. \A v \in Workers \ {w} : run'[v] = run[v]
  BY DEF FetchInv, FetchTypeOK
<1>3. run'[w] = r
  BY DEF FetchInv, FetchTypeOK
<1>4. Alone' /\ Resting'
  BY <1>2, <1>3 DEF FetchInv, Alone, Resting, At
<1>5. Behind'
  <2>1. ASSUME NEW d \in Docs PROVE Len(versions[d]) \in Nat /\ recorded[d] \in Nat
    BY DEF FetchInv, FetchTypeOK
  <2>2. \A d \in Docs : recorded[d] <= Len(versions[d])
    BY DEF FetchInv, Behind
  <2>3. ASSUME NEW d \in Docs, NEW v \in Workers
        PROVE  \/ run'[v].wrote[d] = 0
               \/ recorded[d] <= run'[v].wrote[d] /\ run'[v].wrote[d] <= Len(versions[d])
    <3>1. CASE v = w
      BY <1>3, <2>1, <2>2, <3>1 DEF FetchInv, Behind
    <3>2. CASE v # w
      BY <1>2, <3>2 DEF FetchInv, Behind
    <3> QED
      BY <3>1, <3>2
  <2> QED
    BY <2>2, <2>3 DEF Behind
<1> QED
  BY <1>1, <1>4, <1>5 DEF FetchInv

\* A run ends: what it has written is committed or is lost.
LEMMA RunEnds ==
    ASSUME FetchInv, FetchTypeOK', NEW w \in Workers, ~At(w, "idle"),
           run' = [run EXCEPT ![w] = Idle], versions' = versions,
           recorded' \in {recorded, View(w)}
    PROVE  FetchInv'
<1>1. \A v \in Workers \ {w} : run'[v] = run[v]
  BY DEF FetchInv, FetchTypeOK
<1>2. run'[w] = Idle
  BY DEF FetchInv, FetchTypeOK
<1>3. Alone' /\ Resting'
  BY <1>1, <1>2 DEF FetchInv, Alone, Resting, At, Idle
<1>4. \A v \in Workers : run'[v].wrote = [d \in Docs |-> 0]
  BY <1>1, <1>2 DEF FetchInv, Alone, Resting, At, Idle
<1>5. \A d \in Docs : recorded'[d] <= Len(versions[d])
  <2>1. CASE recorded' = recorded
    BY <2>1 DEF FetchInv, Behind
  <2>2. CASE recorded' = View(w)
    BY <2>2 DEF FetchInv, Behind, View
  <2> QED
    BY <2>1, <2>2
<1>6. Behind'
  BY <1>4, <1>5 DEF Behind
<1> QED
  BY <1>3, <1>6 DEF FetchInv

LEMMA NextFetchInv == ASSUME ErpAssumption, FetchInv, [Next]_vars PROVE FetchInv'
<1> USE DEF FetchInv
<1> DEFINE Kept == UNCHANGED <<provider, versions, deleted, parties, recorded, known,
                               progress, status, archived>>
<1>1. CASE WorkInErp
  <2> USE <1>1
  <2>1. /\ steady' \subseteq Docs /\ shrunk' \in BOOLEAN
        /\ UNCHANGED <<provider, recorded, known, progress, status, archived, run, crashed>>
    BY DEF WorkInErp, Observe, FetchTypeOK, rows
  <2>2. /\ versions' \in [Docs -> Seq(Contents)]
        /\ \A d \in Docs : Len(versions[d]) <= Len(versions'[d])
        /\ deleted' \subseteq Docs /\ parties' \subseteq Clients
    <3>1. CASE \E d \in Docs : Delete(d)
      BY <3>1 DEF Delete, FetchTypeOK
    <3>2. ASSUME NEW d \in Docs, NEW c \in Contents, Publish(d, c)
          PROVE  /\ versions' \in [Docs -> Seq(Contents)]
                 /\ \A e \in Docs : Len(versions[e]) <= Len(versions'[e])
                 /\ deleted' \subseteq Docs /\ parties' \subseteq Clients
      <4>1. versions[d] \in Seq(Contents)
        BY DEF FetchTypeOK
      <4>2. /\ Append(versions[d], c) \in Seq(Contents)
            /\ Len(Append(versions[d], c)) = Len(versions[d]) + 1
            /\ Len(versions[d]) \in Nat
        BY <4>1
      <4> QED
        BY <3>2, <4>2 DEF Publish, FetchTypeOK
    <3>3. CASE \E c \in Clients : ListParty(c)
      BY <3>3 DEF ListParty, FetchTypeOK
    <3> QED
      BY <3>1, <3>2, <3>3 DEF WorkInErp
  <2>3. FetchTypeOK'
    BY <2>1, <2>2 DEF FetchTypeOK
  <2>4. Alone' /\ Resting'
    BY <2>1 DEF Alone, Resting, At
  <2>5. Behind'
    <3>1. SUFFICES ASSUME NEW d \in Docs
                   PROVE  /\ recorded[d] <= Len(versions'[d])
                          /\ \A w \in Workers :
                               \/ run[w].wrote[d] = 0
                               \/ /\ recorded[d] <= run[w].wrote[d]
                                  /\ run[w].wrote[d] <= Len(versions'[d])
      BY <2>1 DEF Behind
    <3>2. /\ recorded[d] \in Nat
          /\ Len(versions[d]) \in Nat /\ Len(versions'[d]) \in Nat
          /\ \A w \in Workers : run[w].wrote[d] \in Nat
      BY <2>2, RunFields DEF FetchTypeOK
    <3> QED
      BY <2>2, <3>2 DEF Behind
  <2> QED
    BY <2>3, <2>4, <2>5
<1>2. ASSUME NEW w \in Workers, Begin(w) PROVE FetchInv'
  <2> DEFINE r == [run[w] EXCEPT !.pc = "connect"]
  <2>1. r \in Run /\ r.pc = "connect" /\ r.wrote = run[w].wrote
    BY RunEdits, ZenonT(30) DEF FetchTypeOK
  <2>2. /\ run' = [run EXCEPT ![w] = r] /\ Kept
        /\ UNCHANGED <<steady, shrunk>> /\ crashed' = FALSE
        /\ \A v \in Workers : At(v, "idle")
    BY <1>2 DEF Begin, erp, rows
  <2> HIDE DEF r
  <2> QED
    BY <2>1, <2>2, RunMoves DEF FetchTypeOK
<1>3. ASSUME NEW w \in Workers, Connect(w) PROVE FetchInv'
  <2> DEFINE r == [run[w] EXCEPT !.pc = "customers", !.tries = 0]
  <2>1. r \in Run /\ r.pc = "customers" /\ r.wrote = run[w].wrote
    BY RunEdits, ZenonT(30) DEF FetchTypeOK
  <2>2. /\ run' = [run EXCEPT ![w] = r] /\ Kept
        /\ UNCHANGED <<steady, shrunk, crashed>> /\ ~At(w, "idle")
    BY <1>3 DEF Connect, erp, rows, FetchTypeOK, At
  <2> HIDE DEF r
  <2> QED
    BY <2>1, <2>2, RunMoves DEF FetchTypeOK
<1>4. ASSUME NEW w \in Workers, FetchCustomers(w) PROVE FetchInv'
  <2>1. PICK r \in Run : /\ run' = [run EXCEPT ![w] = r]
                         /\ r.pc # "idle" /\ r.wrote = run[w].wrote
    BY <1>4, CustomersStep
  <2>2. /\ Kept /\ crashed' = crashed /\ ~At(w, "idle")
        /\ steady' \in {steady, Listing} /\ shrunk' \in {shrunk, FALSE}
    BY <1>4 DEF FetchCustomers, erp, rows, At
  <2>3. steady' \subseteq Docs /\ shrunk' \in BOOLEAN /\ crashed' \in BOOLEAN
    BY <2>2 DEF FetchTypeOK, Listing
  <2> QED
    BY <2>1, <2>2, <2>3, RunMoves
<1>5. ASSUME NEW w \in Workers, FetchSales(w) PROVE FetchInv'
  <2>1. PICK r \in Run :
             /\ run' = [run EXCEPT ![w] = r]
             /\ r.pc # "idle"
             /\ run[w].affected \subseteq r.affected
             /\ \A d \in Docs :
                  \/ r.wrote[d] = run[w].wrote[d]
                  \/ /\ r.wrote[d] = Len(versions[d])
                     /\ Mapped(Now(d)).customer \in r.affected
    BY <1>5, SalesStep
  <2>2. /\ Kept /\ UNCHANGED <<crashed, steady, shrunk>> /\ ~At(w, "idle")
    BY <1>5 DEF FetchSales, erp, rows, At
  <2>3. \A d \in Docs : r.wrote[d] \in {run[w].wrote[d], Len(versions[d])}
    BY <2>1
  <2>4. crashed' \in BOOLEAN /\ steady' \subseteq Docs /\ shrunk' \in BOOLEAN
    BY <2>2 DEF FetchTypeOK
  <2> QED
    BY <2>1, <2>2, <2>3, <2>4, RunMoves
<1>6. ASSUME NEW w \in Workers, Retry(w) PROVE FetchInv'
  <2> DEFINE n == run[w].tries + 1
             r == [run[w] EXCEPT !.tries = n]
  <2>1. r \in Run /\ r.pc = run[w].pc /\ r.wrote = run[w].wrote
    <3>1. n \in Nat
      BY RunFields
    <3>2. run[w] \in Run
      BY DEF FetchTypeOK
    <3>3. \A k \in Nat :
            LET s == [run[w] EXCEPT !.tries = k]
            IN  /\ s \in Run /\ s.pc = run[w].pc
                /\ s.wrote = run[w].wrote /\ s.affected = run[w].affected
      BY <3>2, TriesEdit
    <3> QED
      BY <3>1, <3>3
  <2>2. /\ run' = [run EXCEPT ![w] = r] /\ Kept
        /\ UNCHANGED <<steady, shrunk, crashed>> /\ run[w].pc # "idle"
    BY <1>6 DEF Retry, MayRetry, Requesting, erp, rows
  <2> HIDE DEF r
  <2> QED
    BY <2>1, <2>2, RunMoves DEF FetchTypeOK, At
<1>7. ASSUME NEW w \in Workers,
             FailConnection(w) \/ FailFetch(w) \/ Complete(w) \/ Crash(w)
      PROVE  FetchInv'
  <2>1. /\ ~At(w, "idle") /\ End(w) /\ versions' = versions
        /\ recorded' \in {recorded, View(w)}
        /\ known' \in {known, known \cup run[w].found}
        /\ status' \in {status, "active", "error"}
        /\ crashed' \in {crashed, TRUE}
        /\ UNCHANGED <<deleted, parties>>
    BY <1>7 DEF FailConnection, FailFetch, Complete, Crash, CommitRows, Requesting,
                At, End, erp, rows
  <2>2. progress' \in [Clients -> SUBSET Sales]
    <3>1. CASE Complete(w)
      <4>1. PICK S \in Recalculated(w) :
              progress' = [c \in Clients |->
                             IF c \in S THEN Counted(View(w), c) ELSE progress[c]]
        BY <3>1 DEF Complete
      <4>2. \A c \in Clients : Counted(View(w), c) \subseteq Sales
        BY ViewType, CountedType
      <4> QED
        BY <4>1, <4>2 DEF FetchTypeOK
    <3>2. CASE ~Complete(w)
      <4>1. progress' = progress
        BY <1>7, <3>2 DEF FailConnection, FailFetch, Crash, rows
      <4> QED
        BY <4>1 DEF FetchTypeOK
    <3> QED
      BY <3>1, <3>2
  <2>3. recorded' \in [Docs -> Nat] /\ known' \subseteq Clients
    BY <2>1, ViewType, RunFields DEF FetchTypeOK
  <2>4. run' = [run EXCEPT ![w] = Idle] /\ run' \in [Workers -> Run]
    BY <2>1, IdleIsRun DEF End, FetchTypeOK
  <2>5. /\ provider' \in Providers /\ archived' = archived
        /\ steady' = {} /\ shrunk' = FALSE
        /\ status' \in {"active", "error"} /\ crashed' \in BOOLEAN
    BY <2>1 DEF End, FetchTypeOK
  <2>6. FetchTypeOK'
    BY <2>1, <2>2, <2>3, <2>4, <2>5 DEF FetchTypeOK
  <2> QED
    BY <2>1, <2>4, <2>6, RunEnds
<1>8. ASSUME NEW c \in Leavers, ArchiveCustomer(c) PROVE FetchInv'
  BY <1>8 DEF ArchiveCustomer, erp, rows, FetchTypeOK, ErpAssumption, Alone, Resting, At, Behind
<1>9. CASE Reactivate
  BY <1>9 DEF Reactivate, erp, FetchTypeOK, Alone, Resting, At, Behind
<1>10. CASE UNCHANGED vars
  BY <1>10 DEF vars, erp, rows, FetchTypeOK, Alone, Resting, At, Behind
<1> QED
  BY <1>1, <1>2, <1>3, <1>4, <1>5, <1>6, <1>7, <1>8, <1>9, <1>10 DEF Next, Step

THEOREM FetchInvHolds == ASSUME ErpAssumption PROVE Spec => []FetchInv
<1>1. Init => FetchInv
  BY InitFetchInv
<1>2. FetchInv /\ [Next]_vars => FetchInv'
  BY NextFetchInv
<1> QED
  BY <1>1, <1>2, PTL DEF Spec

\* Every variable keeps its type, whatever the ERP lists and however the runs
\* fail: FetchTypeOK.
THEOREM FetchTypeHolds == ASSUME ErpAssumption PROVE Spec => []FetchTypeOK
<1>1. FetchInv => FetchTypeOK
  BY DEF FetchInv
<1> QED
  BY <1>1, FetchInvHolds, PTL

----------------------------------------------------------------------------
(* The refinement.                                                         *)

\* Only a run that fails after its first page, or is completed, records.
LEMMA RecordingSteps ==
    ASSUME FetchTypeOK, [Next]_vars, recorded' # recorded
    PROVE  \E w \in Workers :
             (FailFetch(w) \/ Complete(w)) /\ recorded' = View(w) /\ UNCHANGED erp
<1> SUFFICES ASSUME NEW w \in Workers, FailFetch(w) \/ Complete(w)
             PROVE  recorded' = View(w) /\ UNCHANGED erp
  BY DEF Next, Step, WorkInErp, Begin, Connect, FetchCustomers, FetchSales, Retry,
         FailConnection, Crash, ArchiveCustomer, Reactivate, vars, rows
<1> QED
  BY DEF FailFetch, Complete, CommitRows, End

\* Only the ERP publishes, and one content of one document at a time.
LEMMA PublishingSteps ==
    ASSUME [Next]_vars, versions' # versions
    PROVE  /\ \E d \in Docs, c \in Contents :
                versions' = [versions EXCEPT ![d] = Append(@, c)]
           /\ UNCHANGED <<provider, recorded, progress, run>>
<1>1. WorkInErp
  BY DEF Next, Step, Begin, Connect, FetchCustomers, FetchSales, Retry, FailConnection,
         FailFetch, Complete, Crash, End, ArchiveCustomer, Reactivate, vars, erp
<1> QED
  BY <1>1 DEF WorkInErp, Publish, Delete, ListParty, rows

LEMMA StepIsMirrored ==
    ASSUME ErpAssumption, FetchInv, FetchInv', [Next]_vars
    PROVE  [Mirror!Next]_(Mirror!vars)
<1>1. CASE recorded' # recorded
  <2>1. PICK w \in Workers : recorded' = View(w) /\ versions' = versions
    BY <1>1, RecordingSteps DEF FetchInv, erp
  <2>2. \A d \in Docs : recorded[d] <= recorded'[d] /\ recorded'[d] <= Len(versions[d])
    <3>1. SUFFICES ASSUME NEW d \in Docs
                   PROVE  recorded[d] <= View(w)[d] /\ View(w)[d] <= Len(versions[d])
      BY <2>1
    <3>2. recorded[d] \in Nat /\ run[w].wrote[d] \in Nat /\ Len(versions[d]) \in Nat
      BY RunFields DEF FetchInv, FetchTypeOK
    <3>3. recorded[d] <= Len(versions[d])
      BY DEF FetchInv, Behind
    <3>4. \/ run[w].wrote[d] = 0
          \/ recorded[d] <= run[w].wrote[d] /\ run[w].wrote[d] <= Len(versions[d])
      BY DEF FetchInv, Behind
    <3> QED
      BY <3>2, <3>3, <3>4 DEF View
  <2>3. recorded' \in [Docs -> Nat]
    BY DEF FetchInv, FetchTypeOK
  <2> QED
    BY <2>1, <2>2, <2>3 DEF Mirror!Next, Mirror!Adopt
<1>2. CASE recorded' = recorded /\ versions' # versions
  <2>1. PICK d \in Docs, c \in Contents : versions' = [versions EXCEPT ![d] = Append(@, c)]
    BY <1>2, PublishingSteps
  <2> QED
    BY <1>2, <2>1 DEF Mirror!Next, Mirror!Publish
<1>3. CASE recorded' = recorded /\ versions' = versions
  BY <1>3 DEF Mirror!vars
<1> QED
  BY <1>1, <1>2, <1>3

\* Synchronisation implements ErpMirror: MirrorSpec.
THEOREM FetchImplementsMirror == ASSUME ErpAssumption PROVE Spec => MirrorSpec
<1>1. Init => Mirror!Init
  BY DEF Init, Mirror!Init, ErpAssumption
<1>2. FetchInv /\ FetchInv' /\ [Next]_vars => [Mirror!Next]_(Mirror!vars)
  BY StepIsMirrored
<1> QED
  BY <1>1, <1>2, FetchInvHolds, PTL DEF Spec, MirrorSpec, Mirror!Spec

----------------------------------------------------------------------------
(* What spoils the progress.                                               *)

\* The customer of each sale that a run is about to write is among those that
\* the run has affected.
Customer(d, n) == Mapped(versions[d][n]).customer

Touched ==
    \A w \in Workers, d \in Docs :
      run[w].wrote[d] # 0 => Customer(d, run[w].wrote[d]) \in run[w].affected

\* What has been shown stays shown, as it was mapped.
LEMMA VersionsStay ==
    ASSUME FetchInv, FetchInv', [Next]_vars, NEW d \in Docs,
           NEW n \in 1..Len(versions[d])
    PROVE  /\ versions'[d][n] = versions[d][n]
           /\ Mapped(versions[d][n])' = Mapped(versions[d][n])
<1>1. CASE versions' = versions
  <2>1. provider' = provider
    BY DEF Next, Step, WorkInErp, Begin, Connect, FetchCustomers, FetchSales, Retry,
           FailConnection, FailFetch, Complete, Crash, End, ArchiveCustomer, Reactivate, vars
  <2> QED
    BY <1>1, <2>1 DEF Mapped, MapDemand, DemandStatus, MapInvoice,
           InvoiceStatus, MapDocument
<1>2. CASE versions' # versions
  <2>1. PICK e \in Docs, c \in Contents : versions' = [versions EXCEPT ![e] = Append(@, c)]
    BY <1>2, PublishingSteps
  <2>2. provider' = provider
    BY <1>2, PublishingSteps
  <2>3. versions[e] \in Seq(Contents) /\ versions[d] \in Seq(Contents)
    BY DEF FetchInv, FetchTypeOK
  <2>4. versions'[d][n] = versions[d][n]
    <3>1. CASE d = e
      <4>1. versions'[d] = Append(versions[d], c)
        BY <2>1, <3>1 DEF FetchInv, FetchTypeOK
      <4> QED
        BY <2>3, <4>1
    <3>2. CASE d # e
      BY <2>1, <3>2 DEF FetchInv, FetchTypeOK
    <3> QED
      BY <3>1, <3>2
  <2> QED
    BY <2>2, <2>4 DEF Mapped, MapDemand, DemandStatus, MapInvoice,
           InvoiceStatus, MapDocument
<1> QED
  BY <1>1, <1>2

LEMMA InitTouched == Init => Touched
BY DEF Init, Idle, Touched

LEMMA NextTouched ==
    ASSUME ErpAssumption, FetchInv, FetchInv', Touched, [Next]_vars
    PROVE  Touched'
<1> SUFFICES ASSUME NEW v \in Workers, NEW d \in Docs, NEW CONSTANT k,
                    k = run'[v].wrote[d], k # 0
             PROVE  Customer(d, k)' \in run'[v].affected
  BY DEF Touched, Customer
<1>1. run \in [Workers -> Run] /\ FetchTypeOK
  BY DEF FetchInv, FetchTypeOK
<1>2. ASSUME run'[v].wrote[d] = run[v].wrote[d], run[v].affected \subseteq run'[v].affected
      PROVE  Customer(d, k)' \in run'[v].affected
  <2>1. run[v].wrote[d] \in 1..Len(versions[d])
    <3>1. run[v].wrote[d] \in Nat /\ Len(versions[d]) \in Nat
      BY RunFields, <1>1 DEF FetchTypeOK
    <3> QED
      BY <1>2, <3>1 DEF FetchInv, Behind
  <2>2. Mapped(versions[d][k])' = Mapped(versions[d][k])
    BY <1>2, <2>1, VersionsStay
  <2>3. Customer(d, run[v].wrote[d]) \in run[v].affected
    BY <1>2 DEF Touched
  <2> QED
    BY <1>2, <2>2, <2>3 DEF Customer
<1>3. CASE run' = run
  BY <1>2, <1>3
<1>4. ASSUME NEW w \in Workers, w # v, NEW r, run' = [run EXCEPT ![w] = r]
      PROVE  Customer(d, k)' \in run'[v].affected
  BY <1>1, <1>2, <1>4
<1>5. CASE Begin(v) \/ Connect(v) \/ FetchCustomers(v) \/ Retry(v)
  <2>1. run'[v].wrote = run[v].wrote /\ run'[v].affected = run[v].affected
    <3>1. CASE Begin(v)
      BY <1>1, <3>1 DEF Begin
    <3>2. CASE Connect(v)
      BY <1>1, <3>2 DEF Connect
    <3>3. CASE FetchCustomers(v)
      <4>1. PICK r \in Run : /\ run' = [run EXCEPT ![v] = r]
                             /\ r.wrote = run[v].wrote /\ r.affected = run[v].affected
        BY <1>1, <3>3, CustomersStep
      <4> QED
        BY <1>1, <4>1
    <3>4. CASE Retry(v)
      BY <1>1, <3>4 DEF Retry
    <3> QED
      BY <1>5, <3>1, <3>2, <3>3, <3>4
  <2> QED
    BY <1>2, <2>1
<1>6. CASE FetchSales(v)
  <2>1. PICK r \in Run :
             /\ run' = [run EXCEPT ![v] = r]
             /\ run[v].affected \subseteq r.affected
             /\ \A e \in Docs :
                  \/ r.wrote[e] = run[v].wrote[e]
                  \/ /\ r.wrote[e] = Len(versions[e])
                     /\ Mapped(Now(e)).customer \in r.affected
    BY <1>1, <1>6, SalesStep
  <2>2. run'[v] = r
    BY <1>1, <2>1
  <2>3. CASE r.wrote[d] = run[v].wrote[d]
    BY <1>2, <2>1, <2>2, <2>3
  <2>4. CASE r.wrote[d] = Len(versions[d]) /\ Mapped(Now(d)).customer \in r.affected
    <3>1. versions' = versions /\ provider' = provider
      BY <1>6 DEF FetchSales, erp
    <3> QED
      BY <2>2, <2>4, <3>1 DEF Customer, Now, Mapped, MapDemand, DemandStatus, MapInvoice,
           InvoiceStatus, MapDocument
  <2> QED
    BY <2>1, <2>3, <2>4
<1>7. CASE End(v)
  <2>1. run'[v].wrote[d] = 0
    BY <1>1, <1>7 DEF End, Idle
  <2> QED
    BY <2>1
<1>8. CASE UNCHANGED vars \/ WorkInErp \/ Reactivate \/ \E c \in Leavers : ArchiveCustomer(c)
  <2>1. run' = run
    BY <1>8 DEF vars, WorkInErp, Reactivate, ArchiveCustomer
  <2> QED
    BY <1>3, <2>1
<1>9. ASSUME NEW w \in Workers, w # v, Begin(w) \/ Step(w) \/ Crash(w)
      PROVE  \E r : run' = [run EXCEPT ![w] = r]
  BY <1>9 DEF Begin, Step, Crash, Connect, FetchCustomers, FetchSales, Retry,
              FailConnection, FailFetch, Complete, End
<1>10. CASE Step(v) \/ Begin(v) \/ Crash(v)
  BY <1>5, <1>6, <1>7, <1>10 DEF Step, Crash, FailConnection, FailFetch, Complete
<1> QED
  BY <1>4, <1>8, <1>9, <1>10 DEF Next

\* The sales of a customer do not change because the ERP goes on publishing.
LEMMA CountedStays ==
    ASSUME FetchInv, FetchInv', [Next]_vars, NEW c, NEW CONSTANT record \in [Docs -> Nat],
           \A d \in Docs : record[d] <= Len(versions[d])
    PROVE  Counted(record, c)' = Counted(record, c)
<1>1. ASSUME NEW d \in Docs, record[d] # 0
      PROVE  Mapped(versions[d][record[d]])' = Mapped(versions[d][record[d]])
  <2>1. record[d] \in Nat /\ Len(versions[d]) \in Nat
    BY DEF FetchInv, FetchTypeOK
  <2>2. record[d] \in 1..Len(versions[d])
    BY <1>1, <2>1
  <2> QED
    BY <2>2, VersionsStay
<1> DEFINE Theirs == {d \in Docs :
                        /\ record[d] # 0
                        /\ Mapped(versions[d][record[d]]).customer = c
                        /\ Mapped(versions[d][record[d]]).status # "cancelled"}
<1>2. Theirs' = Theirs
  BY <1>1
<1>3. Counted(record, c) = {<<d, record[d]>> : d \in Theirs}
  BY DEF Counted
<1>4. Counted(record, c)' = {<<d, record[d]>> : d \in Theirs'}
  BY DEF Counted
<1> QED
  BY <1>2, <1>3, <1>4

\* A run that is completed leaves alone the sales of the customers that it has
\* neither affected nor deserted.
LEMMA UnaffectedKeepSales ==
    ASSUME FetchInv, Touched, NEW w \in Workers, NEW c \in Clients,
           c \notin run[w].affected, c \notin Deserted(w)
    PROVE  Counted(View(w), c) = Counted(recorded, c)
<1>1. ASSUME NEW d \in Docs, View(w)[d] # recorded[d]
      PROVE  /\ View(w)[d] # 0 /\ Mapped(versions[d][View(w)[d]]).customer # c
             /\ recorded[d] # 0 => Mapped(versions[d][recorded[d]]).customer # c
  <2>1. View(w)[d] = run[w].wrote[d] /\ run[w].wrote[d] # 0
    BY <1>1 DEF View
  <2>2. Mapped(versions[d][run[w].wrote[d]]).customer \in run[w].affected
    BY <2>1 DEF Touched, Customer
  <2>3. recorded[d] # 0 => Mapped(versions[d][recorded[d]]).customer # c
    BY <1>1 DEF Deserted
  <2> QED
    BY <2>1, <2>2, <2>3
<1> DEFINE Theirs(record) ==
             {d \in Docs : /\ record[d] # 0
                           /\ Mapped(versions[d][record[d]]).customer = c
                           /\ Mapped(versions[d][record[d]]).status # "cancelled"}
<1>2. \A d \in Docs : \/ View(w)[d] = recorded[d]
                      \/ d \notin Theirs(View(w)) /\ d \notin Theirs(recorded)
  BY <1>1
<1>3. Theirs(View(w)) = Theirs(recorded)
  BY <1>2
<1>4. \A d \in Theirs(recorded) : View(w)[d] = recorded[d]
  BY <1>2
<1>5. /\ Counted(View(w), c) = {<<d, View(w)[d]>> : d \in Theirs(View(w))}
      /\ Counted(recorded, c) = {<<d, recorded[d]>> : d \in Theirs(recorded)}
  BY DEF Counted
<1> HIDE DEF Theirs
<1> QED
  BY <1>3, <1>4, <1>5

\* Every way in which progress can differ from the recorded sales is one of
\* the three: OnlyThisSpoilsProgress.
THEOREM OnlyTheseSpoil == ASSUME ErpAssumption PROVE Spec => OnlyThisSpoilsProgress
<1> DEFINE Spoils(c) ==
             \E w \in Workers :
               \/ FailFetch(w)
               \/ Complete(w) /\ (run[w].affected \cap archived # {} \/ c \in Deserted(w))
           Only == \A c \in Clients : Right(c) /\ ~Right(c)' => Spoils(c)
<1>1. FetchInv /\ FetchInv' /\ Touched /\ [Next]_vars => [Only]_vars
  <2> SUFFICES ASSUME FetchInv, FetchInv', Touched, [Next]_vars,
                      NEW c \in Clients, Right(c), ~Spoils(c)
               PROVE  progress'[c] = Counted(recorded, c)'
    BY DEF Right
  <2>1. CASE \E w \in Workers : Complete(w)
    <3>1. PICK w \in Workers : Complete(w)
      BY <2>1
    <3>2. run[w].affected \cap archived = {} /\ c \notin Deserted(w)
      BY <3>1
    <3>3. progress' = [e \in Clients |-> IF e \in run[w].affected
                                         THEN Counted(View(w), e) ELSE progress[e]]
      BY <3>1, <3>2 DEF Complete, Recalculated
    <3>4. recorded' = View(w) /\ versions' = versions /\ provider' = provider
      BY <3>1 DEF Complete, CommitRows, End, erp
    <3>5. Counted(recorded, c)' = Counted(View(w), c)
      BY <3>4 DEF Counted, Mapped, MapDemand, DemandStatus, MapInvoice,
           InvoiceStatus, MapDocument
    <3>6. CASE c \in run[w].affected
      BY <3>3, <3>5, <3>6
    <3>7. CASE c \notin run[w].affected
      <4>1. Counted(View(w), c) = Counted(recorded, c)
        BY <3>2, <3>7, UnaffectedKeepSales
      <4> QED
        BY <3>3, <3>5, <3>7, <4>1 DEF Right
    <3> QED
      BY <3>6, <3>7
  <2>2. CASE ~\E w \in Workers : Complete(w)
    <3>1. recorded' = recorded
      BY <2>2, RecordingSteps DEF FetchInv
    <3>2. progress' = progress
      BY <2>2 DEF Next, Step, WorkInErp, Begin, Connect, FetchCustomers, FetchSales, Retry,
                  FailConnection, FailFetch, Crash, ArchiveCustomer, Reactivate, vars, rows
    <3>3. /\ recorded \in [Docs -> Nat]
          /\ \A d \in Docs : recorded[d] <= Len(versions[d])
      BY DEF FetchInv, FetchTypeOK, Behind
    <3>4. Counted(recorded, c)' = Counted(recorded, c)
      <4>1. \A record \in [Docs -> Nat] :
              record = recorded => Counted(record, c)' = Counted(record, c)
        BY <3>3, CountedStays
      <4> QED
        BY <3>1, <3>3, <4>1
    <3> QED
      BY <3>2, <3>4 DEF Right
  <2> QED
    BY <2>1, <2>2
<1>2. Spec => []Touched
  <2>1. FetchInv /\ FetchInv' /\ Touched /\ [Next]_vars => Touched'
    BY NextTouched
  <2> QED
    BY <2>1, InitTouched, FetchInvHolds, PTL DEF Spec
<1> QED
  BY <1>1, <1>2, FetchInvHolds, PTL DEF Spec, OnlyThisSpoilsProgress
----------------------------------------------------------------------------
(* Pages.                                                                  *)

\* A list that can be read in pages: the order leaves no two rows at one place.
Ordered(list, key) ==
    /\ IsFiniteSet(list)
    /\ \A x \in list : key[x] \in Nat
    /\ \A x, y \in list : key[x] = key[y] => x = y

Earlier(list, key, x) == {y \in list : key[y] < key[x]}

\* How many rows come before x: what an offset is compared with.
Before(list, key, x) == Cardinality(Earlier(list, key, x))

LEMMA BeforeType ==
    ASSUME NEW list, NEW key, Ordered(list, key), NEW x
    PROVE  /\ IsFiniteSet(Earlier(list, key, x))
           /\ Earlier(list, key, x) \subseteq list
           /\ Before(list, key, x) \in Nat
BY FS_Subset, FS_CardinalityType DEF Ordered, Earlier, Before

\* A row has more before it than any row before it.
LEMMA BeforeGrows ==
    ASSUME NEW list, NEW key, Ordered(list, key), NEW x \in list, NEW y \in list,
           key[x] < key[y]
    PROVE  Before(list, key, x) < Before(list, key, y)
<1>1. key[x] \in Nat /\ key[y] \in Nat /\ \A z \in list : key[z] \in Nat
  BY DEF Ordered
<1>2. Earlier(list, key, x) \subseteq Earlier(list, key, y)
  BY <1>1 DEF Earlier
<1>3. x \in Earlier(list, key, y) /\ x \notin Earlier(list, key, x)
  BY <1>1 DEF Earlier
<1>4. Before(list, key, x) <= Before(list, key, y)
  BY <1>2, BeforeType, FS_Subset DEF Before
<1>5. Before(list, key, x) # Before(list, key, y)
  BY <1>2, <1>3, BeforeType, FS_Subset DEF Before
<1> QED
  BY <1>4, <1>5, BeforeType

LEMMA BeforeTells ==
    ASSUME NEW list, NEW key, Ordered(list, key), NEW x \in list, NEW y \in list,
           Before(list, key, x) = Before(list, key, y)
    PROVE  x = y
<1>1. key[x] \in Nat /\ key[y] \in Nat
  BY DEF Ordered
<1>2. ~(key[x] < key[y]) /\ ~(key[y] < key[x])
  BY BeforeGrows, BeforeType
<1>3. key[x] = key[y]
  BY <1>1, <1>2
<1> QED
  BY <1>3 DEF Ordered

LEMMA PageRows ==
    ASSUME NEW list, NEW key, NEW offset
    PROVE  Page(list, key, offset) =
             {x \in list : /\ offset <= Before(list, key, x)
                           /\ Before(list, key, x) < offset + PageLimit}
BY DEF Page, Before, Earlier

\* A page has no more rows than were asked for.
LEMMA PageFits ==
    ASSUME ErpAssumption, NEW list, NEW key, Ordered(list, key), NEW offset \in Nat
    PROVE  Cardinality(Page(list, key, offset)) <= PageLimit
<1> DEFINE page == Page(list, key, offset)
           span == offset..(offset + PageLimit - 1)
           f == [x \in page |-> Before(list, key, x)]
<1>1. PageLimit \in Nat /\ PageLimit > 0
  BY DEF ErpAssumption
<1>2. page \subseteq list
  BY DEF Page
<1>3. \A x \in page : Before(list, key, x) \in span
  BY <1>1, BeforeType, PageRows
<1>4. \A x, y \in page : Before(list, key, x) = Before(list, key, y) => x = y
  BY <1>2, BeforeTells
<1>5. IsFiniteSet(span) /\ Cardinality(span) = PageLimit
  BY <1>1, FS_Interval
<1> HIDE DEF page, span
<1>6. f \in Injection(page, span)
  BY <1>3, <1>4 DEF Injection, IsInjective
<1> QED
  BY <1>5, <1>6, FS_Injection DEF page

\* Every number of rows up to that of a row has a row that comes after so many.
LEMMA BeforeReaches ==
    ASSUME NEW list, NEW key, Ordered(list, key), NEW x \in list, NEW k \in Nat,
           k < Before(list, key, x)
    PROVE  \E y \in list : Before(list, key, y) = k
<1> DEFINE rows_ == Earlier(list, key, x)
           n == Before(list, key, x)
           span == 0..(n - 1)
           f == [y \in rows_ |-> Before(list, key, y)]
<1>1. IsFiniteSet(rows_) /\ rows_ \subseteq list /\ n \in Nat /\ n = Cardinality(rows_)
  BY BeforeType DEF Before
<1>2. \A y \in rows_ : Before(list, key, y) \in span
  <2> TAKE y \in rows_
  <2>1. Before(list, key, y) < n
    BY <1>1, BeforeGrows DEF Earlier
  <2> QED
    BY <1>1, <2>1, BeforeType
<1>3. \A y, z \in rows_ : Before(list, key, y) = Before(list, key, z) => y = z
  BY <1>1, BeforeTells
<1>4. IsFiniteSet(span) /\ Cardinality(span) = n
  <2>1. 0 \in Int /\ n - 1 \in Int /\ (0 > n - 1 <=> n = 0) /\ (n - 1) - 0 + 1 = n
    BY <1>1
  <2> HIDE DEF n
  <2> QED
    BY <2>1, FS_Interval
<1>5. k \in span
  BY <1>1
<1> HIDE DEF rows_, span, n
<1>6. f \in Injection(rows_, span)
  BY <1>2, <1>3 DEF Injection, IsInjective
<1>7. f \in Surjection(rows_, span)
  BY <1>1, <1>4, <1>6, FS_Injection
<1>8. PICK y \in rows_ : f[y] = k
  BY <1>5, <1>7 DEF Surjection
<1> QED
  BY <1>1, <1>8

\* A page with rows after it is full.
LEMMA PageFull ==
    ASSUME ErpAssumption, NEW list, NEW key, Ordered(list, key), NEW offset \in Nat,
           NEW x \in list, offset + PageLimit <= Before(list, key, x)
    PROVE  PageLimit <= Cardinality(Page(list, key, offset))
<1> DEFINE page == Page(list, key, offset)
           span == offset..(offset + PageLimit - 1)
           f == [y \in page |-> Before(list, key, y)]
<1>1. PageLimit \in Nat /\ PageLimit > 0 /\ Before(list, key, x) \in Nat
  BY BeforeType DEF ErpAssumption
<1>2. page \subseteq list /\ IsFiniteSet(page)
  BY FS_Subset DEF Page, Ordered
<1>3. \A y \in list : y \in page <=> Before(list, key, y) \in span
  BY <1>1, BeforeType, PageRows
<1>4. \A k \in span : \E y \in page : Before(list, key, y) = k
  <2> TAKE k \in span
  <2>1. k \in Nat /\ k < Before(list, key, x)
    BY <1>1
  <2>2. PICK y \in list : Before(list, key, y) = k
    BY <2>1, BeforeReaches
  <2> QED
    BY <1>3, <2>2
<1>5. Cardinality(span) = PageLimit
  BY <1>1, FS_Interval
<1> HIDE DEF page, span
<1>6. f \in Surjection(page, span)
  BY <1>2, <1>3, <1>4 DEF Surjection
<1> QED
  BY <1>2, <1>5, <1>6, FS_Surjection DEF page
----------------------------------------------------------------------------
(* A pass over the list.                                                   *)

\* Documents in the ERP have places of their own.
Located ==
    \A d, e \in Docs : Exists(d) /\ Exists(e) /\ Now(d).place = Now(e).place => d = e

Tidy == Ordered(Listing, Place)

Ahead(d) == Before(Listing, Place, d)

\* As long as the list does not shrink and no record fails, what the run has
\* passed by among the steady documents it has as it is.
Passed ==
    \A w \in Workers : ~shrunk /\ ~run[w].failed =>
      /\ At(w, "sales") => \A d \in steady :
           Listed(d) /\ (run[w].offset <= Ahead(d) \/ View(w)[d] = Len(versions[d]))
      /\ At(w, "recalculate") => \A d \in steady : View(w)[d] = Len(versions[d])

LEMMA ListedExists ==
    ASSUME ErpAssumption, FetchTypeOK, NEW d \in Docs, Listed(d)
    PROVE  Exists(d) /\ Now(d) \in Contents /\ Now(d).place \in Nat /\ Place[d] = Now(d).place
<1>1. provider \in {"moysklad", "odoo", "one_c"}
  BY DEF FetchTypeOK, ErpAssumption
<1>2. Exists(d)
  BY <1>1 DEF Listed, DemandListed, InvoiceListed, DocumentListed
<1>3. versions[d] \in Seq(Contents) /\ versions[d] # <<>>
  BY <1>2 DEF Exists, FetchTypeOK
<1>4. Now(d) \in Contents
  BY <1>3 DEF Now
<1>5. Now(d).place \in Nat
  BY <1>4 DEF ErpAssumption, Content
<1> QED
  BY <1>2, <1>4, <1>5 DEF Place

LEMMA ListingTidy == ASSUME ErpAssumption, FetchTypeOK, Located PROVE Tidy
<1>1. \A d \in Listing : d \in Docs /\ Exists(d) /\ Now(d).place \in Nat /\ Place[d] = Now(d).place
  BY ListedExists DEF Listing
<1> QED
  BY <1>1, ListingFinite DEF Tidy, Ordered, Located

\* Whatever the provider, a page is a part of the list.
LEMMA SalesPageOfListing ==
    ASSUME ErpAssumption, FetchTypeOK, NEW offset
    PROVE  SalesPage(offset) = Page(Listing, Place, offset)
<1>1. CASE provider = "moysklad"
  <2>1. Listing = {d \in Docs : DemandListed(d)}
    BY <1>1 DEF Listing, Listed
  <2> QED
    BY <1>1, <2>1 DEF SalesPage, DemandPage
<1>2. CASE provider = "odoo"
  <2>1. Listing = {d \in Docs : InvoiceListed(d)}
    BY <1>2 DEF Listing, Listed
  <2> QED
    BY <1>2, <2>1 DEF SalesPage, InvoicePage
<1>3. CASE provider = "one_c"
  <2>1. Listing = {d \in Docs : DocumentListed(d)}
    BY <1>3 DEF Listing, Listed
  <2> QED
    BY <1>3, <2>1 DEF SalesPage, DocumentPage
<1> QED
  BY <1>1, <1>2, <1>3 DEF FetchTypeOK, ErpAssumption

LEMMA InitPass == ASSUME ErpAssumption PROVE Init => Located /\ Passed
<1> SUFFICES ASSUME Init PROVE Located /\ Passed
  OBVIOUS
<1>1. Located
  BY DEF Init, Located, Exists, Now, ErpAssumption
<1>2. Passed
  BY DEF Init, Passed, At, Idle
<1> QED
  BY <1>1, <1>2

LEMMA NextLocated ==
    ASSUME FetchTypeOK, Located, [Next]_vars
    PROVE  Located'
<1>1. CASE UNCHANGED <<versions, deleted>>
  BY <1>1 DEF Located, Exists, Now
<1>2. ASSUME NEW d \in Docs, Delete(d) PROVE Located'
  BY <1>2 DEF Delete, Located, Exists, Now
<1>3. ASSUME NEW d \in Docs, NEW c \in Contents, Publish(d, c) PROVE Located'
  <2>1. /\ versions' = [versions EXCEPT ![d] = Append(@, c)] /\ deleted' = deleted
        /\ \A e \in Docs \ {d} : Exists(e) => Now(e).place # c.place
    BY <1>3 DEF Publish, FreePlace
  <2>2. \A e \in Docs \ {d} : versions'[e] = versions[e]
    BY <2>1 DEF FetchTypeOK
  <2>3. Now(d)' = c
    <3>1. versions[d] \in Seq(Contents) /\ versions'[d] = Append(versions[d], c)
      BY <2>1 DEF FetchTypeOK
    <3> QED
      BY <3>1 DEF Now
  <2>4. \A e \in Docs \ {d} : Exists(e)' => Exists(e) /\ Now(e)' = Now(e)
    BY <2>1, <2>2 DEF Exists, Now
  <2> QED
    BY <2>1, <2>3, <2>4 DEF Located
<1>4. \/ UNCHANGED <<versions, deleted>>
      \/ \E d \in Docs : Delete(d) \/ \E c \in Contents : Publish(d, c)
  BY DEF Next, WorkInErp, ListParty, Step, Begin, Connect, FetchCustomers, FetchSales, Retry,
         FailConnection, FailFetch, Complete, Crash, End, ArchiveCustomer, Reactivate, vars, erp
<1> QED
  BY <1>1, <1>2, <1>3, <1>4

LEMMA ErpStill ==
    ASSUME UNCHANGED <<provider, versions, deleted>>
    PROVE  /\ Listing' = Listing /\ Place' = Place
           /\ \A d \in Docs : (Listed(d)' <=> Listed(d)) /\ Ahead(d)' = Ahead(d)
<1>1. \A d \in Docs : Listed(d)' <=> Listed(d)
  BY DEF Listed, DemandListed, InvoiceListed, DocumentListed, Exists, Now
<1>2. Listing' = Listing
  BY <1>1 DEF Listing
<1>3. Place' = Place
  BY DEF Place, Exists, Now
<1> QED
  BY <1>1, <1>2, <1>3 DEF Ahead

\* While people work in the ERP nothing that comes before a steady document
\* is lost, so that no row moves to a page that has been read.
LEMMA WorkPasses ==
    ASSUME ErpAssumption, FetchInv, FetchInv', Tidy, Tidy', Passed, WorkInErp
    PROVE  Passed'
<1>0. run' = run /\ \A w \in Workers : View(w)' = View(w)
  BY DEF WorkInErp, rows, View
<1> SUFFICES ASSUME NEW w \in Workers, ~shrunk', ~run[w].failed
             PROVE  /\ At(w, "sales") => \A d \in steady' :
                         /\ Listed(d)'
                         /\ run[w].offset <= Ahead(d)' \/ View(w)[d] = Len(versions'[d])
                    /\ At(w, "recalculate") => \A d \in steady' :
                         View(w)[d] = Len(versions'[d])
  BY <1>0 DEF Passed, At
<1>1. /\ ~shrunk
      /\ At(w, "sales") => \A e \in Listing : Listed(e)' /\ ~(Place'[e] > Place[e])
      /\ \A d \in steady' : d \in steady /\ versions'[d] = versions[d] /\ Listed(d)'
  BY DEF WorkInErp, Observe, At
<1>2. CASE At(w, "sales")
  <2> SUFFICES ASSUME NEW d \in steady', run[w].offset <= Ahead(d)
               PROVE  run[w].offset <= Ahead(d)'
    BY <1>1, <1>2 DEF Passed
  <2>1. d \in Docs /\ d \in Listing /\ Listed(d)
    BY <1>1, <1>2 DEF Passed, Listing, FetchInv, FetchTypeOK
  <2>2. Place'[d] = Place[d]
    <3>1. Exists(d) /\ Place[d] = Now(d).place
      BY <2>1, ListedExists DEF FetchInv
    <3>2. Exists(d)' /\ d \in Docs
      BY <1>1, <2>1 DEF Listed, DemandListed, InvoiceListed, DocumentListed, FetchInv,
                        FetchTypeOK, ErpAssumption
    <3> QED
      BY <1>1, <3>1, <3>2 DEF Place, Now
  <2>3. \A e \in Listing : e \in Listing' /\ Place[e] \in Nat /\ Place'[e] \in Nat
    BY <1>1, <1>2 DEF Listing, Tidy, Ordered
  <2>4. \A e \in Earlier(Listing, Place, d) : e \in Earlier(Listing, Place, d)'
    BY <1>1, <1>2, <2>1, <2>2, <2>3 DEF Earlier
  <2>5. /\ IsFiniteSet(Earlier(Listing', Place', d))
        /\ Before(Listing', Place', d) \in Nat
    BY BeforeType DEF Tidy
  <2>6. Ahead(d) <= Ahead(d)'
    BY <2>4, <2>5, FS_Subset DEF Ahead, Before
  <2>7. Ahead(d) \in Nat /\ Ahead(d)' \in Nat /\ run[w].offset \in Nat
    BY <2>5, BeforeType, RunFields DEF Tidy, Ahead, FetchInv
  <2> QED
    BY <2>6, <2>7
<1>3. CASE At(w, "recalculate")
  BY <1>1, <1>3 DEF Passed, At
<1> QED
  BY <1>2, <1>3
\* What reading a page of documents does to the run.
LEMMA SalesTurn ==
    ASSUME ErpAssumption, FetchTypeOK, NEW w \in Workers, FetchSales(w)
    PROVE  LET page == SalesPage(run[w].offset)
               r == run'[w]
           IN  /\ run[w].pc = "sales"
               /\ r.failed = (run[w].failed \/ \E d \in page : Fails(w, d))
               /\ \A d \in Docs : r.wrote[d] = IF d \in page /\ Changes(w, d)
                                               THEN Len(versions[d]) ELSE run[w].wrote[d]
               /\ IF Cardinality(page) >= PageLimit
                  THEN r.pc = "sales" /\ r.offset = run[w].offset + Cardinality(page)
                  ELSE r.pc = "recalculate"
<1> DEFINE page == SalesPage(run[w].offset)
           s == SalesUpserted(w, page)
           r == Turn(s, page, "recalculate")
           wrote == [d \in Docs |-> IF d \in {e \in page : Changes(w, e)}
                                    THEN Len(versions[d]) ELSE run[w].wrote[d]]
           failed == run[w].failed \/ \E d \in page : Fails(w, d)
<1>1. run[w].pc = "sales"
  BY DEF FetchSales, At
<1>2. /\ s \in Run /\ s.pc = "sales" /\ s.offset = run[w].offset
      /\ s.wrote = wrote /\ s.failed = failed
  BY <1>1, SalesUpsertedRun
<1>3. run'[w] = r
  BY DEF FetchSales, FetchTypeOK
<1>4. \A d \in Docs : wrote[d] = IF d \in page /\ Changes(w, d)
                                THEN Len(versions[d]) ELSE run[w].wrote[d]
  OBVIOUS
<1> HIDE DEF s, wrote, failed
<1>5. /\ r.wrote = wrote /\ r.failed = failed
      /\ IF Cardinality(page) >= PageLimit
         THEN r.pc = "sales" /\ r.offset = run[w].offset + Cardinality(page)
         ELSE r.pc = "recalculate"
  BY <1>2 DEF Turn, Run
<1> HIDE DEF r
<1> QED
  BY <1>1, <1>3, <1>4, <1>5 DEF failed

LEMMA SalesPass ==
    ASSUME ErpAssumption, FetchInv, Tidy, Passed, NEW w \in Workers, FetchSales(w)
    PROVE  Passed'
<1> DEFINE page == SalesPage(run[w].offset)
<1>1. /\ UNCHANGED <<provider, versions, deleted, recorded, steady, shrunk>>
      /\ run[w].pc = "sales"
      /\ \A v \in Workers \ {w} : run'[v] = run[v] /\ run[v].pc = "idle"
  BY DEF FetchSales, erp, rows, At, FetchInv, FetchTypeOK, Alone
<1>2. /\ \A d \in Docs : (Listed(d)' <=> Listed(d)) /\ Ahead(d)' = Ahead(d)
  BY <1>1, ErpStill
<1> SUFFICES ASSUME ~shrunk, ~run'[w].failed
             PROVE  /\ run'[w].pc = "sales" => \A d \in steady :
                         /\ Listed(d)
                         /\ run'[w].offset <= Ahead(d) \/ View(w)'[d] = Len(versions[d])
                    /\ run'[w].pc = "recalculate" => \A d \in steady :
                         View(w)'[d] = Len(versions[d])
  <2>1. steady \subseteq Docs
    BY DEF FetchInv, FetchTypeOK
  <2> QED
    BY <1>1, <1>2, <2>1 DEF Passed, At
<1>3. /\ ~run[w].failed /\ \A d \in page : ~Fails(w, d)
      /\ \A d \in Docs : run'[w].wrote[d] = IF d \in page /\ Changes(w, d)
                                            THEN Len(versions[d]) ELSE run[w].wrote[d]
      /\ IF Cardinality(page) >= PageLimit
         THEN run'[w].pc = "sales" /\ run'[w].offset = run[w].offset + Cardinality(page)
         ELSE run'[w].pc = "recalculate"
  BY SalesTurn DEF FetchInv
<1>4. /\ page = Page(Listing, Place, run[w].offset) /\ run[w].offset \in Nat
      /\ Cardinality(page) \in Nat
  BY SalesPageOfListing, SalesPageOfDocs, RunFields DEF FetchInv
<1>5. PageLimit \in Nat
  BY DEF ErpAssumption
<1>6. ASSUME NEW d \in steady
      PROVE  /\ Listed(d) /\ d \in Docs /\ d \in Listing /\ Ahead(d) \in Nat
             /\ run[w].offset <= Ahead(d) \/ View(w)[d] = Len(versions[d])
  <2>1. Listed(d) /\ (run[w].offset <= Ahead(d) \/ View(w)[d] = Len(versions[d]))
    BY <1>1, <1>3 DEF Passed, At
  <2>2. d \in Docs
    BY DEF FetchInv, FetchTypeOK
  <2>3. Ahead(d) \in Nat
    BY BeforeType DEF Ahead, Tidy
  <2> QED
    BY <2>1, <2>2, <2>3 DEF Listing
<1>7. ASSUME NEW d \in steady, d \in page \/ View(w)[d] = Len(versions[d])
      PROVE  View(w)'[d] = Len(versions[d])
  <2>1. d \in Docs /\ versions[d] # <<>> /\ versions[d] \in Seq(Contents)
    BY <1>6, ListedExists DEF Exists, FetchInv, FetchTypeOK
  <2>2. Len(versions[d]) # 0
    BY <2>1
  <2>3. View(w)'[d] = IF run'[w].wrote[d] # 0 THEN run'[w].wrote[d] ELSE recorded[d]
    BY <1>1, <2>1 DEF View
  <2>4. CASE d \in page /\ Changes(w, d)
    BY <1>3, <2>1, <2>2, <2>3, <2>4
  <2>5. CASE ~(d \in page /\ Changes(w, d))
    <3>1. View(w)[d] = Len(versions[d])
      BY <1>3, <1>7, <2>5 DEF Changes
    <3>2. View(w)'[d] = View(w)[d]
      BY <1>3, <2>1, <2>3, <2>5 DEF View
    <3> QED
      BY <3>1, <3>2
  <2> QED
    BY <2>4, <2>5
<1>8. ASSUME NEW d \in steady, View(w)'[d] # Len(versions[d])
      PROVE  run[w].offset + PageLimit <= Ahead(d)
  <2>1. run[w].offset <= Ahead(d) /\ d \notin page
    BY <1>6, <1>7, <1>8
  <2>2. ~(Ahead(d) < run[w].offset + PageLimit)
    BY <1>4, <1>6, <2>1, PageRows DEF Ahead
  <2> QED
    BY <1>4, <1>5, <1>6, <2>2
<1>9. CASE Cardinality(page) >= PageLimit
  <2>1. Cardinality(page) <= PageLimit
    BY <1>4, PageFits DEF Tidy
  <2>2. run'[w].pc = "sales" /\ run'[w].offset = run[w].offset + PageLimit
    BY <1>3, <1>4, <1>5, <1>9, <2>1
  <2> QED
    BY <1>6, <1>8, <2>2
<1>10. CASE ~(Cardinality(page) >= PageLimit)
  <2>1. run'[w].pc = "recalculate"
    BY <1>3, <1>10
  <2>2. ASSUME NEW d \in steady, View(w)'[d] # Len(versions[d]) PROVE FALSE
    <3>1. PageLimit <= Cardinality(page)
      BY <1>4, <1>6, <1>8, <2>2, PageFull DEF Tidy, Ahead
    <3> QED
      BY <1>4, <1>5, <1>10, <3>1
  <2> QED
    BY <2>1, <2>2
<1> QED
  BY <1>9, <1>10

LEMMA CustomersPass ==
    ASSUME ErpAssumption, FetchInv, Tidy, NEW w \in Workers, FetchCustomers(w)
    PROVE  Passed'
<1> DEFINE page == CustomersPage(run[w].offset)
           s == CustomersUpserted(w, page)
           r == Turn(s, page, "sales")
<1>1. /\ UNCHANGED <<provider, versions, deleted, recorded>>
      /\ run[w].pc = "customers" /\ run[w] \in Run
      /\ run'[w] = r
      /\ r.pc = "sales" => steady' = Listing
      /\ \A v \in Workers \ {w} : run'[v] = run[v] /\ run[v].pc = "idle"
  BY DEF FetchCustomers, erp, rows, At, FetchInv, FetchTypeOK, Alone
<1>2. r.pc = "customers" \/ (r.pc = "sales" /\ r.offset = 0)
  BY <1>1 DEF CustomersUpserted, Turn, Run
<1>3. \A d \in Listing : d \in Docs /\ Listed(d)' /\ Ahead(d)' = Ahead(d) /\ Ahead(d) \in Nat
  BY <1>1, ErpStill, BeforeType DEF Listing, Tidy, Ahead
<1> HIDE DEF r
<1> QED
  BY <1>1, <1>2, <1>3 DEF Passed, At

LEMMA NextPassed ==
    ASSUME ErpAssumption, FetchInv, FetchInv', Tidy, Tidy', Passed, [Next]_vars
    PROVE  Passed'
<1>1. CASE WorkInErp
  BY <1>1, WorkPasses
<1>2. ASSUME NEW w \in Workers, FetchCustomers(w) PROVE Passed'
  BY <1>2, CustomersPass
<1>3. ASSUME NEW w \in Workers, FetchSales(w) PROVE Passed'
  BY <1>3, SalesPass
<1>4. ASSUME \A v \in Workers : ~At(v, "sales")' /\ ~At(v, "recalculate")'
      PROVE  Passed'
  BY <1>4 DEF Passed
<1>5. ASSUME NEW w \in Workers, Begin(w) PROVE Passed'
  <2>1. \A v \in Workers : run'[v].pc \in {"idle", "connect"}
    BY <1>5 DEF Begin, At, FetchInv, FetchTypeOK, Run
  <2> QED
    BY <1>4, <2>1 DEF At
<1>6. ASSUME NEW w \in Workers, Connect(w) PROVE Passed'
  <2>1. \A v \in Workers : run'[v].pc \in {"idle", "customers"}
    BY <1>6 DEF Connect, At, FetchInv, FetchTypeOK, Run, Alone
  <2> QED
    BY <1>4, <2>1 DEF At
<1>7. ASSUME NEW w \in Workers, ~At(w, "idle"), End(w) PROVE Passed'
  <2>1. \A v \in Workers : run'[v].pc = "idle"
    BY <1>7 DEF End, At, FetchInv, FetchTypeOK, Alone, Idle
  <2> QED
    BY <1>4, <2>1 DEF At
<1>8. ASSUME NEW w \in Workers, FailConnection(w) \/ FailFetch(w) \/ Complete(w) \/ Crash(w)
      PROVE  Passed'
  <2>1. ~At(w, "idle") /\ End(w)
    BY <1>8 DEF FailConnection, FailFetch, Complete, Crash, At, Requesting
  <2> QED
    BY <1>7, <2>1
<1>9. ASSUME UNCHANGED <<provider, versions, deleted, recorded, steady, shrunk>>,
             \A v \in Workers : /\ run'[v].pc = run[v].pc /\ run'[v].offset = run[v].offset
                                /\ run'[v].wrote = run[v].wrote
                                /\ run'[v].failed = run[v].failed
      PROVE  Passed'
  <2>1. \A v \in Workers : View(v)' = View(v)
    BY <1>9 DEF View
  <2>2. steady \subseteq Docs /\ \A d \in Docs : (Listed(d)' <=> Listed(d)) /\ Ahead(d)' = Ahead(d)
    BY <1>9, ErpStill DEF FetchInv, FetchTypeOK
  <2> QED
    BY <1>9, <2>1, <2>2 DEF Passed, At
<1>10. ASSUME NEW w \in Workers, Retry(w) PROVE Passed'
  <2>1. UNCHANGED <<provider, versions, deleted, recorded, steady, shrunk>>
    BY <1>10 DEF Retry, erp, rows
  <2>2. \A v \in Workers : /\ run'[v].pc = run[v].pc /\ run'[v].offset = run[v].offset
                           /\ run'[v].wrote = run[v].wrote
                           /\ run'[v].failed = run[v].failed
    <3>1. /\ run \in [Workers -> Run]
          /\ run' = [run EXCEPT ![w] = [run[w] EXCEPT !.tries = run[w].tries + 1]]
      BY <1>10 DEF Retry, FetchInv, FetchTypeOK
    <3>2. \A v \in Workers \ {w} : run'[v] = run[v]
      BY <3>1
    <3>3. run[w] \in Run /\ run'[w] = [run[w] EXCEPT !.tries = run[w].tries + 1]
      BY <3>1
    <3> QED
      BY <3>2, <3>3 DEF Run
  <2> QED
    BY <1>9, <2>1, <2>2
<1>11. CASE UNCHANGED vars \/ Reactivate \/ \E c \in Leavers : ArchiveCustomer(c)
  <2>1. UNCHANGED <<provider, versions, deleted, recorded, run, steady, shrunk>>
    BY <1>11 DEF vars, erp, rows, Reactivate, ArchiveCustomer
  <2> QED
    BY <1>9, <2>1
<1> QED
  BY <1>1, <1>2, <1>3, <1>5, <1>6, <1>8, <1>10, <1>11 DEF Next, Step

\* A run that succeeds has recorded every document that stood still while it
\* read the list, for any list, page size and number of changes, as long as
\* no row left the list or moved back in it: CompletePass.
THEOREM PassesAreComplete == ASSUME ErpAssumption PROVE Spec => CompletePass
<1> DEFINE Whole == \A w \in Workers :
                       Complete(w) /\ Succeeds(w) /\ ~shrunk
                         => \A d \in steady : recorded'[d] = Len(versions[d])
<1>1. Init => Located /\ Passed
  BY InitPass
<1>2. FetchInv /\ Located /\ [Next]_vars => Located'
  BY NextLocated DEF FetchInv
<1>3. FetchInv /\ Located => Tidy
  BY ListingTidy DEF FetchInv
<1>4. FetchInv /\ FetchInv' /\ Tidy /\ Tidy' /\ Passed /\ [Next]_vars => Passed'
  BY NextPassed
<1>5. Passed /\ [Next]_vars => [Whole]_vars
  BY DEF Passed, Complete, CommitRows, Succeeds, At
<1>6. Spec => []Tidy
  BY <1>1, <1>2, <1>3, FetchInvHolds, PTL DEF Spec
<1>7. Spec => []Passed
  BY <1>1, <1>4, <1>6, FetchInvHolds, PTL DEF Spec
<1> QED
  BY <1>5, <1>7, PTL DEF Spec, CompletePass
----------------------------------------------------------------------------
(* Withdrawn documents.                                                    *)

\* What a total adds up are sales of that customer which count, in a version
\* that the ERP has shown, however long ago they were added up.
Earned ==
    \A c \in Clients, d \in Docs, n \in Nat \ {0} :
      <<d, n>> \in progress[c]
      => /\ n <= Len(versions[d])
         /\ Customer(d, n) = c
         /\ Mapped(versions[d][n]).status # "cancelled"

\* The totals change only where a run is completed.
LEMMA TotalSteps ==
    ASSUME [Next]_vars, ~\E w \in Workers : Complete(w)
    PROVE  progress' = progress
BY DEF Next, Step, WorkInErp, Begin, Connect, FetchCustomers, FetchSales, Retry,
       FailConnection, FailFetch, Crash, ArchiveCustomer, Reactivate, vars, rows

LEMMA InitEarned == ASSUME ErpAssumption PROVE Init => Earned
BY DEF Init, Earned

LEMMA NextEarned ==
    ASSUME ErpAssumption, FetchInv, FetchInv', Earned, [Next]_vars
    PROVE  Earned'
<1> SUFFICES ASSUME NEW c \in Clients, NEW d \in Docs, NEW CONSTANT n \in Nat \ {0},
                    <<d, n>> \in progress'[c]
             PROVE  /\ n <= Len(versions'[d])
                    /\ Mapped(versions[d][n])'.customer = c
                    /\ Mapped(versions[d][n])'.status # "cancelled"
  BY DEF Earned, Customer
<1>1. ASSUME /\ n <= Len(versions[d]) /\ Customer(d, n) = c
             /\ Mapped(versions[d][n]).status # "cancelled"
      PROVE  /\ n <= Len(versions'[d])
             /\ Mapped(versions[d][n])'.customer = c
             /\ Mapped(versions[d][n])'.status # "cancelled"
  <2>1. n \in 1..Len(versions[d])
    BY <1>1 DEF FetchInv, FetchTypeOK
  <2>2. Mapped(versions[d][n])' = Mapped(versions[d][n])
    BY <2>1, VersionsStay
  <2>3. Len(versions[d]) <= Len(versions'[d])
    <3>1. CASE versions' = versions
      BY <3>1 DEF FetchInv, FetchTypeOK
    <3>2. CASE versions' # versions
      <4>1. PICK e \in Docs, x \in Contents : versions' = [versions EXCEPT ![e] = Append(@, x)]
        BY <3>2, PublishingSteps
      <4>2. versions[d] \in Seq(Contents)
        BY DEF FetchInv, FetchTypeOK
      <4>3. versions'[d] \in {versions[d], Append(versions[d], x)}
        BY <4>1 DEF FetchInv, FetchTypeOK
      <4> QED
        BY <4>2, <4>3
    <3> QED
      BY <3>1, <3>2
  <2>4. Len(versions[d]) \in Nat /\ Len(versions'[d]) \in Nat
    BY DEF FetchInv, FetchTypeOK
  <2> QED
    BY <1>1, <2>2, <2>3, <2>4 DEF Customer
<1>2. CASE progress'[c] = progress[c]
  BY <1>1, <1>2 DEF Earned
<1>3. CASE progress'[c] # progress[c]
  <2>1. PICK w \in Workers : Complete(w)
    BY <1>3, TotalSteps
  <2>2. progress'[c] = Counted(View(w), c)
    BY <1>3, <2>1 DEF Complete, FetchInv, FetchTypeOK
  <2>3. /\ View(w)[d] = n
        /\ Mapped(versions[d][n]).customer = c
        /\ Mapped(versions[d][n]).status # "cancelled"
    BY <2>2 DEF Counted
  <2>4. n <= Len(versions[d])
    BY <2>3 DEF View, FetchInv, Behind
  <2> QED
    BY <1>1, <2>3, <2>4 DEF Customer
<1> QED
  BY <1>2, <1>3

\* A document that is not listed comes into no run's hands.
LEMMA UnlistedUnwritten ==
    ASSUME ErpAssumption, FetchInv, [Next]_vars, NEW v \in Workers, NEW d \in Docs,
           ~Listed(d), run[v].wrote[d] = 0
    PROVE  run'[v].wrote[d] = 0
<1>1. run \in [Workers -> Run] /\ FetchTypeOK
  BY DEF FetchInv, FetchTypeOK
<1>2. ASSUME NEW w \in Workers, w # v, Begin(w) \/ Step(w) \/ Crash(w)
      PROVE  run'[v] = run[v]
  <2>1. \E r : run' = [run EXCEPT ![w] = r]
    BY <1>2 DEF Begin, Step, Crash, Connect, FetchCustomers, FetchSales, Retry,
                FailConnection, FailFetch, Complete, End
  <2> QED
    BY <1>1, <1>2, <2>1
<1>3. CASE Begin(v) \/ Connect(v) \/ Retry(v)
  <2>1. CASE Begin(v)
    BY <1>1, <2>1 DEF Begin
  <2>2. CASE Connect(v)
    BY <1>1, <2>2 DEF Connect
  <2>3. CASE Retry(v)
    BY <1>1, <2>3 DEF Retry
  <2> QED
    BY <1>3, <2>1, <2>2, <2>3
<1>4. CASE FetchCustomers(v)
  <2>1. PICK r \in Run : run' = [run EXCEPT ![v] = r] /\ r.wrote = run[v].wrote
    BY <1>1, <1>4, CustomersStep
  <2> QED
    BY <1>1, <2>1
<1>5. CASE FetchSales(v)
  <2>1. d \notin SalesPage(run[v].offset)
    <3>1. SalesPage(run[v].offset) = Page(Listing, Place, run[v].offset)
      BY <1>1, SalesPageOfListing
    <3>2. Page(Listing, Place, run[v].offset) \subseteq Listing
      BY DEF Page
    <3> QED
      BY <3>1, <3>2 DEF Listing
  <2>2. run'[v].wrote[d] = IF d \in SalesPage(run[v].offset) /\ Changes(v, d)
                           THEN Len(versions[d]) ELSE run[v].wrote[d]
    BY <1>1, <1>5, SalesTurn
  <2> QED
    BY <2>1, <2>2
<1>6. CASE End(v)
  BY <1>1, <1>6 DEF End, Idle
<1>7. CASE UNCHANGED vars \/ WorkInErp \/ Reactivate \/ \E c \in Leavers : ArchiveCustomer(c)
  BY <1>7 DEF vars, WorkInErp, Reactivate, ArchiveCustomer
<1>8. CASE Begin(v) \/ Step(v) \/ Crash(v)
  BY <1>3, <1>4, <1>5, <1>6, <1>8 DEF Step, Crash, FailConnection, FailFetch, Complete
<1> QED
  BY <1>2, <1>7, <1>8 DEF Next

\* A document withdrawn after it was counted stays in its customer's total
\* through every later run, until it is listed again: WithdrawnStaysCounted.
THEOREM WithdrawnStays == ASSUME ErpAssumption PROVE Spec => WithdrawnStaysCounted
<1> DEFINE Stays == \A d \in Docs, c \in Clients :
                      Withdrawn(d) /\ CountsFor(d, c)
                      => CountsFor(d, c)' /\ (Withdrawn(d)' \/ Listed(d)')
<1>1. FetchInv /\ FetchInv' /\ Earned /\ [Next]_vars => [Stays]_vars
  <2> SUFFICES ASSUME FetchInv, FetchInv', Earned, [Next]_vars,
                      NEW d \in Docs, NEW c \in Clients, Withdrawn(d), CountsFor(d, c)
               PROVE  CountsFor(d, c)' /\ (Withdrawn(d)' \/ Listed(d)')
    OBVIOUS
  <2>1. /\ recorded[d] # 0 /\ ~Listed(d)
        /\ \A w \in Workers : run[w].wrote[d] = 0 /\ View(w)[d] = recorded[d]
    BY DEF Withdrawn, View
  <2>2. recorded'[d] = recorded[d]
    <3>1. CASE recorded' = recorded
      BY <3>1
    <3>2. CASE recorded' # recorded
      BY <2>1, <3>2, RecordingSteps DEF FetchInv
    <3> QED
      BY <3>1, <3>2
  <2>3. \A w \in Workers : run'[w].wrote[d] = 0
    BY <2>1, UnlistedUnwritten
  <2>4. <<d, recorded[d]>> \in progress'[c]
    <3>1. CASE progress'[c] = progress[c]
      BY <3>1 DEF CountsFor
    <3>2. CASE progress'[c] # progress[c]
      <4>1. PICK w \in Workers : Complete(w)
        BY <3>2, TotalSteps
      <4>2. progress'[c] = Counted(View(w), c)
        BY <3>2, <4>1 DEF Complete, FetchInv, FetchTypeOK
      <4>3. recorded[d] \in Nat \ {0}
        BY <2>1 DEF FetchInv, FetchTypeOK
      <4>4. /\ Mapped(versions[d][recorded[d]]).customer = c
            /\ Mapped(versions[d][recorded[d]]).status # "cancelled"
        BY <4>3 DEF Earned, CountsFor, Customer
      <4> QED
        BY <2>1, <4>2, <4>4 DEF Counted
    <3> QED
      BY <3>1, <3>2
  <2> QED
    BY <2>1, <2>2, <2>3, <2>4 DEF Withdrawn, CountsFor
<1>2. Spec => []Earned
  <2>1. FetchInv /\ FetchInv' /\ Earned /\ [Next]_vars => Earned'
    BY NextEarned
  <2> QED
    BY <2>1, InitEarned, FetchInvHolds, PTL DEF Spec
<1> QED
  BY <1>1, <1>2, FetchInvHolds, PTL DEF Spec, WithdrawnStaysCounted
=============================================================================
