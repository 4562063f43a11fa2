---------------------------- MODULE SalesIntake ----------------------------
(***************************************************************************)
(* Sales come in by feeds: import batches that a user commits              *)
(* (ImportService, modules/imports/service.py) and fetches of a            *)
(* synchronisation run (SyncService, modules/sync/service.py).  A feed is  *)
(* one READ COMMITTED transaction that inserts or updates its sales row by *)
(* row and then recalculates the progress of the customers it has touched  *)
(* (ProgressService, modules/progress/service.py).  Staff also enter sales *)
(* by hand, recalculate, archive customers and cancel batches.             *)
(*                                                                         *)
(* One company with one active campaign, to which all sales count; what a  *)
(* document adds to the total is its amount.  A document names its customer*)
(* by the external_id of a reference, and the model takes that for the     *)
(* customer: staff who add another csv reference to a customer             *)
(* (create_external_ref, modules/customers/service.py) make one customer of*)
(* two external_ids, and then the references' locks no longer order what   *)
(* imports do for him.  Such a customer is among those Handled.            *)
(***************************************************************************)
EXTENDS ImportPreview

CONSTANTS Customers,
          Keys,        \* values of source_key
          Feeds,
          SourceOf,    \* "csv" for a batch, "erp" for the fetch of a run
          FileOf,      \* the lines of each batch's file
          FetchOf,     \* the documents of each fetch, of customers that are
                       \* known already
          Opening,     \* the sales imported before
          HandKeys,    \* the keys of sales entered by hand
          Amounts,     \* their amounts
          TierAmounts, \* required_amount_minor of the campaign's active tiers
          Handled,     \* customers that staff and synchronisation touch, or
                       \* to whom staff have added a second csv reference
          Samples,     \* amounts in minor units, those on record among them, to
                       \* be written and read back
          Sessions, NoSession,
          Nothing      \* no row

Document == [key : Keys, customer : Customers, amount : Int, cancelled : BOOLEAN]

\* The valid documents of each feed, in their order.
RowsOf == [f \in Feeds |-> IF SourceOf[f] = "csv" THEN PreviewedRows(FileOf[f])
                           ELSE FetchOf[f]]

\* content_hash stands for what it was made of; a sale by hand has none.
SaleRecords ==
    [customer : Customers, amount : Int, cancelled : BOOLEAN,
     hash : (Customers \X Int \X BOOLEAN) \cup {Nothing}]

Content(d) == <<d.customer, d.amount, d.cancelled>>

Recorded(d) == [customer |-> d.customer, amount |-> d.amount,
                cancelled |-> d.cancelled, hash |-> Content(d)]

\* current_tier as the amount it asks for, 0 for none.
ProgressRows == [total : Nat, tier : Nat]

ASSUME IntakeAssumption ==
    /\ IsFiniteSet(Keys)
    /\ SourceOf \in [Feeds -> {"csv", "erp"}]
    /\ \A f \in Feeds : SourceOf[f] = "csv" => IsFile(FileOf[f])
    /\ \A f \in Feeds : RowsOf[f] \in Seq(Document)
    /\ \A f \in Feeds : SourceOf[f] = "erp" =>
         \A i \in DOMAIN RowsOf[f] : RowsOf[f][i].customer \in Handled
    /\ Opening \in [Keys -> SaleRecords \cup {Nothing}]
    /\ \A k \in Keys : Opening[k] # Nothing => Opening[k].hash = Content(Opening[k])
    /\ HandKeys \subseteq Keys
    /\ Amounts \subseteq Int
    /\ TierAmounts \subseteq Nat
    /\ Handled \subseteq Customers
    /\ Samples \subseteq Nat
    /\ NoSession \notin Sessions
    /\ Nothing \notin Feeds /\ Nothing \notin Customers
    /\ Nothing \notin SaleRecords /\ Nothing \notin ProgressRows

VARIABLES
    sale,       \* the sale_records rows by source_key
    progress,   \* the customer_campaign_progress rows by customer
    known,      \* customers that have a csv reference
    archived,   \* soft-deleted customers
    batch,      \* status of each feed; a fetch is "committed" with its run
    txn,        \* the transaction of each session
    refLock, saleLock, rowLock   \* the sessions that have written these rows

locks == <<refLock, saleLock, rowLock>>
rows == <<sale, progress, known, archived, batch>>
vars == <<rows, txn, locks>>

Idle == [pc |-> "idle"]

\* row: the number of the document; saw: what the last SELECT has found;
\* wrote, added, result: sales, references and progress written so far;
\* memory: the sales as the ORM session holds them;
\* affected: customers to recalculate, customer and total: the one at hand.
Transaction ==
    [pc : {"reference", "refer", "sale", "upsert", "total", "progress", "store"},
     op : {"commit", "cancel", "recalculate"},
     feed : Feeds \cup {Nothing},
     row : Nat,
     saw : Customers \cup SaleRecords \cup ProgressRows \cup {Nothing},
     wrote : [Keys -> SaleRecords \cup {Nothing}],
     memory : [Keys -> SaleRecords \cup {Nothing}],
     added : SUBSET Customers,
     affected : SUBSET Customers,
     customer : Customers \cup {Nothing},
     total : Nat,
     result : [Customers -> ProgressRows \cup {Nothing}]]

IntakeTypeOK ==
    /\ sale \in [Keys -> SaleRecords \cup {Nothing}]
    /\ progress \in [Customers -> ProgressRows \cup {Nothing}]
    /\ known \subseteq Customers
    /\ archived \subseteq Customers
    /\ batch \in [Feeds -> {"previewed", "committed", "cancelled"}]
    /\ txn \in [Sessions -> Transaction \cup {Idle}]
    /\ refLock \in [Customers -> Sessions \cup {NoSession}]
    /\ saleLock \in [Keys -> Sessions \cup {NoSession}]
    /\ rowLock \in [Customers -> Sessions \cup {NoSession}]

----------------------------------------------------------------------------
(* What a customer's sales amount to.                                      *)

Worth(records, u) ==
    MapThenSumSet(LAMBDA k : records[k].amount,
                  {k \in Keys : /\ records[k] # Nothing
                                /\ records[k].customer = u /\ ~records[k].cancelled})

Abs(n) == IF n < 0 THEN -n ELSE n

\* A mutant: returns can take the total below zero.
UnclampedTotal(records, u) == Worth(records, u)

\* _calculate_total clamps at zero.
TotalOf(records, u) == Max({0, Worth(records, u)})

\* _calculate_tiers: the last tier whose amount is reached.
TierFor(total) == Max({0} \cup {a \in TierAmounts : a <= total})

ProgressRow(total) == [total |-> total, tier |-> TierFor(total)]

Init ==
    /\ sale = Opening
    /\ known = {u \in Customers : \E k \in Keys : Opening[k] # Nothing /\ Opening[k].customer = u}
    /\ progress = [u \in Customers |->
                     IF u \in known THEN ProgressRow(TotalOf(Opening, u)) ELSE Nothing]
    /\ archived = {}
    /\ batch = [f \in Feeds |-> "previewed"]
    /\ txn = [s \in Sessions |-> Idle]
    /\ refLock = [u \in Customers |-> NoSession]
    /\ saleLock = [k \in Keys |-> NoSession]
    /\ rowLock = [u \in Customers |-> NoSession]

----------------------------------------------------------------------------
(* Transactions.                                                           *)

At(s, pc) == txn[s].pc = pc

WorksOn(s, f) == ~At(s, "idle") /\ txn[s].feed = f

Doc(s) == RowsOf[txn[s].feed][txn[s].row]

\* A row as session s sees it in the database.
View(s, k) == IF txn[s].wrote[k] # Nothing THEN txn[s].wrote[k] ELSE sale[k]

\* What a query gives s: the rows are chosen by the database, but those that
\* the session holds already are not loaded again.
Loaded(s, k) ==
    IF txn[s].memory[k] = Nothing THEN View(s, k)
    ELSE [txn[s].memory[k] EXCEPT !.customer = View(s, k).customer]

\* What the ORM writes into row cur: the columns in which new differs from
\* the row it has loaded.
Overwrite(cur, loaded, new) ==
    [c \in DOMAIN cur |-> IF new[c] # loaded[c] THEN new[c] ELSE cur[c]]

\* The transaction after document i: the next document or the totals.
GoTo(t, i) ==
    [t EXCEPT !.row = i,
              !.pc = IF i > Len(RowsOf[t.feed]) THEN "total"
                     ELSE IF SourceOf[t.feed] = "csv" THEN "reference" ELSE "sale"]

\* The sessions that s waits for.
Blockers(s) ==
    (CASE At(s, "refer") -> {refLock[Doc(s).customer]}
       [] At(s, "upsert") -> {saleLock[Doc(s).key]}
       [] At(s, "store") -> {rowLock[txn[s].customer]}
       [] OTHER -> {})
      \ {s, NoSession}

Fresh(op, f, S) ==
    [pc |-> "total", op |-> op, feed |-> f, row |-> 0, saw |-> Nothing,
     wrote |-> [k \in Keys |-> Nothing], memory |-> [k \in Keys |-> Nothing], added |-> {}, affected |-> S,
     customer |-> Nothing, total |-> 0, result |-> [u \in Customers |-> Nothing]]

\* commit_batch reads the batch's status once, without a lock; runs of one
\* integration are kept apart (SyncRuns!OneRunAtATime).
BeginFeed(s, f) ==
    /\ At(s, "idle")
    /\ batch[f] = "previewed"
    /\ SourceOf[f] = "erp" =>
         \A r \in Sessions, g \in Feeds : SourceOf[g] = "erp" => ~WorksOn(r, g)
    /\ txn' = [txn EXCEPT ![s] = GoTo(Fresh("commit", f, {}), 1)]
    /\ UNCHANGED <<rows, locks>>

\* cancel_batch.
BeginCancel(s, f) ==
    /\ At(s, "idle")
    /\ SourceOf[f] = "csv"
    /\ batch[f] = "previewed"
    /\ txn' = [txn EXCEPT ![s] = Fresh("cancel", f, {})]
    /\ UNCHANGED <<rows, locks>>

\* The two endpoints: one customer, or every customer with a sale.
BeginRecalculation(s) ==
    /\ At(s, "idle")
    /\ \E S \in {{u} : u \in Customers}
                  \cup {{sale[k].customer : k \in {j \in Keys : sale[j] # Nothing}}} :
         /\ S \subseteq Handled
         /\ txn' = [txn EXCEPT ![s] = Fresh("recalculate", Nothing, S)]
    /\ UNCHANGED <<rows, locks>>

\* _upsert_customer of the imports: the reference is read, then inserted or
\* given a new last_seen_at.
ReadReference(s) ==
    /\ At(s, "reference")
    /\ LET u == Doc(s).customer IN
         txn' = [txn EXCEPT ![s].pc = "refer",
                            ![s].saw = IF u \in known \cup txn[s].added THEN u ELSE Nothing]
    /\ UNCHANGED <<rows, locks>>

\* A mutant: last_seen_at is not written.
LeaveReference(s) ==
    /\ At(s, "refer")
    /\ Blockers(s) = {}
    /\ txn[s].saw = Nothing => Doc(s).customer \notin known
    /\ txn' = [txn EXCEPT ![s].pc = "sale", ![s].added = @ \cup {Doc(s).customer}]
    /\ refLock' = IF txn[s].saw # Nothing THEN refLock
                  ELSE [refLock EXCEPT ![Doc(s).customer] = s]
    /\ UNCHANGED <<rows, saleLock, rowLock>>

WriteReference(s) ==
    /\ At(s, "refer")
    /\ Blockers(s) = {}
    /\ txn[s].saw = Nothing => Doc(s).customer \notin known
    /\ txn' = [txn EXCEPT ![s].pc = "sale", ![s].added = @ \cup {Doc(s).customer}]
    /\ refLock' = [refLock EXCEPT ![Doc(s).customer] = s]
    /\ UNCHANGED <<rows, saleLock, rowLock>>

\* _upsert_sale_record of either service.
ReadSale(s) ==
    /\ At(s, "sale")
    /\ txn' = [txn EXCEPT ![s].pc = "upsert", ![s].saw = Loaded(s, Doc(s).key)]
    /\ UNCHANGED <<rows, locks>>

\* A document with the same content is skipped; a synchronisation takes it
\* all the same if its external_updated_at is newer.
Skips(s) ==
    /\ txn[s].saw # Nothing
    /\ txn[s].saw.hash = Content(Doc(s))

WriteSale(s) ==
    LET t == txn[s]
        k == Doc(s).key
        new == IF t.saw = Nothing THEN Recorded(Doc(s))
               ELSE Overwrite(View(s, k), t.saw, Recorded(Doc(s)))
    IN
    /\ At(s, "upsert")
    /\ Blockers(s) = {}
    /\ t.saw = Nothing => sale[k] = Nothing
    /\ \/ /\ Skips(s)
          /\ txn' = [txn EXCEPT ![s] = GoTo([t EXCEPT !.memory[k] = t.saw], t.row + 1)]
       \/ /\ ~Skips(s) \/ SourceOf[t.feed] = "erp"
          /\ txn' = [txn EXCEPT ![s] =
               GoTo([t EXCEPT !.wrote[k] = new,
                              !.memory[k] = Recorded(Doc(s)),
                              !.affected = @ \cup {Doc(s).customer}], t.row + 1)]
    /\ saleLock' = [saleLock EXCEPT ![k] = s]
    /\ UNCHANGED <<rows, refLock, rowLock>>

\* calculate_customer_progress: the sales are read and added up.
AddUp(s) ==
    /\ At(s, "total")
    /\ \E u \in txn[s].affected \ archived :
         txn' = [txn EXCEPT ![s].pc = "progress", ![s].customer = u,
                            ![s].affected = @ \ {u},
                            ![s].total = TotalOf([k \in Keys |-> Loaded(s, k)], u)]
    /\ UNCHANGED <<rows, locks>>

\* _upsert_progress.
ReadProgress(s) ==
    /\ At(s, "progress")
    /\ txn' = [txn EXCEPT ![s].pc = "store", ![s].saw = progress[txn[s].customer]]
    /\ UNCHANGED <<rows, locks>>

StoreProgress(s) ==
    LET u == txn[s].customer
        new == ProgressRow(txn[s].total)
    IN
    /\ At(s, "store")
    /\ Blockers(s) = {}
    /\ txn[s].saw = Nothing => progress[u] = Nothing
    /\ txn' = [txn EXCEPT ![s].pc = "total",
                          ![s].result[u] = IF txn[s].saw = Nothing THEN new
                                           ELSE Overwrite(progress[u], txn[s].saw, new)]
    /\ rowLock' = [rowLock EXCEPT ![u] = s]
    /\ UNCHANGED <<rows, refLock, saleLock>>

Release(s) ==
    /\ txn' = [txn EXCEPT ![s] = Idle]
    /\ refLock' = [u \in Customers |-> IF refLock[u] = s THEN NoSession ELSE refLock[u]]
    /\ saleLock' = [k \in Keys |-> IF saleLock[k] = s THEN NoSession ELSE saleLock[k]]
    /\ rowLock' = [u \in Customers |-> IF rowLock[u] = s THEN NoSession ELSE rowLock[u]]

\* A synchronisation stops recalculating at the first archived customer, and
\* commits all the same.
GivesUp(s) ==
    /\ txn[s].feed # Nothing /\ SourceOf[txn[s].feed] = "erp"
    /\ txn[s].affected \cap archived # {}

\* The status is set, whatever it is by then.
Commit(s) ==
    LET t == txn[s] IN
    /\ At(s, "total")
    /\ t.affected = {} \/ GivesUp(s)
    /\ sale' = [k \in Keys |-> View(s, k)]
    /\ progress' = [u \in Customers |->
                      IF t.result[u] # Nothing THEN t.result[u] ELSE progress[u]]
    /\ known' = known \cup t.added
    /\ batch' = CASE t.op = "commit" -> [batch EXCEPT ![t.feed] = "committed"]
                  [] t.op = "cancel" -> [batch EXCEPT ![t.feed] = "cancelled"]
                  [] OTHER -> batch
    /\ Release(s)
    /\ UNCHANGED archived

RollBack(s) == Release(s) /\ UNCHANGED rows

\* A unique constraint: the row that s inserts has been committed meanwhile.
\* The flush has rolled the transaction back; the loop over the documents
\* catches the error, but nothing can be flushed any more.
Collides(s) ==
    /\ Blockers(s) = {}
    /\ \/ At(s, "refer") /\ txn[s].saw = Nothing /\ Doc(s).customer \in known
       \/ At(s, "upsert") /\ txn[s].saw = Nothing /\ sale[Doc(s).key] # Nothing
       \/ At(s, "store") /\ txn[s].saw = Nothing /\ progress[txn[s].customer] # Nothing

\* A mutant: the loop goes on to the next document and commits in the end.
SkipCollision(s) ==
    /\ Collides(s)
    /\ IF At(s, "store") THEN txn' = [txn EXCEPT ![s].pc = "total"]
       ELSE txn' = [txn EXCEPT ![s] = GoTo(txn[s], txn[s].row + 1)]
    /\ UNCHANGED <<rows, locks>>

Collide(s) == Collides(s) /\ RollBack(s)

\* "Customer not found." for an archived customer: an import and a request
\* to recalculate fail as a whole.
Refuse(s) ==
    /\ At(s, "total")
    /\ txn[s].affected \cap archived # {}
    /\ ~GivesUp(s)
    /\ RollBack(s)

\* The process dies or the client's connection is lost.
Disconnect(s) == ~At(s, "idle") /\ RollBack(s)

\* PostgreSQL aborts a transaction that waits for one that waits for it.
DetectDeadlock(s) ==
    /\ ~At(s, "idle")
    /\ \E r \in Blockers(s) : s \in Blockers(r)
    /\ RollBack(s)

----------------------------------------------------------------------------
(* Staff, in one statement each.                                           *)

\* create_sale_record, which recalculates nothing and waits for a transaction
\* that has inserted the same key.
EnterSale(k, u, a) ==
    /\ sale[k] = Nothing
    /\ saleLock[k] = NoSession
    /\ u \notin archived
    /\ sale' = [sale EXCEPT ![k] = [customer |-> u, amount |-> a, cancelled |-> FALSE, hash |-> Nothing]]
    /\ UNCHANGED <<progress, known, archived, batch, txn, locks>>

ArchiveCustomer(u) ==
    /\ u \notin archived
    /\ archived' = archived \cup {u}
    /\ UNCHANGED <<sale, progress, known, batch, txn, locks>>

Step(s) ==
    \/ ReadReference(s)
    \/ WriteReference(s)
    \/ ReadSale(s)
    \/ WriteSale(s)
    \/ AddUp(s)
    \/ ReadProgress(s)
    \/ StoreProgress(s)
    \/ Commit(s)
    \/ Collide(s)
    \/ Refuse(s)

Next ==
    \/ \E s \in Sessions, f \in Feeds : BeginFeed(s, f) \/ BeginCancel(s, f)
    \/ \E s \in Sessions : BeginRecalculation(s)
    \/ \E s \in Sessions : Step(s)
    \/ \E s \in Sessions : Disconnect(s) \/ DetectDeadlock(s)
    \/ \E k \in HandKeys, u \in Handled, a \in Amounts : EnterSale(k, u, a)
    \/ \E u \in Handled : ArchiveCustomer(u)

Spec == Init /\ [][Next]_vars

----------------------------------------------------------------------------
(* Properties.                                                             *)

\* Who can be the customer of the sale with key k.
CustomersOf(k) ==
    {u \in Customers :
       \/ \E f \in Feeds : \E i \in DOMAIN RowsOf[f] :
            RowsOf[f][i].key = k /\ RowsOf[f][i].customer = u
       \/ Opening[k] # Nothing /\ Opening[k].customer = u
       \/ k \in HandKeys /\ u \in Handled}

\* No sale of a customer who is only imported is ever another's, which some
\* of the properties need: one that moves to another customer is recalculated
\* for the new one alone (imports/service.py:608, sync/service.py:816).
OneCustomerPerKey ==
    \A k \in Keys : \A u \in CustomersOf(k) \ Handled : CustomersOf(k) = {u}

\* The amounts that a sale with key k can have.
AmountsOf(k) ==
    (UNION {{RowsOf[f][i].amount : i \in {j \in DOMAIN RowsOf[f] : RowsOf[f][j].key = k}} :
              f \in Feeds})
      \cup (IF Opening[k] # Nothing THEN {Opening[k].amount} ELSE {})
      \cup (IF k \in HandKeys THEN Amounts ELSE {})

\* Numbers of up to nine digits.
Writable == {n \in Nat : n < 1000000000}

\* The Samples are Writable, and any amount that can get on record is one.
SamplesSuffice ==
    /\ \A n \in Samples : n \in Writable
    /\ \A k \in Keys : \A a \in AmountsOf(k) : Abs(a) \in Samples

\* The total and the tier of a customer who is only imported are those of
\* the committed sales at any time, whatever batches overlap, collide, wait
\* for each other, are lost or are tried again: the update of the customer's
\* reference, which comes before the first read of the sales
\* (imports/service.py:670-677), serialises all that imports do for the
\* customer.
ImportedTotalsRight ==
    \A u \in Customers \ Handled :
      (\E k \in Keys : sale[k] # Nothing /\ sale[k].customer = u)
        => progress[u] = ProgressRow(TotalOf(sale, u))

\* No document of a committed feed is missing, although the loops catch every
\* exception of a document and go on (imports/service.py:524-527,
\* sync/service.py:503-514).
CommittedFeedIsIn ==
    \A f \in Feeds :
      batch[f] = "committed" => \A i \in DOMAIN RowsOf[f] : sale[RowsOf[f][i].key] # Nothing

\* A sale of a customer who is only imported is the document its content_hash
\* was made of, so that skipping equal hashes loses nothing
\* (imports/service.py:737-740): no two commits write it together, each only
\* the columns that differ from what it had loaded.
HashTellsContent ==
    \A k \in Keys :
      sale[k] # Nothing /\ sale[k].customer \notin Handled
        => sale[k].hash = Content(sale[k])

\* A decimal comma that looks like one between thousands.
Mistaken(n, scale, style) == style = "comma" /\ scale = 3 /\ n < 1000000

ReadsBack(n) ==
    \A scale \in 0..3, style \in Styles :
      LET t == Written(n, scale, style)
      IN  /\ AmountAccepted(t, scale)
          /\ MinorUnits(t, scale) = IF Mistaken(n, scale, style) THEN 1000 * n ELSE n

ReadingBack == {n \in Samples : ReadsBack(n)}

OnRecord == {Abs(sale[k].amount) : k \in {j \in Keys : sale[j] # Nothing}}

\* An amount means in a file what was written there, with a decimal point, a
\* decimal comma or commas between thousands, for every scale up to 3, be it
\* one of the Samples or one on record that comes with another file; but a
\* decimal comma before exactly three digits is taken for one between
\* thousands if at most three digits precede it, and the amount becomes a
\* thousand times what it was (imports/service.py:85-112).
AmountsReadBack == Samples \cup OnRecord \subseteq ReadingBack
=============================================================================
