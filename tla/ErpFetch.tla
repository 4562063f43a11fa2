------------------------------ MODULE ErpFetch ------------------------------
(***************************************************************************)
(* What a synchronisation run does between its first and its last database *)
(* statement (SyncService._execute_sync_run, modules/sync/service.py): it  *)
(* reads the counterparties and the documents of the ERP page by page      *)
(* (modules/integrations/providers), upserts what it has read, recalculates*)
(* the progress of the customers it has affected, and commits.  Meanwhile  *)
(* people go on working in the ERP, so that no two pages show the same     *)
(* list.  SyncRuns models how runs are created, started and kept apart.    *)
(*                                                                         *)
(* A document's content is what its mapper reads: the counterparty, whether*)
(* the document is posted, and the place that the order of the list gives  *)
(* it.  A sale record is the version of the document it was made of, and a *)
(* customer's progress the sales it was added up from.                     *)
(***************************************************************************)
EXTENDS Naturals, Sequences, FiniteSets, FiniteSetsExt

CONSTANTS Docs,           \* the ERP's sales documents
          Clients,        \* its counterparties
          Rank,           \* the order in which they are listed
          Contents,       \* what a document can say
          NoClient,       \* the counterparty of a document without one
          Providers,
          PageLimit,      \* page_limit of the integration
          MaxRetries,     \* max_retries of the integration
          Workers,
          Opening,        \* the documents and the counterparties in the ERP
          OpeningClients, \* when the integration is set up
          Leavers,        \* counterparties whose customer may be archived
          MaxEdits        \* bound: changes of documents

Content == [client : Clients \cup {NoClient}, posted : BOOLEAN, place : Nat]

ASSUME ErpAssumption ==
    /\ IsFiniteSet(Docs)
    /\ IsFiniteSet(Clients)
    /\ Opening \in [Docs -> Seq(Contents)]
    /\ \A d, e \in Docs :
         /\ Opening[d] # <<>> /\ Opening[e] # <<>>
         /\ Opening[d][Len(Opening[d])].place = Opening[e][Len(Opening[e])].place
         => d = e
    /\ OpeningClients \cup Leavers \subseteq Clients
    /\ Rank \in [Clients -> Nat]
    /\ \A c, e \in Clients : Rank[c] = Rank[e] => c = e
    /\ NoClient \notin Clients
    /\ Contents \subseteq Content
    /\ Providers \subseteq {"moysklad", "odoo", "one_c"}
    /\ PageLimit \in Nat \ {0}
    /\ MaxRetries \in Nat

VARIABLES
    provider,    \* the ERP of the integration
    versions,    \* the contents that each document has had
    deleted,     \* documents deleted in the ERP
    parties,     \* counterparties in the ERP's list
    recorded,    \* the version of each document in sale_records, 0 for none
    known,       \* counterparties with a customer_external_refs row
    progress,    \* the sales that the customer's progress row adds up
    archived,    \* counterparties whose customer is soft-deleted
    status,      \* the integration's status
    run,         \* the run that each worker executes
    crashed,     \* the last run has died with its worker
    steady,      \* documents listed, with the same content, since the run
    shrunk       \* has begun to read them; and whether the list has shrunk

erp == <<versions, deleted, parties>>
rows == <<recorded, known, progress, status>>
vars == <<provider, erp, rows, archived, run, crashed, steady, shrunk>>

\* offset: the cursor of the next page.  tries: how often the request at
\* hand has been repeated.  found, wrote: references and sales written so
\* far.  failed: whether failed_records is above 0.  affected:
\* affected_customer_ids.
Run == [pc : {"idle", "connect", "customers", "sales", "recalculate"},
        offset : Nat, tries : Nat, found : SUBSET Clients,
        wrote : [Docs -> Nat], failed : BOOLEAN, affected : SUBSET Clients]

Idle == [pc |-> "idle", offset |-> 0, tries |-> 0, found |-> {},
         wrote |-> [d \in Docs |-> 0], failed |-> FALSE, affected |-> {}]

Sales == Docs \X (Nat \ {0})

FetchTypeOK ==
    /\ provider \in Providers
    /\ versions \in [Docs -> Seq(Contents)]
    /\ deleted \subseteq Docs
    /\ parties \subseteq Clients
    /\ recorded \in [Docs -> Nat]
    /\ known \subseteq Clients
    /\ progress \in [Clients -> SUBSET Sales]
    /\ archived \subseteq Clients
    /\ status \in {"active", "error"}
    /\ run \in [Workers -> Run]
    /\ crashed \in BOOLEAN
    /\ steady \subseteq Docs
    /\ shrunk \in BOOLEAN

Init ==
    /\ provider \in Providers
    /\ versions = Opening
    /\ deleted = {}
    /\ parties = OpeningClients
    /\ recorded = [d \in Docs |-> 0]
    /\ known = {}
    /\ progress = [c \in Clients |-> {}]
    /\ archived = {}
    /\ status = "active"
    /\ run = [w \in Workers |-> Idle]
    /\ crashed = FALSE
    /\ steady = {}
    /\ shrunk = FALSE

----------------------------------------------------------------------------
(* The ERP.                                                                *)

Exists(d) == versions[d] # <<>> /\ d \notin deleted

Now(d) == versions[d][Len(versions[d])]

\* MoySklad lists every demand that is not deleted.
DemandListed(d) == Exists(d)

\* search_read with ["state", "=", "posted"]: an invoice that is reset to
\* draft or cancelled is gone from the list.
InvoiceListed(d) == Exists(d) /\ Now(d).posted

\* "Posted eq true and DeletionMark eq false".
DocumentListed(d) == Exists(d) /\ Now(d).posted

Listed(d) ==
    CASE provider = "moysklad" -> DemandListed(d)
      [] provider = "odoo" -> InvoiceListed(d)
      [] provider = "one_c" -> DocumentListed(d)

Listing == {d \in Docs : Listed(d)}

Place == [d \in Docs |-> IF Exists(d) THEN Now(d).place ELSE 0]

\* $orderby=Date, "id asc"; MoySklad's order is its own.
FreePlace(d, place) ==
    /\ \A e \in Docs \ {d} : Exists(e) => Now(e).place # place
    /\ provider = "odoo" /\ Exists(d) => place = Now(d).place

Edits == Cardinality(deleted)
         + MapThenSumSet(LAMBDA d : Len(versions[d]) - Len(Opening[d]), Docs)

Publish(d, c) ==
    /\ d \notin deleted
    /\ Edits < MaxEdits
    /\ FreePlace(d, c.place)
    /\ versions' = [versions EXCEPT ![d] = Append(@, c)]
    /\ UNCHANGED <<deleted, parties>>

Delete(d) ==
    /\ Exists(d)
    /\ Edits < MaxEdits
    /\ deleted' = deleted \cup {d}
    /\ UNCHANGED <<versions, parties>>

ListParty(c) ==
    /\ c \notin parties
    /\ parties' = parties \cup {c}
    /\ UNCHANGED <<versions, deleted>>

\* What a step of the ERP does to the documents that the run counts on.
Observe ==
    /\ steady' = {d \in steady : versions'[d] = versions[d] /\ Listed(d)'}
    /\ shrunk' = \/ shrunk
                 \/ \E w \in Workers, d \in Listing :
                      /\ run[w].pc = "sales"
                      /\ ~Listed(d)' \/ Place'[d] > Place[d]

WorkInErp ==
    /\ \/ \E d \in Docs : Delete(d) \/ \E c \in Contents : Publish(d, c)
       \/ \E c \in Clients : ListParty(c)
    /\ UNCHANGED <<provider, rows, archived, run, crashed>>
    /\ Observe

----------------------------------------------------------------------------
(* Mapping.  A document without a counterparty is a mapping error, the only*)
(* kind the model has.                                                     *)

Mappable(c) == c.client # NoClient

\* applicable.
DemandStatus(c) == IF c.posted THEN "posted" ELSE "cancelled"

MapDemand(c) == [customer |-> c.client, status |-> DemandStatus(c)]

\* state; one that is cancelled is no more listed than a draft.
InvoiceStatus(c) == IF c.posted THEN "posted" ELSE "draft"

MapInvoice(c) == [customer |-> c.client, status |-> InvoiceStatus(c)]

MapDocument(c) ==
    [customer |-> c.client, status |-> IF c.posted THEN "posted" ELSE "draft"]

Mapped(c) ==
    CASE provider = "moysklad" -> MapDemand(c)
      [] provider = "odoo" -> MapInvoice(c)
      [] provider = "one_c" -> MapDocument(c)

\* The sales that a customer's total adds up, if record[d] is the version of
\* document d in sale_records.
Counted(record, c) ==
    {<<d, record[d]>> : d \in
       {e \in Docs : /\ record[e] # 0
                     /\ Mapped(versions[e][record[e]]).customer = c
                     /\ Mapped(versions[e][record[e]]).status # "cancelled"}}

----------------------------------------------------------------------------
(* The run.                                                                *)

At(w, pc) == run[w].pc = pc

\* The rows from offset to offset + limit of a list in the order of key.
Page(list, key, offset) ==
    {x \in list :
       LET before == Cardinality({y \in list : key[y] < key[x]})
       IN  offset <= before /\ before < offset + PageLimit}

\* fetch_sales of the three providers: a request for the rows from the cursor.
DemandPage(offset) == Page({d \in Docs : DemandListed(d)}, Place, offset)

InvoicePage(offset) == Page({d \in Docs : InvoiceListed(d)}, Place, offset)

DocumentPage(offset) == Page({d \in Docs : DocumentListed(d)}, Place, offset)

SalesPage(offset) ==
    CASE provider = "moysklad" -> DemandPage(offset)
      [] provider = "odoo" -> InvoicePage(offset)
      [] provider = "one_c" -> DocumentPage(offset)

\* fetch_customers, the same in the three.
CustomersPage(offset) == Page(parties, Rank, offset)

\* A mutant: a page that is just full is taken for the last.
TurnIfLonger(r, page, next) ==
    IF Cardinality(page) > PageLimit
    THEN [r EXCEPT !.offset = @ + Cardinality(page), !.tries = 0]
    ELSE [r EXCEPT !.offset = 0, !.tries = 0, !.pc = next]

\* has_more and next_cursor: on to the next page, or to what comes next.
Turn(r, page, next) ==
    IF Cardinality(page) >= PageLimit
    THEN [r EXCEPT !.offset = @ + Cardinality(page), !.tries = 0]
    ELSE [r EXCEPT !.offset = 0, !.tries = 0, !.pc = next]

\* A mutant: runs of an integration overlap.
BeginUnlocked(w) ==
    /\ At(w, "idle")
    /\ run' = [run EXCEPT ![w].pc = "connect"]
    /\ crashed' = FALSE
    /\ UNCHANGED <<provider, erp, rows, archived, steady, shrunk>>

\* The update of the integration's row keeps its runs apart
\* (SyncRuns!OneRunAtATime).
Begin(w) ==
    /\ \A v \in Workers : At(v, "idle")
    /\ run' = [run EXCEPT ![w].pc = "connect"]
    /\ crashed' = FALSE
    /\ UNCHANGED <<provider, erp, rows, archived, steady, shrunk>>

\* test_connection.
Connect(w) ==
    /\ At(w, "connect")
    /\ run' = [run EXCEPT ![w].pc = "customers", ![w].tries = 0]
    /\ UNCHANGED <<provider, erp, rows, archived, crashed, steady, shrunk>>

\* _upsert_customer for each counterparty of a page.
CustomersUpserted(w, page) == [run[w] EXCEPT !.found = @ \cup page]

FetchCustomers(w) ==
    LET page == CustomersPage(run[w].offset)
        r == Turn(CustomersUpserted(w, page), page, "sales")
    IN
    /\ At(w, "customers")
    /\ run' = [run EXCEPT ![w] = r]
    /\ IF r.pc = "sales"
       THEN steady' = Listing /\ shrunk' = FALSE
       ELSE UNCHANGED <<steady, shrunk>>
    /\ UNCHANGED <<provider, erp, rows, archived, crashed>>

\* The sales as the run's transaction sees them.
View(w) == [d \in Docs |-> IF run[w].wrote[d] # 0 THEN run[w].wrote[d] ELSE recorded[d]]

\* A failed record: a mapping error, or "Sale customer external reference
\* was not found."
Fails(w, d) ==
    \/ ~Mappable(Now(d))
    \/ Mapped(Now(d)).customer \notin known \cup run[w].found

\* A mutant: a sale that exists is left as it is.
CreatesOnly(w, d) == ~Fails(w, d) /\ View(w)[d] = 0

\* should_update: equal content hashes leave the sale as it is.
Changes(w, d) == ~Fails(w, d) /\ View(w)[d] # Len(versions[d])

\* A mutant: only the customers of new sales are affected.
UpsertedForNew(w, page) ==
    LET new == {d \in page : Changes(w, d)} IN
    [run[w] EXCEPT !.wrote = [d \in Docs |-> IF d \in new THEN Len(versions[d]) ELSE @[d]],
                   !.affected = @ \cup {Mapped(Now(d)).customer : d \in {e \in new : View(w)[e] = 0}},
                   !.failed = @ \/ \E d \in page : Fails(w, d)]

\* _upsert_sale_record for each document of a page.
SalesUpserted(w, page) ==
    LET new == {d \in page : Changes(w, d)} IN
    [run[w] EXCEPT !.wrote = [d \in Docs |-> IF d \in new THEN Len(versions[d]) ELSE @[d]],
                   !.affected = @ \cup {Mapped(Now(d)).customer : d \in new},
                   !.failed = @ \/ \E d \in page : Fails(w, d)]

FetchSales(w) ==
    LET page == SalesPage(run[w].offset) IN
    /\ At(w, "sales")
    /\ run' = [run EXCEPT ![w] = Turn(SalesUpserted(w, page), page, "recalculate")]
    /\ UNCHANGED <<provider, erp, rows, archived, crashed, steady, shrunk>>

\* Where the run waits for an answer of the ERP.
Requesting(w) == run[w].pc \in {"connect", "customers", "sales"}

\* The loop over the attempts, the same in the three clients.
MayRetry(w) == Requesting(w) /\ run[w].tries < MaxRetries

\* An answer of 429 or 5xx: the client waits and asks again.
Retry(w) ==
    /\ MayRetry(w)
    /\ run' = [run EXCEPT ![w].tries = @ + 1]
    /\ UNCHANGED <<provider, erp, rows, archived, crashed, steady, shrunk>>

\* The run is over: what it has written is committed, or else rolled back.
End(w) ==
    /\ run' = [run EXCEPT ![w] = Idle]
    /\ steady' = {}
    /\ shrunk' = FALSE
    /\ UNCHANGED <<provider, erp, archived>>

CommitRows(w) ==
    /\ recorded' = View(w)
    /\ known' = known \cup run[w].found

\* A mutant: the integration gets the status of the run.
FailConnectionAsRun(w) ==
    /\ At(w, "connect")
    /\ status' = "failed"
    /\ End(w)
    /\ UNCHANGED <<recorded, known, progress, crashed>>

\* "connection_failed".
FailConnection(w) ==
    /\ At(w, "connect")
    /\ status' = "error"
    /\ End(w)
    /\ UNCHANGED <<recorded, known, progress, crashed>>

\* The except clause of _execute_sync_run: a page that cannot be fetched
\* fails the run, and what the pages before it have brought is committed.
FailFetch(w) ==
    /\ Requesting(w) /\ ~At(w, "connect")
    /\ CommitRows(w)
    /\ status' = "error"
    /\ End(w)
    /\ UNCHANGED <<progress, crashed>>

\* _recalculate_progress stops at the first archived customer, which is
\* counted as a failed record.
Recalculated(w) ==
    IF run[w].affected \cap archived = {} THEN {run[w].affected}
    ELSE SUBSET (run[w].affected \ archived)

\* failed_records is 0.
Succeeds(w) ==
    /\ At(w, "recalculate")
    /\ ~run[w].failed
    /\ run[w].affected \cap archived = {}

\* A mutant: a total adds up only the sales that the run has written.
CompleteFromRun(w) ==
    /\ At(w, "recalculate")
    /\ CommitRows(w)
    /\ \E S \in Recalculated(w) :
         progress' = [c \in Clients |-> IF c \in S THEN Counted(run[w].wrote, c) ELSE progress[c]]
    /\ status' = IF Succeeds(w) THEN "active" ELSE status
    /\ End(w)
    /\ UNCHANGED crashed

\* The recalculation, the outcome and the commit.
Complete(w) ==
    /\ At(w, "recalculate")
    /\ CommitRows(w)
    /\ \E S \in Recalculated(w) :
         progress' = [c \in Clients |-> IF c \in S THEN Counted(View(w), c) ELSE progress[c]]
    /\ status' = IF Succeeds(w) THEN "active" ELSE status
    /\ End(w)
    /\ UNCHANGED crashed

\* The worker dies: nothing is committed, the integration stays as it is.
Crash(w) ==
    /\ ~At(w, "idle")
    /\ crashed' = TRUE
    /\ End(w)
    /\ UNCHANGED rows

Step(w) ==
    \/ Connect(w)
    \/ FetchCustomers(w)
    \/ FetchSales(w)
    \/ Retry(w)
    \/ FailConnection(w)
    \/ FailFetch(w)
    \/ Complete(w)

----------------------------------------------------------------------------
(* Staff.                                                                  *)

\* delete_customer.
ArchiveCustomer(c) ==
    /\ c \in known \ archived
    /\ archived' = archived \cup {c}
    /\ UNCHANGED <<provider, erp, rows, run, crashed, steady, shrunk>>

\* update_integration, which waits for the row; by hand a run is started in
\* either status.
Reactivate ==
    /\ status = "error"
    /\ \A w \in Workers : At(w, "idle")
    /\ status' = "active"
    /\ UNCHANGED <<provider, erp, recorded, known, progress, archived, run, crashed, steady, shrunk>>

Next ==
    \/ WorkInErp
    \/ \E w \in Workers : Begin(w) \/ Step(w) \/ Crash(w)
    \/ \E c \in Leavers : ArchiveCustomer(c)
    \/ Reactivate

Spec == Init /\ [][Next]_vars

\* Beat starts a run of an active integration again and again, and a task
\* ends within its time limit.  That a request ever succeeds is not assumed.
Fairness ==
    /\ WF_vars(status = "active" /\ \E w \in Workers : Begin(w))
    /\ \A w \in Workers : WF_vars(Step(w))

FairSpec == Spec /\ Fairness

----------------------------------------------------------------------------
(* Properties.                                                             *)

\* The sale record of a document is always some version that the ERP has
\* shown, and it never goes back to an earlier one, although the upsert
\* writes whenever the content hashes differ, in either direction
\* (sync/service.py:788-791): no page fetched before another run's commit is
\* committed after it.
Mirror == INSTANCE ErpMirror WITH
    Docs <- Docs, Contents <- Contents, versions <- versions, recorded <- recorded

MirrorSpec == Mirror!Spec

\* A run that succeeds has recorded, as it is, every document that was there
\* and did not change while the run read the list, whatever was added, edited
\* or listed twice in between: pages are counted off by offset
\* (moysklad/provider.py:254-256), which skips a document only if others
\* leave the list, or move to its end, before it.
CompletePass ==
    [][\A w \in Workers :
         Complete(w) /\ Succeeds(w) /\ ~shrunk
           => \A d \in steady : recorded'[d] = Len(versions[d])]_vars

Right(c) == progress[c] = Counted(recorded, c)

\* Customers who lose a sale that the run gives to another.
Deserted(w) ==
    {Mapped(versions[d][recorded[d]]).customer :
       d \in {e \in Docs : recorded[e] # 0 /\ View(w)[e] # recorded[e]}}
      \ run[w].affected

\* What makes a customer's progress differ from the recorded sales, in any
\* order of pages, edits, failures and crashes: a run that fails after it has
\* written sales (sync/service.py:372-398 commits them without
\* recalculating), an archived customer among the affected ones, or a sale
\* that moves to another customer (sync/service.py:809-816).  Nothing else.
OnlyThisSpoilsProgress ==
    [][\A c \in Clients : Right(c) /\ ~Right(c)' =>
         \E w \in Workers :
           \/ FailFetch(w)
           \/ Complete(w) /\ (run[w].affected \cap archived # {} \/ c \in Deserted(w))]_vars

\* A document that has been withdrawn in the ERP after it was copied, and that
\* no run has in hand any more.
Withdrawn(d) ==
    recorded[d] # 0 /\ ~Listed(d) /\ \A w \in Workers : run[w].wrote[d] = 0

CountsFor(d, c) == <<d, recorded[d]>> \in progress[c]

\* What a customer's total makes of a document that is withdrawn after it was
\* counted, be it an invoice reset to draft or a document deleted: until it is
\* listed again it stays counted, through every run that comes after, those
\* that recalculate the customer for other documents included.  A run sees
\* only what is listed (odoo/provider.py:259-274), but the recalculation adds
\* up all that is recorded (progress/service.py:228-304).
WithdrawnStaysCounted ==
    [][\A d \in Docs, c \in Clients :
         Withdrawn(d) /\ CountsFor(d, c)
         => CountsFor(d, c)' /\ (Withdrawn(d)' \/ Listed(d)')]_vars

\* If the ERP comes to rest, every listed document of a listed counterparty
\* ends up recorded as it is, unless the integration fails again and again or
\* its workers die again and again.
Copied ==
    \A d \in Listing :
      Mappable(Now(d)) /\ Now(d).client \in parties => recorded[d] = Len(versions[d])

EndsUpCopied == []<>(status = "error" \/ crashed) \/ <>[]Copied

\* What tests/test_moysklad_provider.py:679-692 expect of a synchronisation
\* that succeeds: the progress of the customers is that of their sales.
SuccessLeavesProgressRight ==
    [][\A w \in Workers :
         Complete(w) /\ Succeeds(w) => \A c \in Clients : Right(c)']_vars
=============================================================================
