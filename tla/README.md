# OneLoyal in TLA+

OneLoyal is a loyalty back end: companies connect an ERP (MoySklad, Odoo, 1C) or import
spreadsheets, sales add up to each customer's progress in a campaign, customers who reach
a gift tier claim the gift, and staff approve, reject, fulfil or cancel the claims. It is a
FastAPI application over PostgreSQL (SQLAlchemy, READ COMMITTED, one transaction per HTTP
request or Celery task), with Redis for locks and Celery workers started by beat. Paths
below are relative to `src/backend/app/`, services to `modules/`.

Run a check with `tlc -config <cfg> <module>` and a proof with `tlapm <module>`, in this
directory.

## 1. The system

| component | state | operations | interacts with |
|---|---|---|---|
| Campaigns and gift tiers (`campaigns/`) | `campaigns`, `gift_tiers` rows: status, `allow_claims`, amount, stock mode, `stock_quantity`, `reserved_quantity`, `fulfilled_quantity`, `sort_order`, soft deletion | create, edit, activate, pause, complete, archive and delete a campaign; create, edit, delete and reorder tiers | claims read tiers and move their stock; progress reads amounts |
| Reward claims (`claims/`) | `reward_claims` row: status | create, approve, reject, cancel, fulfil, each for staff or the portal | locks and changes the tier, emits domain events |
| ERP synchronisation (`sync/`, recovery in `ops/`) | `sync_runs`, the integration's status and schedule, broker messages, a Redis lock | request or schedule a run, publish, execute, recover stuck runs | writes customers and sales, recalculates progress |
| Domain events and notifications (`events/`, `notifications/`) | `domain_events`, `notification_events`, rules, templates | emit, process a batch, deliver a batch, mark by hand | every service emits; providers deliver |
| Progress (`progress/`) | `customer_campaign_progress` | recalculate one customer, the affected customers, a campaign | reads sales, campaigns, tiers; read by claims and portal |
| Sales (`sales/`) | `sale_records` | create by hand (recalculates nothing) | read by progress; imports and synchronisation write the same rows |
| Imports (`imports/`) | `import_batches`, `import_rows` | preview of a file (amounts, validation, keys, duplicates), commit, cancel | upserts customers and sales, recalculates |
| Integrations (`integrations/`) | status, credentials | create, edit, rotate credentials, delete | sync |
| Customer portal (`portal/`) | magic links: expiry, revocation, use count | create, revoke, open a session, claim, cancel | claims, progress |
| Authentication, users, companies (`auth/`, `users/`, `companies/`) | users (role, status), `user_sessions` | register, login, refresh, logout; create and edit users | every router |
| ERP providers (`integrations/providers/`) | none; the documents are the ERP's | list customers and sales page by page, map them, retry requests | called by a run |
| Billing, platform, audit, reports | one row per company, log rows | edits, appends, queries | - |
| Web front end, migrations | none here | - | - |

**What is hard here.** Requests overlap, and the code takes few locks: `FOR UPDATE` on the
tier when stock moves, a Redis lock per integration, and the row locks every `UPDATE`
takes. Between its `SELECT` and its `UPDATE` a request may act on what is no longer so.
Batches of events and notifications are single transactions that overlap with each other.
Processes die between commit and publication, or in the middle of a task with a Redis lock
left behind. An ERP is read page by page while people work in it, and what a failing run has
written so far is committed. Long sequences of legal calls (mode edits, deactivated tiers, reordering) must
not lead a claim or a campaign astray.

**What makes the components correct.**

* Campaigns: live tiers have distinct amounts and distinct positions; only a campaign with
  an active tier is activated; what has ended stays frozen.
* Claims: one active claim per customer and campaign; counters equal to the claims;
  strict stock never promised twice; an approved claim always finds its reservation.
* Synchronisation: two runs of an integration never write together; a message is always
  about a committed run; a committed outcome stays; no run stays queued for ever; the copy
  of a document only moves forward, and catches up once the ERP rests.
* Notifications: one per event and recipient; a processed event leaves a trace; what has
  been delivered is recorded; every event and every notification comes to an end.
* Progress: the stored total is the sum of the counted sales, once everything is quiet.
* Imports: a committed batch is in completely; an amount means what was written.
* Access: what is over - a login, a link, a disabled account - stays over, although the
  requests that end it overlap with those that use it.

## 2. The modules

| module | models | extends |
|---|---|---|
| `Campaigns` | `CampaignService`, `GiftTierService`: the campaign's and its tiers' rows; each request an atomic step | - |
| `CampaignLadder` | `sort_order`, `_next_sort_order`, `reorder_tiers` | `Campaigns` |
| `RewardClaims` | `RewardClaimService` with progress totals and archived customers, each request an atomic step: what the service promises | `Campaigns` |
| `ClaimTransactions` | the same requests as the SQL statements of READ COMMITTED transactions, with row locks, stale objects of the session, roll-backs and the deadlock detector | `RewardClaims` |
| `SyncRuns` | `SyncService`'s runs from request to end, its tasks, recovery, the broker, the Redis lock, the integration's row | - |
| `ErpMirror` | what a copy of an ERP's documents promises: only published versions, never an earlier one | - |
| `ErpFetch` | what a run does between its first and its last statement: the three providers' lists, pages, mapping and retries, upserts, recalculation, partial commit; implements `ErpMirror` | - |
| `NotificationOutbox` | `DomainEventService`, `NotificationService` | - |
| `ImportPreview` | what `ImportService.preview_csv` takes the lines of a file for: functions of the file, and a reference for amounts | - |
| `SalesIntake` | `ImportService.commit_batch` and `cancel_batch`, the sales part of `SyncService.execute_sync_run`, `ProgressService`, hand-entered sales and archiving, as statements of READ COMMITTED transactions | `ImportPreview` |
| `StaffSessions` | `AuthService`, the checks of `auth/dependencies.py`, `UserService`, creation of a company | - |
| `CustomerPortal` | magic links, portal sessions, the checks of every portal request | `StaffSessions` |
| `MC...` | values of the constants for TLC | the above |
| `...Proofs` | theorems for every value of the constants | the above |

Definitions keep the names of the code; a comment above each names the method when it
differs. `PROJECT.json` maps every definition to its lines. Refused requests (the code's
`ConflictError`, `NotFoundError`, `ValidationAppError`) are rolled back by the router and
are no steps, except in `ClaimTransactions` and `SalesIntake`, where they release locks
(`Refuse`). Operators
whose comment begins with "A mutant" are plausible bugs; no specification uses them, and
the property each one breaks is in `PROJECT.json`.

**Campaigns, RewardClaims.** Variables are rows: `campaign`, `tier[t]`, `progress[u]`,
`archived`, `status[k]`. An identity is a row that may not exist yet (`absent`). What a
claim is created with (`CustomerOf`, `TierOf`) never changes in the code and is a constant.
Recalculation is an environment here: a total may become any value of `Totals` at any time,
which is more than the code does. `EditableFields` says which columns administrators'
`PATCH` requests set: some properties hold only while a column is left alone, and the
theorems say so in their hypotheses.

**ClaimTransactions.** `txn[s]` is a request in progress: the statement it is at, the
status it saw, the tier it loaded. The tier is loaded with the claim (`selectinload`) in
`_get_claim`; `_get_tier(lock=True)` repeats the query with `FOR UPDATE`, but the session
keeps the object it has, since the query does not ask for `populate_existing`. So
`LockTier` applies the filter to the row as it is and the stock helper to the row as it was
loaded, and `Commit` writes the columns that differ from the loaded ones. `Blockers` says
for each statement whose lock a request waits for. `keyShare` is the
lock PostgreSQL takes on the tier for the foreign keys of a new claim and of a domain event.

**SyncRuns.** `request[r]` is the transaction that creates a run up to its publication,
`queue` the broker, `exec[r]` the task, `rowLock[i]` the row lock that the first flush of a
run takes on its integration, `redis[i]` the lock with a time to live. "running" is flushed
and never committed, so it is not a status here; hence recovery's part for running rows
never finds any, and `Recover` is its part for queued rows. `expired` is `failed` with the
message recovery writes. What a run reads and writes is not here but in `ErpFetch`, which
takes from `SyncRuns` that runs of one integration do not overlap (`Begin` is
`OneRunAtATime`). `ErpMirror` is instantiated with `versions` and `recorded`, which it calls
by the same names: the refinement mapping hides the run, the pages and the progress.

**ErpFetch.** `versions[d]` is what people in the ERP have made of a document, one content
after the other; `parties` its counterparties. `run[w]` is the run a worker executes: the
step it is at, the cursor `offset`, the attempts of the request at hand, the references and
sales its transaction has written (`found`, `wrote`), `failed_records` and
`affected_customer_ids`. `recorded[d]` is the version a sale record was made of, and
`progress[c]` the sales that were added up, so a total that is old can be told from one that
is right. A page is a request: `Page` counts rows off by offset in the order the provider
asks for, among what its filter lets through (`DemandListed`, `InvoiceListed`,
`DocumentListed`) at that moment. `FailFetch` is the except clause of `_execute_sync_run`,
which commits without recalculating; `Crash` is a dying worker. `steady`, `shrunk` and
`crashed` are history that only the properties read.

**NotificationOutbox.** `worker[w]` and `sender[s]` are batches: what they have read and
what they will commit. `setup` is what rule, template and condition come to; `audience`
is whom the rule finds. `eventLock`, `noteLock` are the row locks of updates.

**ImportPreview, SalesIntake.** A file is a sequence of lines, a line a record of cells; an
amount is its groups of digits and the marks between them, which is all that
`_parse_amount_minor` looks at. `Sound`, `Duplicate` and `Normalized` are
`_validate_row`, `_mark_duplicate_idempotency_keys` and `normalized_row_json`.
A feed is a batch being committed or the fetch of a run: its documents one
by one (reference, sale), then the totals of the customers it has touched. `txn[s].wrote`
is what it has written and not committed, `memory` the sales its ORM session holds and
will not load again, `refLock`, `saleLock`, `rowLock` the rows it has updated. A sale's
hash is the content it was made of. `Collide` is a unique constraint: the flush has rolled
the transaction back, and although the loop catches the error, the next statement fails.
`EnterSale` waits, as every insert does, for the transaction that has inserted the same key
and not committed. An external id stands for its customer. `Handled` are the customers that
staff, by hand, by recalculation or by giving them a second external id of the same source
(`POST /customers/{id}/external-refs`, `customers/service.py:165`), and synchronisation touch;
imports of a customer with two such ids wait at two rows, not at one. The properties are
about the others. One campaign, to which every sale counts with its
amount: campaign rules, dates and currencies are not in this module.

**StaffSessions, CustomerPortal.** A request is a process of two steps: the first has read
what the request decides by (`Begin...`), the second commits (`Finish...`, `UpdateUser`, ...);
no row is locked in between. `session[s]` is a row of `user_sessions` together with the
access token handed out with it; its `age` counts which of the two time limits have passed.
`from` and `login` are history: the session a session was exchanged for, and the login it
goes back to. `link[l]` is a magic link, `tokens` the links with a portal token that is still
good, `opened[l]` how often the link was really used. Passwords and signatures are right, or
the request does not begin.

## 3. What TLC checks

| run | instance | shows |
|---|---|---|
| `campaigns` | 3 tiers, 2 amounts, reorder requests of up to 4 identities | `LadderTypeOK`; `LiveAmountsDistinct`; `SortOrdersDistinct`, although a request may repeat an identity |
| `claims` | 3 claims of 2 customers on one tier, every mode, stock 0 to 2 or none; stock and activity edited, everything withdrawn | `TypeOK`; `OneActiveClaim`; `BooksBalance`: the counters are the numbers of claims; `ApprovalsFitStock`: an approval fits the stock of its moment, though stock may be lowered later; `WithdrawnTierFreezesClaims`: an approved claim whose tier is withdrawn for good can never be decided |
| `transactions` | 2 sessions, 2 customers, one strict tier edited meanwhile, fair | `TransactionsTypeOK`; `DeadlocksAreDecisionRaces`; `FreshCommitsAreAtomic`: a commit whose unlocked reads still hold is a step of `RewardClaims`; `RequestsFinish` |
| `transactions_double_claim` | 2 claims of one customer | **violated**: `OneActiveClaim` |
| `transactions_oversold` | 2 claims, one unit | **violated**: `ClaimsWithinStock` |
| `sync_runs` | 1 integration, 2 runs, crashes, expiring lock, fair | `SyncTypeOK`; `OneRunAtATime`; `OnlyExpiredRunsRevive`; `DisabledComesToRest`; `QueuedRunsEnd` |
| `erp_fetch` | 2 documents in pages of one row, 2 counterparties, 2 changes in the ERP, MoySklad and 1C, fair | `FetchTypeOK`; `MirrorSpec`, the refinement of `ErpMirror`; `CompletePass`: a successful run has missed nothing that stood still, unless the list shrank; `WithdrawnStaysCounted`: a document that is withdrawn after its sale was counted stays in its customer's total, through every later run that recalculates them; `OnlyThisSpoilsProgress`; `EndsUpCopied` |
| `erp_stale_progress` | the same | **violated**: `SuccessLeavesProgressRight` |
| `outbox_safety` | 1 event, 2 recipients, 2 workers, 2 senders, 1 failure | `OutboxTypeOK`; `OneNotePerRecipient`; `ProcessedLeavesNote`; `DeliveredIsRecorded`: only a lost batch forgets that a message has left; `OnlyProcessedFail`: an event fails only where it was processed before and a second worker finds several notifications of it |
| `outbox_progress` | 2 events, 2 workers, 1 sender, 1 failure, fair | `EventsEnd`; `NotesEnd` |
| `sales_intake` | 3 files, their batches and a fetch, 2 transactions at a time, 2 customers, 5 keys | `IntakeTypeOK`; `ImportedTotalsRight`: the update of the customer's reference makes imports of a customer wait for each other; `CommittedFeedIsIn`; `HashTellsContent`; `AmountsReadBack`: an amount means what was written, but for a decimal comma before three digits |
| `access` | 2 requests at a time, 2 users, 3 sessions, 1 customer with a link | `AccessTypeOK`; `ExchangesOverlap`: a refresh token is exchanged once, or as often as requests with it overlap; `OverForGood`; `LockedOutForGood`; `ClosedLinkWindsDown` |

**Bounds.** Two amounts and three tiers make the second tier of an amount refused and a
reorder non-trivial; four identities allow every permutation and one repetition. Two customers
and three claims give competition for stock (`k1`, `k2`) and for the one active claim (`k1`,
`k3`); stock 0 to 2 is none, too little and enough for two approvals. Claims on different
tiers share nothing but the customer, so one tier is enough. Two sessions are the
smallest number that overlaps; every lock conflict of the code is between two. In
`transactions` administrators edit the stock only: an edit of `is_active` takes the same
row lock, and the atomic edits are in `claims`. Two runs of
one integration cover overlap, recovery against a late worker and a lock deleted by another;
`Runs` is also the number of runs ever created. `MaxFailures` bounds lost batches.

In `erp_fetch` two documents in pages of one row are two pages, so that rows move between
pages read and pages to come; two changes (`MaxEdits`) are enough to add, move or withdraw a
document before and after it is read. One counterparty may be archived (`Leavers`), and a
document may name the other, none, or one that the run has not read. Of the three providers
the run takes two: Odoo lists and maps as 1C does and differs in that a document keeps its
place, so its behaviours are among those of 1C.

In `sales_intake`, `b1` and `b2` write the same sale of `u1`, `b3`
another one of `u1` (without the wait at the reference, the first tears a row and the
second a total), both orders of `u1` and `u2` let two commits wait for each other, `k4`
comes from a batch or by hand, and the return `k5` takes a total below zero. The files
contain a line of each invalid kind that preview tells apart. `MCSamples` are amounts around
every power of ten up to seven digits; with scales 0 to 3 and three styles every way of
grouping occurs.

`access` starts from four states instead of one (`MCInit`): a platform without a company, a
company whose second user is to be added, one manager with three sessions to spend, and a
customer with an owner who has logged out and still has an access token. Each keeps what
the others are about from multiplying; every one of them is reached from `Init`, or is such a
state after sessions have aged. Three sessions are a login and two exchanges,
or two logins; `MaxOpens` = 2 lets two uses of a link overlap.

One event shared by two workers suffices for duplicates, two
events for workers that wait for each other. `CHECK_DEADLOCK FALSE` is set where the system
may stop: a deleted campaign, all requests made, all runs finished and nothing scheduled, all
sessions used up.

**Fairness.** A request that has begun is carried on by the server (`WF` of `Step`);
row locks are granted in the order they were asked for, so a request whose lock is free
again and again gets it (`SF` of the locking statements); the deadlock detector runs (`WF`).
Beat starts recovery every 300 s and both notification tasks every 30 s (`workers/celery_app.py`),
a task ends within `task_time_limit`, Redis keys expire (`WF`). In `ErpFetch` beat begins
runs of an active integration again and again, and a worker's task goes on. Nothing is
assumed of customers, administrators, the broker, the ERPs or the other providers: requests,
deliveries of messages and successes need not happen. Hence `EndsUpCopied` says: unless runs
fail, or die, again and again.

## 4. What is proved

For every value of the constants that satisfies the modules' assumptions:

* `CampaignsProofs`: `CampaignsTypeCorrect`; `AmountsStayDistinct` ([]`LiveAmountsDistinct`,
  which is inductive together with the type invariant, because every action that sets an
  amount compares it with all other live tiers). `LadderIsCampaign`: the behaviours of
  `LadderSpec` are behaviours of `CampaignsSpec`, hence `LadderAmountsDistinct`.
  `LadderTypeCorrect`, and `PositionsStayDistinct` with the types as its strengthening: a new
  tier gets a position above all (a bounded set of numbers has a greatest), and a reorder
  request gives the live tiers the last place at which it names each, which no two share.
* `RewardClaimsProofs`: `TypeCorrect`. Counters could become negative but for the guards of
  the helpers. `OneActive` is inductive as it stands. `BooksBalanced` needs
  `ClaimsOnExistingTiers` (a claim that exists has a tier that does, or a tier created
  later would start with claims and zero counters) and the hypothesis
  `"mode" \notin EditableFields`; the step lemmas count how one claim's move changes
  the two cardinalities. `ReservationsHold` follows from it. `StrictNeverOversold`
  and `ClaimsStayWithinStock` need `"stock" \notin EditableFields` as well, with the
  strengthening that reserved and fulfilled units fit in the stock. `ApprovalsFit` and
  `WithdrawnFreezes` are action properties from the type invariant, without conditions on what
  is edited.
* `ClaimTransactionsProofs`: `TransactionsTypeCorrect` rests on what a request knows of what
  it has loaded (`Progressed`: past its lock, its helper's guard held of the loaded row) and
  on the counters of the row it has locked. `LocksPinRows`, from the fact that only the
  holder of the lock commits the tier and edits wait for it. `FreshCommitsAtomic`, the
  refinement of `RewardClaims` by fresh commits, with `Undisturbed` (who has no lock changes
  nothing) and `OneCreator` (two sessions never create the same claim).
  `OnlyDecisionsDeadlock`, from `LocksInv`: what a request may hold when it is at a statement
  (`HoldsOnly`). Tiers are locked before claims, and only the event of a rejection or a
  cancellation that needed no tier before asks for one after.
* `SyncRunsProofs`: `SyncTypeCorrect`; `RowSerialisesRuns` from `OwnsRow` (a run past its
  first flush that is not rolled back owns the integration's row); `MessagesFindRuns`;
  `CommittedRunsStay` from `OnePlace` (a run waits in one place only: request, queue
  or worker); `DisabledRests`, from the guard of `Request` and because everything else that
  sets a status is the end of a run that was under way.
* `ErpFetchProofs`: `FetchInvHolds` is type correctness with three facts: one run at a time;
  an idle worker has written nothing; and what is recorded, or written by a run, is a version
  that exists, the written one not older than the recorded one. The third needs the first:
  a page is mapped from what the ERP says at that moment, and only because no other run
  commits in between is it still the newer one at the run's own commit.
  `FetchImplementsMirror` is the refinement: changes in the ERP are `Publish`,
  commits `Adopt`, everything else a stutter.
  `WithdrawnStays` needs `Earned` besides: what a total adds up are versions that
  name the customer and are not cancelled. A withdrawn document, which no page lists, keeps its
  version on record and is in every later total.
  `OnlyTheseSpoil` is an action property from the first invariant alone; it
  shows that what a customer's sales add up to is disturbed by a commit only if the
  customer is affected or deserted. `PassesAreComplete` needs two more: documents have
  places of their own (`Located`), and what a run has passed by it has as it is
  (`Passed`: a steady document has at least `offset` rows before it, or is in the run's
  view), as long as nothing shrank or failed. The lemmas on pages say that the number of rows
  before a row tells it from others and takes every value up to it, so that a page with a row
  after it is full, and none is longer than the limit.
* `NotificationOutboxProofs`: the invariant `OutboxInv` adds to types and properties what a
  batch that is not committed holds. `InsertsAreNew`: a worker inserts a notification only
  while it has the event's row, and only if no one has it yet. `ResultsLeaveNotes`: an event
  about to be processed has, or will have, a notification. `SendersInv`: a sender handles
  one notification at a time and knows its result. From it `OutboxTypeCorrect`,
  `OneNoteEach`, `ProcessedHasNote` and, as an action property, `DeliveriesRecorded`.
  `FailedWereProcessed` has an invariant of its own, `FailureInv`: a batch that will fail an
  event has seen it processed, and several notifications that no one removes.
* `SalesIntakeProofs`: `PlacedInv` says what is known of a transaction at each of its
  statements: the row it is at, what it has loaded, and that what it has passed is in its view.
  From it `IntakeTypeCorrect` and `CommittedFeedsAreIn`. `SerialInv` adds, for a customer who
  is only imported, that whatever a transaction reads or writes of them, it does with the lock
  of their reference (`Serial`): what it remembers of their sales is what is committed or
  its own, a sale it has written has the hash of its content, and a total it has computed is
  that of its view. So the commit is as if it were alone: `ImportedTotalsAreRight` and
  `HashesTellContent`. `EveryAmountReadsBack` is about the amounts in files: every number of
  up to nine digits, with every scale up to 3 and in each of the three styles, is accepted and
  read as what was written, or as a thousand times as much in exactly the case that
  `Mistaken` names. With `SourcedInv` (an amount on record, or written by a transaction that
  is not committed, is one that a document, the sales from before or staff give for that key)
  follow `AmountsAreGiven`, and `AmountsAreReadBack` for all that is ever on record.
  `BatchesAreTheirFiles` is about preview: the place of a line is the number of valid lines up
  to it, which takes every value up to their number (`PlacesCount`), and lines that share a
  key are all invalid. With `OnceInv` (what a transaction has written is of documents before
  the one at hand) follows `BatchesWriteEachSaleOnce`, for every feed that is a file. A run of
  the synchronisation has no such theorem: its pages may list a document twice.
* `CustomerPortalProofs`: `AccessInvHolds`, an invariant in six parts: types; what a request
  names exists (`Known`); the session that another was exchanged for exists and is revoked
  (`Families`); `ExchangesOverlap`, for any number of
  requests at a time, where a refresh in flight is a unit of the budget that becomes a session;
  and for links `Unused` and `UsesAreCounted`. From it `OverIsForGood`, `LockedOutStaysSo`,
  `ClosedLinksWindDown` and `DisabledAreOut`, as action properties.

`ReservationsHold`, `StrictNeverOversold`, `ClaimsStayWithinStock`, `LocksPinRows`,
`MessagesFindRuns`, `LadderIsCampaign`, `DisabledAreOut`, `UsesCounted`, `AmountsAreGiven`,
`EveryAmountReadsBack`, `BatchesAreTheirFiles` and `BatchesWriteEachSaleOnce` state properties
that no passing run lists: they are proved, and the runs are kept to what a proof does not
already settle.

**Assumptions.** Constants are sets and functions of the right kind, and finite where a sum or
a cardinality is taken (`LadderAssumption`: tiers; `ErpAssumption`: documents and
counterparties; `IntakeAssumption`: keys; `OutboxAssumption`: recipients). `ErpAssumption` starts from a list whose order is
total, as `FreePlace` keeps it: two documents at one place could be listed in either order by
either page, and nothing the code does would tell. `IntakeAssumption` says that staff and
synchronisation may touch the customers of synchronised documents (they are in `Handled`),
that sales there from the start have the hash of their content, and that the file of a batch is
a sequence of lines (`IsFile`).
`ImportedTotalsAreRight` and `HashesTellContent` have a hypothesis of their own,
`OneCustomerPerKey`: a sale of an imported customer is never another's. Without it the first is
false of the code, which recalculates a sale that moves to another customer for the new one
alone (section 5). `MCSalesIntake` assumes it too, so that TLC checks that its instance
satisfies it. `AmountsAreReadBack` has `SamplesSuffice`: the `Samples`, and so all amounts that
can get on record, are numbers of at most nine digits, the longest that the reference
`Written` can group; `MCSalesIntake` assumes that too.

**Folds without induction.** A total is a fold over the set of keys, and the library's
theorems of induction take an operator, which the provers cannot instantiate. The lemmas on
sums take instead a smallest set for which the claim fails (`WFMin`, over strict
subsets) and refute it: a function that adds up exists (`AddsExists`), is the only one
(`AddsUnique`), and so a total is a number (`WorthIsInt`) that depends on the customer's sales
only (`TotalSame`). What the groups of an amount come to (`Join`) is a fold as well, but of four
groups at most, so that it is unfolded: `JoinOneMore` says what one more group does, and the
rest is division by powers of ten (`Tens`) and a case distinction on the marks
(`WithoutFraction`, `WithFraction`, `WithMistakenComma`).

**Only model-checked.** Liveness (`RequestsFinish`, `QueuedRunsEnd`, `EndsUpCopied`,
`EventsEnd`, `NotesEnd`): the prover has no rule for the fairness of these actions. Every
invariant and every other action property of the passing runs is also proved. The disagreements of section 5 that have
a run are counterexamples, for TLC to find.

## 5. Where code and its own statements differ

With a run: two overlapping requests of one customer make two active claims
(`claims/service.py:146-158`); two overlapping approvals promise the last strict unit twice
(`:160-167`); a run that fails on a later page commits the sales of the earlier ones without
recalculating, and the next run, which succeeds, leaves it at that (`sync/service.py:372-398`).

Seen while modelling, without a run that shows it:

* After `stock_tracking_mode` is edited, a claim approved under `none` finds no reservation
  and cannot be decided any more (`claims/service.py:173`).
* Decisions overwrite: a claim read as pending by two requests takes the later one's status,
  a claim that was cancelled meanwhile is approved (`:348`, `:393`, `:442`, `:490`).
  `FreshCommitsAreAtomic` leaves out exactly these commits.
* Two overlapping requests can store two tiers of one amount (`campaigns/service.py:359`);
  a reorder request that repeats an identity leaves gaps (`:555-561`).
* A run that was queued or executed when its integration was disabled goes on, and its end
  enables the integration again (`sync/service.py:292`, `:369`, `:396`), although "Disabled
  integrations cannot be synced." (`:138`); `DisabledComesToRest` says what does hold.
* Runs remove nothing: a document that is deleted, or withdrawn from an ERP that lists posted
  ones only, is counted on (`WithdrawnStaysCounted`).
* Pages counted off by offset skip a document if others leave the list before it while it is
  read; the next run brings it.
* A sale that a feed moves to another customer is recalculated for the new one only
  (`sync/service.py:809-825`).
* An archived customer makes every import that touches its sales fail, and ends the
  recalculations of a synchronisation, which still counts the run as done with errors; the
  totals of the remaining customers stay old until something touches them
  (`progress/service.py:567`, `sync/service.py:919`).
* `RUNNING` runs are never visible to recovery; a run that finds the Redis lock taken puts
  its integration in `error`, which ends its schedule.
* A notification the provider refuses is `failed` at once; the comment in `ops/service.py`
  says the main task retries it, but that task only reads pending ones, so the three
  attempts never happen and `recover_notifications` finds nothing.
* An event whose notification cannot be stored (a rendered subject over 500 characters)
  fails the whole batch, every time.
* A cancellation that overlaps a commit of its batch, read as previewed by both, leaves the
  batch cancelled and its sales applied, although "Committed import batches cannot be
  cancelled." (`imports/service.py:832`).
* A decimal comma before three digits is read as one between thousands: `1,500` of a currency
  with three decimals is 1500 whole units (`imports/service.py:85-112`).
* The key that preview makes for a line without a number leaves out kind and sign: a return
  in one file replaces the sale of the same customer, day, currency and amount of another
  (`_build_idempotency_key`).
* Recalculations of one customer that overlap, staff's or a run's with an import's, leave
  an old total, or the total of one and the tier of the other (`progress/service.py:357`).
* Overlapping refreshes of one token each open a session (`auth/service.py:237`);
  overlapping uses of a link are counted once (`portal/service.py:220`). `ExchangesOverlap`
  and `UsesAreCounted` say how far that can go.
* The last administrator of a company may be disabled or demoted, and nobody can undo it
  through the interface (`users/service.py:163`).
* Two overlapping rotations of credentials leave two active rows, and every answer that tells
  whether there are any then raises (`integrations/service.py:275`).

## 6. Not modelled

* Which sales count for a campaign and with what amount (`_calculate_total`,
  `_amount_for_record`, exclusions, date and currency filters) and basis points: pure functions of one row
  and its campaign. Every sale counts here.
* Creation and rotation of credentials, edits of customers and of a company's settings, rules
  and templates of notifications: single-row edits without a protocol; what they lead to is
  an input of the models.
* Reports and the platform's overviews (queries), audit (rows that nothing reads back),
  billing (one row per company), the health checks.
* Of amounts in files: spaces, currency words, exponents, `NaN`.
* The ERPs themselves: their documents are the environment of `ErpFetch`; the field by
  field mapping, amounts, currencies and the settings that widen the filters are left out.
* Front end, migrations, wording, logging, pagination of this API, language.
