------------------------- MODULE ClaimTransactions -------------------------
(***************************************************************************)
(* The requests of RewardClaims as the database sees them.  Each HTTP      *)
(* request runs in one READ COMMITTED transaction of PostgreSQL; requests  *)
(* interleave between their SQL statements.  A request                     *)
(*   - reads the claim and judges its status (no lock),                    *)
(*   - if stock is concerned, loads the tier with the claim and then locks *)
(*     it with FOR UPDATE; the query is repeated on the row as it is by    *)
(*     then, but the object in the session keeps the counters it was       *)
(*     loaded with (no populate_existing), and these are what the stock    *)
(*     helper tests and increments,                                        *)
(*   - updates the claim by primary key, whatever its status is by then,   *)
(*   - inserts the domain event, whose foreign key needs a KEY SHARE lock  *)
(*     on the tier, which FOR UPDATE excludes,                             *)
(*   - commits, writing the columns that differ from the loaded object.    *)
(* The campaign runs throughout; its administrators edit its tiers.        *)
(***************************************************************************)
EXTENDS RewardClaims

CONSTANTS Sessions,    \* concurrent requests
          NoSession    \* holds no lock

ASSUME SessionsAssumption == NoSession \notin Sessions

VARIABLES txn,         \* the transaction of each session
          tierLock,    \* the session that holds a tier row FOR UPDATE
          keyShare,    \* the sessions that hold it FOR KEY SHARE
          claimLock    \* the session that has updated a claim row

locks == <<tierLock, keyShare, claimLock>>
tVars == <<vars, txn, locks>>

Requests == {"create", "approve", "reject", "cancel", "fulfill"}

\* The statuses a request accepts and the one it sets.
From(op) ==
    CASE op = "create"  -> {"absent"}
      [] op = "approve" -> {"pending"}
      [] op = "fulfill" -> {"approved"}
      [] OTHER          -> ActiveStatuses

Target(op) ==
    CASE op = "create"  -> "pending"
      [] op = "approve" -> "approved"
      [] op = "reject"  -> "rejected"
      [] op = "cancel"  -> "cancelled"
      [] op = "fulfill" -> "fulfilled"

Idle == [pc |-> "idle"]

\* seen: the claim's status as read; loaded: the tier as read, NoTier if it
\* is not needed.
Transaction ==
    [pc : {"check", "load", "lock", "write", "emit", "commit"},
     op : Requests, claim : Claims, seen : ClaimStatuses, loaded : GiftTier]

TransactionsTypeOK ==
    /\ TypeOK
    /\ txn \in [Sessions -> Transaction \cup {Idle}]
    /\ tierLock \in [Tiers -> Sessions \cup {NoSession}]
    /\ keyShare \in [Tiers -> SUBSET Sessions]
    /\ claimLock \in [Claims -> Sessions \cup {NoSession}]

\* A campaign that is running, with customers who have reached some tiers.
TInit ==
    /\ campaign = [status |-> "active", allow_claims |-> TRUE, deleted |-> FALSE]
    /\ tier \in [Tiers -> {[row |-> "live", required |-> d.required, mode |-> d.mode,
                            stock |-> d.stock, active |-> d.active,
                            reserved |-> 0, fulfilled |-> 0] : d \in TierData}]
    /\ LiveAmountsDistinct
    /\ progress \in [Customers -> Totals]
    /\ archived = {}
    /\ status = [k \in Claims |-> "absent"]
    /\ txn = [s \in Sessions |-> Idle]
    /\ tierLock = [t \in Tiers |-> NoSession]
    /\ keyShare = [t \in Tiers |-> {}]
    /\ claimLock = [k \in Claims |-> NoSession]

----------------------------------------------------------------------------
(* Locks.                                                                  *)

At(s, pc) == txn[s].pc = pc

TierOfTxn(s) == TierOf[txn[s].claim]

MoveTo(s, pc) == txn' = [txn EXCEPT ![s].pc = pc]

\* The end of a transaction releases all its locks.
Release(s) ==
    /\ tierLock' = [t \in Tiers |-> IF tierLock[t] = s THEN NoSession ELSE tierLock[t]]
    /\ keyShare' = [t \in Tiers |-> keyShare[t] \ {s}]
    /\ claimLock' = [k \in Claims |-> IF claimLock[k] = s THEN NoSession ELSE claimLock[k]]
    /\ txn' = [txn EXCEPT ![s] = Idle]

\* The requests that take the tier FOR UPDATE: those that move stock.
MovesStock(s) == txn[s].op \in {"approve", "fulfill"} \/ txn[s].seen = "approved"

\* The sessions whose locks s has to wait for.
Blockers(s) ==
    (CASE At(s, "lock") -> {tierLock[TierOfTxn(s)]} \cup keyShare[TierOfTxn(s)]
       [] At(s, "write") /\ txn[s].op # "create" -> {claimLock[txn[s].claim]}
       [] At(s, "write") /\ txn[s].op = "create" -> {tierLock[TierOfTxn(s)]}
       [] At(s, "emit") -> {tierLock[TierOfTxn(s)]}
       [] OTHER -> {})
      \ {s, NoSession}

----------------------------------------------------------------------------
(* A transaction, statement by statement.                                  *)

\* The first reads, and the checks that depend on nothing else.  A new claim
\* has a fresh identity.
Begin(s, op, k) ==
    /\ At(s, "idle")
    /\ status[k] \in From(op)
    /\ op = "create" => /\ FindTier(k)
                        /\ Reached(CustomerOf[k], TierOf[k])
                        /\ \A r \in Sessions :
                             ~At(r, "idle") => txn[r].claim # k
    /\ txn' = [txn EXCEPT ![s] =
                 [pc |-> IF op = "create" THEN "check"
                         ELSE IF op \in {"reject", "cancel"} /\ status[k] = "pending"
                              THEN "write" ELSE "load",
                  op |-> op, claim |-> k, seen |-> status[k], loaded |-> NoTier]]
    /\ UNCHANGED <<vars, locks>>

\* The end of _ensure_claimable: a SELECT of the committed active claims.
CheckActiveClaim(s) ==
    /\ At(s, "check")
    /\ ~HasActiveClaim(CustomerOf[txn[s].claim])
    /\ MoveTo(s, "write")
    /\ UNCHANGED <<vars, locks>>

\* A mutant: the tier is already locked when it is loaded, but for sharing.
LoadTierShared(s) ==
    /\ At(s, "load")
    /\ tierLock[TierOfTxn(s)] = NoSession
    /\ txn' = [txn EXCEPT ![s].loaded = tier[TierOfTxn(s)], ![s].pc = "lock"]
    /\ keyShare' = [keyShare EXCEPT ![TierOfTxn(s)] = @ \cup {s}]
    /\ UNCHANGED <<vars, tierLock, claimLock>>

\* selectinload(RewardClaim.gift_tier), in a statement of its own.
LoadTier(s) ==
    /\ At(s, "load")
    /\ txn' = [txn EXCEPT ![s].loaded = tier[TierOfTxn(s)], ![s].pc = "lock"]
    /\ UNCHANGED <<vars, locks>>

\* A mutant: a release does not look whether there is a reservation.
CanMoveUnchecked(s) ==
    txn[s].op = "approve" => CanReserve(txn[s].loaded)

CanMove(s) ==
    IF txn[s].op = "approve" THEN CanReserve(txn[s].loaded)
    ELSE CanRelease(txn[s].loaded)

Moved(s) ==
    CASE txn[s].op = "approve" -> Reserved(txn[s].loaded)
      [] txn[s].op = "fulfill" -> FulfilledStock(txn[s].loaded)
      [] OTHER                 -> Released(txn[s].loaded)

\* _get_tier(lock=True) sees the row as it is now, the stock helper the row
\* as it was loaded.
LockTier(s) ==
    /\ At(s, "lock")
    /\ Blockers(s) = {}
    /\ FindTier(txn[s].claim)
    /\ CanMove(s)
    /\ tierLock' = [tierLock EXCEPT ![TierOfTxn(s)] = s]
    /\ MoveTo(s, "write")
    /\ UNCHANGED <<vars, keyShare, claimLock>>

\* The flush: INSERT or UPDATE of the claim.  Inserting it locks its tier's
\* key, as inserting its event does.
InsertClaim(s) ==
    /\ At(s, "write")
    /\ txn[s].op = "create"
    /\ Blockers(s) = {}
    /\ keyShare' = [keyShare EXCEPT ![TierOfTxn(s)] = @ \cup {s}]
    /\ MoveTo(s, "commit")
    /\ UNCHANGED <<vars, tierLock, claimLock>>

UpdateClaim(s) ==
    /\ At(s, "write")
    /\ txn[s].op # "create"
    /\ Blockers(s) = {}
    /\ claimLock' = [claimLock EXCEPT ![txn[s].claim] = s]
    /\ MoveTo(s, IF MovesStock(s) THEN "commit" ELSE "emit")
    /\ UNCHANGED <<vars, tierLock, keyShare>>

\* domain_event_service.emit, where the tier is not locked already.
EmitEvent(s) ==
    /\ At(s, "emit")
    /\ Blockers(s) = {}
    /\ keyShare' = [keyShare EXCEPT ![TierOfTxn(s)] = @ \cup {s}]
    /\ MoveTo(s, "commit")
    /\ UNCHANGED <<vars, tierLock, claimLock>>

\* The columns the request has changed replace those of the row.
WriteBack(row, old, new) ==
    [row EXCEPT !.reserved = IF new.reserved # old.reserved THEN new.reserved ELSE @,
                !.fulfilled = IF new.fulfilled # old.fulfilled THEN new.fulfilled ELSE @]

Commit(s) ==
    /\ At(s, "commit")
    /\ ClaimMoves(txn[s].claim, Target(txn[s].op))
    /\ tier' = IF MovesStock(s)
               THEN [tier EXCEPT ![TierOfTxn(s)] = WriteBack(@, txn[s].loaded, Moved(s))]
               ELSE tier
    /\ Release(s)
    /\ UNCHANGED <<campaign, progress, archived>>

\* A mutant: the refused request keeps its connection, and with it its locks.
RollBackKeepsLocks(s) ==
    /\ txn' = [txn EXCEPT ![s] = Idle]
    /\ UNCHANGED <<vars, locks>>

RollBack(s) == Release(s) /\ UNCHANGED vars

\* A check that came too late for Begin fails, and the router rolls back.
Refuse(s) ==
    /\ \/ At(s, "check") /\ HasActiveClaim(CustomerOf[txn[s].claim])
       \/ At(s, "lock") /\ Blockers(s) = {} /\ ~(FindTier(txn[s].claim) /\ CanMove(s))
    /\ RollBack(s)

\* The server process dies or the client's connection is lost.
Disconnect(s) == ~At(s, "idle") /\ RollBack(s)

\* PostgreSQL aborts a transaction that waits for one that waits for it.
DetectDeadlock(s) ==
    /\ ~At(s, "idle")
    /\ \E r \in Blockers(s) : s \in Blockers(r)
    /\ RollBack(s)

\* A mutant: tiers are edited past the locks.
EditTiersAtOnce ==
    /\ TierStep
    /\ UNCHANGED <<progress, archived, status, txn, locks>>

\* An administrator's request on tiers waits for the rows it updates.
EditTiers ==
    /\ TierStep
    /\ \A t \in Tiers : tier'[t] # tier[t] => tierLock[t] = NoSession
    /\ UNCHANGED <<progress, archived, status, txn, locks>>

Step(s) ==
    \/ CheckActiveClaim(s)
    \/ LoadTier(s)
    \/ LockTier(s)
    \/ InsertClaim(s)
    \/ UpdateClaim(s)
    \/ EmitEvent(s)
    \/ Commit(s)
    \/ Refuse(s)

TNext ==
    \/ \E s \in Sessions, op \in Requests, k \in Claims : Begin(s, op, k)
    \/ \E s \in Sessions : Step(s)
    \/ \E s \in Sessions : Disconnect(s)
    \/ \E s \in Sessions : DetectDeadlock(s)
    \/ EditTiers

TSpec == TInit /\ [][TNext]_tVars

\* A request that has begun is carried on by the server; PostgreSQL grants
\* row locks in the order they were asked for, so a request that can have its
\* lock again and again gets it; the deadlock detector runs.  Nobody has to
\* send a request, and nothing has to fail.
Fairness ==
    \A s \in Sessions :
      /\ WF_tVars(Step(s))
      /\ SF_tVars(LockTier(s) \/ Refuse(s))
      /\ SF_tVars(InsertClaim(s) \/ UpdateClaim(s))
      /\ SF_tVars(EmitEvent(s))
      /\ WF_tVars(DetectDeadlock(s))

FairTSpec == TSpec /\ Fairness

----------------------------------------------------------------------------
(* Properties.                                                             *)

\* Nobody changes a tier's row under a session that keeps its lock, so what
\* the session commits for the tier is its own arithmetic alone: neither an
\* administrator's edit nor another decision slips in between its FOR UPDATE
\* and its commit.
LockPinsRow ==
    [][\A t \in Tiers :
         tierLock[t] # NoSession /\ tierLock'[t] = tierLock[t] => tier'[t] = tier[t]]_tVars

\* What a committing request has read and cannot have locked is still so: for
\* a new claim, that the customer has no other and the tier can be claimed;
\* for a decision, the claim's status and the columns its arithmetic uses.
StillTrue(s) ==
    IF txn[s].op = "create"
    THEN /\ ~HasActiveClaim(CustomerOf[txn[s].claim])
         /\ FindTier(txn[s].claim)
         /\ Reached(CustomerOf[txn[s].claim], TierOfTxn(s))
    ELSE /\ status[txn[s].claim] = txn[s].seen
         /\ MovesStock(s) =>
              \A column \in {"mode", "stock", "reserved", "fulfilled"} :
                tier[TierOfTxn(s)][column] = txn[s].loaded[column]

\* Only stale reads separate the requests from the atomic ones: a commit
\* whose reads are still true is a step of RewardClaims, whatever other
\* requests, edits of the tier's other columns and lost connections came in
\* between.
FreshCommitsAreAtomic ==
    [][\A s \in Sessions : Commit(s) /\ StillTrue(s) => ClaimStep]_tVars

\* The only way two requests can wait for each other: one decides a claim with
\* its tier locked, the other rejects or cancels the same claim as pending and
\* needs the tier for its event.
DecisionRace(s, r) ==
    /\ txn[s].claim = txn[r].claim
    /\ At(s, "write") /\ tierLock[TierOfTxn(s)] = s
    /\ At(r, "emit") /\ claimLock[txn[r].claim] = r

DeadlocksAreDecisionRaces ==
    \A s, r \in Sessions :
      r \in Blockers(s) /\ s \in Blockers(r) => DecisionRace(s, r) \/ DecisionRace(r, s)

\* Every request that was begun is answered, in spite of locks and deadlocks.
RequestsFinish ==
    \A s \in Sessions : ~At(s, "idle") ~> At(s, "idle")
=============================================================================
