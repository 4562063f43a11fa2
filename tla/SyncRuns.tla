------------------------------ MODULE SyncRuns ------------------------------
(***************************************************************************)
(* Synchronisation runs of ERP integrations: SyncService                   *)
(* (modules/sync/service.py), its Celery tasks (modules/sync/tasks.py),    *)
(* the recovery task (modules/ops/service.py) and the integration's row.   *)
(* Creation and publication, the message broker, the Redis lock with its   *)
(* time to live, the row locks PostgreSQL takes at the first flush, and    *)
(* workers that die are all visible.                                       *)
(*                                                                         *)
(* What a run does with the rows it fetches is reduced to its outcome, and *)
(* the sync cursor is left out: every provider pages until it has no next  *)
(* cursor, so a completed run always stores an empty one.                  *)
(***************************************************************************)
EXTENDS Naturals, FiniteSets

CONSTANTS Integrations,
          Runs,              \* identities a sync_runs row can have
          IntegrationOf,     \* the integration_id a run is created with
          AdminStatuses,     \* statuses an administrator sets in the model
          NoRun

ASSUME SyncAssumption ==
    /\ NoRun \notin Runs
    /\ IsFiniteSet(Runs)
    /\ IntegrationOf \in [Runs -> Integrations]
    /\ AdminStatuses \subseteq {"draft", "active", "disabled", "error"}

VARIABLES
    run,       \* committed status of each run; "expired" is failed, with
               \* "Queued sync expired before worker execution"
    aged,      \* runs created longer than sync_queued_timeout_minutes ago
    request,   \* the transaction that creates a run, up to its publication
    queue,     \* runs whose message waits in the broker
    integ,     \* the integrations' rows
    exec,      \* the worker that executes a run: where it is, the status of
               \* the integration it has loaded, the outcome it will commit
    rowLock,   \* the run whose transaction has updated the integration's row
    redis      \* the run whose token is stored as the integration's lock

vars == <<run, aged, request, queue, integ, exec, rowLock, redis>>

Outcomes == {"success", "partially_failed", "failed"}
Finished == Outcomes \cup {"expired"}

IntegrationStatuses == {"draft", "active", "disabled", "error"}

Places == {"idle", "loaded", "refused", "locked", "fetching", "ending",
           "deleting", "committing"}

IntegrationRows == [status : IntegrationStatuses, deleted : BOOLEAN, due : BOOLEAN]

Executions == [pc : Places, seen : IntegrationStatuses,
               outcome : Outcomes \cup {"rolled_back"}]

Idle == [pc |-> "idle", seen |-> "draft", outcome |-> "failed"]

SyncTypeOK ==
    /\ run \in [Runs -> {"absent", "queued"} \cup Finished]
    /\ aged \subseteq Runs
    /\ request \in [Runs -> {"none", "manual", "scheduled", "committed"}]
    /\ queue \subseteq Runs
    /\ integ \in [Integrations -> IntegrationRows]
    /\ exec \in [Runs -> Executions]
    /\ rowLock \in [Integrations -> Runs \cup {NoRun}]
    /\ redis \in [Integrations -> Runs \cup {NoRun}]

\* An integration with a schedule, already activated by its administrator.
Init ==
    /\ run = [r \in Runs |-> "absent"]
    /\ aged = {}
    /\ request = [r \in Runs |-> "none"]
    /\ queue = {}
    /\ integ = [i \in Integrations |->
                  [status |-> "active", deleted |-> FALSE, due |-> TRUE]]
    /\ exec = [r \in Runs |-> Idle]
    /\ rowLock = [i \in Integrations |-> NoRun]
    /\ redis = [i \in Integrations |-> NoRun]

----------------------------------------------------------------------------
(* Creation.  The check for active runs and the insertion are separate     *)
(* statements of a transaction that locks nothing in between.              *)

\* ACTIVE_SYNC_STATUSES.  "running" is flushed but never committed, so other
\* transactions only ever see "queued".
ActiveRuns(i) == {r \in Runs : IntegrationOf[r] = i /\ run[r] = "queued"}

Unused(r) == run[r] = "absent" /\ request[r] = "none"

Scheduled(i) == integ[i].status = "active" /\ ~integ[i].deleted /\ integ[i].due

\* A mutant: the integration's status is not looked at.
RequestAnyRun(r) ==
    LET i == IntegrationOf[r] IN
    /\ Unused(r)
    /\ ~integ[i].deleted
    /\ ActiveRuns(i) = {}
    /\ request' = [request EXCEPT ![r] = "manual"]
    /\ UNCHANGED <<run, aged, queue, integ, exec, rowLock, redis>>

\* create_sync_run up to its insertion.
RequestRun(r) ==
    LET i == IntegrationOf[r] IN
    /\ Unused(r)
    /\ ~integ[i].deleted
    /\ integ[i].status # "disabled"
    /\ ActiveRuns(i) = {}
    /\ request' = [request EXCEPT ![r] = "manual"]
    /\ UNCHANGED <<run, aged, queue, integ, exec, rowLock, redis>>

\* create_due_scheduled_sync_runs.  scalar_one_or_none raises if some due
\* integration has two active runs, and then no integration is scheduled.
ScheduleRun(r) ==
    LET i == IntegrationOf[r] IN
    /\ Unused(r)
    /\ \A j \in Integrations : Scheduled(j) => Cardinality(ActiveRuns(j)) <= 1
    /\ Scheduled(i)
    /\ ActiveRuns(i) = {}
    /\ request' = [request EXCEPT ![r] = "scheduled"]
    /\ UNCHANGED <<run, aged, queue, integ, exec, rowLock, redis>>

\* The insertion and its commit.  A scheduled run also updates the
\* integration's next_sync_at, so it waits for the row.
InsertRun(r) ==
    LET i == IntegrationOf[r] IN
    /\ \/ /\ request[r] = "manual"
          /\ UNCHANGED integ
       \/ /\ request[r] = "scheduled"
          /\ rowLock[i] = NoRun
          /\ integ' = [integ EXCEPT ![i].due = FALSE]
    /\ run' = [run EXCEPT ![r] = "queued"]
    /\ request' = [request EXCEPT ![r] = "committed"]
    /\ UNCHANGED <<aged, queue, exec, rowLock, redis>>

Publish(r) ==
    /\ request[r] = "committed"
    /\ queue' = queue \cup {r}
    /\ request' = [request EXCEPT ![r] = "none"]
    /\ UNCHANGED <<run, aged, integ, exec, rowLock, redis>>

\* The process dies: before its commit, or between commit and publication.
LoseRequest(r) ==
    /\ request[r] # "none"
    /\ request' = [request EXCEPT ![r] = "none"]
    /\ UNCHANGED <<run, aged, queue, integ, exec, rowLock, redis>>

----------------------------------------------------------------------------
(* Execution: one task of a worker, one transaction.  The message is       *)
(* acknowledged before the task starts.                                    *)

At(r, pc) == exec[r].pc = pc
MoveTo(r, pc) == exec' = [exec EXCEPT ![r].pc = pc]
EndWith(r, pc, outcome) ==
    exec' = [exec EXCEPT ![r] = [@ EXCEPT !.pc = pc, !.outcome = outcome]]

\* get_integration of a deleted integration raises before anything is
\* written, and the run stays queued.
TakeMessage(r) ==
    LET i == IntegrationOf[r] IN
    /\ r \in queue
    /\ queue' = queue \ {r}
    /\ exec' = IF integ[i].deleted THEN exec
               ELSE [exec EXCEPT ![r] = [pc |-> "loaded", outcome |-> "failed",
                                            seen |-> integ[i].status]]
    /\ UNCHANGED <<run, aged, request, integ, rowLock, redis>>

\* SET NX EX.
AcquireLock(r) ==
    /\ At(r, "loaded")
    /\ IF redis[IntegrationOf[r]] = NoRun
       THEN /\ redis' = [redis EXCEPT ![IntegrationOf[r]] = r]
            /\ MoveTo(r, "locked")
       ELSE /\ MoveTo(r, "refused")
            /\ UNCHANGED redis
    /\ UNCHANGED <<run, aged, request, queue, integ, rowLock>>

\* A mutant: no column of the integration is written at the start.
StartUnlocked(r) ==
    /\ At(r, "locked")
    /\ MoveTo(r, "fetching")
    /\ UNCHANGED <<run, aged, request, queue, integ, rowLock, redis>>

\* The flush of "running" and last_attempted_sync_at: the transaction owns
\* both rows until it ends.
StartFetching(r) ==
    /\ At(r, "locked")
    /\ rowLock[IntegrationOf[r]] = NoRun
    /\ rowLock' = [rowLock EXCEPT ![IntegrationOf[r]] = r]
    /\ MoveTo(r, "fetching")
    /\ UNCHANGED <<run, aged, request, queue, integ, redis>>

\* The connection test, the fetches, the upserts and the recalculation end.
\* After a database error the session cannot write the failure either: it
\* has rolled back, and the exception leaves the task.
FinishFetching(r) ==
    /\ At(r, "fetching")
    /\ \/ \E outcome \in Outcomes :
            /\ EndWith(r, "ending", outcome)
            /\ UNCHANGED rowLock
       \/ /\ EndWith(r, "ending", "rolled_back")
          /\ rowLock' = [rowLock EXCEPT ![IntegrationOf[r]] = NoRun]
    /\ UNCHANGED <<run, aged, request, queue, integ, redis>>

\* _mark_run_failed_from_exception, for a run that did not get the lock.
FailRefused(r) ==
    /\ At(r, "refused")
    /\ rowLock[IntegrationOf[r]] = NoRun
    /\ rowLock' = [rowLock EXCEPT ![IntegrationOf[r]] = r]
    /\ EndWith(r, "committing", "failed")
    /\ UNCHANGED <<run, aged, request, queue, integ, redis>>

\* The finally clause, before the task commits: GET, compare, DELETE.
ReleaseLock(r) ==
    LET i == IntegrationOf[r] IN
    /\ \/ /\ At(r, "ending")
          /\ MoveTo(r, IF redis[i] = r THEN "deleting" ELSE "committing")
          /\ UNCHANGED redis
       \/ /\ At(r, "deleting")
          /\ redis' = [redis EXCEPT ![i] = NoRun]
          /\ MoveTo(r, "committing")
    /\ UNCHANGED <<run, aged, request, queue, integ, rowLock>>

\* What the outcome assigns to the integration's status.
StatusAfter(seen, outcome) ==
    CASE outcome = "success" -> "active"
      [] outcome = "failed" -> "error"
      [] OTHER -> seen

\* A mutant: the outcome is committed even after a roll-back.
CommitBlindly(r) ==
    /\ At(r, "committing")
    /\ run' = [run EXCEPT ![r] = exec[r].outcome]
    /\ exec' = [exec EXCEPT ![r] = Idle]
    /\ rowLock' = [rowLock EXCEPT ![IntegrationOf[r]] = IF @ = r THEN NoRun ELSE @]
    /\ UNCHANGED <<aged, request, queue, integ, redis>>

\* The ORM writes the integration's status only if it differs from what the
\* task has loaded.
CommitRun(r) ==
    LET i == IntegrationOf[r]
        to == StatusAfter(exec[r].seen, exec[r].outcome) IN
    /\ At(r, "committing")
    /\ IF exec[r].outcome = "rolled_back"
       THEN UNCHANGED <<run, integ, rowLock>>
       ELSE /\ run' = [run EXCEPT ![r] = exec[r].outcome]
            /\ integ' = IF to = exec[r].seen THEN integ
                        ELSE [integ EXCEPT ![i].status = to]
            /\ rowLock' = [rowLock EXCEPT ![i] = NoRun]
    /\ exec' = [exec EXCEPT ![r] = Idle]
    /\ UNCHANGED <<aged, request, queue, redis>>

\* The worker dies or reaches task_time_limit: its transaction is rolled
\* back, and its Redis lock stays.
Crash(r) ==
    LET i == IntegrationOf[r] IN
    /\ ~At(r, "idle")
    /\ exec' = [exec EXCEPT ![r] = Idle]
    /\ rowLock' = [rowLock EXCEPT ![i] = IF @ = r THEN NoRun ELSE @]
    /\ UNCHANGED <<run, aged, request, queue, integ, redis>>

TaskStep(r) ==
    \/ AcquireLock(r)
    \/ StartFetching(r)
    \/ FinishFetching(r)
    \/ FailRefused(r)
    \/ ReleaseLock(r)
    \/ CommitRun(r)

----------------------------------------------------------------------------
(* Time, recovery and administrators.                                      *)

\* sync_lock_ttl_seconds is half of what a task may take.
ExpireLock(i) ==
    /\ redis[i] # NoRun
    /\ redis' = [redis EXCEPT ![i] = NoRun]
    /\ UNCHANGED <<run, aged, request, queue, integ, exec, rowLock>>

Age(r) ==
    /\ run[r] = "queued"
    /\ r \notin aged
    /\ aged' = aged \cup {r}
    /\ UNCHANGED <<run, request, queue, integ, exec, rowLock, redis>>

BecomeDue(i) ==
    /\ ~integ[i].due
    /\ integ' = [integ EXCEPT ![i].due = TRUE]
    /\ UNCHANGED <<run, aged, request, queue, exec, rowLock, redis>>

RunRowLocked(r) == rowLock[IntegrationOf[r]] = r

\* A mutant: the update no longer looks at the status.
RecoverAll ==
    LET stuck == {r \in aged : run[r] # "expired"} IN
    /\ stuck # {}
    /\ run' = [r \in Runs |-> IF r \in stuck THEN "expired" ELSE run[r]]
    /\ UNCHANGED <<aged, request, queue, integ, exec, rowLock, redis>>

\* A mutant: only runs a worker has started are recovered.
RecoverStarted ==
    LET stuck == {r \in aged : run[r] = "queued" /\ exec[r].pc = "loaded"} IN
    /\ stuck # {}
    /\ run' = [r \in Runs |-> IF r \in stuck THEN "expired" ELSE run[r]]
    /\ UNCHANGED <<aged, request, queue, integ, exec, rowLock, redis>>

\* recover_stuck_sync_runs: one UPDATE, which waits for the rows it selects
\* and looks at their status again.  Its part for running rows, and the
\* deletion of their Redis locks, never finds any.
Recover ==
    LET stuck == {r \in aged : run[r] = "queued"} IN
    /\ stuck # {}
    /\ \A r \in stuck : ~RunRowLocked(r)
    /\ run' = [r \in Runs |-> IF r \in stuck THEN "expired" ELSE run[r]]
    /\ UNCHANGED <<aged, request, queue, integ, exec, rowLock, redis>>

\* PATCH of the integration; like every update it waits for the row.
SetStatus(i, to) ==
    /\ ~integ[i].deleted
    /\ rowLock[i] = NoRun
    /\ integ[i].status # to
    /\ integ' = [integ EXCEPT ![i].status = to]
    /\ UNCHANGED <<run, aged, request, queue, exec, rowLock, redis>>

DeleteIntegration(i) ==
    /\ ~integ[i].deleted
    /\ rowLock[i] = NoRun
    /\ integ' = [integ EXCEPT ![i] = [@ EXCEPT !.status = "disabled", !.deleted = TRUE]]
    /\ UNCHANGED <<run, aged, request, queue, exec, rowLock, redis>>

Next ==
    \/ \E r \in Runs :
         \/ RequestRun(r)
         \/ ScheduleRun(r)
         \/ InsertRun(r)
         \/ Publish(r)
         \/ LoseRequest(r)
         \/ TakeMessage(r)
         \/ TaskStep(r)
         \/ Crash(r)
         \/ Age(r)
    \/ Recover
    \/ \E i \in Integrations :
         \/ ExpireLock(i)
         \/ BecomeDue(i)
         \/ DeleteIntegration(i)
         \/ \E to \in AdminStatuses : SetStatus(i, to)

Spec == Init /\ [][Next]_vars

\* Time passes, beat starts the recovery every five minutes, and a task ends
\* within its time limit.  Requests, deliveries and administrators promise
\* nothing.
Fairness ==
    /\ \A r \in Runs : WF_vars(Age(r)) /\ WF_vars(TaskStep(r))
    /\ WF_vars(Recover)
    /\ \A i \in Integrations : WF_vars(ExpireLock(i))

FairSpec == Spec /\ Fairness

----------------------------------------------------------------------------
(* Properties.                                                             *)

Fetching(r) == exec[r].pc \in {"fetching", "ending", "deleting"}
               /\ exec[r].outcome # "rolled_back"

\* Two runs of an integration never fetch and write at the same time, even
\* if the Redis lock of the first has expired under it or has been deleted
\* by another (the lock lives 30 minutes, a task may take 60): the update of
\* the integration's row at the start (sync/service.py:253-259) holds the
\* second back until the first has committed.
OneRunAtATime ==
    \A r, s \in Runs :
      /\ IntegrationOf[r] = IntegrationOf[s]
      /\ Fetching(r) /\ Fetching(s)
      => r = s

\* A worker never receives a run it cannot find ("Sync run not found.",
\* sync/service.py:555): every message is about a committed run.
MessagesHaveRuns == \A r \in queue : run[r] # "absent"

\* A finished run changes only if recovery had given it up while its message
\* was still on its way or its worker had not written yet; what a worker has
\* committed stays.
OnlyExpiredRunsRevive ==
    [][\A r \in Runs :
         run[r] \in Finished /\ run'[r] # run[r]
         => run[r] = "expired" /\ exec[r].pc = "committing"]_vars

\* Every queued run is finished some day, by a worker or by recovery, even
\* if its publication is lost, its worker dies or its integration is
\* deleted; until then it would block every new run of the integration.
QueuedRunsEnd == \A r \in Runs : run[r] = "queued" ~> run[r] \in Finished

\* A disabled integration none of whose runs is being created, on its way or
\* executed.
AtRest(i) ==
    /\ integ[i].status = "disabled"
    /\ \A r \in Runs : IntegrationOf[r] = i => request[r] = "none" /\ r \notin queue /\ At(r, "idle")

\* "Disabled integrations cannot be synced." (sync/service.py:138): nothing
\* starts for a disabled integration, and once the runs that were begun before
\* have ended only an administrator enables it again.  Until then such a run
\* is still executed, and its end enables the integration
\* (sync/service.py:292, 369, 396), so more is not so.
DisabledComesToRest ==
    [][\A i \in Integrations :
         AtRest(i) => AtRest(i)' \/ \E to \in AdminStatuses \ {"disabled"} : SetStatus(i, to)]_vars
=============================================================================
