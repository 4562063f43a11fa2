--------------------------- MODULE SyncRunsProofs ---------------------------
(***************************************************************************)
(* Proofs about SyncRuns, for any number of integrations and runs.         *)
(*                                                                         *)
(* SyncInv adds to the type two facts about each run.  OnePlace: a run is  *)
(* being created, waits for its publication, waits in the broker or is     *)
(* executed, one of these at a time, and from its insertion to the end of  *)
(* its execution it is queued or given up.  OwnsRow: from its first flush  *)
(* to its commit an execution owns its integration's row.                  *)
(***************************************************************************)
EXTENDS SyncRuns, TLAPS

OnePlace ==
    \A r \in Runs :
      /\ request[r] \in {"manual", "scheduled"} => run[r] = "absent"
      /\ run[r] = "absent" => request[r] # "committed" /\ r \notin queue /\ exec[r].pc = "idle"
      /\ request[r] = "committed" => r \notin queue /\ exec[r].pc = "idle"
      /\ r \in queue => exec[r].pc = "idle"
      /\ request[r] = "committed" \/ r \in queue \/ exec[r].pc # "idle"
           => run[r] \in {"queued", "expired"}

OwnsRow ==
    \A r \in Runs :
      exec[r].pc \in {"fetching", "ending", "deleting", "committing"}
        => \/ rowLock[IntegrationOf[r]] = r
           \/ exec[r].outcome = "rolled_back" /\ exec[r].pc # "fetching"

SyncInv == SyncTypeOK /\ OnePlace /\ OwnsRow

LEMMA InitSyncInv == ASSUME SyncAssumption PROVE Init => SyncInv
BY DEF SyncAssumption, Init, SyncInv, SyncTypeOK, OnePlace, OwnsRow, Idle,
       IntegrationStatuses, Places, Finished, Outcomes,
       IntegrationRows, Executions

LEMMA RowStatus == \A row \in IntegrationRows : row.status \in IntegrationStatuses
BY DEF IntegrationRows

LEMMA RowEdits ==
    ASSUME NEW row \in IntegrationRows, NEW to \in IntegrationStatuses
    PROVE  /\ [row EXCEPT !.status = to] \in IntegrationRows
           /\ [row EXCEPT !.due = TRUE] \in IntegrationRows
           /\ [row EXCEPT !.due = FALSE] \in IntegrationRows
           /\ [row EXCEPT !.status = "disabled", !.deleted = TRUE] \in IntegrationRows
BY DEF IntegrationRows, IntegrationStatuses

LEMMA ExecutionMoves ==
    /\ Idle \in Executions
    /\ \A seen \in IntegrationStatuses :
         [pc |-> "loaded", outcome |-> "failed", seen |-> seen] \in Executions
    /\ \A e \in Executions, pc \in Places : [e EXCEPT !.pc = pc] \in Executions
    /\ \A e \in Executions, pc \in Places, o \in Outcomes \cup {"rolled_back"} :
         [e EXCEPT !.pc = pc, !.outcome = o] \in Executions
BY DEF Executions, Idle, Places, IntegrationStatuses, Outcomes

LEMMA MovesKeepType ==
    ASSUME exec \in [Runs -> Executions], NEW r \in Runs, NEW pc \in Places,
           NEW o \in Outcomes \cup {"rolled_back"}
    PROVE  MoveTo(r, pc) \/ EndWith(r, pc, o) => exec' \in [Runs -> Executions]
<1>1. /\ [exec[r] EXCEPT !.pc = pc] \in Executions
      /\ [exec[r] EXCEPT !.pc = pc, !.outcome = o] \in Executions
  BY ExecutionMoves
<1>2. CASE MoveTo(r, pc)
  BY <1>1, <1>2 DEF MoveTo
<1>3. CASE EndWith(r, pc, o)
  BY <1>1, <1>3 DEF EndWith
<1> QED
  BY <1>2, <1>3

\* The type is inductive by itself.
LEMMA NextType == ASSUME SyncAssumption, SyncTypeOK, [Next]_vars
                  PROVE SyncTypeOK'
<1> USE DEF SyncTypeOK, SyncAssumption
<1>a. /\ {"loaded", "refused", "locked", "fetching", "ending", "deleting",
          "committing"} \subseteq Places
      /\ {"success", "failed", "partially_failed"} = Outcomes
      /\ "expired" \in Finished /\ Outcomes \subseteq Finished
      /\ {"active", "error", "disabled"} \subseteq IntegrationStatuses
      /\ AdminStatuses \subseteq IntegrationStatuses
  BY DEF Places, Finished, Outcomes, IntegrationStatuses
<1>1. ASSUME NEW r \in Runs, RequestRun(r) PROVE SyncTypeOK'
  BY <1>1, <1>a, RowEdits, ExecutionMoves DEF RequestRun
<1>2. ASSUME NEW r \in Runs, ScheduleRun(r) PROVE SyncTypeOK'
  BY <1>2, <1>a, RowEdits, ExecutionMoves DEF ScheduleRun
<1>3. ASSUME NEW r \in Runs, InsertRun(r) PROVE SyncTypeOK'
  <2> DEFINE i == IntegrationOf[r]
  <2>1. integ[i] \in IntegrationRows /\ integ[i].status \in IntegrationStatuses
    BY RowStatus
  <2>2. [integ[i] EXCEPT !.due = FALSE] \in IntegrationRows
    BY <2>1, RowEdits
  <2>3. integ' \in [Integrations -> IntegrationRows]
    <3>1. CASE integ' = integ
      BY <3>1
    <3>2. CASE integ' = [integ EXCEPT ![i].due = FALSE]
      BY <3>2, <2>2
    <3> QED
      BY <1>3, <3>1, <3>2 DEF InsertRun
  <2>4. /\ run' \in [Runs -> {"absent", "queued"} \cup Finished]
        /\ request' \in [Runs -> {"none", "manual", "scheduled", "committed"}]
    BY <1>3 DEF InsertRun
  <2> QED
    BY <1>3, <2>3, <2>4 DEF InsertRun
<1>4. ASSUME NEW r \in Runs, Publish(r) PROVE SyncTypeOK'
  BY <1>4, <1>a, RowEdits, ExecutionMoves DEF Publish
<1>5. ASSUME NEW r \in Runs, LoseRequest(r) PROVE SyncTypeOK'
  BY <1>5, <1>a, RowEdits, ExecutionMoves DEF LoseRequest
<1>6. ASSUME NEW r \in Runs, TakeMessage(r) PROVE SyncTypeOK'
  <2>1. integ[IntegrationOf[r]].status \in IntegrationStatuses
    BY RowStatus
  <2>2. exec' \in [Runs -> Executions]
    BY <1>6, <2>1, ExecutionMoves DEF TakeMessage
  <2> QED
    BY <1>6, <2>2 DEF TakeMessage
<1>7. ASSUME NEW r \in Runs, AcquireLock(r) PROVE SyncTypeOK'
  <2>1. /\ exec' \in [Runs -> Executions]
        /\ redis' \in [Integrations -> Runs \cup {NoRun}]
    <3>1. MoveTo(r, "locked") \/ MoveTo(r, "refused")
      BY <1>7 DEF AcquireLock
    <3>2. exec' \in [Runs -> Executions]
      BY <3>1, <1>a, MovesKeepType
    <3>3. redis' \in [Integrations -> Runs \cup {NoRun}]
      BY <1>7 DEF AcquireLock
    <3> QED
      BY <3>2, <3>3
  <2> QED
    BY <1>7, <2>1 DEF AcquireLock
<1>8. ASSUME NEW r \in Runs, StartFetching(r) PROVE SyncTypeOK'
  BY <1>8, <1>a, RowEdits, ExecutionMoves DEF StartFetching, MoveTo
<1>9. ASSUME NEW r \in Runs, FinishFetching(r) PROVE SyncTypeOK'
  <2>1. \A o \in Outcomes \cup {"rolled_back"} :
          EndWith(r, "ending", o) => exec' \in [Runs -> Executions]
    BY <1>a, MovesKeepType
  <2>2. exec' \in [Runs -> Executions]
    BY <1>9, <2>1 DEF FinishFetching
  <2>3. rowLock' \in [Integrations -> Runs \cup {NoRun}]
    BY <1>9 DEF FinishFetching
  <2> QED
    BY <1>9, <2>2, <2>3 DEF FinishFetching
<1>10. ASSUME NEW r \in Runs, FailRefused(r) PROVE SyncTypeOK'
  BY <1>10, <1>a, RowEdits, ExecutionMoves DEF FailRefused, EndWith
<1>11. ASSUME NEW r \in Runs, ReleaseLock(r) PROVE SyncTypeOK'
  <2>1. \A pc \in Places : MoveTo(r, pc) => exec' \in [Runs -> Executions]
    BY MovesKeepType
  <2>2. exec' \in [Runs -> Executions]
    BY <1>11, <2>1, <1>a DEF ReleaseLock
  <2>3. redis' \in [Integrations -> Runs \cup {NoRun}]
    BY <1>11 DEF ReleaseLock
  <2> QED
    BY <1>11, <2>2, <2>3 DEF ReleaseLock
<1>12. ASSUME NEW r \in Runs, CommitRun(r) PROVE SyncTypeOK'
  <2>1. exec[r].seen \in IntegrationStatuses /\ exec[r].outcome \in Outcomes \cup {"rolled_back"}
    BY DEF Executions
  <2>2. StatusAfter(exec[r].seen, exec[r].outcome) \in IntegrationStatuses
    BY <2>1, <1>a DEF StatusAfter
  <2>3. integ' \in [Integrations -> IntegrationRows]
    <3> DEFINE i == IntegrationOf[r]
               to == StatusAfter(exec[r].seen, exec[r].outcome)
    <3>1. [integ[i] EXCEPT !.status = to] \in IntegrationRows
      BY <2>2, RowEdits
    <3>2. CASE integ' = integ
      BY <3>2
    <3>3. CASE integ' = [integ EXCEPT ![i].status = to]
      BY <3>3, <3>1
    <3> QED
      BY <1>12, <3>2, <3>3 DEF CommitRun
  <2>4. run' \in [Runs -> {"absent", "queued"} \cup Finished]
    BY <1>12, <2>1, <1>a DEF CommitRun
  <2> QED
    BY <1>12, <2>3, <2>4, ExecutionMoves DEF CommitRun
<1>13. ASSUME NEW r \in Runs, Crash(r) PROVE SyncTypeOK'
  BY <1>13, <1>a, RowEdits, ExecutionMoves DEF Crash
<1>14. ASSUME NEW r \in Runs, Age(r) PROVE SyncTypeOK'
  BY <1>14, <1>a, RowEdits, ExecutionMoves DEF Age
<1>15. ASSUME Recover PROVE SyncTypeOK'
  BY <1>15, <1>a DEF Recover
<1>16. ASSUME NEW i \in Integrations, ExpireLock(i) \/ BecomeDue(i) \/ DeleteIntegration(i)
       PROVE SyncTypeOK'
  <2>1. integ[i] \in IntegrationRows /\ integ[i].status \in IntegrationStatuses
    BY RowStatus
  <2>2. /\ [integ[i] EXCEPT !.due = TRUE] \in IntegrationRows
        /\ [integ[i] EXCEPT !.status = "disabled", !.deleted = TRUE] \in IntegrationRows
    BY <2>1, RowEdits
  <2>3. CASE ExpireLock(i)
    BY <2>3 DEF ExpireLock
  <2>4. CASE BecomeDue(i)
    BY <2>4, <2>2 DEF BecomeDue
  <2>5. CASE DeleteIntegration(i)
    BY <2>5, <2>2 DEF DeleteIntegration
  <2> QED
    BY <1>16, <2>3, <2>4, <2>5
<1>17. ASSUME NEW i \in Integrations, NEW to \in AdminStatuses, SetStatus(i, to)
       PROVE SyncTypeOK'
  BY <1>17, <1>a, RowEdits DEF SetStatus
<1>18. ASSUME UNCHANGED vars PROVE SyncTypeOK'
  BY <1>18 DEF vars
<1> QED
  BY <1>1, <1>2, <1>3, <1>4, <1>5, <1>6, <1>7, <1>8, <1>9, <1>10, <1>11,
     <1>12, <1>13, <1>14, <1>15, <1>16, <1>17, <1>18
  DEF Next, TaskStep

\* A run moves from one place to the next, and only a commit or a recovery
\* changes its status.
LEMMA NextOnePlace == ASSUME SyncAssumption, SyncInv, [Next]_vars
                      PROVE OnePlace'
<1> USE DEF SyncInv, SyncTypeOK, OnePlace
<1>1. ASSUME NEW r \in Runs, RequestRun(r) PROVE OnePlace'
  BY <1>1 DEF RequestRun, Unused
<1>2. ASSUME NEW r \in Runs, ScheduleRun(r) PROVE OnePlace'
  BY <1>2 DEF ScheduleRun, Unused
<1>3. ASSUME NEW r \in Runs, InsertRun(r) PROVE OnePlace'
  BY <1>3 DEF InsertRun
<1>4. ASSUME NEW r \in Runs, Publish(r) PROVE OnePlace'
  BY <1>4 DEF Publish
<1>5. ASSUME NEW r \in Runs, LoseRequest(r) PROVE OnePlace'
  BY <1>5 DEF LoseRequest
<1>6. ASSUME NEW r \in Runs, TakeMessage(r) PROVE OnePlace'
  BY <1>6 DEF TakeMessage, Idle
<1>7. ASSUME NEW r \in Runs, AcquireLock(r) PROVE OnePlace'
  BY <1>7 DEF AcquireLock, MoveTo, At
<1>8. ASSUME NEW r \in Runs, StartFetching(r) PROVE OnePlace'
  BY <1>8 DEF StartFetching, MoveTo, At
<1>9. ASSUME NEW r \in Runs, FinishFetching(r) PROVE OnePlace'
  BY <1>9 DEF FinishFetching, EndWith, At, Executions
<1>10. ASSUME NEW r \in Runs, FailRefused(r) PROVE OnePlace'
  BY <1>10 DEF FailRefused, EndWith, At, Executions
<1>11. ASSUME NEW r \in Runs, ReleaseLock(r) PROVE OnePlace'
  BY <1>11 DEF ReleaseLock, MoveTo, At
<1>12. ASSUME NEW r \in Runs, CommitRun(r) PROVE OnePlace'
  BY <1>12 DEF CommitRun, Idle, At, Outcomes
<1>13. ASSUME NEW r \in Runs, Crash(r) PROVE OnePlace'
  BY <1>13 DEF Crash, Idle, At
<1>14. ASSUME NEW r \in Runs, Age(r) PROVE OnePlace'
  BY <1>14 DEF Age
<1>15. ASSUME Recover PROVE OnePlace'
  BY <1>15 DEF Recover
<1>16. ASSUME NEW i \in Integrations, ExpireLock(i) \/ BecomeDue(i) \/ DeleteIntegration(i)
       PROVE OnePlace'
  BY <1>16 DEF ExpireLock, BecomeDue, DeleteIntegration
<1>17. ASSUME NEW i \in Integrations, NEW to \in AdminStatuses, SetStatus(i, to)
       PROVE OnePlace'
  BY <1>17 DEF SetStatus
<1>18. ASSUME UNCHANGED vars PROVE OnePlace'
  BY <1>18 DEF vars
<1> QED
  BY <1>1, <1>2, <1>3, <1>4, <1>5, <1>6, <1>7, <1>8, <1>9, <1>10, <1>11,
     <1>12, <1>13, <1>14, <1>15, <1>16, <1>17, <1>18
  DEF Next, TaskStep

\* Who releases a row has it: a commit, a roll-back or a crash never frees
\* the row of another execution.
LEMMA NextOwnsRow == ASSUME SyncAssumption, SyncInv, [Next]_vars
                     PROVE OwnsRow'
<1> USE DEF SyncInv, SyncTypeOK, OwnsRow, SyncAssumption
<1>1. ASSUME NEW r \in Runs, StartFetching(r) PROVE OwnsRow'
  BY <1>1 DEF StartFetching, MoveTo, At
<1>2. ASSUME NEW r \in Runs, FinishFetching(r) PROVE OwnsRow'
  <2>1. ASSUME NEW o \in Outcomes \cup {"rolled_back"}, EndWith(r, "ending", o)
        PROVE  /\ exec'[r].pc = "ending" /\ exec'[r].outcome = o
               /\ \A s \in Runs \ {r} : exec'[s] = exec[s]
    BY <2>1 DEF EndWith, Executions
  <2>2. rowLock[IntegrationOf[r]] = r
    BY <1>2 DEF FinishFetching, At
  <2>3. CASE UNCHANGED rowLock
    BY <1>2, <2>1, <2>2, <2>3 DEF FinishFetching
  <2>4. CASE EndWith(r, "ending", "rolled_back")
             /\ rowLock' = [rowLock EXCEPT ![IntegrationOf[r]] = NoRun]
    BY <2>1, <2>2, <2>4
  <2> QED
    BY <1>2, <2>3, <2>4 DEF FinishFetching
<1>3. ASSUME NEW r \in Runs, FailRefused(r) PROVE OwnsRow'
  BY <1>3 DEF FailRefused, EndWith, At, Executions
<1>4. ASSUME NEW r \in Runs, ReleaseLock(r) PROVE OwnsRow'
  <2>1. ASSUME NEW pc \in Places, MoveTo(r, pc)
        PROVE  /\ exec'[r].pc = pc /\ exec'[r].outcome = exec[r].outcome
               /\ \A s \in Runs \ {r} : exec'[s] = exec[s]
    BY <2>1 DEF MoveTo, Executions
  <2>2. exec[r].pc \in {"ending", "deleting"} /\ UNCHANGED rowLock
    BY <1>4 DEF ReleaseLock, At
  <2>3. \E pc \in {"deleting", "committing"} : MoveTo(r, pc)
    BY <1>4 DEF ReleaseLock
  <2> QED
    BY <2>1, <2>2, <2>3 DEF Places
<1>5. ASSUME NEW r \in Runs, CommitRun(r) PROVE OwnsRow'
  BY <1>5 DEF CommitRun, Idle, At
<1>6. ASSUME NEW r \in Runs, Crash(r) PROVE OwnsRow'
  BY <1>6 DEF Crash, Idle, At
<1>7. ASSUME NEW r \in Runs, TakeMessage(r) PROVE OwnsRow'
  BY <1>7 DEF TakeMessage, Idle
<1>8. ASSUME NEW r \in Runs, AcquireLock(r) PROVE OwnsRow'
  <2>1. ASSUME NEW pc \in {"locked", "refused"}, MoveTo(r, pc)
        PROVE  exec'[r].pc = pc /\ \A s \in Runs \ {r} : exec'[s] = exec[s]
    BY <2>1 DEF MoveTo, Executions
  <2>2. \E pc \in {"locked", "refused"} : MoveTo(r, pc)
    BY <1>8 DEF AcquireLock
  <2>3. UNCHANGED rowLock
    BY <1>8 DEF AcquireLock
  <2> QED
    BY <2>1, <2>2, <2>3
<1>9. ASSUME UNCHANGED <<exec, rowLock>> PROVE OwnsRow'
  BY <1>9
<1> QED
  BY <1>1, <1>2, <1>3, <1>4, <1>5, <1>6, <1>7, <1>8, <1>9
  DEF Next, TaskStep, vars, RequestRun, ScheduleRun, InsertRun, Publish,
      LoseRequest, Age, Recover, ExpireLock, BecomeDue, DeleteIntegration,
      SetStatus

LEMMA SyncInvInvariant == ASSUME SyncAssumption PROVE Spec => []SyncInv
<1>1. SyncInv /\ [Next]_vars => SyncInv'
  BY NextType, NextOnePlace, NextOwnsRow DEF SyncInv
<1> QED
  BY InitSyncInv, <1>1, PTL DEF Spec

\* Every row, message, execution and lock stays in its domain.
THEOREM SyncTypeCorrect == Spec => []SyncTypeOK
<1>1. SyncInv => SyncTypeOK
  BY DEF SyncInv
<1> QED
  BY SyncAssumption, SyncInvInvariant, <1>1, PTL

\* Whatever happens to the Redis lock, two executions of one integration
\* never fetch and write at the same time: both would own its row.
THEOREM RowSerialisesRuns == Spec => []OneRunAtATime
<1>1. SyncInv => OneRunAtATime
  <2> SUFFICES ASSUME SyncInv, NEW r \in Runs, NEW s \in Runs,
                      IntegrationOf[r] = IntegrationOf[s],
                      Fetching(r), Fetching(s)
               PROVE  r = s
    BY DEF OneRunAtATime
  <2>1. rowLock[IntegrationOf[r]] = r
    BY DEF SyncInv, OwnsRow, Fetching
  <2>2. rowLock[IntegrationOf[s]] = s
    BY DEF SyncInv, OwnsRow, Fetching
  <2> QED
    BY <2>1, <2>2
<1> QED
  BY SyncAssumption, SyncInvInvariant, <1>1, PTL

\* A worker always finds the run its message names.
THEOREM MessagesFindRuns == Spec => []MessagesHaveRuns
<1>1. SyncInv => MessagesHaveRuns
  BY DEF SyncInv, SyncTypeOK, OnePlace, MessagesHaveRuns
<1> QED
  BY SyncAssumption, SyncInvInvariant, <1>1, PTL

\* What a worker has committed stays; only a run that recovery had given up
\* can still be finished by its worker.
THEOREM CommittedRunsStay == Spec => OnlyExpiredRunsRevive
<1> DEFINE Stays == \A r \in Runs : run[r] \in Finished /\ run'[r] # run[r]
                       => run[r] = "expired" /\ exec[r].pc = "committing"
<1>1. ASSUME SyncInv, [Next]_vars PROVE Stays
  <2> USE <1>1 DEF SyncInv, SyncTypeOK, OnePlace, Finished, Outcomes
  <2>1. ASSUME NEW r \in Runs, InsertRun(r) PROVE Stays
    <3>1. run[r] = "absent"
      BY <2>1 DEF InsertRun
    <3> QED
      BY <2>1, <3>1 DEF InsertRun
  <2>2. ASSUME NEW r \in Runs, CommitRun(r) PROVE Stays
    <3>1. run[r] \in {"queued", "expired"} /\ exec[r].pc = "committing"
      BY <2>2 DEF CommitRun, At
    <3> QED
      BY <2>2, <3>1 DEF CommitRun
  <2>3. ASSUME Recover PROVE Stays
    BY <2>3 DEF Recover
  <2>4. ASSUME UNCHANGED run PROVE Stays
    BY <2>4
  <2> QED
    BY <2>1, <2>2, <2>3, <2>4
    DEF Next, TaskStep, vars, RequestRun, ScheduleRun, Publish, LoseRequest,
        TakeMessage, AcquireLock, StartFetching, FinishFetching, FailRefused,
        ReleaseLock, Crash, Age, ExpireLock, BecomeDue, DeleteIntegration,
        SetStatus
<1> QED
  BY SyncAssumption, SyncInvInvariant, <1>1, PTL DEF Spec, OnlyExpiredRunsRevive

\* The steps of a run of another integration do not disturb one at rest.
LEMMA OthersRest ==
    ASSUME SyncAssumption, SyncTypeOK, NEW i \in Integrations, AtRest(i), NEW r \in Runs,
           \/ RequestRun(r) \/ ScheduleRun(r) \/ InsertRun(r) \/ Publish(r) \/ LoseRequest(r)
           \/ TakeMessage(r) \/ TaskStep(r) \/ Crash(r)
    PROVE  AtRest(i)'
<1> USE DEF SyncTypeOK, SyncAssumption, AtRest, At
<1>1. IntegrationOf[r] # i
  BY DEF RequestRun, ScheduleRun, Scheduled, InsertRun, Publish, LoseRequest, TakeMessage,
     TaskStep, AcquireLock, StartFetching, FinishFetching, FailRefused, ReleaseLock, CommitRun,
     Crash
<1>2. integ'[i] = integ[i]
  BY <1>1 DEF RequestRun, ScheduleRun, InsertRun, Publish, LoseRequest, TakeMessage,
     TaskStep, AcquireLock, StartFetching, FinishFetching, FailRefused, ReleaseLock, CommitRun,
     Crash
<1>3. ASSUME NEW q \in Runs, q # r
      PROVE  request'[q] = request[q] /\ exec'[q] = exec[q] /\ (q \in queue' => q \in queue)
  <2>1. CASE RequestRun(r) \/ ScheduleRun(r) \/ InsertRun(r) \/ Publish(r) \/ LoseRequest(r)
    BY <1>3, <2>1 DEF RequestRun, ScheduleRun, InsertRun, Publish, LoseRequest
  <2>2. CASE TakeMessage(r) \/ Crash(r)
    BY <1>3, <2>2 DEF TakeMessage, Crash
  <2>3. CASE TaskStep(r)
    BY <1>3, <2>3 DEF TaskStep, AcquireLock, StartFetching, FinishFetching, FailRefused,
       ReleaseLock, CommitRun, MoveTo, EndWith
  <2> QED BY <2>1, <2>2, <2>3
<1> QED BY <1>1, <1>2, <1>3

\* Nothing starts for a disabled integration that is at rest, and only an
\* administrator enables it again.
THEOREM DisabledRests == Spec => DisabledComesToRest
<1> DEFINE Rests == \A i \in Integrations :
              AtRest(i) => AtRest(i)' \/ \E to \in AdminStatuses \ {"disabled"} : SetStatus(i, to)
<1>1. ASSUME SyncInv, [Next]_vars, NEW i \in Integrations, AtRest(i)
      PROVE  AtRest(i)' \/ \E to \in AdminStatuses \ {"disabled"} : SetStatus(i, to)
  <2> USE DEF SyncInv, SyncTypeOK
  <2>1. ASSUME NEW r \in Runs,
               \/ RequestRun(r) \/ ScheduleRun(r) \/ InsertRun(r) \/ Publish(r) \/ LoseRequest(r)
               \/ TakeMessage(r) \/ TaskStep(r) \/ Crash(r)
        PROVE  AtRest(i)'
    BY <1>1, <2>1, SyncAssumption, OthersRest
  <2>2. CASE UNCHANGED <<request, queue, exec, integ>>
    BY <1>1, <2>2 DEF AtRest, At
  <2>3. ASSUME NEW j \in Integrations, BecomeDue(j) \/ DeleteIntegration(j) PROVE AtRest(i)'
    <3>0. integ[j] \in IntegrationRows /\ integ \in [Integrations -> IntegrationRows]
      BY <1>1
    <3>1. integ'[i].status = "disabled"
      <4>1. \A row \in IntegrationRows :
              /\ [row EXCEPT !.due = TRUE].status = row.status
              /\ [row EXCEPT !.status = "disabled", !.deleted = TRUE].status = "disabled"
        BY DEF IntegrationRows
      <4>2. CASE BecomeDue(j)
        <5>1. integ'[i] = integ[i] \/ (i = j /\ integ'[i] = [integ[j] EXCEPT !.due = TRUE])
          BY <4>2, <3>0 DEF BecomeDue
        <5> QED BY <1>1, <3>0, <4>1, <5>1, ZenonT(30) DEF AtRest
      <4>3. CASE DeleteIntegration(j)
        <5>1. \/ integ'[i] = integ[i]
              \/ integ'[i] = [integ[j] EXCEPT !.status = "disabled", !.deleted = TRUE]
          BY <4>3, <3>0 DEF DeleteIntegration
        <5> QED BY <1>1, <3>0, <4>1, <5>1 DEF AtRest
      <4> QED BY <2>3, <4>2, <4>3
    <3> QED BY <1>1, <2>3, <3>1 DEF AtRest, At, BecomeDue, DeleteIntegration
  <2>4. ASSUME NEW j \in Integrations, NEW to \in AdminStatuses, SetStatus(j, to)
        PROVE  AtRest(i)' \/ \E t \in AdminStatuses \ {"disabled"} : SetStatus(i, t)
    <3>1. CASE i = j
      BY <1>1, <2>4, <3>1 DEF AtRest, SetStatus
    <3>2. CASE i # j
      BY <1>1, <2>4, <3>2 DEF AtRest, At, SetStatus
    <3> QED BY <3>1, <3>2
  <2>5. CASE UNCHANGED vars
    BY <2>2, <2>5 DEF vars
  <2>6. CASE Next
    <3>1. CASE Recover \/ (\E r \in Runs : Age(r)) \/ (\E j \in Integrations : ExpireLock(j))
      BY <2>2, <3>1 DEF Recover, Age, ExpireLock
    <3> QED BY <2>1, <2>3, <2>4, <2>6, <3>1 DEF Next
  <2> QED BY <1>1, <2>5, <2>6
<1>2. SyncInv /\ [Next]_vars => [Rests]_vars
  BY <1>1
<1> QED
  BY SyncAssumption, SyncInvInvariant, <1>2, PTL DEF Spec, DisabledComesToRest
=============================================================================
