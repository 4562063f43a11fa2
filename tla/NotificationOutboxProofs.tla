----------------------- MODULE NotificationOutboxProofs -----------------------
(***************************************************************************)
(* What holds of events and notifications for any number of events,        *)
(* recipients, workers and senders: nobody is notified twice of an event,  *)
(* a processed event has left a notification, a message that has left is   *)
(* forgotten only by a rollback, and only processed events fail.           *)
(***************************************************************************)
EXTENDS NotificationOutbox, FiniteSetTheorems, TLAPS

----------------------------------------------------------------------------
(* The inductive invariant.                                                *)

\* What a worker is about to insert: only notifications that no one has, of
\* events whose rows it has locked.
InsertsAreNew ==
    \A w \in Workers, n \in Notes :
      Inserted(w, n) => eventLock[n[1]] = w /\ copies[n] = 0

\* What a worker is about to mark as processed: an event whose row it has
\* locked and that has, or is about to get, a notification.
ResultsLeaveNotes ==
    "no_rule" \notin Setups =>
      \A w \in Workers, e \in Events :
        worker[w].result[e] = "processed" =>
          /\ eventLock[e] = w
          /\ \E n \in Notes : n[1] = e /\ (copies[n] > 0 \/ Inserted(w, n))

\* Senders handle only notifications that exist, one at a time, and what they
\* have handled is sent or failed.
SendersInv ==
    /\ \A n \in Notes : note[n] # "none" => copies[n] > 0
    /\ \A n \in delivered : copies[n] > 0
    /\ \A s \in Senders :
         /\ \A n \in sender[s].todo : copies[n] > 0
         /\ \A m, n \in sender[s].at : m = n
         /\ \A n \in Notes :
              n \in sender[s].at \/ noteLock[n] = s
                => copies[n] > 0 /\ sender[s].result[n] \in {"sent", "failed"}

OutboxInv ==
    /\ OutboxTypeOK
    /\ InsertsAreNew
    /\ OneNotePerRecipient
    /\ ResultsLeaveNotes
    /\ ProcessedLeavesNote
    /\ SendersInv

----------------------------------------------------------------------------
(* The steps, one lemma for each that changes several things.              *)

\* A set of naturals has a least element.
LEMMA NatsHaveMin ==
    ASSUME NEW S \in SUBSET Nat, S # {}
    PROVE  Min(S) \in S
<1> DEFINE Less == {p \in Nat \X Nat : p[1] < p[2]}
<1>1. PICK m \in S : \A n \in S : ~ (<<n, m>> \in Less)
  <2>1. IsWellFoundedOn(Less, Nat)
    BY NatLessThanWellFounded DEF OpToRel
  <2> HIDE DEF Less
  <2>2. QED
    BY <2>1, WFMin
<1>2. \A n \in S : m <= n
  <2> TAKE n \in S
  <2>1. n \in Nat /\ m \in Nat
    OBVIOUS
  <2>2. n < m => <<n, m>> \in Less
    BY <2>1
  <2>3. ~ (<<n, m>> \in Less)
    BY <1>1
  <2> HIDE DEF Less
  <2>4. QED
    BY <2>1, <2>2, <2>3
<1>3. \E x \in S : \A y \in S : x <= y
  BY <1>2
<1>4. QED
  BY <1>3 DEF Min

WorkerRow == [todo : SUBSET Events, result : [Events -> EventStatuses],
              new : [Notes -> NoteStatuses]]

SenderRow == [todo : SUBSET Notes, at : SUBSET Notes, result : [Notes -> NoteStatuses]]

\* The event a worker takes next is one of those it has read.
LEMMA NextEvent ==
    ASSUME OutboxTypeOK, NEW w \in Workers, worker[w].todo # {}
    PROVE  Min(worker[w].todo) \in worker[w].todo /\ Min(worker[w].todo) \in Events
<1>1. worker[w].todo \in SUBSET Nat /\ worker[w].todo \subseteq Events
  BY OutboxAssumption DEF OutboxTypeOK
<1>2. QED
  BY <1>1, NatsHaveMin

\* What finishing an event leaves in the worker's batch.
LEMMA FinishRow ==
    ASSUME OutboxTypeOK, NEW w \in Workers, NEW e \in Events,
           NEW result \in EventStatuses, NEW status \in NoteStatuses,
           NEW notes, Finish(w, e, result, notes, status)
    PROVE  /\ worker' \in [Workers -> WorkerRow]
           /\ \A v \in Workers \ {w} : worker'[v] = worker[v]
           /\ worker'[w].todo = worker[w].todo \ {e}
           /\ worker'[w].result = [worker[w].result EXCEPT ![e] = result]
           /\ worker'[w].new = [n \in Notes |-> IF n \in notes THEN status
                                                ELSE worker[w].new[n]]
<1>1. worker \in [Workers -> WorkerRow]
  BY DEF OutboxTypeOK, WorkerRow
<1>2. worker[w] \in WorkerRow
  BY <1>1
<1> DEFINE row == [todo |-> worker[w].todo \ {e},
                   result |-> [worker[w].result EXCEPT ![e] = result],
                   new |-> [n \in Notes |-> IF n \in notes THEN status
                                            ELSE worker[w].new[n]]]
<1>3. row \in WorkerRow
  <2>1. [worker[w].result EXCEPT ![e] = result] \in [Events -> EventStatuses]
    BY <1>2 DEF WorkerRow
  <2>2. [n \in Notes |-> IF n \in notes THEN status ELSE worker[w].new[n]]
          \in [Notes -> NoteStatuses]
    BY <1>2 DEF WorkerRow
  <2>3. worker[w].todo \ {e} \in SUBSET Events
    BY <1>2 DEF WorkerRow
  <2>4. QED
    BY <2>1, <2>2, <2>3 DEF WorkerRow
<1>4. worker' = [worker EXCEPT ![w] = row]
  BY DEF Finish
<1>5. QED
  BY <1>1, <1>3, <1>4

\* Whatever the rule amounts to, processing an event inserts notifications
\* nobody has, and an event marked as processed under a rule has one.
LEMMA ProcessCases ==
    ASSUME OutboxTypeOK, NEW w \in Workers, Process(w)
    PROVE  /\ UNCHANGED <<event, copies, note, setup, audience, eventLock, delivery, failures>>
           /\ \E e \in Events, result \in EventStatuses, status \in NoteStatuses,
                 notes \in SUBSET Notes :
                /\ eventLock[e] = w
                /\ Finish(w, e, result, notes, status)
                /\ \A n \in notes : n[1] = e /\ copies[n] = 0
                /\ notes # {} => status # "none"
                /\ result = "processed" /\ setup # "no_rule" =>
                     \E n \in Notes : n[1] = e /\ (copies[n] > 0 \/ n \in notes)
<1> DEFINE e == Min(worker[w].todo)
<1>1. e \in Events
  BY NextEvent DEF Process
<1>2. eventLock[e] = w
  BY DEF Process
<1>3. \A u \in Recipients \cup {NoOne} : <<e, u>> \in Notes /\ <<e, u>>[1] = e
  BY <1>1 DEF Notes
<1>4. \A n \in Notes : copies[n] \in Nat
  BY DEF OutboxTypeOK
<1>5. /\ Addressed(e) \in SUBSET Notes
      /\ \A n \in Addressed(e) : n[1] = e /\ copies[n] = 0
  BY <1>3 DEF Addressed, OutboxTypeOK
<1>6. /\ Unaddressed(e) \in SUBSET Notes
      /\ \A n \in Unaddressed(e) : n[1] = e /\ copies[n] = 0
  <2>1. Unaddressed(e) \subseteq {<<e, NoOne>>}
    BY DEF Unaddressed
  <2>2. Unaddressed(e) # {} => NotesOf(e) = {}
    BY DEF Unaddressed
  <2>3. NotesOf(e) = {} => copies[<<e, NoOne>>] = 0
    BY <1>3, <1>4 DEF NotesOf
  <2>4. QED
    BY <1>3, <2>1, <2>2, <2>3
<1>7. audience # {} => \E n \in Notes : n[1] = e /\ (copies[n] > 0 \/ n \in Addressed(e))
  <2> SUFFICES ASSUME NEW u \in audience
               PROVE  \E n \in Notes : n[1] = e /\ (copies[n] > 0 \/ n \in Addressed(e))
    OBVIOUS
  <2>1. u \in Recipients
    BY DEF OutboxTypeOK
  <2>2. copies[<<e, u>>] = 0 => <<e, u>> \in Addressed(e)
    BY DEF Addressed
  <2>3. copies[<<e, u>>] > 0 \/ copies[<<e, u>>] = 0
    BY <1>3, <1>4, <2>1
  <2>4. QED
    BY <1>3, <2>1, <2>2, <2>3
<1>8. \E n \in Notes : n[1] = e /\ (copies[n] > 0 \/ n \in Unaddressed(e))
  <2>1. CASE NotesOf(e) = {}
    BY <1>3, <2>1 DEF Unaddressed
  <2>2. CASE NotesOf(e) # {}
    BY <2>2 DEF NotesOf
  <2>3. QED
    BY <2>1, <2>2
<1>9. \/ setup = "no_rule" /\ Finish(w, e, "processed", {}, "none")
      \/ audience # {} /\ Finish(w, e, "processed", Addressed(e), "pending")
      \/ Finish(w, e, "processed", Unaddressed(e), "skipped")
      \/ Finish(w, e, "processed", Unaddressed(e), "failed")
      \/ Finish(w, e, "failed", {}, "none")
  BY DEF Process
<1>10. /\ {"processed", "failed"} \subseteq EventStatuses
       /\ {"none", "pending", "skipped", "failed"} \subseteq NoteStatuses
  BY DEF EventStatuses, NoteStatuses
<1> HIDE DEF e
<1>11. QED
  BY <1>1, <1>2, <1>5, <1>6, <1>7, <1>8, <1>9, <1>10 DEF Process

\* What the commit of a worker's batch writes.
LEMMA CommitRows ==
    ASSUME OutboxTypeOK, NEW w \in Workers, CommitEvents(w)
    PROVE  /\ \A e \in Events :
                event'[e] = IF eventLock[e] = w THEN worker[w].result[e] ELSE event[e]
           /\ \A n \in Notes :
                /\ copies'[n] = copies[n] + IF Inserted(w, n) THEN 1 ELSE 0
                /\ note'[n] = IF Inserted(w, n) THEN worker[w].new[n] ELSE note[n]
           /\ worker'[w] = IdleWorker
           /\ \A v \in Workers \ {w} : worker'[v] = worker[v]
           /\ \A e \in Events, v \in Workers \ {w} : eventLock[e] = v => eventLock'[e] = v
  BY OutboxAssumption DEF CommitEvents, OutboxTypeOK

\* What the end of a sender's transaction releases.
LEMMA EndedSender ==
    ASSUME OutboxTypeOK, NEW s \in Senders, EndSender(s)
    PROVE  /\ sender' \in [Senders -> SenderRow]
           /\ noteLock' \in [Notes -> Senders \cup {Nobody}]
           /\ sender'[s] = IdleSender
           /\ \A r \in Senders \ {s} : sender'[r] = sender[r]
           /\ \A n \in Notes : noteLock'[n] = IF noteLock[n] = s THEN Nobody ELSE noteLock[n]
<1>1. IdleSender \in SenderRow
  BY DEF IdleSender, SenderRow, NoteStatuses
<1>2. QED
  BY <1>1 DEF EndSender, OutboxTypeOK, SenderRow

\* What sending a notification leaves in the sender's batch.
LEMMA SentRow ==
    ASSUME OutboxTypeOK, NEW s \in Senders, Send(s)
    PROVE  \E n \in sender[s].todo, result \in {"sent", "failed"} :
             /\ n \in Notes
             /\ sender[s].at = {}
             /\ sender' \in [Senders -> SenderRow]
             /\ \A r \in Senders \ {s} : sender'[r] = sender[r]
             /\ sender'[s].todo = sender[s].todo \ {n}
             /\ sender'[s].at = {n}
             /\ sender'[s].result = [sender[s].result EXCEPT ![n] = result]
             /\ delivered' = IF result = "sent" THEN delivered \cup {n} ELSE delivered
             /\ UNCHANGED <<generation, note, noteLock, failures>>
<1>1. sender \in [Senders -> SenderRow]
  BY DEF OutboxTypeOK, SenderRow
<1>2. PICK n \in sender[s].todo, result \in {"sent", "failed"} :
        /\ sender' = [sender EXCEPT ![s] =
              [todo |-> @.todo \ {n}, at |-> {n},
               result |-> [@.result EXCEPT ![n] = result]]]
        /\ delivered' = IF result = "sent" THEN delivered \cup {n} ELSE delivered
  BY DEF Send
<1>3. sender[s] \in SenderRow /\ n \in Notes
  BY <1>1 DEF SenderRow
<1> DEFINE row == [todo |-> sender[s].todo \ {n}, at |-> {n},
                   result |-> [sender[s].result EXCEPT ![n] = result]]
<1>4. row \in SenderRow
  <2>1. [sender[s].result EXCEPT ![n] = result] \in [Notes -> NoteStatuses]
    BY <1>3 DEF SenderRow, NoteStatuses
  <2>2. QED
    BY <1>3, <2>1 DEF SenderRow
<1>5. sender' = [sender EXCEPT ![s] = row]
  BY <1>2
<1>6. /\ sender' \in [Senders -> SenderRow]
      /\ \A r \in Senders \ {s} : sender'[r] = sender[r]
      /\ sender'[s] = row
  BY <1>1, <1>4, <1>5
<1>7. sender[s].at = {} /\ UNCHANGED <<generation, note, noteLock, failures>>
  BY DEF Send
<1>8. /\ row.todo = sender[s].todo \ {n} /\ row.at = {n}
      /\ row.result = [sender[s].result EXCEPT ![n] = result]
  OBVIOUS
<1> HIDE DEF row
<1>9. QED
  BY <1>2, <1>3, <1>6, <1>7, <1>8

\* Every row and every batch stays in its domain.
LEMMA OutboxType == OutboxTypeOK /\ [Next]_vars => OutboxTypeOK'
<1> SUFFICES ASSUME OutboxTypeOK, [Next]_vars
             PROVE  OutboxTypeOK'
  OBVIOUS
<1> USE DEF OutboxTypeOK
<1>1. ASSUME NEW e \in Events, Emit(e)
      PROVE  OutboxTypeOK'
  BY <1>1 DEF Emit, outbox, EventStatuses
<1>2. CASE ChangeSetup \/ ChangeAudience
  BY <1>2 DEF ChangeSetup, ChangeAudience, outbox
<1>3. ASSUME NEW w \in Workers, ReadEvents(w)
      PROVE  OutboxTypeOK'
  <2>1. {e \in Events : event[e] = "pending"} \in SUBSET Events
    OBVIOUS
  <2>2. [worker[w] EXCEPT !.todo = {e \in Events : event[e] = "pending"}]
          \in [todo : SUBSET Events, result : [Events -> EventStatuses],
               new : [Notes -> NoteStatuses]]
    BY <2>1
  <2>3. QED
    BY <1>3, <2>2 DEF ReadEvents, delivery
<1>4. ASSUME NEW w \in Workers, LockEvent(w)
      PROVE  OutboxTypeOK'
  BY <1>4, NextEvent DEF LockEvent, delivery
<1>5. ASSUME NEW w \in Workers, Process(w)
      PROVE  OutboxTypeOK'
  <2>1. worker' \in [Workers -> WorkerRow]
    BY <1>5, ProcessCases, FinishRow
  <2>2. QED
    BY <1>5, <2>1, ProcessCases DEF delivery, WorkerRow
<1>6. IdleWorker \in WorkerRow
  BY DEF IdleWorker, WorkerRow, EventStatuses, NoteStatuses
<1>7. ASSUME NEW w \in Workers, CommitEvents(w)
      PROVE  OutboxTypeOK'
  <2>1. /\ event' \in [Events -> EventStatuses]
        /\ copies' \in [Notes -> Nat]
        /\ note' \in [Notes -> NoteStatuses]
    BY <1>7 DEF CommitEvents, Inserted
  <2>2. worker' \in [Workers -> WorkerRow]
    BY <1>6, <1>7 DEF CommitEvents, WorkerRow
  <2>3. eventLock' \in [Events -> Workers \cup {Nobody}]
    BY <1>7 DEF CommitEvents
  <2>4. QED
    BY <1>7, <2>1, <2>2, <2>3 DEF CommitEvents, delivery, WorkerRow
<1>8. ASSUME NEW w \in Workers, LoseEvents(w)
      PROVE  OutboxTypeOK'
  <2>1. worker' \in [Workers -> WorkerRow]
    BY <1>6, <1>8 DEF LoseEvents, WorkerRow
  <2>2. eventLock' \in [Events -> Workers \cup {Nobody}]
    BY <1>8 DEF LoseEvents
  <2>3. failures' \in 0..MaxFailures
    BY <1>8, OutboxAssumption DEF LoseEvents
  <2>4. QED
    BY <1>8, <2>1, <2>2, <2>3 DEF LoseEvents, delivery, WorkerRow
<1>9. ASSUME NEW s \in Senders, ReadNotes(s)
      PROVE  OutboxTypeOK'
  <2>1. [sender[s] EXCEPT !.todo = {n \in Notes : note[n] = "pending"}]
          \in [todo : SUBSET Notes, at : SUBSET Notes, result : [Notes -> NoteStatuses]]
    OBVIOUS
  <2>2. QED
    BY <1>9, <2>1 DEF ReadNotes, generation
<1>10. ASSUME NEW s \in Senders, Send(s)
       PROVE  OutboxTypeOK'
  <2>1. sender' \in [Senders -> SenderRow]
    BY <1>10, SentRow
  <2>2. PICK n \in sender[s].todo, result \in {"sent", "failed"} :
          n \in Notes /\ delivered' = IF result = "sent" THEN delivered \cup {n} ELSE delivered
    BY <1>10, SentRow
  <2>3. delivered' \subseteq Notes
    BY <2>2
  <2>4. UNCHANGED <<generation, note, noteLock, failures>>
    BY <1>10 DEF Send
  <2>5. QED
    BY <2>1, <2>3, <2>4 DEF generation, SenderRow
<1>11. ASSUME NEW s \in Senders, FlushNote(s)
       PROVE  OutboxTypeOK'
  <2>1. noteLock' \in [Notes -> Senders \cup {Nobody}]
    BY <1>11 DEF FlushNote
  <2>2. [sender[s] EXCEPT !.at = {}]
          \in [todo : SUBSET Notes, at : SUBSET Notes, result : [Notes -> NoteStatuses]]
    OBVIOUS
  <2>3. QED
    BY <1>11, <2>1, <2>2 DEF FlushNote, generation
<1>12. ASSUME NEW s \in Senders, CommitNotes(s)
       PROVE  OutboxTypeOK'
  <2>1. note' \in [Notes -> NoteStatuses]
    BY <1>12 DEF CommitNotes
  <2>2. QED
    BY <1>12, <2>1, EndedSender DEF CommitNotes, generation, SenderRow
<1>13. ASSUME NEW s \in Senders, LoseNotes(s)
       PROVE  OutboxTypeOK'
  <2>1. failures' \in 0..MaxFailures
    BY <1>13, OutboxAssumption DEF LoseNotes
  <2>2. QED
    BY <1>13, <2>1, EndedSender DEF LoseNotes, generation, SenderRow
<1>14. ASSUME NEW s \in Senders, DetectDeadlock(s)
       PROVE  OutboxTypeOK'
  BY <1>14, EndedSender DEF DetectDeadlock, generation, SenderRow
<1>15. ASSUME NEW n \in Notes, NEW to \in Marks, Mark(n, to)
       PROVE  OutboxTypeOK'
  BY <1>15, OutboxAssumption DEF Mark, generation, NoteStatuses
<1>16. CASE UNCHANGED vars
  BY <1>16 DEF vars
<1>17. QED
  BY <1>1, <1>2, <1>3, <1>4, <1>5, <1>7, <1>8, <1>9, <1>10, <1>11, <1>12, <1>13,
     <1>14, <1>15, <1>16 DEF Next, WorkerStep, SenderStep

----------------------------------------------------------------------------
(* Generation: what workers insert and mark.                               *)

GenerationInv ==
    InsertsAreNew /\ OneNotePerRecipient /\ ResultsLeaveNotes /\ ProcessedLeavesNote

\* Processing adds to a worker's batch only what fits the invariant.
LEMMA ProcessGenerates ==
    ASSUME OutboxTypeOK, GenerationInv, NEW w \in Workers, Process(w)
    PROVE  GenerationInv'
<1> USE DEF GenerationInv
<1>1. UNCHANGED <<event, copies, eventLock>>
  BY ProcessCases
<1>2. PICK e \in Events, result \in EventStatuses, status \in NoteStatuses,
           notes \in SUBSET Notes :
        /\ eventLock[e] = w
        /\ Finish(w, e, result, notes, status)
        /\ \A n \in notes : n[1] = e /\ copies[n] = 0
        /\ notes # {} => status # "none"
        /\ result = "processed" /\ setup # "no_rule" =>
             \E n \in Notes : n[1] = e /\ (copies[n] > 0 \/ n \in notes)
  BY ProcessCases
<1>3. /\ \A v \in Workers \ {w} : worker'[v] = worker[v]
      /\ worker'[w].result = [worker[w].result EXCEPT ![e] = result]
      /\ worker'[w].new = [n \in Notes |-> IF n \in notes THEN status
                                           ELSE worker[w].new[n]]
  BY <1>2, FinishRow
<1>4. \A n \in Notes : /\ Inserted(w, n)' => Inserted(w, n) \/ n \in notes
                       /\ Inserted(w, n) \/ n \in notes => Inserted(w, n)'
  BY <1>2, <1>3 DEF Inserted
<1>5. \A v \in Workers \ {w}, n \in Notes : Inserted(v, n)' = Inserted(v, n)
  BY <1>3 DEF Inserted
<1>6. InsertsAreNew'
  <2> SUFFICES ASSUME NEW v \in Workers, NEW n \in Notes, Inserted(v, n)'
               PROVE  eventLock[n[1]] = v /\ copies[n] = 0
    BY <1>1 DEF InsertsAreNew
  <2>1. Inserted(v, n) => eventLock[n[1]] = v /\ copies[n] = 0
    BY DEF InsertsAreNew
  <2>2. CASE v = w
    BY <1>2, <1>4, <2>1, <2>2
  <2>3. CASE v # w
    BY <1>5, <2>1, <2>3
  <2>4. QED
    BY <2>2, <2>3
<1>7. ResultsLeaveNotes'
  <2> SUFFICES ASSUME "no_rule" \notin Setups, NEW v \in Workers, NEW d \in Events,
                      worker'[v].result[d] = "processed"
               PROVE  /\ eventLock[d] = v
                      /\ \E n \in Notes : n[1] = d /\ (copies[n] > 0 \/ Inserted(v, n)')
    BY <1>1 DEF ResultsLeaveNotes
  <2>1. worker[v].result[d] = "processed" =>
          /\ eventLock[d] = v
          /\ \E n \in Notes : n[1] = d /\ (copies[n] > 0 \/ Inserted(v, n))
    BY DEF ResultsLeaveNotes
  <2>2. CASE v # w
    BY <1>3, <1>5, <2>1, <2>2
  <2>3. CASE v = w /\ d # e
    <3>1. worker[v].result[d] = "processed"
      BY <1>3, <2>3 DEF OutboxTypeOK
    <3>2. QED
      BY <1>4, <2>1, <2>3, <3>1
  <2>4. CASE v = w /\ d = e
    <3>1. result = "processed"
      BY <1>3, <2>4 DEF OutboxTypeOK
    <3>2. setup # "no_rule"
      BY DEF OutboxTypeOK
    <3>3. QED
      BY <1>2, <1>4, <2>4, <3>1, <3>2
  <2>5. QED
    BY <2>2, <2>3, <2>4
<1>8. OneNotePerRecipient' /\ ProcessedLeavesNote'
  BY <1>1 DEF OneNotePerRecipient, ProcessedLeavesNote, NotesOf
<1>9. QED
  BY <1>6, <1>7, <1>8

\* A batch that commits inserts what nobody else is about to insert, and its
\* notifications with the statuses of their events.
LEMMA CommitGenerates ==
    ASSUME OutboxTypeOK, GenerationInv, NEW w \in Workers, CommitEvents(w)
    PROVE  GenerationInv'
<1> USE DEF GenerationInv
<1>1. /\ \A e \in Events :
           event'[e] = IF eventLock[e] = w THEN worker[w].result[e] ELSE event[e]
      /\ \A n \in Notes :
           copies'[n] = copies[n] + IF Inserted(w, n) THEN 1 ELSE 0
      /\ worker'[w] = IdleWorker
      /\ \A v \in Workers \ {w} : worker'[v] = worker[v]
      /\ \A e \in Events, v \in Workers \ {w} : eventLock[e] = v => eventLock'[e] = v
  BY CommitRows
<1>2. \A n \in Notes : n[1] \in Events /\ copies[n] \in Nat
  BY DEF Notes, OutboxTypeOK
<1>3. \A n \in Notes : ~Inserted(w, n)'
  BY <1>1 DEF Inserted, IdleWorker
<1>4. \A v \in Workers \ {w}, n \in Notes : Inserted(v, n)' = Inserted(v, n)
  BY <1>1 DEF Inserted
<1>5. InsertsAreNew'
  <2> SUFFICES ASSUME NEW v \in Workers, NEW n \in Notes, Inserted(v, n)'
               PROVE  eventLock'[n[1]] = v /\ copies'[n] = 0
    BY DEF InsertsAreNew
  <2>1. v # w /\ Inserted(v, n)
    BY <1>3, <1>4
  <2>2. eventLock[n[1]] = v /\ copies[n] = 0
    BY <2>1 DEF InsertsAreNew
  <2>3. ~Inserted(w, n)
    BY <2>1, <2>2 DEF InsertsAreNew
  <2>4. QED
    BY <1>1, <1>2, <2>1, <2>2, <2>3
<1>6. OneNotePerRecipient'
  <2> SUFFICES ASSUME NEW n \in Notes
               PROVE  copies'[n] <= 1
    BY DEF OneNotePerRecipient
  <2>1. copies[n] <= 1 /\ (Inserted(w, n) => copies[n] = 0)
    BY DEF OneNotePerRecipient, InsertsAreNew
  <2>2. QED
    BY <1>1, <1>2, <2>1
<1>7. \A n \in Notes : copies[n] > 0 \/ Inserted(w, n) => copies'[n] > 0
  BY <1>1, <1>2
<1>8. ResultsLeaveNotes'
  <2> SUFFICES ASSUME "no_rule" \notin Setups, NEW v \in Workers, NEW d \in Events,
                      worker'[v].result[d] = "processed"
               PROVE  /\ eventLock'[d] = v
                      /\ \E n \in Notes : n[1] = d /\ (copies'[n] > 0 \/ Inserted(v, n)')
    BY DEF ResultsLeaveNotes
  <2>1. v # w
    BY <1>1 DEF IdleWorker
  <2>2. /\ eventLock[d] = v
        /\ \E n \in Notes : n[1] = d /\ (copies[n] > 0 \/ Inserted(v, n))
    BY <1>1, <2>1 DEF ResultsLeaveNotes
  <2>3. QED
    BY <1>1, <1>4, <1>7, <2>1, <2>2
<1>9. ProcessedLeavesNote'
  <2> SUFFICES ASSUME "no_rule" \notin Setups, NEW e \in Events, event'[e] = "processed"
               PROVE  \E n \in Notes : n[1] = e /\ copies'[n] > 0
    BY DEF ProcessedLeavesNote, NotesOf
  <2>1. CASE eventLock[e] = w
    <3>1. \E n \in Notes : n[1] = e /\ (copies[n] > 0 \/ Inserted(w, n))
      BY <1>1, <2>1 DEF ResultsLeaveNotes
    <3>2. QED
      BY <1>7, <3>1
  <2>2. CASE eventLock[e] # w
    <3>1. \E n \in Notes : n[1] = e /\ copies[n] > 0
      BY <1>1, <2>2 DEF ProcessedLeavesNote, NotesOf
    <3>2. QED
      BY <1>7, <3>1
  <2>3. QED
    BY <2>1, <2>2
<1>10. QED
  BY <1>5, <1>6, <1>8, <1>9

\* The other steps of the workers leave the batches' inserts and results as
\* they are, or drop them with their locks.
LEMMA Generates ==
    OutboxTypeOK /\ GenerationInv /\ [Next]_vars => GenerationInv'
<1> SUFFICES ASSUME OutboxTypeOK, GenerationInv, [Next]_vars
             PROVE  GenerationInv'
  OBVIOUS
<1> USE DEF GenerationInv
<1>1. ASSUME UNCHANGED <<copies, event>>,
             \A v \in Workers, n \in Notes :
               Inserted(v, n)' => /\ Inserted(v, n)
                                  /\ eventLock[n[1]] = v => eventLock'[n[1]] = v,
             \A v \in Workers, e \in Events :
               worker'[v].result[e] = "processed" =>
                 /\ worker'[v] = worker[v] \/ (worker'[v].new = worker[v].new
                                               /\ worker'[v].result = worker[v].result)
                 /\ eventLock[e] = v => eventLock'[e] = v
      PROVE  GenerationInv'
  <2>1. InsertsAreNew'
    BY <1>1 DEF InsertsAreNew
  <2>2. OneNotePerRecipient' /\ ProcessedLeavesNote'
    BY <1>1 DEF OneNotePerRecipient, ProcessedLeavesNote, NotesOf
  <2>3. ResultsLeaveNotes'
    BY <1>1 DEF ResultsLeaveNotes, Inserted
  <2>4. QED
    BY <2>1, <2>2, <2>3
<1>2. \A n \in Notes : n[1] \in Events
  BY DEF Notes
<1>3. ASSUME UNCHANGED <<event, copies, worker, eventLock>>
      PROVE  GenerationInv'
  BY <1>1, <1>3 DEF Inserted
<1>4. ASSUME NEW e \in Events, Emit(e)
      PROVE  GenerationInv'
  <2>1. UNCHANGED <<copies, worker, eventLock>> /\ event' = [event EXCEPT ![e] = "pending"]
    BY <1>4 DEF Emit, outbox
  <2>2. InsertsAreNew' /\ OneNotePerRecipient' /\ ResultsLeaveNotes'
    BY <2>1 DEF InsertsAreNew, OneNotePerRecipient, ResultsLeaveNotes, Inserted
  <2>3. \A d \in Events : event'[d] = "processed" => event[d] = "processed"
    BY <2>1 DEF OutboxTypeOK
  <2>4. ProcessedLeavesNote'
    BY <2>1, <2>3 DEF ProcessedLeavesNote, NotesOf
  <2>5. QED
    BY <2>2, <2>4
<1>5. ASSUME NEW w \in Workers, ReadEvents(w)
      PROVE  GenerationInv'
  <2>1. /\ \A v \in Workers : worker'[v].new = worker[v].new
                              /\ worker'[v].result = worker[v].result
        /\ UNCHANGED <<event, copies, eventLock>>
    BY <1>5 DEF ReadEvents, OutboxTypeOK
  <2>2. QED
    BY <1>1, <2>1 DEF Inserted
<1>6. ASSUME NEW w \in Workers, LockEvent(w)
      PROVE  GenerationInv'
  <2>1. /\ UNCHANGED <<event, copies, worker>>
        /\ \A e \in Events, v \in Workers : eventLock[e] = v => eventLock'[e] = v
    BY <1>6, OutboxAssumption DEF LockEvent, OutboxTypeOK
  <2>2. QED
    BY <1>1, <1>2, <2>1 DEF Inserted
<1>7. ASSUME NEW w \in Workers, LoseEvents(w)
      PROVE  GenerationInv'
  <2>1. /\ UNCHANGED <<event, copies>>
        /\ worker'[w] = IdleWorker
        /\ \A v \in Workers \ {w} : worker'[v] = worker[v]
        /\ \A e \in Events, v \in Workers \ {w} : eventLock[e] = v => eventLock'[e] = v
    BY <1>7 DEF LoseEvents, OutboxTypeOK
  <2>2. /\ \A n \in Notes : ~Inserted(w, n)'
        /\ \A e \in Events : worker'[w].result[e] # "processed"
    BY <2>1 DEF Inserted, IdleWorker
  <2>3. /\ \A v \in Workers, n \in Notes :
             Inserted(v, n)' => /\ v # w /\ Inserted(v, n)
                                /\ eventLock[n[1]] = v => eventLock'[n[1]] = v
        /\ \A v \in Workers, e \in Events :
             worker'[v].result[e] = "processed" =>
               v # w /\ worker'[v] = worker[v] /\ (eventLock[e] = v => eventLock'[e] = v)
    BY <1>2, <2>1, <2>2 DEF Inserted
  <2>4. QED
    BY <1>1, <2>1, <2>3
<1>8. ASSUME NEW s \in Senders, ReadNotes(s) \/ SenderStep(s) \/ LoseNotes(s)
      PROVE  UNCHANGED <<event, copies, worker, eventLock>>
  BY <1>8 DEF ReadNotes, SenderStep, LoseNotes, Send, FlushNote, CommitNotes,
     DetectDeadlock, generation
<1>9. ASSUME NEW n \in Notes, NEW to \in Marks, Mark(n, to)
      PROVE  UNCHANGED <<event, copies, worker, eventLock>>
  BY <1>9 DEF Mark, generation
<1>10. ChangeSetup \/ ChangeAudience \/ UNCHANGED vars
         => UNCHANGED <<event, copies, worker, eventLock>>
  BY DEF ChangeSetup, ChangeAudience, outbox, vars
<1>11. QED
  BY <1>3, <1>4, <1>5, <1>6, <1>7, <1>8, <1>9, <1>10, ProcessGenerates, CommitGenerates
     DEF Next, WorkerStep

----------------------------------------------------------------------------
(* Delivery: what senders hold.                                            *)

\* What SendersInv asks of one sender.
Handles(s) ==
    /\ \A n \in sender[s].todo : copies[n] > 0
    /\ \A m, n \in sender[s].at : m = n
    /\ \A n \in Notes :
         n \in sender[s].at \/ noteLock[n] = s
           => copies[n] > 0 /\ sender[s].result[n] \in {"sent", "failed"}

\* A sender that others leave alone handles what it handled.
LEMMA StillHandles ==
    ASSUME OutboxTypeOK, NEW r \in Senders, Handles(r), sender'[r] = sender[r],
           \A n \in Notes : copies[n] > 0 => copies'[n] > 0,
           \A n \in Notes : noteLock'[n] = r => noteLock[n] = r
    PROVE  Handles(r)'
<1>1. sender[r].todo \subseteq Notes
  BY DEF OutboxTypeOK
<1>2. QED
  BY <1>1 DEF Handles

\* What is left to say of the notifications themselves.
NotesKnown ==
    /\ \A n \in Notes : note[n] # "none" => copies[n] > 0
    /\ \A n \in delivered : copies[n] > 0

LEMMA SendersParts ==
    /\ SendersInv => NotesKnown /\ \A s \in Senders : Handles(s)
    /\ NotesKnown' /\ (\A s \in Senders : Handles(s)') => SendersInv'
  BY DEF SendersInv, NotesKnown, Handles

\* A step of one sender: the others handle what they did.
LEMMA OneSenderSteps ==
    ASSUME OutboxTypeOK, SendersInv, NEW s \in Senders, UNCHANGED copies,
           NotesKnown', Handles(s)',
           \A r \in Senders \ {s} : sender'[r] = sender[r],
           \A r \in Senders \ {s}, n \in Notes : noteLock'[n] = r => noteLock[n] = r
    PROVE  SendersInv'
<1>1. ASSUME NEW r \in Senders
      PROVE  Handles(r)'
  <2>1. CASE r = s
    BY <2>1
  <2>2. CASE r # s
    BY <2>2, StillHandles, SendersParts
  <2>3. QED
    BY <2>1, <2>2
<1>2. QED
  BY <1>1, SendersParts

\* A sender whose transaction has ended handles nothing.
LEMMA EndedHandles ==
    ASSUME OutboxTypeOK, NEW s \in Senders, EndSender(s)
    PROVE  /\ Handles(s)'
           /\ \A r \in Senders \ {s} : sender'[r] = sender[r]
           /\ \A r \in Senders \ {s}, n \in Notes : noteLock'[n] = r => noteLock[n] = r
<1>1. \A n \in Notes : noteLock'[n] # s
  BY EndedSender, OutboxAssumption
<1>2. Handles(s)'
  BY <1>1, EndedSender DEF Handles, IdleSender
<1>3. QED
  BY <1>2, EndedSender, OutboxAssumption

\* Every step of a sender keeps what senders hold.
LEMMA SenderHandles ==
    ASSUME OutboxTypeOK, SendersInv, NEW s \in Senders,
           ReadNotes(s) \/ SenderStep(s) \/ LoseNotes(s)
    PROVE  SendersInv'
<1>1. NotesKnown /\ \A r \in Senders : Handles(r)
  BY SendersParts
<1>2. UNCHANGED copies
  BY DEF ReadNotes, SenderStep, LoseNotes, Send, FlushNote, CommitNotes,
     DetectDeadlock, generation
<1>3. sender[s] \in SenderRow /\ Handles(s)
  BY <1>1 DEF OutboxTypeOK, SenderRow
<1>4. CASE ReadNotes(s)
  <2>1. /\ sender'[s].todo = {n \in Notes : note[n] = "pending"}
        /\ sender'[s].at = sender[s].at /\ sender'[s].result = sender[s].result
        /\ \A r \in Senders \ {s} : sender'[r] = sender[r]
        /\ UNCHANGED <<note, noteLock, delivered>>
    BY <1>4 DEF ReadNotes, OutboxTypeOK
  <2>2. NotesKnown' /\ Handles(s)'
    BY <1>1, <1>2, <1>3, <2>1 DEF NotesKnown, Handles
  <2>3. QED
    BY <1>2, <2>1, <2>2, OneSenderSteps
<1>5. CASE Send(s)
  <2>1. PICK n \in sender[s].todo, result \in {"sent", "failed"} :
             /\ n \in Notes
             /\ sender[s].at = {}
             /\ \A r \in Senders \ {s} : sender'[r] = sender[r]
             /\ sender'[s].todo = sender[s].todo \ {n}
             /\ sender'[s].at = {n}
             /\ sender'[s].result = [sender[s].result EXCEPT ![n] = result]
             /\ delivered' = IF result = "sent" THEN delivered \cup {n} ELSE delivered
    BY <1>5, SentRow
  <2>2. UNCHANGED <<note, noteLock>>
    BY <1>5 DEF Send
  <2>3. copies[n] > 0
    BY <1>3 DEF Handles
  <2>4. NotesKnown'
    BY <1>1, <1>2, <2>1, <2>2, <2>3 DEF NotesKnown
  <2>5. \A m \in Notes : sender'[s].result[m] = IF m = n THEN result ELSE sender[s].result[m]
    BY <1>3, <2>1 DEF SenderRow
  <2>6. Handles(s)'
    BY <1>2, <1>3, <2>1, <2>2, <2>5 DEF Handles
  <2>7. QED
    BY <1>2, <2>1, <2>2, <2>4, <2>6, OneSenderSteps
<1>6. CASE FlushNote(s)
  <2>1. PICK n \in sender[s].at : noteLock' = [noteLock EXCEPT ![n] = s]
    BY <1>6 DEF FlushNote
  <2>2. /\ sender'[s].todo = sender[s].todo /\ sender'[s].at = {}
        /\ sender'[s].result = sender[s].result
        /\ \A r \in Senders \ {s} : sender'[r] = sender[r]
        /\ UNCHANGED <<note, delivered>>
    BY <1>6 DEF FlushNote, OutboxTypeOK
  <2>3. \A m \in Notes : noteLock'[m] = IF m = n THEN s ELSE noteLock[m]
    BY <2>1 DEF OutboxTypeOK
  <2>4. n \in Notes
    BY <1>3 DEF SenderRow
  <2>5. NotesKnown'
    BY <1>1, <1>2, <2>2 DEF NotesKnown
  <2>6. Handles(s)'
    BY <1>2, <1>3, <2>2, <2>3, <2>4 DEF Handles
  <2>7. QED
    BY <1>2, <2>2, <2>3, <2>5, <2>6, OneSenderSteps
<1>7. CASE CommitNotes(s)
  <2>1. EndSender(s) /\ UNCHANGED delivered
    BY <1>7 DEF CommitNotes
  <2>2. \A n \in Notes : noteLock[n] # s => note'[n] = note[n]
    BY <1>7 DEF CommitNotes
  <2>3. \A n \in Notes : noteLock[n] = s => copies[n] > 0
    BY <1>3 DEF Handles
  <2>4. NotesKnown'
    BY <1>1, <1>2, <2>1, <2>2, <2>3 DEF NotesKnown
  <2>5. QED
    BY <1>2, <2>1, <2>4, EndedHandles, OneSenderSteps
<1>8. CASE DetectDeadlock(s) \/ LoseNotes(s)
  <2>1. EndSender(s) /\ UNCHANGED <<note, delivered>>
    BY <1>8 DEF DetectDeadlock, LoseNotes
  <2>2. NotesKnown'
    BY <1>1, <1>2, <2>1 DEF NotesKnown
  <2>3. QED
    BY <1>2, <2>1, <2>2, EndedHandles, OneSenderSteps
<1>9. QED
  BY <1>4, <1>5, <1>6, <1>7, <1>8 DEF SenderStep

\* Whatever the workers and administrators do, nothing a sender holds goes.
LEMMA Delivers ==
    OutboxTypeOK /\ SendersInv /\ [Next]_vars => SendersInv'
<1> SUFFICES ASSUME OutboxTypeOK, SendersInv, [Next]_vars
             PROVE  SendersInv'
  OBVIOUS
<1>1. NotesKnown /\ \A r \in Senders : Handles(r)
  BY SendersParts
<1>2. ASSUME UNCHANGED <<sender, noteLock>>,
             \A n \in Notes : copies[n] > 0 => copies'[n] > 0,
             NotesKnown'
      PROVE  SendersInv'
  <2>1. \A r \in Senders : Handles(r)'
    BY <1>1, <1>2, StillHandles
  <2>2. QED
    BY <1>2, <2>1, SendersParts
<1>3. ASSUME UNCHANGED <<copies, note, sender, noteLock, delivered>>
      PROVE  SendersInv'
  BY <1>1, <1>2, <1>3 DEF NotesKnown
<1>4. ASSUME NEW w \in Workers, CommitEvents(w)
      PROVE  SendersInv'
  <2>1. UNCHANGED <<sender, noteLock, delivered>>
    BY <1>4 DEF CommitEvents, delivery
  <2>2. \A n \in Notes :
           /\ copies'[n] = copies[n] + IF Inserted(w, n) THEN 1 ELSE 0
           /\ note'[n] = IF Inserted(w, n) THEN worker[w].new[n] ELSE note[n]
    BY <1>4, CommitRows
  <2>3. \A n \in Notes : copies[n] \in Nat
    BY DEF OutboxTypeOK
  <2>4. \A n \in Notes : copies[n] > 0 \/ Inserted(w, n) => copies'[n] > 0
    BY <2>2, <2>3
  <2>5. NotesKnown'
    <3>1. \A n \in Notes : note'[n] # "none" => copies'[n] > 0
      BY <1>1, <2>2, <2>4 DEF NotesKnown
    <3>2. \A n \in delivered' : n \in Notes /\ copies[n] > 0
      BY <1>1, <2>1 DEF NotesKnown, OutboxTypeOK
    <3>3. QED
      BY <2>4, <3>1, <3>2 DEF NotesKnown
  <2>6. QED
    BY <1>2, <2>1, <2>4, <2>5
<1>5. ASSUME NEW n \in Notes, NEW to \in Marks, Mark(n, to)
      PROVE  SendersInv'
  <2>1. UNCHANGED <<copies, sender, noteLock, delivered>>
    BY <1>5 DEF Mark, generation
  <2>2. \A m \in Notes : note'[m] # "none" => copies[m] > 0
    BY <1>1, <1>5 DEF Mark, OutboxTypeOK, NotesKnown
  <2>3. QED
    BY <1>1, <1>2, <2>1, <2>2 DEF NotesKnown
<1>6. ASSUME NEW w \in Workers, ReadEvents(w) \/ LockEvent(w) \/ Process(w) \/ LoseEvents(w)
      PROVE  UNCHANGED <<copies, note, sender, noteLock, delivered>>
  BY <1>6 DEF ReadEvents, LockEvent, Process, LoseEvents, delivery
<1>7. (\E e \in Events : Emit(e)) \/ ChangeSetup \/ ChangeAudience \/ UNCHANGED vars
        => UNCHANGED <<copies, note, sender, noteLock, delivered>>
  BY DEF Emit, ChangeSetup, ChangeAudience, outbox, vars
<1>8. QED
  BY <1>3, <1>4, <1>5, <1>6, <1>7, SenderHandles DEF Next, WorkerStep

----------------------------------------------------------------------------
(* The theorems.                                                           *)

LEMMA OutboxInductive == Spec => []OutboxInv
<1>1. Init => OutboxInv
  <2> SUFFICES ASSUME Init
               PROVE  OutboxInv
    OBVIOUS
  <2>1. IdleWorker \in WorkerRow /\ IdleSender \in SenderRow
    BY DEF IdleWorker, IdleSender, WorkerRow, SenderRow, EventStatuses, NoteStatuses
  <2>2. OutboxTypeOK
    BY <2>1, OutboxAssumption
       DEF Init, OutboxTypeOK, WorkerRow, SenderRow, EventStatuses, NoteStatuses
  <2>3. InsertsAreNew /\ OneNotePerRecipient /\ ResultsLeaveNotes /\ ProcessedLeavesNote
    BY DEF Init, InsertsAreNew, OneNotePerRecipient, ResultsLeaveNotes,
       ProcessedLeavesNote, Inserted, IdleWorker
  <2>4. SendersInv
    BY OutboxAssumption DEF Init, SendersInv, IdleSender
  <2>5. QED
    BY <2>2, <2>3, <2>4 DEF OutboxInv
<1>2. OutboxInv /\ [Next]_vars => OutboxInv'
  BY OutboxType, Generates, Delivers DEF OutboxInv, GenerationInv
<1>3. QED
  BY <1>1, <1>2, PTL DEF Spec

\* Events, notifications and the batches in hand stay in their domains.
THEOREM OutboxTypeCorrect == Spec => []OutboxTypeOK
  BY OutboxInductive, PTL DEF OutboxInv

\* Nobody has two notifications of an event, for any number of overlapping
\* workers, events processed again, audiences and rules that change between.
THEOREM OneNoteEach == Spec => []OneNotePerRecipient
  BY OutboxInductive, PTL DEF OutboxInv

\* Where the rule always exists, an event is marked as processed only in the
\* transaction that gives it its notification, or after it.
THEOREM ProcessedHasNote == Spec => []ProcessedLeavesNote
  BY OutboxInductive, PTL DEF OutboxInv

\* Until its result is committed a message that has left is in some sender's
\* hands or its row is locked; only a rollback lets go of it.
THEOREM DeliveriesRecorded == Spec => DeliveredIsRecorded
<1> DEFINE Recorded ==
             \A n \in Notes :
               Forgotten(n)' => \/ Forgotten(n)
                                \/ \E s \in Senders : LoseNotes(s) \/ DetectDeadlock(s)
<1>1. OutboxInv /\ [Next]_vars => [Recorded]_vars
  <2> SUFFICES ASSUME OutboxInv, [Next]_vars, NEW n \in Notes, Forgotten(n)',
                      ~ \E s \in Senders : LoseNotes(s) \/ DetectDeadlock(s)
               PROVE  Forgotten(n)
    OBVIOUS
  <2> OutboxTypeOK /\ NotesKnown /\ \A s \in Senders : Handles(s)
    BY SendersParts DEF OutboxInv
  <2>1. /\ n \in delivered' /\ note'[n] = "pending" /\ noteLock'[n] = Nobody
        /\ \A s \in Senders : n \notin sender'[s].at
    BY DEF Forgotten, InHand
  <2>2. ASSUME UNCHANGED <<note, noteLock, delivered>>,
               \A s \in Senders : sender'[s].at = sender[s].at
        PROVE  Forgotten(n)
    BY <2>1, <2>2 DEF Forgotten, InHand
  <2>3. ASSUME NEW s \in Senders, Send(s)
        PROVE  Forgotten(n)
    <3>1. PICK m \in sender[s].todo, result \in {"sent", "failed"} :
             /\ m \in Notes
             /\ sender[s].at = {}
             /\ \A r \in Senders \ {s} : sender'[r] = sender[r]
             /\ sender'[s].at = {m}
             /\ delivered' = IF result = "sent" THEN delivered \cup {m} ELSE delivered
      BY <2>3, SentRow
    <3>2. UNCHANGED <<note, noteLock>>
      BY <2>3 DEF Send
    <3>3. n # m
      BY <2>1, <3>1
    <3>4. QED
      BY <2>1, <3>1, <3>2, <3>3 DEF Forgotten, InHand
  <2>4. ASSUME NEW s \in Senders, FlushNote(s)
        PROVE  Forgotten(n)
    <3>1. PICK m \in sender[s].at : noteLock[m] = Nobody
                                    /\ noteLock' = [noteLock EXCEPT ![m] = s]
      BY <2>4 DEF FlushNote
    <3>2. /\ \A r \in Senders \ {s} : sender'[r] = sender[r]
          /\ UNCHANGED <<note, delivered>>
      BY <2>4 DEF FlushNote, OutboxTypeOK
    <3>3. m \in Notes
      BY DEF OutboxTypeOK
    <3>4. n # m
      BY <2>1, <3>1, <3>3, OutboxAssumption DEF OutboxTypeOK
    <3>5. n \notin sender[s].at
      BY <3>4 DEF Handles
    <3>6. noteLock[n] = Nobody
      BY <2>1, <3>1, <3>4 DEF OutboxTypeOK
    <3>7. QED
      BY <2>1, <3>2, <3>5, <3>6 DEF Forgotten, InHand
  <2>5. ASSUME NEW s \in Senders, CommitNotes(s)
        PROVE  Forgotten(n)
    <3>1. EndSender(s) /\ UNCHANGED delivered /\ sender[s].at = {}
      BY <2>5 DEF CommitNotes
    <3>2. noteLock[n] # s
      <4>1. noteLock[n] = s => note'[n] = sender[s].result[n]
        BY <2>5 DEF CommitNotes
      <4>2. QED
        BY <2>1, <4>1 DEF Handles
    <3>3. note'[n] = note[n]
      BY <2>5, <3>2 DEF CommitNotes
    <3>4. noteLock[n] = Nobody
      BY <2>1, <3>1, <3>2, EndedSender
    <3>5. \A r \in Senders \ {s} : sender'[r] = sender[r]
      BY <3>1, EndedSender
    <3>6. QED
      BY <2>1, <3>1, <3>3, <3>4, <3>5 DEF Forgotten, InHand
  <2>6. ASSUME NEW w \in Workers, CommitEvents(w)
        PROVE  Forgotten(n)
    <3>1. UNCHANGED <<sender, noteLock, delivered>>
      BY <2>6 DEF CommitEvents, delivery
    <3>2. copies[n] > 0
      BY <2>1, <3>1 DEF NotesKnown
    <3>3. ~Inserted(w, n)
      BY <3>2 DEF OutboxInv, InsertsAreNew
    <3>4. note'[n] = note[n]
      BY <2>6, <3>3, CommitRows
    <3>5. QED
      BY <2>1, <3>1, <3>4 DEF Forgotten, InHand
  <2>7. ASSUME NEW m \in Notes, NEW to \in Marks, Mark(m, to)
        PROVE  Forgotten(n)
    <3>1. UNCHANGED <<sender, noteLock, delivered>> /\ note' = [note EXCEPT ![m] = to]
      BY <2>7 DEF Mark, generation
    <3>2. note'[n] = note[n]
      BY <2>1, <3>1, OutboxAssumption DEF OutboxTypeOK
    <3>3. QED
      BY <2>1, <3>1, <3>2 DEF Forgotten, InHand
  <2>8. ASSUME NEW s \in Senders, ReadNotes(s)
        PROVE  Forgotten(n)
    <3>1. /\ UNCHANGED <<note, noteLock, delivered>>
          /\ \A r \in Senders : sender'[r].at = sender[r].at
      BY <2>8 DEF ReadNotes, OutboxTypeOK
    <3>2. QED
      BY <2>2, <3>1
  <2>9. ASSUME NEW w \in Workers, ReadEvents(w) \/ LockEvent(w) \/ Process(w) \/ LoseEvents(w)
        PROVE  UNCHANGED <<note, sender, noteLock, delivered>>
    BY <2>9 DEF ReadEvents, LockEvent, Process, LoseEvents, delivery
  <2>10. (\E e \in Events : Emit(e)) \/ ChangeSetup \/ ChangeAudience \/ UNCHANGED vars
           => UNCHANGED <<note, sender, noteLock, delivered>>
    BY DEF Emit, ChangeSetup, ChangeAudience, outbox, vars
  <2>11. QED
    BY <2>2, <2>3, <2>4, <2>5, <2>6, <2>7, <2>8, <2>9, <2>10
       DEF Next, WorkerStep, SenderStep
<1>2. Spec => [][Recorded]_vars
  BY <1>1, OutboxInductive, PTL DEF Spec
<1>3. QED
  BY <1>2 DEF DeliveredIsRecorded
----------------------------------------------------------------------------
(* Failures.                                                               *)

\* Only events that were processed have notifications; what a worker has
\* locked it has yet to process or has a result for; and what it is about to
\* mark as failed has several notifications.
FailureInv ==
    /\ \A n \in Notes : copies[n] > 0 => event[n[1]] \in {"processed", "failed"}
    /\ \A w \in Workers, e \in Events : eventLock[e] = w
         => e \in worker[w].todo \/ worker[w].result[e] \in {"processed", "failed"}
    /\ \A w \in Workers, e \in Events : worker[w].result[e] = "failed"
         => eventLock[e] = w /\ Ambiguous(e)

\* Notifications stay, so an event with several keeps them.
LEMMA AmbiguousStays ==
    ASSUME OutboxTypeOK, OutboxTypeOK', \A n \in Notes : copies[n] <= copies'[n],
           NEW e \in Events, Ambiguous(e)
    PROVE  Ambiguous(e)'
<1>1. NotesOf(e) \subseteq NotesOf(e)'
  <2>1. \A n \in Notes : copies[n] \in Nat /\ copies'[n] \in Nat
    BY DEF OutboxTypeOK
  <2>2. QED
    BY <2>1 DEF NotesOf
<1>2. IsFiniteSet(Notes)
  <2>1. IsFiniteSet(Recipients \cup {NoOne})
    BY FS_AddElement, OutboxAssumption
  <2>2. QED
    BY <2>1, FS_Product, OutboxAssumption DEF Notes
<1>3. NotesOf(e)' \subseteq Notes
  BY DEF NotesOf
<1>4. IsFiniteSet(NotesOf(e)')
  BY <1>2, <1>3, FS_Subset
<1>5. /\ Cardinality(NotesOf(e)) <= Cardinality(NotesOf(e)')
      /\ Cardinality(NotesOf(e)') \in Nat
      /\ Cardinality(NotesOf(e)) \in Nat
  BY <1>1, <1>4, FS_Subset, FS_CardinalityType
<1>6. QED
  BY <1>5 DEF Ambiguous

\* The result that processing leaves is processed, or failed for an event with
\* several notifications.
LEMMA ProcessResults ==
    ASSUME OutboxTypeOK, NEW w \in Workers, Process(w)
    PROVE  \E e \in Events :
             /\ eventLock[e] = w
             /\ \A v \in Workers \ {w} : worker'[v] = worker[v]
             /\ worker'[w].todo = worker[w].todo \ {e}
             /\ \A d \in Events \ {e} : worker'[w].result[d] = worker[w].result[d]
             /\ \/ worker'[w].result[e] = "processed"
                \/ worker'[w].result[e] = "failed" /\ Ambiguous(e)
<1>1. \E e \in Events, result \in EventStatuses, notes \in SUBSET Notes,
         status \in NoteStatuses :
        /\ eventLock[e] = w
        /\ Finish(w, e, result, notes, status)
        /\ result \in {"processed", "failed"}
        /\ result = "failed" => Ambiguous(e)
  <2> DEFINE e == Min(worker[w].todo)
  <2>1. e \in Events /\ eventLock[e] = w
    BY NextEvent DEF Process
  <2>2. \/ Finish(w, e, "processed", {}, "none")
        \/ Finish(w, e, "processed", Addressed(e), "pending")
        \/ Finish(w, e, "processed", Unaddressed(e), "skipped")
        \/ Finish(w, e, "processed", Unaddressed(e), "failed")
        \/ Ambiguous(e) /\ Finish(w, e, "failed", {}, "none")
    BY DEF Process
  <2>3. /\ {"processed", "failed"} \subseteq EventStatuses
        /\ {"none", "pending", "skipped", "failed"} \subseteq NoteStatuses
    BY DEF EventStatuses, NoteStatuses
  <2>4. Addressed(e) \in SUBSET Notes /\ Unaddressed(e) \in SUBSET Notes
    BY <2>1 DEF Addressed, Unaddressed, Notes, OutboxTypeOK
  <2> HIDE DEF e
  <2>5. QED
    BY <2>1, <2>2, <2>3, <2>4
<1>2. PICK e \in Events, result \in EventStatuses, notes \in SUBSET Notes,
           status \in NoteStatuses :
        /\ eventLock[e] = w
        /\ Finish(w, e, result, notes, status)
        /\ result \in {"processed", "failed"}
        /\ result = "failed" => Ambiguous(e)
  BY <1>1
<1> DEFINE row == [todo |-> worker[w].todo \ {e},
                   result |-> [worker[w].result EXCEPT ![e] = result],
                   new |-> [n \in Notes |-> IF n \in notes THEN status
                                            ELSE worker[w].new[n]]]
<1>3. /\ \A v \in Workers \ {w} : worker'[v] = worker[v]
      /\ worker'[w] = row
  BY <1>2 DEF Finish, OutboxTypeOK
<1>4. /\ row.todo = worker[w].todo \ {e}
      /\ row.result[e] = result
      /\ \A d \in Events \ {e} : row.result[d] = worker[w].result[d]
  BY DEF OutboxTypeOK
<1> HIDE DEF row
<1>5. QED
  BY <1>2, <1>3, <1>4

LEMMA InitFails == Init => FailureInv
  BY OutboxAssumption DEF Init, FailureInv, IdleWorker, Ambiguous

LEMMA NextFails ==
    ASSUME OutboxInv, OutboxInv', FailureInv, [Next]_vars
    PROVE  FailureInv'
<1> OutboxTypeOK /\ OutboxTypeOK'
  BY DEF OutboxInv
<1>1. \A n \in Notes : n[1] \in Events /\ copies[n] \in Nat
  BY DEF Notes, OutboxTypeOK
<1>2. ASSUME copies' = copies,
             \A e \in Events : event[e] \in {"processed", "failed"} => event'[e] = event[e],
             \A w \in Workers, e \in Events : eventLock'[e] = w
               => e \in worker'[w].todo \/ worker'[w].result[e] \in {"processed", "failed"},
             \A w \in Workers, e \in Events : worker'[w].result[e] = "failed"
               => eventLock'[e] = w /\ Ambiguous(e)
      PROVE  FailureInv'
  BY <1>1, <1>2 DEF FailureInv, Ambiguous, NotesOf
<1>3. ASSUME UNCHANGED <<copies, event, worker, eventLock>>
      PROVE  FailureInv'
  BY <1>2, <1>3 DEF FailureInv
<1>4. ASSUME NEW e \in Events, Emit(e) PROVE FailureInv'
  BY <1>2, <1>4 DEF Emit, outbox, OutboxTypeOK, FailureInv
<1>5. ASSUME NEW w \in Workers, ReadEvents(w) PROVE FailureInv'
  <2>1. /\ \A v \in Workers : worker'[v].result = worker[v].result
        /\ \A v \in Workers \ {w} : worker'[v] = worker[v]
        /\ worker[w].todo = {}
        /\ UNCHANGED <<event, copies, eventLock>>
    BY <1>5 DEF ReadEvents, OutboxTypeOK, IdleWorker
  <2>2. QED
    BY <1>2, <2>1 DEF FailureInv
<1>6. ASSUME NEW w \in Workers, LockEvent(w) PROVE FailureInv'
  <2>1. PICK e \in worker[w].todo : eventLock[e] = Nobody /\ eventLock' = [eventLock EXCEPT ![e] = w]
    BY <1>6, NextEvent DEF LockEvent
  <2>2. e \in Events /\ UNCHANGED <<copies, event, worker>>
    BY <1>6 DEF LockEvent, OutboxTypeOK
  <2>3. \A d \in Events : eventLock'[d] = IF d = e THEN w ELSE eventLock[d]
    BY <2>1 DEF OutboxTypeOK
  <2>4. QED
    BY <1>2, <2>1, <2>2, <2>3, OutboxAssumption DEF FailureInv
<1>7. ASSUME NEW w \in Workers, Process(w) PROVE FailureInv'
  <2>1. UNCHANGED <<event, copies, eventLock>>
    BY <1>7 DEF Process
  <2>2. PICK e \in Events :
             /\ eventLock[e] = w
             /\ \A v \in Workers \ {w} : worker'[v] = worker[v]
             /\ worker'[w].todo = worker[w].todo \ {e}
             /\ \A d \in Events \ {e} : worker'[w].result[d] = worker[w].result[d]
             /\ \/ worker'[w].result[e] = "processed"
                \/ worker'[w].result[e] = "failed" /\ Ambiguous(e)
    BY <1>7, ProcessResults
  <2>3. QED
    BY <1>2, <2>1, <2>2 DEF FailureInv
<1>8. ASSUME NEW w \in Workers, CommitEvents(w) PROVE FailureInv'
  <2>1. /\ \A e \in Events :
             event'[e] = IF eventLock[e] = w THEN worker[w].result[e] ELSE event[e]
        /\ \A n \in Notes : copies'[n] = copies[n] + IF Inserted(w, n) THEN 1 ELSE 0
        /\ worker'[w] = IdleWorker
        /\ \A v \in Workers \ {w} : worker'[v] = worker[v]
        /\ worker[w].todo = {}
    BY <1>8, CommitRows DEF CommitEvents
  <2>2. \A e \in Events : eventLock'[e] = IF eventLock[e] = w THEN Nobody ELSE eventLock[e]
    BY <1>8 DEF CommitEvents
  <2>3. \A e \in Events : eventLock[e] = w => event'[e] \in {"processed", "failed"}
    BY <2>1 DEF FailureInv
  <2>4. ASSUME NEW n \in Notes, copies'[n] > 0
        PROVE  event'[n[1]] \in {"processed", "failed"}
    <3>1. copies[n] > 0 \/ Inserted(w, n)
      BY <1>1, <2>1, <2>4
    <3>2. Inserted(w, n) => eventLock[n[1]] = w
      BY DEF OutboxInv, InsertsAreNew
    <3>3. QED
      BY <1>1, <2>1, <2>3, <3>1, <3>2 DEF FailureInv
  <2>5. \A n \in Notes : copies[n] <= copies'[n]
    BY <1>1, <2>1
  <2>6. ASSUME NEW v \in Workers, NEW e \in Events
        PROVE  /\ eventLock'[e] = v => e \in worker'[v].todo
                                      \/ worker'[v].result[e] \in {"processed", "failed"}
               /\ worker'[v].result[e] = "failed" => eventLock'[e] = v /\ Ambiguous(e)'
    <3>1. CASE v = w
      BY <2>1, <2>2, <3>1, OutboxAssumption DEF IdleWorker
    <3>2. CASE v # w
      BY <2>1, <2>2, <2>5, <3>2, AmbiguousStays, OutboxAssumption DEF FailureInv
    <3>3. QED
      BY <3>1, <3>2
  <2>7. QED
    BY <2>4, <2>6 DEF FailureInv
<1>9. ASSUME NEW w \in Workers, LoseEvents(w) PROVE FailureInv'
  <2>1. /\ UNCHANGED <<event, copies>>
        /\ worker'[w] = IdleWorker
        /\ \A v \in Workers \ {w} : worker'[v] = worker[v]
        /\ \A e \in Events : eventLock'[e] = IF eventLock[e] = w THEN Nobody ELSE eventLock[e]
    BY <1>9 DEF LoseEvents, OutboxTypeOK
  <2>2. ASSUME NEW v \in Workers, NEW e \in Events
        PROVE  /\ eventLock'[e] = v => e \in worker'[v].todo
                                      \/ worker'[v].result[e] \in {"processed", "failed"}
               /\ worker'[v].result[e] = "failed" => eventLock'[e] = v /\ Ambiguous(e)
    <3>1. CASE v = w
      BY <2>1, <3>1, OutboxAssumption DEF IdleWorker
    <3>2. CASE v # w
      BY <2>1, <3>2, OutboxAssumption DEF FailureInv
    <3>3. QED
      BY <3>1, <3>2
  <2>3. QED
    BY <1>2, <2>1, <2>2
<1>10. ASSUME NEW s \in Senders, ReadNotes(s) \/ SenderStep(s) \/ LoseNotes(s)
       PROVE  UNCHANGED <<copies, event, worker, eventLock>>
  BY <1>10 DEF ReadNotes, SenderStep, LoseNotes, Send, FlushNote, CommitNotes,
     DetectDeadlock, generation
<1>11. ChangeSetup \/ ChangeAudience \/ UNCHANGED vars
         => UNCHANGED <<copies, event, worker, eventLock>>
  BY DEF ChangeSetup, ChangeAudience, outbox, vars
<1>12. ASSUME NEW n \in Notes, NEW to \in Marks, Mark(n, to)
       PROVE  UNCHANGED <<copies, event, worker, eventLock>>
  BY <1>12 DEF Mark, generation
<1>13. QED
  BY <1>3, <1>4, <1>5, <1>6, <1>7, <1>8, <1>9, <1>10, <1>11, <1>12 DEF Next, WorkerStep

\* For any number of overlapping workers, changes of the rule and lost batches,
\* an event fails only after it was processed and when several were notified.
THEOREM FailedWereProcessed == Spec => OnlyProcessedFail
<1> DEFINE Only == \A e \in Events :
                     event[e] # "failed" /\ event'[e] = "failed"
                       => event[e] = "processed" /\ Ambiguous(e)
<1>1. OutboxInv /\ FailureInv /\ [Next]_vars => [Only]_vars
  <2> SUFFICES ASSUME OutboxInv, FailureInv, [Next]_vars, NEW e \in Events,
                      event[e] # "failed", event'[e] = "failed"
               PROVE  event[e] = "processed" /\ Ambiguous(e)
    OBVIOUS
  <2> OutboxTypeOK
    BY DEF OutboxInv
  <2>1. PICK w \in Workers : CommitEvents(w)
    <3>1. \A d \in Events : Emit(d) => event'[e] # "failed"
      BY DEF Emit, OutboxTypeOK
    <3>2. QED
      BY <3>1 DEF Next, ChangeSetup, ChangeAudience, ReadEvents, WorkerStep, LockEvent,
         Process, LoseEvents, ReadNotes, SenderStep, LoseNotes, Send, FlushNote, CommitNotes,
         DetectDeadlock, Mark, generation, outbox, vars
  <2>2. worker[w].result[e] = "failed"
    BY <2>1, CommitRows
  <2>3. Ambiguous(e)
    BY <2>2 DEF FailureInv
  <2>4. NotesOf(e) # {}
    BY <2>3, FS_EmptySet DEF Ambiguous
  <2>5. event[e] \in {"processed", "failed"}
    BY <2>4 DEF NotesOf, FailureInv
  <2>6. QED
    BY <2>3, <2>5
<1>2. FailureInv /\ OutboxInv /\ OutboxInv' /\ [Next]_vars => FailureInv'
  BY NextFails
<1>3. Spec => []FailureInv
  BY <1>2, InitFails, OutboxInductive, PTL DEF Spec
<1>4. QED
  BY <1>1, <1>3, OutboxInductive, PTL DEF Spec, OnlyProcessedFail
===============================================================================
