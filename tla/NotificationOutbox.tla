------------------------- MODULE NotificationOutbox -------------------------
(***************************************************************************)
(* Domain events and the notifications made from them.  An event is        *)
(* stored by the transaction of the change it reports                      *)
(* (DomainEventService, modules/events/service.py).  Workers turn pending  *)
(* events into notifications, and senders deliver pending notifications    *)
(* (NotificationService, modules/notifications/service.py); beat starts    *)
(* one of each every 30 seconds and administrators can start more, so that *)
(* several run at once.  Each is one transaction over a batch, which no    *)
(* one else sees before its commit; a row it has updated stays locked      *)
(* until then.                                                             *)
(*                                                                         *)
(* One company with one rule.  What rule, template, condition and event    *)
(* amount to is the variable setup; whom the rule finds, audience.         *)
(***************************************************************************)
EXTENDS Naturals, FiniteSets, FiniteSetsExt

CONSTANTS Events,        \* numbered in the order of occurred_at
          Recipients, NoOne,
          Workers, Senders, Nobody,
          Setups,        \* values of setup in the model
          Marks,         \* statuses an administrator sets in the model
          MaxFailures    \* bound on dying processes and database errors

ASSUME OutboxAssumption ==
    /\ Events \subseteq Nat /\ IsFiniteSet(Events)
    /\ IsFiniteSet(Recipients) /\ NoOne \notin Recipients
    /\ Nobody \notin Workers \cup Senders
    /\ Setups \subseteq {"deliver", "skip", "unrenderable", "no_rule"}
    /\ Marks \subseteq {"sent", "failed", "skipped"}
    /\ MaxFailures \in Nat

VARIABLES
    event,       \* committed status of each domain event
    copies,      \* how many notifications a recipient has of an event
    note,        \* their committed status
    setup, audience,
    worker,      \* the batch of each worker: events to do, results to commit
    eventLock,   \* the worker whose transaction has updated the event
    sender,      \* the batch of each sender
    noteLock,    \* the sender whose transaction has updated the notification
    delivered,   \* notifications that have left the system
    failures

vars == <<event, copies, note, setup, audience, worker, eventLock, sender,
          noteLock, delivered, failures>>

\* A notification belongs to an event and a recipient; skipped and failed
\* ones that were never addressed belong to NoOne.
Notes == Events \X (Recipients \cup {NoOne})

NoteStatuses == {"none", "pending", "sent", "failed", "skipped"}
EventStatuses == {"absent", "pending", "processed", "failed"}

IdleWorker == [todo |-> {}, result |-> [e \in Events |-> "pending"],
               new |-> [n \in Notes |-> "none"]]

IdleSender == [todo |-> {}, at |-> {}, result |-> [n \in Notes |-> "none"]]

OutboxTypeOK ==
    /\ event \in [Events -> EventStatuses]
    /\ copies \in [Notes -> Nat]
    /\ note \in [Notes -> NoteStatuses]
    /\ setup \in Setups
    /\ audience \subseteq Recipients
    /\ worker \in [Workers -> [todo : SUBSET Events,
                               result : [Events -> EventStatuses],
                               new : [Notes -> NoteStatuses]]]
    /\ eventLock \in [Events -> Workers \cup {Nobody}]
    /\ sender \in [Senders -> [todo : SUBSET Notes, at : SUBSET Notes,
                               result : [Notes -> NoteStatuses]]]
    /\ noteLock \in [Notes -> Senders \cup {Nobody}]
    /\ delivered \subseteq Notes
    /\ failures \in 0..MaxFailures

Init ==
    /\ event = [e \in Events |-> "absent"]
    /\ copies = [n \in Notes |-> 0]
    /\ note = [n \in Notes |-> "none"]
    /\ setup \in Setups
    /\ audience = Recipients
    /\ worker = [w \in Workers |-> IdleWorker]
    /\ eventLock = [e \in Events |-> Nobody]
    /\ sender = [s \in Senders |-> IdleSender]
    /\ noteLock = [n \in Notes |-> Nobody]
    /\ delivered = {}
    /\ failures = 0

----------------------------------------------------------------------------
(* Events and their rule.                                                  *)

outbox == <<copies, note, worker, eventLock, sender, noteLock, delivered, failures>>

\* emit, at the commit of its transaction.
Emit(e) ==
    /\ event[e] = "absent"
    /\ \A d \in Events : d < e => event[d] # "absent"
    /\ event' = [event EXCEPT ![e] = "pending"]
    /\ UNCHANGED <<outbox, setup, audience>>

\* update_rule, update_template.
ChangeSetup ==
    /\ setup' \in Setups
    /\ setup' # setup
    /\ UNCHANGED <<event, outbox, audience>>

\* Users and addresses come and go.
ChangeAudience ==
    /\ audience' \in SUBSET Recipients
    /\ audience' # audience
    /\ UNCHANGED <<event, outbox, setup>>

----------------------------------------------------------------------------
(* process_pending_domain_events.                                          *)

delivery == <<sender, noteLock, delivered>>

ReadEvents(w) ==
    /\ worker[w] = IdleWorker
    /\ worker' = [worker EXCEPT ![w].todo = {e \in Events : event[e] = "pending"}]
    /\ UNCHANGED <<event, copies, note, setup, audience, eventLock, delivery, failures>>

\* A mutant: the status "processing" is only flushed with the result.
SkipLock(w) ==
    /\ \E e \in worker[w].todo : eventLock[e] # w
    /\ eventLock' = [e \in Events |-> IF e \in worker[w].todo THEN w ELSE eventLock[e]]
    /\ UNCHANGED <<event, copies, note, setup, audience, worker, delivery, failures>>

\* The flush of "processing".  It waits for the row and does not look at its
\* status again.
LockEvent(w) ==
    /\ worker[w].todo # {}
    /\ LET e == Min(worker[w].todo) IN
         /\ eventLock[e] = Nobody
         /\ eventLock' = [eventLock EXCEPT ![e] = w]
    /\ UNCHANGED <<event, copies, note, setup, audience, worker, delivery, failures>>

NotesOf(e) == {n \in Notes : n[1] = e /\ copies[n] > 0}

\* A mutant: nobody looks for a notification.
AddressedAgain(e) == {<<e, u>> : u \in audience}

\* _create_pending_event_once, for every recipient.
Addressed(e) == {n \in {<<e, u>> : u \in audience} : copies[n] = 0}

\* A mutant: skipping leaves no trace.
UnaddressedSilently(e) == {}

\* _create_skipped_event_once and _create_failed_event_once look for any
\* notification of the event and rule; scalar_one_or_none raises if there are
\* several.
Unaddressed(e) == {<<e, NoOne>>} \ {<<e, NoOne>> : n \in NotesOf(e)}

Ambiguous(e) == Cardinality(NotesOf(e)) > 1

\* What a worker adds to its batch for event e.
Finish(w, e, result, notes, status) ==
    /\ worker' = [worker EXCEPT ![w] =
         [todo |-> @.todo \ {e},
          result |-> [@.result EXCEPT ![e] = result],
          new |-> [n \in Notes |-> IF n \in notes THEN status ELSE @.new[n]]]]

\* A mutant: without a rule the method returns before the event is marked.
ProcessRuled(w) ==
    /\ worker[w].todo # {}
    /\ LET e == Min(worker[w].todo) IN
         /\ eventLock[e] = w
         /\ \/ setup = "no_rule" /\ Finish(w, e, "pending", {}, "none")
            \/ setup # "no_rule" /\ Finish(w, e, "processed", Addressed(e), "pending")
    /\ UNCHANGED <<event, copies, note, setup, audience, eventLock, delivery, failures>>

\* A mutant: the error of a template is left to the loop over the events.
ProcessUncaught(w) ==
    /\ worker[w].todo # {}
    /\ LET e == Min(worker[w].todo) IN
         /\ eventLock[e] = w
         /\ \/ setup = "unrenderable" /\ Finish(w, e, "failed", {}, "none")
            \/ setup # "unrenderable" /\ Finish(w, e, "processed", Addressed(e), "pending")
    /\ UNCHANGED <<event, copies, note, setup, audience, eventLock, delivery, failures>>

\* _process_domain_event after its first flush.
Process(w) ==
    /\ worker[w].todo # {}
    /\ LET e == Min(worker[w].todo) IN
         /\ eventLock[e] = w
         /\ \/ setup = "no_rule" /\ Finish(w, e, "processed", {}, "none")
            \/ /\ setup = "deliver" /\ audience # {}
               /\ Finish(w, e, "processed", Addressed(e), "pending")
            \/ /\ setup = "skip" \/ (setup = "deliver" /\ audience = {})
               /\ ~Ambiguous(e)
               /\ Finish(w, e, "processed", Unaddressed(e), "skipped")
            \/ /\ setup = "unrenderable"
               /\ ~Ambiguous(e)
               /\ Finish(w, e, "processed", Unaddressed(e), "failed")
            \/ /\ setup \in {"skip", "unrenderable"} \/ (setup = "deliver" /\ audience = {})
               /\ Ambiguous(e)
               /\ Finish(w, e, "failed", {}, "none")
    /\ UNCHANGED <<event, copies, note, setup, audience, eventLock, delivery, failures>>

Inserted(w, n) == worker[w].new[n] # "none"

\* The batch commits.
CommitEvents(w) ==
    /\ worker[w].todo = {}
    /\ worker[w] # IdleWorker
    /\ event' = [e \in Events |->
                   IF eventLock[e] = w THEN worker[w].result[e] ELSE event[e]]
    /\ copies' = [n \in Notes |-> copies[n] + IF Inserted(w, n) THEN 1 ELSE 0]
    /\ note' = [n \in Notes |-> IF Inserted(w, n) THEN worker[w].new[n] ELSE note[n]]
    /\ worker' = [worker EXCEPT ![w] = IdleWorker]
    /\ eventLock' = [e \in Events |-> IF eventLock[e] = w THEN Nobody ELSE eventLock[e]]
    /\ UNCHANGED <<setup, audience, delivery, failures>>

\* The process dies, or a statement fails: a failed flush makes the session
\* unusable, so the loop's except clause cannot store the failure and the
\* whole batch is rolled back.
LoseEvents(w) ==
    /\ worker[w] # IdleWorker
    /\ failures < MaxFailures
    /\ failures' = failures + 1
    /\ worker' = [worker EXCEPT ![w] = IdleWorker]
    /\ eventLock' = [e \in Events |-> IF eventLock[e] = w THEN Nobody ELSE eventLock[e]]
    /\ UNCHANGED <<event, copies, note, setup, audience, delivery>>

----------------------------------------------------------------------------
(* send_pending_notifications.                                             *)

generation == <<event, copies, setup, audience, worker, eventLock>>

ReadNotes(s) ==
    /\ sender[s] = IdleSender
    /\ sender' = [sender EXCEPT ![s].todo = {n \in Notes : note[n] = "pending"}]
    /\ UNCHANGED <<generation, note, noteLock, delivered, failures>>

\* A mutant: a refused notification waits for another try, for ever.
SendAgain(s) ==
    /\ sender[s].at = {}
    /\ \E n \in sender[s].todo, result \in {"sent", "pending"} :
         /\ sender' = [sender EXCEPT ![s] =
              [todo |-> @.todo \ {n}, at |-> {n},
               result |-> [@.result EXCEPT ![n] = result]]]
         /\ delivered' = IF result = "sent" THEN delivered \cup {n} ELSE delivered
    /\ UNCHANGED <<generation, note, noteLock, failures>>

\* _send_notification up to its flush: the message leaves, or the provider
\* refuses it.  Notifications of one transaction have the same created_at, so
\* their order is arbitrary.
Send(s) ==
    /\ sender[s].at = {}
    /\ \E n \in sender[s].todo, result \in {"sent", "failed"} :
         /\ sender' = [sender EXCEPT ![s] =
              [todo |-> @.todo \ {n}, at |-> {n},
               result |-> [@.result EXCEPT ![n] = result]]]
         /\ delivered' = IF result = "sent" THEN delivered \cup {n} ELSE delivered
    /\ UNCHANGED <<generation, note, noteLock, failures>>

\* The flush of the result, which waits for the row.
FlushNote(s) ==
    /\ \E n \in sender[s].at :
         /\ noteLock[n] = Nobody
         /\ noteLock' = [noteLock EXCEPT ![n] = s]
    /\ sender' = [sender EXCEPT ![s].at = {}]
    /\ UNCHANGED <<generation, note, delivered, failures>>

EndSender(s) ==
    /\ sender' = [sender EXCEPT ![s] = IdleSender]
    /\ noteLock' = [n \in Notes |-> IF noteLock[n] = s THEN Nobody ELSE noteLock[n]]

\* A mutant: the notifications' new status is that of an event.
CommitAsEvents(s) ==
    /\ sender[s] # IdleSender
    /\ sender[s].todo = {} /\ sender[s].at = {}
    /\ note' = [n \in Notes |-> IF noteLock[n] = s THEN "processed" ELSE note[n]]
    /\ EndSender(s)
    /\ UNCHANGED <<generation, delivered, failures>>

CommitNotes(s) ==
    /\ sender[s] # IdleSender
    /\ sender[s].todo = {} /\ sender[s].at = {}
    /\ note' = [n \in Notes |-> IF noteLock[n] = s THEN sender[s].result[n] ELSE note[n]]
    /\ EndSender(s)
    /\ UNCHANGED <<generation, delivered, failures>>

LoseNotes(s) ==
    /\ sender[s] # IdleSender
    /\ failures < MaxFailures
    /\ failures' = failures + 1
    /\ EndSender(s)
    /\ UNCHANGED <<generation, note, delivered>>

\* Two senders that wait for each other's notification: PostgreSQL rolls one
\* of them back.
WaitsFor(s, r) == \E n \in sender[s].at : noteLock[n] = r

DetectDeadlock(s) ==
    /\ \E r \in Senders \ {s} : WaitsFor(s, r) /\ WaitsFor(r, s)
    /\ EndSender(s)
    /\ UNCHANGED <<generation, note, delivered, failures>>

\* An administrator marks a notification by hand, whatever its status.
Mark(n, to) ==
    /\ copies[n] > 0
    /\ noteLock[n] = Nobody
    /\ note[n] # to
    /\ note' = [note EXCEPT ![n] = to]
    /\ UNCHANGED <<generation, sender, noteLock, delivered, failures>>

WorkerStep(w) == LockEvent(w) \/ Process(w) \/ CommitEvents(w)
SenderStep(s) == Send(s) \/ FlushNote(s) \/ CommitNotes(s) \/ DetectDeadlock(s)

Next ==
    \/ \E e \in Events : Emit(e)
    \/ ChangeSetup
    \/ ChangeAudience
    \/ \E w \in Workers : ReadEvents(w) \/ WorkerStep(w) \/ LoseEvents(w)
    \/ \E s \in Senders : ReadNotes(s) \/ SenderStep(s) \/ LoseNotes(s)
    \/ \E n \in Notes, to \in Marks : Mark(n, to)

Spec == Init /\ [][Next]_vars

\* beat starts both tasks every 30 seconds; what has started goes on.
Fairness ==
    /\ \A w \in Workers : WF_vars(ReadEvents(w)) /\ WF_vars(WorkerStep(w))
    /\ \A s \in Senders : WF_vars(ReadNotes(s)) /\ WF_vars(SenderStep(s))

FairSpec == Spec /\ Fairness

----------------------------------------------------------------------------
(* Properties.                                                             *)

\* No recipient gets a second notification of an event, though two workers
\* may read the event as pending: the second waits at its first flush and
\* then finds the first one's notifications
\* (notifications/service.py:483-485, 732-738).
OneNotePerRecipient == \A n \in Notes : copies[n] <= 1

\* An event is processed together with its notifications: where the rule
\* always exists, a processed event has left a notification, be it a skipped
\* or a failed one.
ProcessedLeavesNote ==
    "no_rule" \notin Setups =>
      \A e \in Events : event[e] = "processed" => NotesOf(e) # {}

\* No event fails by its own rule, template or recipients: one fails only if,
\* after several recipients were notified and another worker's batch has marked
\* it as processed, it is processed once more under a rule that has changed
\* (notifications/service.py:721, which expects at most one).  So a failed event
\* has lost no notification, although its status says that it has.
OnlyProcessedFail ==
    [][\A e \in Events :
         event[e] # "failed" /\ event'[e] = "failed"
           => event[e] = "processed" /\ Ambiguous(e)]_vars

\* A message that has left is forgotten, so that it will leave once more, only
\* when a sender's transaction is rolled back: as long as the notification is
\* pending someone still has it in hand, although it leaves before its row is
\* locked (notifications/service.py:841-870) and two senders may have read it.
InHand(n) == noteLock[n] # Nobody \/ \E s \in Senders : n \in sender[s].at

Forgotten(n) == n \in delivered /\ note[n] = "pending" /\ ~InHand(n)

DeliveredIsRecorded ==
    [][\A n \in Notes :
         Forgotten(n)' => \/ Forgotten(n)
                          \/ \E s \in Senders : LoseNotes(s) \/ DetectDeadlock(s)]_vars

\* Every event is processed or failed some day: overlapping workers wait for
\* each other but never in a circle, since all take events by occurred_at, and
\* what a lost batch leaves is read again (notifications/service.py:436-474).
EventsEnd == \A e \in Events : event[e] = "pending" ~> event[e] # "pending"

\* Every notification is sent, failed or skipped some day.
NotesEnd ==
    \A n \in Events \X Recipients : note[n] = "pending" ~> note[n] # "pending"
=============================================================================
