------------------------ MODULE MCNotificationOutbox ------------------------
(* Two recipients, so that an event can have several notifications, and    *)
(* two workers or two senders.                                             *)
EXTENDS NotificationOutbox, TLC

CONSTANTS a, b, w1, w2, s1, s2

OneRecipient == {a}
TwoRecipients == {a, b}
TwoWorkers == {w1, w2}
OneSender == {s1}
TwoSenders == {s1, s2}
Symmetry == Permutations(TwoRecipients) \cup Permutations(TwoWorkers)
              \cup Permutations(TwoSenders)
=============================================================================
