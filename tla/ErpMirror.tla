----------------------------- MODULE ErpMirror -----------------------------
(***************************************************************************)
(* What synchronisation promises about the documents of an ERP: the copy   *)
(* of a document is always a version that the ERP has published, and it    *)
(* is only ever replaced by a later one.  Which documents a step adopts,   *)
(* and how far behind the copy is, is left open.                           *)
(***************************************************************************)
EXTENDS Naturals, Sequences

CONSTANTS Docs, Contents

VARIABLES versions,   \* all that the ERP has published of each document
          recorded    \* the version that has been copied, 0 for none

vars == <<versions, recorded>>

Init ==
    /\ versions \in [Docs -> Seq(Contents)]
    /\ recorded = [d \in Docs |-> 0]

Publish(d) ==
    /\ \E c \in Contents : versions' = [versions EXCEPT ![d] = Append(@, c)]
    /\ UNCHANGED recorded

Adopt ==
    /\ recorded' \in [Docs -> Nat]
    /\ \A d \in Docs : recorded[d] <= recorded'[d] /\ recorded'[d] <= Len(versions[d])
    /\ UNCHANGED versions

Next == Adopt \/ \E d \in Docs : Publish(d)

Spec == Init /\ [][Next]_vars
=============================================================================
