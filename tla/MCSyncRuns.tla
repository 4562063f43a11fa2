----------------------------- MODULE MCSyncRuns -----------------------------
(* One integration and two runs of it: one may be created before the other *)
(* is committed, given up by recovery while its message waits, or left by  *)
(* a dying worker, while the other is executed.                            *)
EXTENDS SyncRuns

CONSTANTS i1, r1, r2

OneIntegration == {i1}
TwoRuns == {r1, r2}
OfOne == [r \in Runs |-> i1]
=============================================================================
