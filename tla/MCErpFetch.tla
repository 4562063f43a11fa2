----------------------------- MODULE MCErpFetch -----------------------------
(* Two documents in pages of one row.                                      *)
EXTENDS ErpFetch, TLC

CONSTANTS d1, d2, c1, c2

MCDocs == {d1, d2}
MCClients == {c1, c2}
MCRank == (c1 :> 1) @@ (c2 :> 2)

Says(c, p, n) == [client |-> c, posted |-> p, place |-> n]

Invoice == Says(c1, TRUE, 2)
MCContents == {Invoice, Says(c2, TRUE, 1), Says(NoClient, FALSE, 3)}
MCOpening == (d1 :> <<Invoice>>) @@ (d2 :> <<>>)
=============================================================================
