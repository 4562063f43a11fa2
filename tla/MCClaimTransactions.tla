------------------------ MODULE MCClaimTransactions ------------------------
(* Two sessions over one tier.  k1 and k2 belong to different customers    *)
(* and compete for the tier's stock; with three claims, k3 is another try  *)
(* of k1's customer.                                                       *)
EXTENDS ClaimTransactions, TLC

CONSTANTS t1, u1, u2, k1, k2, k3, s1, s2

OneTier == {t1}
TwoCustomers == {u1, u2}
TwoClaims == {k1, k2}
SecondTry == {k1, k3}
CustomersOfAll == (k1 :> u1) @@ (k2 :> u2) @@ (k3 :> u1)
CustomersOfTwo == [k \in TwoClaims |-> CustomersOfAll[k]]
CustomersOfRetry == [k \in SecondTry |-> CustomersOfAll[k]]
TiersOfTwo == [k \in TwoClaims |-> t1]
TiersOfRetry == [k \in SecondTry |-> t1]

TwoSessions == {s1, s2}

UpToOne == {0, 1}
=============================================================================
