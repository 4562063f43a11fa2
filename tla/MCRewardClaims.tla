--------------------------- MODULE MCRewardClaims ---------------------------
(* Two customers and three possible claims.  With two tiers, k1 and k3     *)
(* compete for the one active claim of u1; with one tier, all three        *)
(* compete for its stock, k3 being u1's second try.                        *)
EXTENDS RewardClaims, TLC

CONSTANTS t1, t2, u1, u2, k1, k2, k3

MCCustomers == {u1, u2}
MCClaims == {k1, k2, k3}
MCCustomerOf == (k1 :> u1) @@ (k2 :> u2) @@ (k3 :> u1)

TwoTiers == {t1, t2}
TierOfTwo == (k1 :> t1) @@ (k2 :> t1) @@ (k3 :> t2)

OneTier == {t1}
TierOfOne == [k \in MCClaims |-> t1]

Untracked == {NoStock}
UpToOne == {NoStock, 1}
UpToTwo == {NoStock, 0, 1, 2}
=============================================================================
