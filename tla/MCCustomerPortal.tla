--------------------------- MODULE MCCustomerPortal ---------------------------
(* Two requests at a time, one owner and one other user.  To keep apart    *)
(* what would only multiply, the instance starts from four states: a       *)
(* platform administrator and no company yet; a company with a second user *)
(* to be added; one sales manager with three sessions to be opened; and a  *)
(* customer to be given a link by an owner who has just logged out and     *)
(* still has an access token.  Where fewer sessions are left, the others   *)
(* are long past; where customers are not the point, they are archived.    *)
EXTENDS CustomerPortal, TLC

CONSTANTS boss, aide, s1, s2, s3, c1, l1, p1, p2

MCUsers == {boss, aide}
MCSessions == {s1, s2, s3}
MCRequests == {p1, p2}
MCCustomers == {c1}
MCLinks == {l1}

SomeRequests == Permutations(MCRequests)

Past(u, s) == [NewSession(u, s, s) EXCEPT !.age = SessionAge]

Start(owner, other, sessions, gone) ==
    /\ role = (boss :> owner) @@ (aide :> other)
    /\ active = {u \in Users : role[u] # "none"}
    /\ session = sessions
    /\ request = [p \in Requests |-> Idle]
    /\ archived = gone
    /\ link = [l \in Links |-> NoLink]
    /\ tokens = {}
    /\ opened = [l \in Links |-> 0]

AllFree == [s \in Sessions |-> NoSession]

LoggedOut == [NewSession(boss, s1, s1) EXCEPT !.revoked = TRUE]

MCInit ==
    \/ Start("none", "platform_admin", [AllFree EXCEPT ![s3] = Past(aide, s3)], Customers)
    \/ Start("owner", "none", [AllFree EXCEPT ![s3] = Past(boss, s3)], Customers)
    \/ Start("sales_manager", "none", AllFree, Customers)
    \/ Start("owner", "platform_admin",
             (s1 :> LoggedOut) @@ (s2 :> Past(boss, s2)) @@ (s3 :> Past(boss, s3)), {})

MCSpec == MCInit /\ [][Next]_vars
=============================================================================
