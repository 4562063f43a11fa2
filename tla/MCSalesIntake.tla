--------------------------- MODULE MCSalesIntake ---------------------------
(* u1 is only imported: k1 is on record, b1 corrects its amount, b2        *)
(* cancels it, b3 brings another sale, which has no number of its own.     *)
(* Staff and the fetch e1, a return, may do anything to u2, whom b1 and b2 *)
(* take in the opposite order, so that their commits can wait for each     *)
(* other.  The files also have lines that are not valid: a sale with the   *)
(* sign of a return, an amount with two points, and a sale and its return  *)
(* that get the same key.                                                  *)
EXTENDS SalesIntake, TLC

CONSTANTS u1, u2, k1, k2, k4, k5, b1, b2, b3, e1, s1, s2, today

Amount(n) == Written(n, 0, "point")

Line(k, u, n) ==
    [id |-> k, customer |-> u, paper |-> today, scale |-> 0, amount |-> Amount(n),
     kind |-> "sale", sign |-> Blank, status |-> "posted"]

Return(k, u, n) == [Line(k, u, n) EXCEPT !.kind = "return"]
Cancelled(k, u, n) == [Line(k, u, n) EXCEPT !.status = "cancelled"]
Mistyped(k, u) ==
    [Line(k, u, 1) EXCEPT !.amount =
       [negative |-> FALSE, parts |-> <<Part(1), Part(2), Part(3)>>, marks |-> <<"point", "point">>]]

MCCustomers == {u1, u2}
MCKeys == {k1, k2, <<u1, today, 2>>, k4, k5}
MCOpening == [k \in MCKeys |-> IF k = k1 THEN Recorded(Normalized(Line(k1, u1, 1))) ELSE Nothing]
MCFeeds == {b1, b2, b3, e1}
MCSourceOf == (b1 :> "csv") @@ (b2 :> "csv") @@ (b3 :> "csv") @@ (e1 :> "erp")
MCFileOf ==
    (b1 :> <<Line(k1, u1, 2), [Line(k5, u1, 1) EXCEPT !.sign = -1], Line(k2, u2, 1)>>) @@
    (b2 :> <<Line(k4, u2, 2), Mistyped(k2, u2), Cancelled(k1, u1, 1)>>) @@
    (b3 :> <<Line(Blank, u1, 1), Line(Blank, u1, 2), Return(Blank, u1, 1)>>)
MCFetchOf == (e1 :> <<Normalized(Return(k5, u2, 1))>>)
ByHand == {k4}
MCHandled == {u2}
MCSessions == {s1, s2}
MCSamples == (0..20) \cup {99, 100, 999, 1000, 1234, 99999, 100000, 123456, 999999, 1000000, 1234567}

\* The hypothesis under which totals and hashes are proved to be right.
ASSUME KeysAssumption == OneCustomerPerKey

\* The hypothesis under which amounts are proved to read back.
ASSUME SamplesAssumption == SamplesSuffice

Symmetry == Permutations(MCSessions)
=============================================================================
