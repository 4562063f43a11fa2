------------------------- MODULE RewardClaimsProofs -------------------------
(***************************************************************************)
(* What holds of the atomic claim requests for any number of customers,    *)
(* tiers and claims.                                                       *)
(***************************************************************************)
EXTENDS RewardClaims, CampaignsProofs, FiniteSetTheorems

----------------------------------------------------------------------------
(* The stock helpers on a well-typed row.                                  *)

\* A stock helper whose guard holds returns a row of the table, with the
\* same terms and the counters it promises.
LEMMA StockHelpers ==
    ASSUME NEW row \in GiftTier
    PROVE  /\ Reserved(row) \in GiftTier
           /\ CanRelease(row) => Released(row) \in GiftTier
           /\ CanRelease(row) => FulfilledStock(row) \in GiftTier
<1>1. row.reserved \in Nat /\ row.fulfilled \in Nat
  BY DEF GiftTier
<1>2. ASSUME NEW r \in Nat, NEW f \in Nat
      PROVE  /\ [row EXCEPT !.reserved = r] \in GiftTier
             /\ [row EXCEPT !.reserved = r, !.fulfilled = f] \in GiftTier
  BY DEF GiftTier
<1>3. Reserved(row) \in GiftTier
  <2>1. row.reserved + 1 \in Nat
    BY <1>1
  <2>2. [row EXCEPT !.reserved = row.reserved + 1] \in GiftTier
    BY <2>1, <1>2
  <2>3. QED
    BY <2>2 DEF Reserved
<1>4. CanRelease(row) => Released(row) \in GiftTier
  <2>1. ASSUME row.reserved > 0
        PROVE  [row EXCEPT !.reserved = row.reserved - 1] \in GiftTier
    <3>1. row.reserved - 1 \in Nat
      BY <1>1, <2>1
    <3>2. QED
      BY <3>1, <1>2
  <2>2. QED
    BY <2>1 DEF Released, CanRelease
<1>5. CanRelease(row) => FulfilledStock(row) \in GiftTier
  <2>1. ASSUME row.reserved > 0
        PROVE  [row EXCEPT !.reserved = row.reserved - 1,
                           !.fulfilled = row.fulfilled + 1] \in GiftTier
    <3>1. row.reserved - 1 \in Nat /\ row.fulfilled + 1 \in Nat
      BY <1>1, <2>1
    <3>2. QED
      BY <3>1, <1>2
  <2>2. QED
    BY <2>1 DEF FulfilledStock, CanRelease
<1>6. QED
  BY <1>3, <1>4, <1>5

\* A claim request keeps the rows it touches in their domains.
LEMMA ClaimStepType ==
    ASSUME TypeOK, NEW k \in Claims,
           \/ CreateClaim(k) \/ ApproveClaim(k) \/ RejectClaim(k)
           \/ CancelClaim(k) \/ PortalCancelClaim(k) \/ FulfillClaim(k)
    PROVE  TypeOK'
<1> TierOf[k] \in Tiers /\ tier[TierOf[k]] \in GiftTier
  BY RewardClaimsAssumption DEF TypeOK, CampaignsTypeOK
<1> USE StockHelpers DEF ClaimMoves, TypeOK, CampaignsTypeOK, ClaimStatuses
<1>1. CASE CreateClaim(k)
  BY <1>1 DEF CreateClaim
<1>2. CASE ApproveClaim(k)
  BY <1>2 DEF ApproveClaim, MoveStock
<1>3. ASSUME NEW to \in {"rejected", "cancelled"}, CloseApproved(k, to)
      PROVE  TypeOK'
  BY <1>3 DEF CloseApproved, MoveStock
<1>4. ASSUME NEW to \in {"rejected", "cancelled"}, ClosePending(k, to)
      PROVE  TypeOK'
  BY <1>4 DEF ClosePending
<1>5. CASE FulfillClaim(k)
  BY <1>5 DEF FulfillClaim, MoveStock
<1>6. QED
  BY <1>1, <1>2, <1>3, <1>4, <1>5
     DEF RejectClaim, CancelClaim, PortalCancelClaim

\* Every row stays in its table's domain; in particular no counter of a tier
\* ever becomes negative, so the CHECK constraints of campaigns/models.py
\* never fire.
THEOREM TypeCorrect == Spec => []TypeOK
<1>1. Init => TypeOK
  <2> SUFFICES ASSUME Init
               PROVE  TypeOK
    OBVIOUS
  <2>1. campaign \in Campaign
    BY DEF Init, CampaignsInit, Campaign, CampaignStatuses
  <2>2. NoTier \in GiftTier
    BY DEF NoTier, GiftTier, StockModes
  <2>3. QED
    BY <2>1, <2>2 DEF Init, CampaignsInit, TypeOK, CampaignsTypeOK, ClaimStatuses
<1>2. TypeOK /\ [Next]_vars => TypeOK'
  <2> SUFFICES ASSUME TypeOK, [Next]_vars
               PROVE  TypeOK'
    OBVIOUS
  <2>1. CASE ClaimStep
    BY <2>1, ClaimStepType DEF ClaimStep
  <2>2. CASE AdminStep
    BY <2>2, CampaignsType DEF AdminStep, TypeOK
  <2>3. ASSUME NEW u \in Customers, NEW total \in Totals,
               RecalculateProgress(u, total)
        PROVE  TypeOK'
    BY <2>3, RewardClaimsAssumption DEF RecalculateProgress, TypeOK, CampaignsTypeOK
  <2>4. ASSUME NEW u \in Customers, ArchiveCustomer(u)
        PROVE  TypeOK'
    BY <2>4 DEF ArchiveCustomer, TypeOK, CampaignsTypeOK
  <2>5. CASE UNCHANGED vars
    BY <2>5 DEF vars, TypeOK, CampaignsTypeOK
  <2>6. QED
    BY <2>1, <2>2, <2>3, <2>4, <2>5 DEF Next
<1>3. QED
  BY <1>1, <1>2, PTL DEF Spec
----------------------------------------------------------------------------
(* One active claim.                                                       *)

\* A customer never holds two pending or approved claims: only create_claim
\* makes a claim active, and it looks at all of the customer's claims.
THEOREM OneActive == Spec => []OneActiveClaim
<1>1. Init => OneActiveClaim
  BY DEF Init, OneActiveClaim, ActiveStatuses
<1>2. TypeOK /\ OneActiveClaim /\ [Next]_vars => OneActiveClaim'
  <2> SUFFICES ASSUME TypeOK, OneActiveClaim, [Next]_vars
               PROVE  OneActiveClaim'
    OBVIOUS
  <2>1. ASSUME NEW k \in Claims, CreateClaim(k)
        PROVE  OneActiveClaim'
    BY <2>1 DEF CreateClaim, ClaimMoves, HasActiveClaim, OneActiveClaim,
       ActiveStatuses, TypeOK
  <2>2. ASSUME NEW k \in Claims, NEW to \in ClaimStatuses,
               status[k] \in ActiveStatuses, ClaimMoves(k, to)
        PROVE  OneActiveClaim'
    BY <2>2 DEF ClaimMoves, OneActiveClaim, ActiveStatuses, TypeOK
  <2>3. ASSUME NEW k \in Claims,
               \/ ApproveClaim(k) \/ RejectClaim(k) \/ CancelClaim(k)
               \/ PortalCancelClaim(k) \/ FulfillClaim(k)
        PROVE  OneActiveClaim'
    BY <2>2, <2>3 DEF ApproveClaim, RejectClaim, CancelClaim, PortalCancelClaim,
       FulfillClaim, ClosePending, CloseApproved, ActiveStatuses, ClaimStatuses
  <2>4. CASE UNCHANGED status
    BY <2>4 DEF OneActiveClaim
  <2>5. QED
    BY <2>1, <2>3, <2>4 DEF Next, ClaimStep, AdminStep, RecalculateProgress,
       ArchiveCustomer, vars
<1>3. QED
  BY <1>1, <1>2, TypeCorrect, PTL DEF Spec

----------------------------------------------------------------------------
(* The books.                                                              *)

\* A claim that moves from one status to another leaves the one set of its
\* tier and joins the other; no other set of claims changes.
LEMMA ClaimsMoved ==
    ASSUME TypeOK, NEW k \in Claims, NEW to \in ClaimStatuses,
           ClaimMoves(k, to), status[k] # to,
           NEW t \in Tiers, NEW s \in ClaimStatuses
    PROVE  /\ Cardinality(ClaimsIn(t, s)) \in Nat
           /\ Cardinality(ClaimsIn(t, s)') =
                IF TierOf[k] = t /\ s = to THEN Cardinality(ClaimsIn(t, s)) + 1
                ELSE IF TierOf[k] = t /\ s = status[k]
                     THEN Cardinality(ClaimsIn(t, s)) - 1
                     ELSE Cardinality(ClaimsIn(t, s))
<1> DEFINE S == ClaimsIn(t, s)
<1>1. IsFiniteSet(S)
  BY RewardClaimsAssumption, FS_Subset DEF ClaimsIn
<1>2. Cardinality(S) \in Nat
  BY <1>1, FS_CardinalityType
<1>3. CASE TierOf[k] = t /\ s = to
  <2>1. ClaimsIn(t, s)' = S \cup {k} /\ k \notin S
    BY <1>3 DEF ClaimsIn, ClaimMoves, TypeOK
  <2>2. Cardinality(S \cup {k}) = Cardinality(S) + 1
    BY <1>1, <2>1, FS_AddElement
  <2>3. QED
    BY <1>2, <1>3, <2>1, <2>2
<1>4. CASE TierOf[k] = t /\ s = status[k]
  <2>1. ClaimsIn(t, s)' = S \ {k} /\ k \in S
    BY <1>4 DEF ClaimsIn, ClaimMoves, TypeOK
  <2>2. Cardinality(S \ {k}) = Cardinality(S) - 1
    BY <1>1, <2>1, FS_RemoveElement
  <2>3. QED
    BY <1>2, <1>4, <2>1, <2>2
<1>5. CASE ~(TierOf[k] = t /\ s \in {to, status[k]})
  <2>1. ClaimsIn(t, s)' = S
    BY <1>5 DEF ClaimsIn, ClaimMoves, TypeOK
  <2>2. QED
    BY <1>2, <1>5, <2>1
<1>6. QED
  BY <1>3, <1>4, <1>5

\* What makes BooksBalance inductive: claims exist only on inserted tiers, so
\* that a new tier starts with books that balance.
ClaimsOnExistingTiers ==
    \A k \in Claims : status[k] # "absent" => tier[TierOf[k]].row # "absent"

BooksInv == ClaimsOnExistingTiers /\ BooksBalance

\* The state predicates of the books depend on these two variables only.
LEMMA BooksUnchanged ==
    BooksInv /\ UNCHANGED <<tier, status>> => BooksInv'
  BY DEF BooksInv, ClaimsOnExistingTiers, BooksBalance, ClaimsIn

\* Creating, editing (but for the stock mode) and deleting tiers keeps the
\* books balanced.
LEMMA BooksTierStep ==
    ASSUME TypeOK, BooksInv, TierStep, UNCHANGED status,
           "mode" \notin EditableFields
    PROVE  BooksInv'
<1>1. PICK t \in Tiers : \/ \E data \in TierData : CreateTier(t, data)
                         \/ \E data \in TierData : UpdateTier(t, data)
                         \/ DeleteTier(t)
  BY DEF TierStep
<1>2. \A u \in Tiers : \A s : ClaimsIn(u, s)' = ClaimsIn(u, s)
  BY DEF ClaimsIn
<1>3. ASSUME NEW data \in TierData, CreateTier(t, data)
      PROVE  BooksInv'
  <2>1. ClaimsIn(t, "approved") = {} /\ ClaimsIn(t, "fulfilled") = {}
    BY <1>3 DEF CreateTier, ClaimsIn, BooksInv, ClaimsOnExistingTiers
  <2>2. tier'[t].reserved = 0 /\ tier'[t].fulfilled = 0 /\ tier'[t].row = "live"
    BY <1>3 DEF CreateTier, TypeOK, CampaignsTypeOK
  <2>3. \A u \in Tiers \ {t} : tier'[u] = tier[u]
    BY <1>3 DEF CreateTier, TypeOK, CampaignsTypeOK
  <2>4. BooksBalance'
    BY <1>2, <2>1, <2>2, <2>3, FS_EmptySet DEF BooksInv, BooksBalance
  <2>5. ClaimsOnExistingTiers'
    BY <2>2, <2>3, RewardClaimsAssumption DEF BooksInv, ClaimsOnExistingTiers
  <2>6. QED
    BY <2>4, <2>5 DEF BooksInv
<1>4. ASSUME \/ \E data \in TierData : UpdateTier(t, data)
             \/ DeleteTier(t)
      PROVE  BooksInv'
  <2>1. \A u \in Tiers : /\ tier'[u].mode = tier[u].mode
                         /\ tier'[u].reserved = tier[u].reserved
                         /\ tier'[u].fulfilled = tier[u].fulfilled
                         /\ tier[u].row # "absent" => tier'[u].row # "absent"
    <3>1. ASSUME NEW data \in TierData, UpdateTier(t, data), NEW u \in Tiers
          PROVE  /\ tier'[u].mode = tier[u].mode
                 /\ tier'[u].reserved = tier[u].reserved
                 /\ tier'[u].fulfilled = tier[u].fulfilled
                 /\ tier'[u].row = tier[u].row
      BY <3>1 DEF UpdateTier, OnlySets, Overwrite, TypeOK, CampaignsTypeOK, GiftTier
    <3>2. ASSUME DeleteTier(t), NEW u \in Tiers
          PROVE  /\ tier'[u].mode = tier[u].mode
                 /\ tier'[u].reserved = tier[u].reserved
                 /\ tier'[u].fulfilled = tier[u].fulfilled
                 /\ tier[u].row # "absent" => tier'[u].row # "absent"
      BY <3>2 DEF DeleteTier, TypeOK, CampaignsTypeOK, GiftTier
    <3>3. QED
      BY <1>4, <3>1, <3>2
  <2>2. QED
    BY <1>2, <2>1, RewardClaimsAssumption
       DEF BooksInv, BooksBalance, ClaimsOnExistingTiers
<1>5. QED
  BY <1>1, <1>3, <1>4

\* A move of one claim balances the books when it moves the counters of its
\* tier by as much: these are the numbers the stock helpers add.
Gain(s, from, to) == (IF s = to THEN 1 ELSE 0) - (IF s = from THEN 1 ELSE 0)

LEMMA BooksMove ==
    ASSUME TypeOK, BooksInv, NEW k \in Claims, NEW to \in ClaimStatuses \ {"absent"},
           ClaimMoves(k, to), status[k] # to,
           tier[TierOf[k]].row # "absent",
           NEW row \in GiftTier,
           tier' = [tier EXCEPT ![TierOf[k]] = row],
           row.row = tier[TierOf[k]].row,
           row.mode = tier[TierOf[k]].mode,
           row.mode # "none" =>
             /\ row.reserved = tier[TierOf[k]].reserved
                                 + Gain("approved", status[k], to)
             /\ row.fulfilled = tier[TierOf[k]].fulfilled
                                 + Gain("fulfilled", status[k], to)
    PROVE  BooksInv'
<1> TierOf[k] \in Tiers
  BY RewardClaimsAssumption
<1>1. ClaimsOnExistingTiers'
  <2> SUFFICES ASSUME NEW j \in Claims, status'[j] # "absent"
               PROVE  tier'[TierOf[j]].row # "absent"
    BY DEF ClaimsOnExistingTiers
  <2>1. TierOf[j] \in Tiers
    BY RewardClaimsAssumption
  <2>2. tier[TierOf[j]].row # "absent"
    BY DEF ClaimMoves, TypeOK, BooksInv, ClaimsOnExistingTiers
  <2>3. QED
    BY <2>1, <2>2 DEF TypeOK, CampaignsTypeOK
<1>2. BooksBalance'
  <2> SUFFICES ASSUME NEW t \in Tiers, tier'[t].mode # "none"
               PROVE  /\ tier'[t].reserved = Cardinality(ClaimsIn(t, "approved")')
                      /\ tier'[t].fulfilled = Cardinality(ClaimsIn(t, "fulfilled")')
    BY DEF BooksBalance, ClaimsIn
  <2>1. tier[t].mode # "none"
    BY DEF TypeOK, CampaignsTypeOK
  <2>2. /\ tier[t].reserved = Cardinality(ClaimsIn(t, "approved"))
        /\ tier[t].fulfilled = Cardinality(ClaimsIn(t, "fulfilled"))
    BY <2>1 DEF BooksInv, BooksBalance
  <2>3. ASSUME NEW s \in {"approved", "fulfilled"}
        PROVE  /\ Cardinality(ClaimsIn(t, s)) \in Nat
               /\ Cardinality(ClaimsIn(t, s)') =
                    IF TierOf[k] = t
                    THEN Cardinality(ClaimsIn(t, s)) + Gain(s, status[k], to)
                    ELSE Cardinality(ClaimsIn(t, s))
    <3>1. s \in ClaimStatuses
      BY DEF ClaimStatuses
    <3>2. QED
      BY <3>1, ClaimsMoved DEF Gain
  <2>4. CASE TierOf[k] = t
    BY <2>2, <2>3, <2>4 DEF TypeOK, CampaignsTypeOK
  <2>5. CASE TierOf[k] # t
    BY <2>2, <2>3, <2>5 DEF TypeOK, CampaignsTypeOK
  <2>6. QED
    BY <2>4, <2>5
<1>3. QED
  BY <1>1, <1>2 DEF BooksInv

\* A claim request keeps the books balanced.
LEMMA BooksClaimStep ==
    ASSUME TypeOK, BooksInv, NEW k \in Claims,
           \/ CreateClaim(k) \/ ApproveClaim(k) \/ RejectClaim(k)
           \/ CancelClaim(k) \/ PortalCancelClaim(k) \/ FulfillClaim(k)
    PROVE  BooksInv'
<1> DEFINE row == tier[TierOf[k]]
<1>1. TierOf[k] \in Tiers /\ row \in GiftTier /\ row.reserved \in Nat /\ row.fulfilled \in Nat
  BY RewardClaimsAssumption DEF TypeOK, CampaignsTypeOK, GiftTier
<1>2. status[k] # "absent" => row.row # "absent"
  BY DEF BooksInv, ClaimsOnExistingTiers
<1>3. tier = [tier EXCEPT ![TierOf[k]] = row]
  BY DEF TypeOK, CampaignsTypeOK
<1>4. CASE CreateClaim(k)
  BY <1>1, <1>3, <1>4, BooksMove, "pending" \in ClaimStatuses \ {"absent"}
     DEF CreateClaim, FindTier, Usable, Gain, ClaimStatuses
<1>5. ASSUME NEW to \in {"rejected", "cancelled"}, ClosePending(k, to)
      PROVE  BooksInv'
  BY <1>1, <1>2, <1>3, <1>5, BooksMove DEF ClosePending, Gain, ClaimStatuses
<1>6. CASE ApproveClaim(k)
  <2>1. Reserved(row) \in GiftTier
    BY <1>1, StockHelpers
  <2>2. Reserved(row).row = row.row /\ Reserved(row).mode = row.mode
    BY <1>1 DEF Reserved, GiftTier
  <2>3. row.mode # "none" => /\ Reserved(row).reserved = row.reserved + 1
                             /\ Reserved(row).fulfilled = row.fulfilled
    BY <1>1 DEF Reserved, GiftTier
  <2>4. /\ tier' = [tier EXCEPT ![TierOf[k]] = Reserved(row)]
        /\ status[k] = "pending" /\ ClaimMoves(k, "approved")
    BY <1>6 DEF ApproveClaim, MoveStock
  <2>5. row.mode # "none" =>
          /\ Reserved(row).reserved = row.reserved + Gain("approved", status[k], "approved")
          /\ Reserved(row).fulfilled = row.fulfilled + Gain("fulfilled", status[k], "approved")
    BY <1>1, <2>3, <2>4 DEF Gain
  <2>6. "approved" \in ClaimStatuses \ {"absent"} /\ status[k] # "approved" /\ row.row # "absent"
    BY <1>2, <2>4 DEF ClaimStatuses
  <2>7. QED
    BY <2>1, <2>2, <2>4, <2>5, <2>6, BooksMove
<1>7. ASSUME NEW to \in {"rejected", "cancelled"}, CloseApproved(k, to)
      PROVE  BooksInv'
  <2>1. Released(row) \in GiftTier
    BY <1>1, <1>7, StockHelpers DEF CloseApproved, MoveStock
  <2>2. Released(row).row = row.row /\ Released(row).mode = row.mode
    BY <1>1 DEF Released, GiftTier
  <2>3. row.mode # "none" => /\ Released(row).reserved = row.reserved - 1
                             /\ Released(row).fulfilled = row.fulfilled
    BY <1>1 DEF Released, GiftTier
  <2>4. /\ tier' = [tier EXCEPT ![TierOf[k]] = Released(row)]
        /\ status[k] = "approved" /\ ClaimMoves(k, to)
    BY <1>7 DEF CloseApproved, MoveStock
  <2>5. row.mode # "none" =>
          /\ Released(row).reserved = row.reserved + Gain("approved", status[k], to)
          /\ Released(row).fulfilled = row.fulfilled + Gain("fulfilled", status[k], to)
    BY <1>1, <2>3, <2>4 DEF Gain
  <2>6. to \in ClaimStatuses \ {"absent"} /\ status[k] # to /\ row.row # "absent"
    BY <1>2, <2>4 DEF ClaimStatuses
  <2>7. QED
    BY <2>1, <2>2, <2>4, <2>5, <2>6, BooksMove
<1>8. CASE FulfillClaim(k)
  <2>1. FulfilledStock(row) \in GiftTier
    BY <1>1, <1>8, StockHelpers DEF FulfillClaim, MoveStock
  <2>2. FulfilledStock(row).row = row.row /\ FulfilledStock(row).mode = row.mode
    BY <1>1 DEF FulfilledStock, GiftTier
  <2>3. row.mode # "none" => /\ FulfilledStock(row).reserved = row.reserved - 1
                             /\ FulfilledStock(row).fulfilled = row.fulfilled + 1
    BY <1>1 DEF FulfilledStock, GiftTier
  <2>4. /\ tier' = [tier EXCEPT ![TierOf[k]] = FulfilledStock(row)]
        /\ status[k] = "approved" /\ ClaimMoves(k, "fulfilled")
    BY <1>8 DEF FulfillClaim, MoveStock
  <2>5. row.mode # "none" =>
          /\ FulfilledStock(row).reserved = row.reserved + Gain("approved", status[k], "fulfilled")
          /\ FulfilledStock(row).fulfilled = row.fulfilled + Gain("fulfilled", status[k], "fulfilled")
    BY <1>1, <2>3, <2>4 DEF Gain
  <2>6. "fulfilled" \in ClaimStatuses \ {"absent"} /\ status[k] # "fulfilled" /\ row.row # "absent"
    BY <1>2, <2>4 DEF ClaimStatuses
  <2>7. QED
    BY <2>1, <2>2, <2>4, <2>5, <2>6, BooksMove
<1>9. QED
  BY <1>4, <1>5, <1>6, <1>7, <1>8 DEF RejectClaim, CancelClaim, PortalCancelClaim

\* The tiers' counters and the claims agree forever, for any number of claims,
\* as long as nobody changes a tier's stock_tracking_mode.
THEOREM BooksBalanced ==
    ASSUME "mode" \notin EditableFields
    PROVE  Spec => []BooksBalance
<1>1. Init => BooksInv
  BY RewardClaimsAssumption
     DEF Init, CampaignsInit, NoTier, BooksInv, BooksBalance, ClaimsOnExistingTiers
<1>2. TypeOK /\ BooksInv /\ [Next]_vars => BooksInv'
  <2> SUFFICES ASSUME TypeOK, BooksInv, [Next]_vars
               PROVE  BooksInv'
    OBVIOUS
  <2>1. CASE ClaimStep
    BY <2>1, BooksClaimStep DEF ClaimStep
  <2>2. CASE TierStep /\ UNCHANGED status
    BY <2>2, BooksTierStep
  <2>3. CASE UNCHANGED <<tier, status>>
    BY <2>3, BooksUnchanged
  <2>4. CampaignStep => UNCHANGED tier
    BY DEF CampaignStep, UpdateCampaign, DeleteCampaign, ActivateCampaign,
       PauseCampaign, CompleteCampaign, ArchiveCampaign, MoveCampaign
  <2>5. QED
    BY <2>1, <2>2, <2>3, <2>4
       DEF Next, AdminStep, CampaignsNext, RecalculateProgress, ArchiveCustomer, vars
<1>3. BooksInv => BooksBalance
  BY DEF BooksInv
<1>4. QED
  BY <1>1, <1>2, <1>3, TypeCorrect, PTL DEF Spec

\* Under the same condition an approved claim can always be decided: its
\* reservation is there to release.
THEOREM ReservationsHold ==
    ASSUME "mode" \notin EditableFields
    PROVE  Spec => []ReservationsConsistent
<1>1. TypeOK /\ BooksBalance => ReservationsConsistent
  <2> SUFFICES ASSUME TypeOK, BooksBalance, NEW k \in Claims, status[k] = "approved",
                      tier[TierOf[k]].mode # "none"
               PROVE  tier[TierOf[k]].reserved > 0
    BY DEF ReservationsConsistent, CanRelease
  <2> DEFINE S == ClaimsIn(TierOf[k], "approved")
  <2>1. TierOf[k] \in Tiers /\ tier[TierOf[k]].reserved = Cardinality(S)
    BY RewardClaimsAssumption DEF BooksBalance
  <2>2. IsFiniteSet(S) /\ k \in S
    BY RewardClaimsAssumption, FS_Subset DEF ClaimsIn
  <2>3. Cardinality(S) \in Nat /\ Cardinality(S) # 0
    BY <2>2, FS_CardinalityType, FS_EmptySet
  <2>4. QED
    BY <2>1, <2>3
<1>2. QED
  BY <1>1, TypeCorrect, BooksBalanced, PTL

\* A stock helper whose guard holds keeps a strict row within its stock.
FitsStock(row) ==
    row.mode = "strict" =>
      row.reserved + row.fulfilled <= IF row.stock = NoStock THEN 0 ELSE row.stock

LEMMA StrictHelpers ==
    ASSUME NEW row \in GiftTier, FitsStock(row)
    PROVE  /\ CanReserve(row) => FitsStock(Reserved(row))
           /\ CanRelease(row) => FitsStock(Released(row))
           /\ CanRelease(row) => FitsStock(FulfilledStock(row))
<1>1. row.reserved \in Nat /\ row.fulfilled \in Nat /\ row.stock \in Nat \cup {NoStock}
  BY DEF GiftTier
<1>2. CanReserve(row) => FitsStock(Reserved(row))
  <2>1. CASE row.mode = "strict" /\ CanReserve(row)
    <3>1. row.stock # NoStock /\ row.stock - row.reserved - row.fulfilled > 0
      BY <2>1 DEF CanReserve, Available
    <3>2. /\ Reserved(row).reserved = row.reserved + 1
          /\ Reserved(row).fulfilled = row.fulfilled
          /\ Reserved(row).stock = row.stock
      BY <2>1 DEF Reserved, GiftTier
    <3>3. QED
      BY <1>1, <3>1, <3>2 DEF FitsStock, NoStock
  <2>2. CASE row.mode # "strict"
    BY <2>2 DEF FitsStock, Reserved, GiftTier
  <2>3. QED
    BY <2>1, <2>2
<1>3. CanRelease(row) => FitsStock(Released(row)) /\ FitsStock(FulfilledStock(row))
  <2>1. CASE row.mode = "strict" /\ CanRelease(row)
    <3>1. /\ Released(row).reserved = row.reserved - 1
          /\ Released(row).fulfilled = row.fulfilled
          /\ Released(row).stock = row.stock
          /\ FulfilledStock(row).reserved = row.reserved - 1
          /\ FulfilledStock(row).fulfilled = row.fulfilled + 1
          /\ FulfilledStock(row).stock = row.stock
      BY <2>1 DEF Released, FulfilledStock, GiftTier
    <3>2. QED
      BY <1>1, <2>1, <3>1 DEF FitsStock, NoStock
  <2>2. CASE row.mode # "strict"
    BY <2>2 DEF FitsStock, Released, FulfilledStock, GiftTier
  <2>3. QED
    BY <2>1, <2>2
<1>4. QED
  BY <1>2, <1>3

\* Strict stock is never promised twice, for any stock and any number of
\* claims, as long as nobody changes a tier's stock mode or quantity.
THEOREM StrictNeverOversold ==
    ASSUME "mode" \notin EditableFields, "stock" \notin EditableFields
    PROVE  Spec => []StrictNotOversold
<1> DEFINE Inv == \A t \in Tiers : FitsStock(tier[t])
<1>1. Init => Inv
  BY DEF Init, CampaignsInit, NoTier, FitsStock
<1>2. TypeOK /\ Inv /\ [Next]_vars => Inv'
  <2> SUFFICES ASSUME TypeOK, Inv, [Next]_vars, NEW t \in Tiers
               PROVE  FitsStock(tier'[t])
    OBVIOUS
  <2>1. tier[t] \in GiftTier /\ FitsStock(tier[t])
    BY DEF TypeOK, CampaignsTypeOK
  <2>2. CASE tier'[t] = tier[t]
    BY <2>1, <2>2
  <2>3. ASSUME NEW k \in Claims,
               \/ CreateClaim(k) \/ ApproveClaim(k) \/ RejectClaim(k)
               \/ CancelClaim(k) \/ PortalCancelClaim(k) \/ FulfillClaim(k)
        PROVE  FitsStock(tier'[t])
    <3>1. \/ UNCHANGED tier
          \/ /\ CanReserve(tier[TierOf[k]])
             /\ tier' = [tier EXCEPT ![TierOf[k]] = Reserved(@)]
          \/ /\ CanRelease(tier[TierOf[k]])
             /\ \/ tier' = [tier EXCEPT ![TierOf[k]] = Released(@)]
                \/ tier' = [tier EXCEPT ![TierOf[k]] = FulfilledStock(@)]
      BY <2>3 DEF CreateClaim, ApproveClaim, RejectClaim, CancelClaim,
         PortalCancelClaim, FulfillClaim, ClosePending, CloseApproved, MoveStock
    <3>2. CASE TierOf[k] = t
      BY <2>1, <3>1, <3>2, StrictHelpers DEF TypeOK, CampaignsTypeOK
    <3>3. CASE TierOf[k] # t
      BY <2>1, <3>1, <3>3 DEF TypeOK, CampaignsTypeOK
    <3>4. QED
      BY <3>2, <3>3
  <2>4. ASSUME NEW u \in Tiers, NEW data \in TierData, CreateTier(u, data)
        PROVE  FitsStock(tier'[t])
    <3>1. data.stock \in Nat \cup {NoStock}
      BY CampaignsAssumption DEF TierData
    <3>2. CASE u = t
      <4>1. /\ tier'[t].reserved = 0 /\ tier'[t].fulfilled = 0
            /\ tier'[t].stock = data.stock
        BY <2>4, <3>2 DEF CreateTier, TypeOK, CampaignsTypeOK
      <4>2. QED
        BY <3>1, <4>1 DEF FitsStock, NoStock
    <3>3. CASE u # t
      BY <2>1, <2>4, <3>3 DEF CreateTier, TypeOK, CampaignsTypeOK
    <3>4. QED
      BY <3>2, <3>3
  <2>5. ASSUME NEW u \in Tiers,
               DeleteTier(u) \/ \E data \in TierData : UpdateTier(u, data)
        PROVE  FitsStock(tier'[t])
    <3>1. /\ tier'[t].mode = tier[t].mode /\ tier'[t].stock = tier[t].stock
          /\ tier'[t].reserved = tier[t].reserved
          /\ tier'[t].fulfilled = tier[t].fulfilled
      <4>1. CASE DeleteTier(u)
        BY <4>1 DEF DeleteTier, TypeOK, CampaignsTypeOK, GiftTier
      <4>2. ASSUME NEW data \in TierData, UpdateTier(u, data)
            PROVE  /\ tier'[t].mode = tier[t].mode /\ tier'[t].stock = tier[t].stock
                   /\ tier'[t].reserved = tier[t].reserved
                   /\ tier'[t].fulfilled = tier[t].fulfilled
        BY <4>2 DEF UpdateTier, OnlySets, Overwrite, TypeOK, CampaignsTypeOK, GiftTier
      <4>3. QED
        BY <2>5, <4>1, <4>2
    <3>2. QED
      BY <2>1, <3>1 DEF FitsStock
  <2>6. CampaignStep => UNCHANGED tier
    BY DEF CampaignStep, UpdateCampaign, DeleteCampaign, ActivateCampaign,
       PauseCampaign, CompleteCampaign, ArchiveCampaign, MoveCampaign
  <2>7. QED
    BY <2>2, <2>3, <2>4, <2>5, <2>6
       DEF Next, ClaimStep, AdminStep, CampaignsNext, TierStep,
           RecalculateProgress, ArchiveCustomer, vars
<1>3. Inv => StrictNotOversold
  BY DEF FitsStock, StrictNotOversold
<1>4. QED
  BY <1>1, <1>2, <1>3, TypeCorrect, PTL DEF Spec

\* Under the same condition no strict tier has more approved and fulfilled
\* claims than stock.
THEOREM ClaimsStayWithinStock ==
    ASSUME "mode" \notin EditableFields, "stock" \notin EditableFields
    PROVE  Spec => []ClaimsWithinStock
<1>1. BooksBalance /\ StrictNotOversold => ClaimsWithinStock
  BY DEF BooksBalance, StrictNotOversold, ClaimsWithinStock
<1>2. QED
  BY <1>1, BooksBalanced, StrictNeverOversold, PTL
----------------------------------------------------------------------------
(* Action properties.                                                      *)

\* Only an approval makes a claim approved, and it takes a unit the tier has.
\* No condition on what administrators edit: the guard is evaluated on the
\* tier as it is then.
LEMMA ApprovalFits ==
    ASSUME TypeOK, NEW k \in Claims, ApproveClaim(k), tier[TierOf[k]].mode = "strict"
    PROVE  /\ tier'[TierOf[k]].stock # NoStock
           /\ Available(tier'[TierOf[k]]) >= 0
<1> DEFINE row == tier[TierOf[k]]
<1>1. TierOf[k] \in Tiers /\ row \in GiftTier
  BY RewardClaimsAssumption DEF TypeOK, CampaignsTypeOK
<1>2. /\ row.reserved \in Nat /\ row.fulfilled \in Nat /\ row.stock \in Nat \cup {NoStock}
      /\ row.stock # NoStock /\ row.stock - row.reserved - row.fulfilled > 0
  BY <1>1 DEF GiftTier, ApproveClaim, MoveStock, CanReserve, Available
<1>3. tier'[TierOf[k]] = Reserved(row)
  BY <1>1 DEF ApproveClaim, MoveStock, TypeOK, CampaignsTypeOK
<1>4. /\ Reserved(row).stock = row.stock
      /\ Reserved(row).reserved = row.reserved + 1
      /\ Reserved(row).fulfilled = row.fulfilled
  BY <1>1 DEF Reserved, GiftTier
<1>5. row.stock \in Nat
  BY <1>2
<1>6. row.stock - (row.reserved + 1) - row.fulfilled >= 0
  BY <1>2, <1>5
<1>7. QED
  BY <1>2, <1>3, <1>4, <1>6 DEF Available

\* Who makes a claim approved.
LEMMA OnlyApprovalsApprove ==
    ASSUME TypeOK, [Next]_vars, NEW k \in Claims,
           status[k] # "approved", status'[k] = "approved"
    PROVE  ApproveClaim(k)
<1>1. ASSUME NEW j \in Claims, NEW to \in {"pending", "rejected", "cancelled", "fulfilled"},
             ClaimMoves(j, to)
      PROVE  FALSE
  BY <1>1 DEF ClaimMoves, TypeOK
<1>2. ASSUME NEW j \in Claims, ApproveClaim(j)
      PROVE  j = k
  BY <1>2 DEF ApproveClaim, ClaimMoves, TypeOK
<1>3. status' # status
  OBVIOUS
<1>4. ClaimStep
  BY <1>3 DEF Next, AdminStep, RecalculateProgress, ArchiveCustomer, vars
<1>5. PICK j \in Claims : \/ CreateClaim(j) \/ ApproveClaim(j) \/ RejectClaim(j)
                          \/ CancelClaim(j) \/ PortalCancelClaim(j) \/ FulfillClaim(j)
  BY <1>4 DEF ClaimStep
<1>6. QED
  BY <1>1, <1>2, <1>5 DEF CreateClaim, RejectClaim, CancelClaim, PortalCancelClaim,
     FulfillClaim, ClosePending, CloseApproved

\* No approval of a strict tier takes a unit the tier does not have at that
\* moment, whatever administrators did to its stock and mode before.
THEOREM ApprovalsFit == Spec => ApprovalsFitStock
<1> DEFINE Fits == \A k \in Claims :
                     /\ status[k] # "approved" /\ status'[k] = "approved"
                     /\ tier[TierOf[k]].mode = "strict"
                     => /\ tier'[TierOf[k]].stock # NoStock
                        /\ Available(tier'[TierOf[k]]) >= 0
<1>1. TypeOK /\ [Next]_vars => [Fits]_vars
  BY OnlyApprovalsApprove, ApprovalFits
<1>2. Spec => [][Fits]_vars
  BY <1>1, TypeCorrect, PTL DEF Spec
<1>3. QED
  BY <1>2 DEF ApprovalsFitStock

\* A tier that can no longer be claimed, nor be made claimable by an edit,
\* stays so: deletions are final, and so is the end of a campaign.
LEMMA WithdrawnStays ==
    ASSUME TypeOK, [Next]_vars, NEW t \in Tiers, Withdrawn(t)
    PROVE  Withdrawn(t)'
<1> USE DEF Withdrawn, Usable, Editable
<1>1. CASE CampaignStep
  BY <1>1 DEF CampaignStep, UpdateCampaign, DeleteCampaign, ActivateCampaign,
     PauseCampaign, CompleteCampaign, ArchiveCampaign, MoveCampaign,
     TypeOK, CampaignsTypeOK, Campaign
<1>2. CASE TierStep
  <2>1. PICK u \in Tiers : \/ \E data \in TierData : CreateTier(u, data)
                           \/ \E data \in TierData : UpdateTier(u, data)
                           \/ DeleteTier(u)
    BY <1>2 DEF TierStep
  <2>2. Editable /\ UNCHANGED campaign
    BY <2>1 DEF CreateTier, UpdateTier, DeleteTier
  <2>3. tier[t].row = "deleted"
    BY <2>2
  <2>4. tier[u].row \in {"absent", "live"}
    BY <2>1 DEF CreateTier, UpdateTier, DeleteTier
  <2>5. tier'[t] = tier[t]
    <3>1. t # u
      BY <2>3, <2>4
    <3>2. QED
      BY <2>1, <3>1 DEF CreateTier, UpdateTier, DeleteTier, Overwrite,
         TypeOK, CampaignsTypeOK
  <2>6. QED
    BY <2>3, <2>5
<1>3. CASE ClaimStep
  <2>1. PICK k \in Claims : \/ CreateClaim(k) \/ ApproveClaim(k) \/ RejectClaim(k)
                            \/ CancelClaim(k) \/ PortalCancelClaim(k) \/ FulfillClaim(k)
    BY <1>3 DEF ClaimStep
  <2>2. \/ UNCHANGED tier
        \/ /\ FindTier(k)
           /\ \A u \in Tiers \ {TierOf[k]} : tier'[u] = tier[u]
    BY <2>1, RewardClaimsAssumption
       DEF CreateClaim, ApproveClaim, RejectClaim, CancelClaim, PortalCancelClaim,
           FulfillClaim, ClosePending, CloseApproved, MoveStock, TypeOK, CampaignsTypeOK
  <2>3. tier'[t] = tier[t]
    BY <2>2 DEF FindTier
  <2>4. UNCHANGED campaign
    BY <2>1 DEF CreateClaim, ApproveClaim, RejectClaim, CancelClaim, PortalCancelClaim,
       FulfillClaim, ClosePending, CloseApproved
  <2>5. QED
    BY <2>3, <2>4
<1>4. CASE UNCHANGED <<campaign, tier>>
  BY <1>4
<1>5. QED
  BY <1>1, <1>2, <1>3, <1>4
     DEF Next, AdminStep, CampaignsNext, RecalculateProgress, ArchiveCustomer, vars

\* No request decides an approved claim of a withdrawn tier.
LEMMA FrozenClaim ==
    ASSUME TypeOK, [Next]_vars, NEW k \in Claims,
           status[k] = "approved", Withdrawn(TierOf[k])
    PROVE  status'[k] = "approved"
<1>1. ~FindTier(k)
  BY DEF Withdrawn, FindTier
<1>2. CASE ClaimStep
  <2>1. PICK j \in Claims : \/ CreateClaim(j) \/ ApproveClaim(j) \/ RejectClaim(j)
                            \/ CancelClaim(j) \/ PortalCancelClaim(j) \/ FulfillClaim(j)
    BY <1>2 DEF ClaimStep
  <2>2. \E to \in ClaimStatuses : ClaimMoves(j, to)
    BY <2>1 DEF CreateClaim, ApproveClaim, RejectClaim, CancelClaim, PortalCancelClaim,
       FulfillClaim, ClosePending, CloseApproved, ClaimStatuses
  <2>3. j # k
    BY <1>1, <2>1 DEF CreateClaim, ApproveClaim, RejectClaim, CancelClaim,
       PortalCancelClaim, FulfillClaim, ClosePending, CloseApproved, MoveStock
  <2>4. QED
    BY <2>2, <2>3 DEF ClaimMoves, TypeOK
<1>3. CASE UNCHANGED status
  BY <1>3
<1>4. QED
  BY <1>2, <1>3 DEF Next, AdminStep, RecalculateProgress, ArchiveCustomer, vars

\* An approved claim of a withdrawn tier stays approved and its tier stays
\* withdrawn, in every behaviour: nobody can decide such a claim any more.
THEOREM WithdrawnFreezes == Spec => WithdrawnTierFreezesClaims
<1> DEFINE Frozen == \A k \in Claims :
                       status[k] = "approved" /\ Withdrawn(TierOf[k])
                       => status'[k] = "approved" /\ Withdrawn(TierOf[k])'
<1>1. TypeOK /\ [Next]_vars => [Frozen]_vars
  BY FrozenClaim, WithdrawnStays, RewardClaimsAssumption
<1>2. Spec => [][Frozen]_vars
  BY <1>1, TypeCorrect, PTL DEF Spec
<1>3. QED
  BY <1>2 DEF WithdrawnTierFreezesClaims
=============================================================================
