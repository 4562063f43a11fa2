---------------------------- MODULE RewardClaims ----------------------------
(***************************************************************************)
(* Reward claims of one campaign: RewardClaimService                       *)
(* (modules/claims/service.py) on top of the campaign and its tiers, with  *)
(* the progress totals and the customers it reads.  Each request is one    *)
(* atomic step: what the service promises when requests do not overlap.    *)
(* ClaimTransactions opens the requests up into their database steps.      *)
(***************************************************************************)
EXTENDS Campaigns

CONSTANTS Customers,
          Claims,        \* identities a claim row can have
          CustomerOf,    \* the customer_id and gift_tier_id a claim is created
          TierOf,        \* with; no code changes them afterwards
          Totals         \* values of total_amount_minor

NoProgress == -1         \* no customer_campaign_progress row yet

ASSUME RewardClaimsAssumption ==
    /\ IsFiniteSet(Claims)
    /\ CustomerOf \in [Claims -> Customers]
    /\ TierOf \in [Claims -> Tiers]
    /\ Totals \subseteq Nat

VARIABLES progress,   \* total_amount_minor of each customer in the campaign
          archived,   \* soft-deleted customers
          status      \* the reward_claims rows: absent until created

vars == <<campaign, tier, progress, archived, status>>

ClaimStatuses == {"absent", "pending", "approved", "rejected", "fulfilled", "cancelled"}

ActiveStatuses == {"pending", "approved"}

TypeOK ==
    /\ CampaignsTypeOK
    /\ progress \in [Customers -> Nat \cup {NoProgress}]
    /\ archived \subseteq Customers
    /\ status \in [Claims -> ClaimStatuses]

Init ==
    /\ CampaignsInit
    /\ progress = [u \in Customers |-> NoProgress]
    /\ archived = {}
    /\ status = [k \in Claims |-> "absent"]

----------------------------------------------------------------------------
(* Tier stock: GiftTier.available_quantity and the three stock helpers.    *)
(* A helper raises ConflictError where its Can... guard is false.          *)

Available(row) == row.stock - row.reserved - row.fulfilled

\* A mutant: available_quantity <= 0 written as < 0.
CanReserveOneMore(row) ==
    row.mode = "strict" => row.stock # NoStock /\ Available(row) >= 0

CanReserve(row) ==
    row.mode = "strict" => row.stock # NoStock /\ Available(row) > 0

CanRelease(row) == row.mode # "none" => row.reserved > 0

Reserved(row) ==
    IF row.mode = "none" THEN row ELSE [row EXCEPT !.reserved = @ + 1]

\* A mutant: a release that only checks.
KeepReserved(row) == row

Released(row) ==
    IF row.mode = "none" THEN row ELSE [row EXCEPT !.reserved = @ - 1]

FulfilledStock(row) ==
    IF row.mode = "none" THEN row
    ELSE [row EXCEPT !.reserved = @ - 1, !.fulfilled = @ + 1]

----------------------------------------------------------------------------
(* The requests.                                                           *)

\* A mutant: approved claims no longer count as active.
HasPendingClaim(u) ==
    \E k \in Claims : CustomerOf[k] = u /\ status[k] = "pending"

HasActiveClaim(u) ==
    \E k \in Claims : CustomerOf[k] = u /\ status[k] \in ActiveStatuses

\* _ensure_claimable, without its last check.
Reached(u, t) ==
    /\ campaign.allow_claims
    /\ campaign.status \in {"active", "completed"}
    /\ progress[u] # NoProgress
    /\ progress[u] >= tier[t].required

ClaimMoves(k, to) == status' = [status EXCEPT ![k] = to]

\* A mutant: the tier is taken as _get_claim loaded it, withdrawn or not.
FindAnyTier(k) == tier[TierOf[k]].row # "absent"

\* _get_tier: the tier a claim asks for, if it can still be claimed.
FindTier(k) == Usable(TierOf[k])

\* create_claim, from the administrators' API or from the portal.
CreateClaim(k) ==
    /\ status[k] = "absent"
    /\ CustomerOf[k] \notin archived
    /\ ~campaign.deleted
    /\ FindTier(k)
    /\ Reached(CustomerOf[k], TierOf[k])
    /\ ~HasActiveClaim(CustomerOf[k])
    /\ ClaimMoves(k, "pending")
    /\ UNCHANGED <<campaign, tier, progress, archived>>

\* The tier FOR UPDATE, then one of the stock helpers.
MoveStock(k, Can(_), Change(_)) ==
    /\ FindTier(k)
    /\ Can(tier[TierOf[k]])
    /\ tier' = [tier EXCEPT ![TierOf[k]] = Change(@)]

ApproveClaim(k) ==
    /\ status[k] = "pending"
    /\ MoveStock(k, CanReserve, Reserved)
    /\ ClaimMoves(k, "approved")
    /\ UNCHANGED <<campaign, progress, archived>>

\* A pending claim holds no stock, so its tier is not even looked at.
ClosePending(k, to) ==
    /\ status[k] = "pending"
    /\ ClaimMoves(k, to)
    /\ UNCHANGED <<campaign, tier, progress, archived>>

CloseApproved(k, to) ==
    /\ status[k] = "approved"
    /\ MoveStock(k, CanRelease, Released)
    /\ ClaimMoves(k, to)
    /\ UNCHANGED <<campaign, progress, archived>>

RejectClaim(k) == ClosePending(k, "rejected") \/ CloseApproved(k, "rejected")

\* A mutant: the status in the other spelling.
CancelClaimMisspelt(k) == ClosePending(k, "canceled") \/ CloseApproved(k, "canceled")

CancelClaim(k) == ClosePending(k, "cancelled") \/ CloseApproved(k, "cancelled")

\* cancel_claim with customer_id set; get_portal_context refuses an archived
\* customer.
PortalCancelClaim(k) ==
    /\ CustomerOf[k] \notin archived
    /\ ClosePending(k, "cancelled")

FulfillClaim(k) ==
    /\ status[k] = "approved"
    /\ MoveStock(k, CanRelease, FulfilledStock)
    /\ ClaimMoves(k, "fulfilled")
    /\ UNCHANGED <<campaign, progress, archived>>

ClaimStep ==
    \E k \in Claims :
      \/ CreateClaim(k)
      \/ ApproveClaim(k)
      \/ RejectClaim(k)
      \/ CancelClaim(k)
      \/ PortalCancelClaim(k)
      \/ FulfillClaim(k)

----------------------------------------------------------------------------
(* What the claims depend on.  A recalculation stores whatever total the   *)
(* sales add up to: up or down, whatever the campaign's status.            *)

RecalculateProgress(u, total) ==
    /\ progress' = [progress EXCEPT ![u] = total]
    /\ UNCHANGED <<campaign, tier, archived, status>>

\* delete_customer: claims of the customer stay as they are.
ArchiveCustomer(u) ==
    /\ u \notin archived
    /\ archived' = archived \cup {u}
    /\ UNCHANGED <<campaign, tier, progress, status>>

AdminStep ==
    /\ CampaignsNext
    /\ UNCHANGED <<progress, archived, status>>

Next ==
    \/ ClaimStep
    \/ AdminStep
    \/ \E u \in Customers, total \in Totals : RecalculateProgress(u, total)
    \/ \E u \in Customers : ArchiveCustomer(u)

Spec == Init /\ [][Next]_vars

----------------------------------------------------------------------------
(* Properties.                                                             *)

ClaimsIn(t, s) == {k \in Claims : TierOf[k] = t /\ status[k] = s}

\* A customer has at most one pending or approved claim in the campaign
\* ("Customer already has an active claim for this campaign.",
\* claims/service.py:157), across creations, decisions and cancellations.
OneActiveClaim ==
    \A j, k \in Claims :
      /\ CustomerOf[j] = CustomerOf[k]
      /\ status[j] \in ActiveStatuses
      /\ status[k] \in ActiveStatuses
      => j = k

\* The tier's counters are the claims: as many units are reserved as claims
\* are approved and as many are given out as claims are fulfilled, except on
\* a tier whose stock is not tracked.
BooksBalance ==
    \A t \in Tiers :
      tier[t].mode # "none" =>
        /\ tier[t].reserved = Cardinality(ClaimsIn(t, "approved"))
        /\ tier[t].fulfilled = Cardinality(ClaimsIn(t, "fulfilled"))

\* Strict stock is never promised twice: what is reserved and given out fits
\* in the stock ("Gift tier does not have available stock.",
\* claims/service.py:166).
StrictNotOversold ==
    \A t \in Tiers :
      tier[t].mode = "strict" =>
        tier[t].reserved + tier[t].fulfilled
          <= IF tier[t].stock = NoStock THEN 0 ELSE tier[t].stock

\* In terms of the claims themselves, not of the counters kept for them: a
\* strict tier never has more approved and fulfilled claims than stock.
ClaimsWithinStock ==
    \A t \in Tiers :
      tier[t].mode = "strict" =>
        Cardinality(ClaimsIn(t, "approved")) + Cardinality(ClaimsIn(t, "fulfilled"))
          <= IF tier[t].stock = NoStock THEN 0 ELSE tier[t].stock

\* An approved claim always finds its reservation: the conflict "Gift tier
\* stock reservation is inconsistent." (claims/service.py:173, 180) is never
\* raised.
ReservationsConsistent ==
    \A k \in Claims : status[k] = "approved" => CanRelease(tier[TierOf[k]])

\* An approval of a strict tier fits in the stock the tier has at that very
\* moment, even if an administrator has lowered the stock below what is
\* already promised.
ApprovalsFitStock ==
    [][\A k \in Claims :
         /\ status[k] # "approved" /\ status'[k] = "approved"
         /\ tier[TierOf[k]].mode = "strict"
         => /\ tier'[TierOf[k]].stock # NoStock
            /\ Available(tier'[TierOf[k]]) >= 0]_vars

\* What happens to an approved claim whose tier has been withdrawn: every
\* decision looks for an active tier (claims/service.py:74-80), so once the
\* tier is deleted, or deactivated in a campaign that has ended, nobody can
\* fulfil, reject or cancel the claim ever again, and by OneActiveClaim the
\* customer cannot claim another tier either.
Withdrawn(t) == ~Usable(t) /\ (tier[t].row = "deleted" \/ ~Editable)

WithdrawnTierFreezesClaims ==
    [][\A k \in Claims :
         status[k] = "approved" /\ Withdrawn(TierOf[k])
         => status'[k] = "approved" /\ Withdrawn(TierOf[k])']_vars
=============================================================================
