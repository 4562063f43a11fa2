--------------------------- MODULE CampaignLadder ---------------------------
(***************************************************************************)
(* The campaign of Campaigns with the positions that creation and reorder  *)
(* requests give to its tiers: sort_order of the gift_tiers rows, set by   *)
(* create_tier and reorder_tiers (GiftTierService, modules/campaigns/      *)
(* service.py).  Tiers are shown by required amount and only then by it.   *)
(***************************************************************************)
EXTENDS Campaigns, Sequences, SequencesExt

CONSTANT MaxIds       \* length of the longest reorder request (bound)

ASSUME LadderAssumption == IsFiniteSet(Tiers) /\ MaxIds \in Nat

VARIABLE order        \* sort_order of the tiers

ladderVars == <<campaign, tier, order>>

LadderTypeOK == CampaignsTypeOK /\ order \in [Tiers -> Nat]

LadderInit == CampaignsInit /\ order = [t \in Tiers |-> 0]

\* A mutant: the greatest position instead of the next one.
MaxSortOrder ==
    IF LiveTiers = {} THEN -1 ELSE Max({order[t] : t \in LiveTiers})

\* A mutant: the number of tiers, whatever their positions.
TierCount == Cardinality(LiveTiers)

\* _next_sort_order.
NextSortOrder ==
    IF LiveTiers = {} THEN 0 ELSE Max({order[t] : t \in LiveTiers}) + 1

PlaceTier(t, data) ==
    /\ CreateTier(t, data)
    /\ order' = [order EXCEPT ![t] = NextSortOrder]

\* enumerate(tier_ids): the last of equal identities wins.
Position(ids, t) == Max({i \in DOMAIN ids : ids[i] = t}) - 1

\* The identities are compared with the live tiers as sets.
ReorderTiers(ids) ==
    /\ Editable
    /\ ids # <<>>
    /\ ToSet(ids) = LiveTiers
    /\ order' = [t \in Tiers |-> IF t \in LiveTiers THEN Position(ids, t) ELSE order[t]]
    /\ UNCHANGED campaignVars

ChangeTier(t) == DeleteTier(t) \/ \E data \in TierData : UpdateTier(t, data)

LadderNext ==
    \/ \E t \in Tiers, data \in TierData : PlaceTier(t, data)
    \/ \E ids \in SeqOf(Tiers, MaxIds) : ReorderTiers(ids)
    \/ \E t \in Tiers : ChangeTier(t) /\ UNCHANGED order
    \/ CampaignStep /\ UNCHANGED order

LadderSpec == LadderInit /\ [][LadderNext]_ladderVars

----------------------------------------------------------------------------
(* Properties.                                                             *)

\* The live tiers have an order: no two share a position, whatever sequence
\* of creations, deletions and reorderings comes, requests that repeat an
\* identity among them (campaigns/service.py:554-561).
SortOrdersDistinct ==
    \A t, u \in LiveTiers : t # u => order[t] # order[u]
=============================================================================
