----------------------------- MODULE Campaigns -----------------------------
(***************************************************************************)
(* One campaign and its gift tiers: CampaignService and GiftTierService of *)
(* modules/campaigns/service.py.  Every request is one database            *)
(* transaction that reads and writes a handful of rows; here each request  *)
(* is one atomic step.  A request the service refuses (ConflictError,      *)
(* NotFoundError, ValidationAppError) is rolled back and is no step.       *)
(***************************************************************************)
EXTENDS Integers, FiniteSets

CONSTANTS Tiers,           \* identities a gift tier row can have
          Amounts,         \* values of required_amount_minor
          Stocks,          \* values of stock_quantity, NoStock for NULL
          Modes,           \* values of stock_tracking_mode
          EditableFields   \* columns the administrators' PATCH requests set

NoStock == -1

StockModes == {"none", "soft", "strict"}
TierColumns == {"required", "mode", "stock", "active"}

ASSUME CampaignsAssumption ==
    /\ Amounts \subseteq Nat \ {0}
    /\ Stocks \subseteq Nat \cup {NoStock}
    /\ Modes \subseteq StockModes
    /\ EditableFields \subseteq TierColumns

VARIABLES campaign,   \* the campaigns row
          tier        \* the gift_tiers rows, by identity

campaignVars == <<campaign, tier>>

CampaignStatuses == {"draft", "active", "paused", "completed", "archived"}

Campaign == [status : CampaignStatuses, allow_claims : BOOLEAN, deleted : BOOLEAN]

\* What a create or update request says of a tier.
TierData == [required : Amounts, mode : Modes, stock : Stocks, active : BOOLEAN]

\* row: whether the row is not yet inserted, live, or soft-deleted.
GiftTier == [row : {"absent", "live", "deleted"}, required : Nat,
             mode : StockModes, stock : Nat \cup {NoStock}, active : BOOLEAN,
             reserved : Nat, fulfilled : Nat]

CampaignsTypeOK ==
    /\ campaign \in Campaign
    /\ tier \in [Tiers -> GiftTier]

NoTier == [row |-> "absent", required |-> 0, mode |-> "none", stock |-> NoStock,
           active |-> FALSE, reserved |-> 0, fulfilled |-> 0]

\* create_campaign: a draft without tiers; allow_claims from the request or
\* from the company's reward_claim_enabled_default.
CampaignsInit ==
    /\ campaign \in [status : {"draft"}, allow_claims : BOOLEAN, deleted : {FALSE}]
    /\ tier = [t \in Tiers |-> NoTier]

----------------------------------------------------------------------------
(* The campaign's lifecycle.                                               *)

LiveTiers == {t \in Tiers : tier[t].row = "live"}

\* The filter of every query that takes a tier for a claim or an activation.
Usable(t) == tier[t].row = "live" /\ tier[t].active

\* get_campaign followed by _ensure_campaign_editable.
Editable ==
    /\ ~campaign.deleted
    /\ campaign.status \notin {"archived", "completed"}

MoveCampaign(from, to) ==
    /\ ~campaign.deleted
    /\ campaign.status \in from
    /\ campaign' = [campaign EXCEPT !.status = to]
    /\ UNCHANGED tier

UpdateCampaign(allow) ==
    /\ Editable
    /\ campaign' = [campaign EXCEPT !.allow_claims = allow]
    /\ UNCHANGED tier

DeleteCampaign ==
    /\ ~campaign.deleted
    /\ campaign' = [campaign EXCEPT !.deleted = TRUE]
    /\ UNCHANGED tier

DistinctAmounts(S) ==
    \A t, u \in S : t # u => tier[t].required # tier[u].required

ActiveTiers == {t \in Tiers : Usable(t)}

\* _validate_activation; dates and currencies are validated when they are
\* written and never change apart, so those two checks always pass here.
ValidActivation == ActiveTiers # {} /\ DistinctAmounts(ActiveTiers)

ActivateCampaign ==
    /\ ValidActivation
    /\ MoveCampaign({"draft", "paused"}, "active")

PauseCampaign == MoveCampaign({"active"}, "paused")

CompleteCampaign == MoveCampaign({"active", "paused"}, "completed")

ArchiveCampaign == MoveCampaign({"draft", "completed"}, "archived")

----------------------------------------------------------------------------
(* The gift tiers.                                                         *)

\* _ensure_amount_available, exclude_tier_id being t.
AmountAvailable(amount, t) ==
    \A u \in LiveTiers \ {t} : tier[u].required # amount

CreateTier(t, data) ==
    /\ Editable
    /\ tier[t].row = "absent"
    /\ AmountAvailable(data.required, t)
    /\ tier' = [tier EXCEPT ![t] =
                  [row |-> "live", required |-> data.required, mode |-> data.mode,
                   stock |-> data.stock, active |-> data.active,
                   reserved |-> 0, fulfilled |-> 0]]
    /\ UNCHANGED campaign

\* The columns a request sets are overwritten, the others keep their value.
Overwrite(t, data) ==
    [tier EXCEPT ![t] = [@ EXCEPT !.required = data.required, !.mode = data.mode,
                                  !.stock = data.stock, !.active = data.active]]

OnlySets(fields, t, data) ==
    /\ "required" \in fields \/ data.required = tier[t].required
    /\ "mode" \in fields \/ data.mode = tier[t].mode
    /\ "stock" \in fields \/ data.stock = tier[t].stock
    /\ "active" \in fields \/ data.active = tier[t].active

\* A mutant: the new amount is not compared with the other tiers'.
UpdateTierUnchecked(t, data) ==
    /\ Editable
    /\ tier[t].row = "live"
    /\ OnlySets(EditableFields, t, data)
    /\ tier' = Overwrite(t, data)
    /\ UNCHANGED campaign

UpdateTier(t, data) ==
    /\ Editable
    /\ tier[t].row = "live"
    /\ OnlySets(EditableFields, t, data)
    /\ data.required # tier[t].required => AmountAvailable(data.required, t)
    /\ tier' = Overwrite(t, data)
    /\ UNCHANGED campaign

\* Open claims are not looked at.
DeleteTier(t) ==
    /\ Editable
    /\ tier[t].row = "live"
    /\ tier' = [tier EXCEPT ![t].row = "deleted", ![t].active = FALSE]
    /\ UNCHANGED campaign

----------------------------------------------------------------------------

CampaignStep ==
    \/ \E allow \in BOOLEAN : UpdateCampaign(allow)
    \/ DeleteCampaign
    \/ ActivateCampaign
    \/ PauseCampaign
    \/ CompleteCampaign
    \/ ArchiveCampaign

TierStep ==
    \E t \in Tiers :
      \/ \E data \in TierData : CreateTier(t, data)
      \/ \E data \in TierData : UpdateTier(t, data)
      \/ DeleteTier(t)

CampaignsNext == CampaignStep \/ TierStep

CampaignsSpec == CampaignsInit /\ [][CampaignsNext]_campaignVars

----------------------------------------------------------------------------
(* Properties.                                                             *)

\* No two live tiers of the campaign ask for the same amount, whatever
\* creations, edits and deletions came before: the ladder that progress is
\* read against (progress/service.py:118-169) is strictly increasing.
LiveAmountsDistinct == DistinctAmounts(LiveTiers)
=============================================================================
