--------------------------- MODULE CampaignsProofs ---------------------------
(***************************************************************************)
(* What holds of a campaign, its gift tiers and their order for any number *)
(* of tiers.                                                               *)
(***************************************************************************)
EXTENDS CampaignLadder, FiniteSetTheorems, TLAPS

\* Every column a PATCH may set keeps its domain.
LEMMA OverwriteType ==
    ASSUME CampaignsTypeOK, NEW t \in Tiers, NEW data \in TierData
    PROVE  Overwrite(t, data) \in [Tiers -> GiftTier]
<1>1. /\ data.required \in Nat
      /\ data.mode \in StockModes
      /\ data.stock \in Nat \cup {NoStock}
      /\ data.active \in BOOLEAN
  BY CampaignsAssumption DEF TierData
<1>2. [tier[t] EXCEPT !.required = data.required, !.mode = data.mode,
                      !.stock = data.stock, !.active = data.active] \in GiftTier
  BY <1>1 DEF CampaignsTypeOK, GiftTier
<1>3. QED
  BY <1>2 DEF CampaignsTypeOK, Overwrite

\* The campaign's and the tiers' requests keep their rows in their domains.
LEMMA CampaignsType ==
    CampaignsTypeOK /\ CampaignsNext => CampaignsTypeOK'
<1> SUFFICES ASSUME CampaignsTypeOK, CampaignsNext
             PROVE  CampaignsTypeOK'
  OBVIOUS
<1>1. CASE CampaignStep
  BY <1>1 DEF CampaignStep, UpdateCampaign, DeleteCampaign, ActivateCampaign,
     PauseCampaign, CompleteCampaign, ArchiveCampaign, MoveCampaign,
     CampaignsTypeOK, Campaign, CampaignStatuses
<1>2. CASE TierStep
  <2>1. PICK t \in Tiers : \/ \E data \in TierData : CreateTier(t, data)
                           \/ \E data \in TierData : UpdateTier(t, data)
                           \/ DeleteTier(t)
    BY <1>2 DEF TierStep
  <2>2. ASSUME NEW data \in TierData, CreateTier(t, data)
        PROVE  CampaignsTypeOK'
    BY <2>2, CampaignsAssumption
       DEF CreateTier, CampaignsTypeOK, TierData, GiftTier, NoStock
  <2>3. ASSUME NEW data \in TierData, UpdateTier(t, data)
        PROVE  CampaignsTypeOK'
    BY <2>3, OverwriteType DEF UpdateTier, CampaignsTypeOK
  <2>4. CASE DeleteTier(t)
    BY <2>4, ZenonT(30) DEF DeleteTier, CampaignsTypeOK, GiftTier
  <2>5. QED
    BY <2>1, <2>2, <2>3, <2>4
<1>3. QED
  BY <1>1, <1>2 DEF CampaignsNext


\* The campaign and its tiers stay in their tables' domains.
THEOREM CampaignsTypeCorrect == CampaignsSpec => []CampaignsTypeOK
<1>1. CampaignsInit => CampaignsTypeOK
  <2>1. NoTier \in GiftTier
    BY DEF NoTier, GiftTier, StockModes, NoStock
  <2>2. CampaignsInit => campaign \in Campaign
    BY DEF CampaignsInit, Campaign, CampaignStatuses
  <2>3. QED
    BY <2>1, <2>2 DEF CampaignsInit, CampaignsTypeOK
<1>2. CampaignsTypeOK /\ UNCHANGED campaignVars => CampaignsTypeOK'
  BY DEF CampaignsTypeOK, campaignVars
<1>3. QED
  BY <1>1, <1>2, CampaignsType, PTL DEF CampaignsSpec

\* The ladder of amounts stays strict: whatever tiers are created, edited and
\* deleted, no two live tiers ask for the same amount.
THEOREM AmountsStayDistinct == CampaignsSpec => []LiveAmountsDistinct
<1>1. CampaignsInit => LiveAmountsDistinct
  BY DEF CampaignsInit, LiveAmountsDistinct, DistinctAmounts, LiveTiers, NoTier
<1>2. CampaignsTypeOK /\ LiveAmountsDistinct /\ [CampaignsNext]_campaignVars
        => LiveAmountsDistinct'
  <2> SUFFICES ASSUME CampaignsTypeOK, LiveAmountsDistinct,
                      [CampaignsNext]_campaignVars
               PROVE  LiveAmountsDistinct'
    OBVIOUS
  <2> USE DEF LiveAmountsDistinct, DistinctAmounts, LiveTiers
  <2>1. ASSUME NEW t \in Tiers, NEW row \in GiftTier,
               tier' = [tier EXCEPT ![t] = row],
               row.row = "live",
               \/ AmountAvailable(row.required, t)
               \/ tier[t].row = "live" /\ row.required = tier[t].required
        PROVE  LiveAmountsDistinct'
    BY <2>1 DEF AmountAvailable, CampaignsTypeOK
  <2>2. ASSUME NEW t \in Tiers, NEW data \in TierData, CreateTier(t, data)
        PROVE  LiveAmountsDistinct'
    <3> DEFINE row == [row |-> "live", required |-> data.required, mode |-> data.mode,
                       stock |-> data.stock, active |-> data.active,
                       reserved |-> 0, fulfilled |-> 0]
    <3>1. row \in GiftTier /\ row.row = "live" /\ row.required = data.required
      BY CampaignsAssumption DEF TierData, GiftTier
    <3>2. QED
      BY <2>1, <2>2, <3>1 DEF CreateTier
  <2>3. ASSUME NEW t \in Tiers, NEW data \in TierData, UpdateTier(t, data)
        PROVE  LiveAmountsDistinct'
    <3>1. Overwrite(t, data) \in [Tiers -> GiftTier]
      BY OverwriteType
    <3>2. /\ Overwrite(t, data)[t].row = "live"
          /\ Overwrite(t, data)[t].required = data.required
          /\ \A u \in Tiers \ {t} : Overwrite(t, data)[u] = tier[u]
      BY <2>3 DEF UpdateTier, Overwrite, CampaignsTypeOK, GiftTier
    <3>3. QED
      BY <2>3, <3>1, <3>2 DEF UpdateTier, AmountAvailable, CampaignsTypeOK
  <2>4. ASSUME NEW t \in Tiers, DeleteTier(t)
        PROVE  LiveAmountsDistinct'
    BY <2>4 DEF DeleteTier, CampaignsTypeOK, GiftTier
  <2>5. CASE UNCHANGED tier
    BY <2>5
  <2>6. CampaignStep => UNCHANGED tier
    BY DEF CampaignStep, UpdateCampaign, DeleteCampaign, ActivateCampaign,
       PauseCampaign, CompleteCampaign, ArchiveCampaign, MoveCampaign
  <2>7. QED
    BY <2>2, <2>3, <2>4, <2>5, <2>6 DEF CampaignsNext, TierStep, campaignVars
<1>3. QED
  BY <1>1, <1>2, CampaignsTypeCorrect, PTL DEF CampaignsSpec

----------------------------------------------------------------------------
(* The greatest element of a set.                                          *)

\* A set of naturals with an upper bound has a greatest element: the least
\* upper bound.
LEMMA BoundedSetsHaveMax ==
    ASSUME NEW S \in SUBSET Nat, S # {}, NEW b \in Nat, \A x \in S : x <= b
    PROVE  Max(S) \in S /\ \A x \in S : x <= Max(S)
<1> DEFINE Bounds == {n \in Nat : \A x \in S : x <= n}
           Less == {p \in Nat \X Nat : p[1] < p[2]}
<1>1. PICK m \in Bounds : \A n \in Bounds : ~ (<<n, m>> \in Less)
  <2>1. Bounds \subseteq Nat /\ Bounds # {}
    OBVIOUS
  <2>2. IsWellFoundedOn(Less, Nat)
    BY NatLessThanWellFounded DEF OpToRel
  <2> HIDE DEF Bounds, Less
  <2>3. QED
    BY <2>1, <2>2, WFMin
<1>2. \A n \in Bounds : m <= n
  <2> TAKE n \in Bounds
  <2>1. n \in Nat /\ m \in Nat
    OBVIOUS
  <2>2. n < m => <<n, m>> \in Less
    BY <2>1
  <2>3. ~ (<<n, m>> \in Less)
    BY <1>1
  <2> HIDE DEF Bounds, Less
  <2>4. QED
    BY <2>1, <2>2, <2>3
<1>3. m \in S
  <2>1. SUFFICES ASSUME m \notin S PROVE FALSE
    OBVIOUS
  <2>2. PICK x \in S : TRUE
    OBVIOUS
  <2>3. \A y \in S : y < m
    BY <2>1
  <2>4. m - 1 \in Bounds
    BY <2>2, <2>3
  <2>5. QED
    BY <1>2, <2>4
<1>4. \E x \in S : \A y \in S : x >= y
  BY <1>3
<1>5. QED
  BY <1>4 DEF Max

\* A finite set of naturals has an upper bound: else take a smallest set
\* without one and a bound of it without one of its elements.
LEMMA FiniteSetsAreBounded ==
    ASSUME NEW S \in SUBSET Nat, IsFiniteSet(S)
    PROVE  \E b \in Nat : \A x \in S : x <= b
<1> DEFINE Bounded(T) == \E b \in Nat : \A x \in T : x <= b
           Bad == {T \in SUBSET S : ~Bounded(T)}
<1>1. SUFFICES ASSUME Bad # {} PROVE FALSE
  OBVIOUS
<1>2. PICK T \in Bad : \A U \in Bad : ~ (<<U, T>> \in StrictSubsetOrdering(S))
  <2>1. IsWellFoundedOn(StrictSubsetOrdering(S), SUBSET S)
    BY FS_StrictSubsetOrderingWellFounded, FS_FiniteSubsetsOfFinite
  <2>2. Bad \subseteq SUBSET S
    OBVIOUS
  <2> HIDE DEF Bad
  <2>3. QED
    BY <1>1, <2>1, <2>2, WFMin
<1>3. T # {}
  OBVIOUS
<1>4. PICK t \in T : TRUE
  BY <1>3
<1>5. Bounded(T \ {t})
  <2>1. T \ {t} \in SUBSET S /\ T \in SUBSET S /\ T \ {t} # T
    BY <1>4
  <2>2. <<T \ {t}, T>> \in StrictSubsetOrdering(S)
    BY <2>1 DEF StrictSubsetOrdering
  <2>3. T \ {t} \notin Bad
    BY <1>2, <2>2
  <2>4. QED
    BY <2>1, <2>3
<1>6. PICK b \in Nat : \A x \in T \ {t} : x <= b
  BY <1>5
<1>7. t \in Nat
  OBVIOUS
<1>8. PICK c \in Nat : t <= c /\ b <= c
  BY <1>7
<1>9. \A x \in T : x <= c
  BY <1>6, <1>7, <1>8
<1>10. QED
  BY <1>9

----------------------------------------------------------------------------
(* The order of the tiers.                                                 *)

\* Reorder requests apart, the ladder does what the campaign does.
LEMMA LadderSteps == LadderNext => CampaignsNext \/ UNCHANGED campaignVars
BY DEF LadderNext, PlaceTier, ReorderTiers, ChangeTier, CampaignsNext, TierStep

\* So what holds of the campaign holds of the ladder.
THEOREM LadderIsCampaign == LadderSpec => CampaignsSpec
<1>1. LadderInit => CampaignsInit
  BY DEF LadderInit
<1>2. [LadderNext]_ladderVars => [CampaignsNext]_campaignVars
  BY LadderSteps DEF ladderVars, campaignVars
<1>3. QED
  BY <1>1, <1>2, PTL DEF LadderSpec, CampaignsSpec

\* A new tier's position is above those of all live tiers.
LEMMA NextIsAbove ==
    ASSUME LadderTypeOK
    PROVE  /\ NextSortOrder \in Nat
           /\ \A t \in LiveTiers : order[t] < NextSortOrder
<1> DEFINE S == {order[t] : t \in LiveTiers}
<1>1. S \in SUBSET Nat
  BY DEF LadderTypeOK, LiveTiers
<1>2. IsFiniteSet(S)
  <2>1. IsFiniteSet(LiveTiers)
    BY LadderAssumption, FS_Subset DEF LiveTiers
  <2>2. [t \in LiveTiers |-> order[t]] \in Surjection(LiveTiers, S)
    BY DEF Surjection
  <2>3. QED
    BY <2>1, <2>2, FS_Surjection
<1>3. CASE LiveTiers = {}
  BY <1>3 DEF NextSortOrder
<1>4. CASE LiveTiers # {}
  <2>1. S # {}
    BY <1>4
  <2>2. Max(S) \in S /\ \A x \in S : x <= Max(S)
    BY <1>1, <1>2, <2>1, FiniteSetsAreBounded, BoundedSetsHaveMax
  <2>3. NextSortOrder = Max(S) + 1
    BY <1>4 DEF NextSortOrder
  <2>4. \A t \in LiveTiers : order[t] \in S
    OBVIOUS
  <2> DEFINE top == Max(S)
  <2> HIDE DEF S
  <2>5. top \in Nat /\ NextSortOrder = top + 1 /\ \A t \in LiveTiers : order[t] <= top
    BY <1>1, <2>2, <2>3, <2>4
  <2>6. \A t \in LiveTiers : order[t] \in Nat
    BY <1>1, <2>4
  <2> HIDE DEF top
  <2>7. QED
    BY <2>5, <2>6
<1>5. QED
  BY <1>3, <1>4

\* The position a reorder request gives a live tier is where it names it.
LEMMA PositionNames ==
    ASSUME NEW ids \in Seq(Tiers), NEW t \in ToSet(ids)
    PROVE  Position(ids, t) \in Nat /\ ids[Position(ids, t) + 1] = t
<1> DEFINE S == {i \in DOMAIN ids : ids[i] = t}
<1>1. S # {} /\ S \in SUBSET Nat /\ \A i \in S : 1 <= i /\ i <= Len(ids)
  BY DEF ToSet
<1>2. Len(ids) \in Nat
  OBVIOUS
<1> HIDE DEF S
<1>3. Max(S) \in S
  BY <1>1, <1>2, BoundedSetsHaveMax
<1>4. Max(S) \in Nat /\ Max(S) >= 1 /\ ids[Max(S)] = t
  BY <1>1, <1>3 DEF S
<1>5. Position(ids, t) = Max(S) - 1
  BY DEF Position, S
<1>6. QED
  BY <1>4, <1>5

\* A request has the form the code accepts.
LEMMA RequestIsSeq == ASSUME NEW ids \in SeqOf(Tiers, MaxIds) PROVE ids \in Seq(Tiers)
BY LadderAssumption DEF SeqOf

\* The rows and the positions stay in their tables' domains.
LEMMA LadderType == LadderTypeOK /\ [LadderNext]_ladderVars => LadderTypeOK'
<1> SUFFICES ASSUME LadderTypeOK, [LadderNext]_ladderVars PROVE LadderTypeOK'
  OBVIOUS
<1>1. CampaignsTypeOK'
  BY LadderSteps, CampaignsType
     DEF LadderTypeOK, ladderVars, campaignVars, CampaignsTypeOK
<1>2. order' \in [Tiers -> Nat]
  <2>1. ASSUME NEW t \in Tiers, NEW data \in TierData, PlaceTier(t, data)
        PROVE  order' \in [Tiers -> Nat]
    BY <2>1, NextIsAbove DEF PlaceTier, LadderTypeOK
  <2>2. ASSUME NEW ids \in SeqOf(Tiers, MaxIds), ReorderTiers(ids)
        PROVE  order' \in [Tiers -> Nat]
    <3>1. \A t \in LiveTiers : Position(ids, t) \in Nat
      BY <2>2, RequestIsSeq, PositionNames DEF ReorderTiers
    <3>2. QED
      BY <2>2, <3>1 DEF ReorderTiers, LadderTypeOK
  <2>3. CASE UNCHANGED order
    BY <2>3 DEF LadderTypeOK
  <2>4. QED
    BY <2>1, <2>2, <2>3 DEF LadderNext, ladderVars
<1>3. QED
  BY <1>1, <1>2 DEF LadderTypeOK

\* The campaign, its tiers and their positions stay in their domains.
THEOREM LadderTypeCorrect == LadderSpec => []LadderTypeOK
<1>1. LadderSpec => []CampaignsTypeOK
  BY LadderIsCampaign, CampaignsTypeCorrect, PTL
<1>2. LadderInit /\ CampaignsTypeOK => LadderTypeOK
  BY DEF LadderInit, LadderTypeOK
<1>3. QED
  BY <1>1, <1>2, LadderType, PTL DEF LadderSpec

\* What the run checks of amounts: no two live tiers ask for the same, with
\* reorder requests among the others.
THEOREM LadderAmountsDistinct == LadderSpec => []LiveAmountsDistinct
BY LadderIsCampaign, AmountsStayDistinct, PTL

\* A tier that becomes live has a position above all others, and a reorder
\* request, even one that repeats an identity, gives different tiers different
\* positions since it names one tier at each.
THEOREM PositionsStayDistinct == LadderSpec => []SortOrdersDistinct
<1>1. LadderInit => SortOrdersDistinct
  BY DEF LadderInit, CampaignsInit, SortOrdersDistinct, LiveTiers, NoTier
<1>2. LadderTypeOK /\ SortOrdersDistinct /\ [LadderNext]_ladderVars => SortOrdersDistinct'
  <2> SUFFICES ASSUME LadderTypeOK, SortOrdersDistinct, [LadderNext]_ladderVars
               PROVE  SortOrdersDistinct'
    OBVIOUS
  <2>1. ASSUME NEW t \in Tiers, NEW data \in TierData, PlaceTier(t, data)
        PROVE  SortOrdersDistinct'
    <3>1. /\ LiveTiers' = LiveTiers \cup {t}
          /\ t \notin LiveTiers
      BY <2>1 DEF PlaceTier, CreateTier, LiveTiers, LadderTypeOK, CampaignsTypeOK
    <3>2. /\ order'[t] = NextSortOrder
          /\ \A u \in Tiers \ {t} : order'[u] = order[u]
      BY <2>1 DEF PlaceTier, LadderTypeOK
    <3>3. LiveTiers \subseteq Tiers
      BY DEF LiveTiers
    <3>4. \A u \in LiveTiers : order[u] \in Nat /\ order[u] < NextSortOrder
      BY <3>3, NextIsAbove DEF LadderTypeOK
    <3>5. QED
      BY <3>1, <3>2, <3>3, <3>4, NextIsAbove DEF SortOrdersDistinct
  <2>2. ASSUME NEW ids \in SeqOf(Tiers, MaxIds), ReorderTiers(ids)
        PROVE  SortOrdersDistinct'
    <3>1. \A t \in LiveTiers : ids[Position(ids, t) + 1] = t
      BY <2>2, RequestIsSeq, PositionNames DEF ReorderTiers
    <3>2. \A t \in LiveTiers : order'[t] = Position(ids, t)
      BY <2>2 DEF ReorderTiers, LiveTiers
    <3>3. LiveTiers' = LiveTiers
      BY <2>2 DEF ReorderTiers, campaignVars, LiveTiers
    <3>4. QED
      BY <3>1, <3>2, <3>3 DEF SortOrdersDistinct
  <2>3. ASSUME NEW t \in Tiers, ChangeTier(t), UNCHANGED order
        PROVE  SortOrdersDistinct'
    <3>1. \A u \in Tiers \ {t} : tier'[u] = tier[u]
      BY <2>3 DEF ChangeTier, DeleteTier, UpdateTier, Overwrite, LadderTypeOK, CampaignsTypeOK
    <3>2. tier[t].row = "live"
      BY <2>3 DEF ChangeTier, DeleteTier, UpdateTier
    <3>3. LiveTiers' \subseteq LiveTiers
      BY <3>1, <3>2 DEF LiveTiers
    <3>4. QED
      BY <2>3, <3>3 DEF SortOrdersDistinct
  <2>4. CASE UNCHANGED <<tier, order>>
    BY <2>4 DEF SortOrdersDistinct, LiveTiers
  <2>5. CampaignStep => UNCHANGED tier
    BY DEF CampaignStep, UpdateCampaign, DeleteCampaign, ActivateCampaign,
       PauseCampaign, CompleteCampaign, ArchiveCampaign, MoveCampaign
  <2>6. QED
    BY <2>1, <2>2, <2>3, <2>4, <2>5 DEF LadderNext, ladderVars
<1>3. QED
  BY <1>1, <1>2, LadderTypeCorrect, PTL DEF LadderSpec
=============================================================================
