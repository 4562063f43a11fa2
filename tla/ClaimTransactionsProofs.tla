----------------------- MODULE ClaimTransactionsProofs -----------------------
(***************************************************************************)
(* What the interleaved claim requests guarantee for any number of         *)
(* sessions, tiers and claims: the lock on a tier protects its row, and a  *)
(* commit whose reads are still true is one of the atomic requests.        *)
(***************************************************************************)
EXTENDS ClaimTransactions, RewardClaimsProofs

----------------------------------------------------------------------------
(* The inductive invariant.                                                *)

\* What a session that may commit stock has established and locked.
HoldsTier(s) ==
    /\ tierLock[TierOfTxn(s)] = s
    /\ FindTier(txn[s].claim)
    /\ CanMove(s)

\* What a session knows at each point of its transaction.
Progressed(s) ==
    ~At(s, "idle") =>
      /\ txn[s].seen \in From(txn[s].op)
      /\ At(s, "check") => txn[s].op = "create"
      /\ At(s, "load") \/ At(s, "lock") => MovesStock(s)
      /\ At(s, "emit") => txn[s].op # "create" /\ ~MovesStock(s)
      /\ (At(s, "write") \/ At(s, "commit")) /\ MovesStock(s) => HoldsTier(s)
      /\ txn[s].op = "create" <=> status[txn[s].claim] = "absent"

\* A new claim has one creator.
OneCreator ==
    \A s, r \in Sessions :
      /\ s # r
      /\ ~At(s, "idle") /\ txn[s].op = "create"
      /\ ~At(r, "idle")
      => txn[s].claim # txn[r].claim

Undisturbed == archived = {} /\ ~campaign.deleted

TransactionsInv ==
    /\ TransactionsTypeOK
    /\ Undisturbed
    /\ OneCreator
    /\ \A s \in Sessions : Progressed(s)

----------------------------------------------------------------------------
(* Helpers.                                                                *)

\* The record of a session that is not idle.
LEMMA Begun ==
    ASSUME TransactionsTypeOK, NEW s \in Sessions, ~At(s, "idle")
    PROVE  /\ txn[s] \in Transaction
           /\ txn[s].op \in Requests
           /\ txn[s].claim \in Claims
           /\ txn[s].seen \in ClaimStatuses
           /\ txn[s].loaded \in GiftTier
           /\ TierOfTxn(s) \in Tiers
<1>1. txn[s] \in Transaction
  BY DEF TransactionsTypeOK, At, Idle
<1>2. QED
  BY <1>1, RewardClaimsAssumption DEF Transaction, TierOfTxn

\* Moving a transaction on, and the end of one, keep the types.
LEMMA MoveToType ==
    ASSUME TransactionsTypeOK, NEW s \in Sessions, ~At(s, "idle"),
           NEW pc \in {"check", "load", "lock", "write", "emit", "commit"},
           MoveTo(s, pc)
    PROVE  /\ txn' \in [Sessions -> Transaction \cup {Idle}]
           /\ txn'[s] = [txn[s] EXCEPT !.pc = pc]
           /\ txn'[s].pc = pc /\ txn'[s].op = txn[s].op /\ txn'[s].claim = txn[s].claim
           /\ txn'[s].seen = txn[s].seen /\ txn'[s].loaded = txn[s].loaded
           /\ \A r \in Sessions \ {s} : txn'[r] = txn[r]
<1>1. txn[s] \in Transaction
  BY Begun
<1>2. [txn[s] EXCEPT !.pc = pc] \in Transaction
  BY <1>1 DEF Transaction
<1>3. txn'[s] = [txn[s] EXCEPT !.pc = pc]
  BY DEF MoveTo, TransactionsTypeOK
<1>4. txn' \in [Sessions -> Transaction \cup {Idle}]
  BY <1>2 DEF MoveTo, TransactionsTypeOK
<1>5. QED
  BY <1>1, <1>3, <1>4 DEF MoveTo, TransactionsTypeOK, Transaction

LEMMA ReleaseType ==
    ASSUME TransactionsTypeOK, NEW s \in Sessions, Release(s)
    PROVE  /\ txn' \in [Sessions -> Transaction \cup {Idle}]
           /\ tierLock' \in [Tiers -> Sessions \cup {NoSession}]
           /\ keyShare' \in [Tiers -> SUBSET Sessions]
           /\ claimLock' \in [Claims -> Sessions \cup {NoSession}]
           /\ txn'[s] = Idle
           /\ \A r \in Sessions \ {s} : txn'[r] = txn[r]
           /\ \A t \in Tiers, r \in Sessions \ {s} : tierLock[t] = r => tierLock'[t] = r
           /\ \A t \in Tiers : tierLock'[t] # s
  BY SessionsAssumption DEF Release, TransactionsTypeOK

\* A session keeps what it knows while others act, if its own record, its
\* lock and its tier stay and no claim appears under it.
LEMMA Kept ==
    ASSUME TransactionsInv, NEW r \in Sessions, txn'[r] = txn[r],
           ~At(r, "idle") =>
             /\ status'[txn[r].claim] = "absent" <=> status[txn[r].claim] = "absent"
             /\ tierLock[TierOfTxn(r)] = r =>
                  /\ tierLock'[TierOfTxn(r)] = r
                  /\ FindTier(txn[r].claim) => FindTier(txn[r].claim)'
    PROVE  Progressed(r)'
<1> SUFFICES ASSUME ~At(r, "idle")
             PROVE  Progressed(r)'
  BY DEF Progressed, At
<1>1. Progressed(r)
  BY DEF TransactionsInv
<1>2. MovesStock(r)' = MovesStock(r) /\ CanMove(r)' = CanMove(r)
      /\ TierOfTxn(r)' = TierOfTxn(r)
  BY DEF MovesStock, CanMove, TierOfTxn
<1>3. HoldsTier(r) => HoldsTier(r)'
  BY <1>2 DEF HoldsTier
<1>4. QED
  BY <1>1, <1>2, <1>3 DEF Progressed, At

\* The counters a decision stores are well typed.
LEMMA MovedType ==
    ASSUME TransactionsTypeOK, NEW s \in Sessions, ~At(s, "idle"), MovesStock(s),
           CanMove(s), txn[s].seen \in From(txn[s].op)
    PROVE  /\ Moved(s) \in GiftTier
           /\ WriteBack(tier[TierOfTxn(s)], txn[s].loaded, Moved(s)) \in GiftTier
           /\ WriteBack(tier[TierOfTxn(s)], txn[s].loaded, Moved(s)).row
                = tier[TierOfTxn(s)].row
           /\ WriteBack(tier[TierOfTxn(s)], txn[s].loaded, Moved(s)).active
                = tier[TierOfTxn(s)].active
<1>1. txn[s].op \in Requests /\ txn[s].loaded \in GiftTier /\ TierOfTxn(s) \in Tiers
  BY Begun
<1>2. Moved(s) \in GiftTier
  BY <1>1, StockHelpers DEF Moved, CanMove
<1>3. tier[TierOfTxn(s)] \in GiftTier
  BY <1>1 DEF TransactionsTypeOK, TypeOK, CampaignsTypeOK
<1>4. QED
  BY <1>2, <1>3 DEF WriteBack, GiftTier

----------------------------------------------------------------------------
(* One step.                                                               *)

\* A step that only moves its session on, possibly taking locks that are free.
LEMMA MovedOn ==
    ASSUME TransactionsInv, NEW s \in Sessions, ~At(s, "idle"), UNCHANGED vars,
           txn' \in [Sessions -> Transaction \cup {Idle}],
           tierLock' \in [Tiers -> Sessions \cup {NoSession}],
           keyShare' \in [Tiers -> SUBSET Sessions],
           claimLock' \in [Claims -> Sessions \cup {NoSession}],
           \A r \in Sessions \ {s} : txn'[r] = txn[r],
           \A t \in Tiers, r \in Sessions \ {s} : tierLock[t] = r => tierLock'[t] = r,
           \/ txn'[s] = Idle
           \/ txn'[s].op = txn[s].op /\ txn'[s].claim = txn[s].claim,
           Progressed(s)'
    PROVE  TransactionsInv'
<1>1. TransactionsTypeOK'
  BY DEF TransactionsInv, TransactionsTypeOK, TypeOK, CampaignsTypeOK, vars
<1>2. Undisturbed'
  BY DEF TransactionsInv, Undisturbed, vars
<1>3. OneCreator'
  BY DEF TransactionsInv, OneCreator, At, Idle
<1>4. ASSUME NEW r \in Sessions
      PROVE  Progressed(r)'
  <2>1. CASE r = s
    BY <2>1
  <2>2. CASE r # s
    <3>1. ~At(r, "idle") => TierOfTxn(r) \in Tiers
      BY Begun DEF TransactionsInv
    <3>2. QED
      BY <2>2, <3>1, Kept DEF vars, FindTier, Usable
  <2>3. QED
    BY <2>1, <2>2
<1>5. QED
  BY <1>1, <1>2, <1>3, <1>4 DEF TransactionsInv

\* Beginning a request.
LEMMA BeginStep ==
    ASSUME TransactionsInv, NEW s \in Sessions, NEW op \in Requests, NEW k \in Claims,
           Begin(s, op, k)
    PROVE  TransactionsInv'
<1> DEFINE pc == IF op = "create" THEN "check"
                 ELSE IF op \in {"reject", "cancel"} /\ status[k] = "pending"
                      THEN "write" ELSE "load"
           new == [pc |-> pc, op |-> op, claim |-> k, seen |-> status[k],
                   loaded |-> NoTier]
<1>1. new \in Transaction
  <2>1. NoTier \in GiftTier
    BY DEF NoTier, GiftTier, StockModes
  <2>2. status[k] \in ClaimStatuses
    BY DEF TransactionsInv, TransactionsTypeOK, TypeOK
  <2>3. QED
    BY <2>1, <2>2 DEF Transaction
<1>2. /\ txn' = [txn EXCEPT ![s] = new]
      /\ UNCHANGED <<vars, locks>>
  BY DEF Begin
<1>3. /\ txn'[s] = new
      /\ \A r \in Sessions \ {s} : txn'[r] = txn[r]
      /\ txn' \in [Sessions -> Transaction \cup {Idle}]
  BY <1>1, <1>2 DEF TransactionsInv, TransactionsTypeOK
<1>4. TransactionsTypeOK'
  BY <1>2, <1>3
     DEF TransactionsInv, TransactionsTypeOK, TypeOK, CampaignsTypeOK, vars, locks
<1>5. Undisturbed'
  BY <1>2 DEF TransactionsInv, Undisturbed, vars
<1>6. OneCreator'
  <2>1. \A r \in Sessions : ~At(r, "idle") /\ txn[r].op = "create"
                              => status[txn[r].claim] = "absent"
    BY DEF TransactionsInv, Progressed
  <2>2. op = "create" => \A r \in Sessions : ~At(r, "idle") => txn[r].claim # k
    BY DEF Begin
  <2>3. op # "create" => status[k] # "absent"
    BY DEF Begin, From, Requests, ActiveStatuses
  <2>4. QED
    BY <1>3, <2>1, <2>2, <2>3 DEF TransactionsInv, OneCreator, At
<1>7. Progressed(s)'
  <2>1. /\ txn'[s].op = op /\ txn'[s].claim = k /\ txn'[s].seen = status[k]
        /\ txn'[s].pc = pc
    BY <1>3
  <2>2. status[k] \in From(op) /\ status' = status
    BY <1>2 DEF Begin, vars
  <2>3. MovesStock(s)' <=> op \in {"approve", "fulfill"} \/ status[k] = "approved"
    BY <2>1 DEF MovesStock
  <2>4. QED
    BY <2>1, <2>2, <2>3 DEF Progressed, At, From, Requests, ActiveStatuses
<1>8. ASSUME NEW r \in Sessions \ {s}
      PROVE  Progressed(r)'
  BY <1>2, <1>3, Kept DEF vars, locks, FindTier, Usable
<1>9. QED
  BY <1>4, <1>5, <1>6, <1>7, <1>8 DEF TransactionsInv

\* A statement of a transaction that has begun and changes no row.
LEMMA StatementStep ==
    ASSUME TransactionsInv, NEW s \in Sessions,
           \/ CheckActiveClaim(s) \/ LoadTier(s) \/ LockTier(s)
           \/ InsertClaim(s) \/ UpdateClaim(s) \/ EmitEvent(s)
    PROVE  TransactionsInv'
<1> TransactionsTypeOK
  BY DEF TransactionsInv
<1> ~At(s, "idle")
  BY DEF CheckActiveClaim, LoadTier, LockTier, InsertClaim, UpdateClaim, EmitEvent, At
<1> Progressed(s)
  BY DEF TransactionsInv
<1> DEFINE t == TierOfTxn(s)
<1>1. t \in Tiers /\ txn[s].claim \in Claims /\ txn[s] \in Transaction
  BY Begun
<1>2. ASSUME NEW pc \in {"check", "load", "lock", "write", "emit", "commit"},
             MoveTo(s, pc), UNCHANGED status
      PROVE  /\ txn' \in [Sessions -> Transaction \cup {Idle}]
             /\ \A r \in Sessions \ {s} : txn'[r] = txn[r]
             /\ txn'[s].op = txn[s].op /\ txn'[s].claim = txn[s].claim
             /\ txn'[s].seen = txn[s].seen /\ txn'[s].pc = pc
             /\ MovesStock(s)' = MovesStock(s)
             /\ CanMove(s)' = CanMove(s)
             /\ TierOfTxn(s)' = TierOfTxn(s)
  BY <1>2, MoveToType DEF MovesStock, CanMove, TierOfTxn
<1>3. CASE CheckActiveClaim(s)
  <2>1. MoveTo(s, "write") /\ UNCHANGED <<vars, locks>> /\ At(s, "check")
    BY <1>3 DEF CheckActiveClaim
  <2>2. ~MovesStock(s)
    BY <2>1 DEF Progressed, MovesStock, From
  <2>3. Progressed(s)'
    BY <1>2, <2>1, <2>2 DEF Progressed, At, vars
  <2>4. QED
    BY <1>2, <2>1, <2>3, MovedOn DEF vars, locks, TransactionsTypeOK
<1>4. CASE LoadTier(s)
  <2>1. txn' = [txn EXCEPT ![s].loaded = tier[t], ![s].pc = "lock"]
        /\ UNCHANGED <<vars, locks>> /\ At(s, "load")
    BY <1>4 DEF LoadTier
  <2>2. tier[t] \in GiftTier
    BY <1>1 DEF TransactionsTypeOK, TypeOK, CampaignsTypeOK
  <2>3. [txn[s] EXCEPT !.loaded = tier[t], !.pc = "lock"] \in Transaction
    BY <1>1, <2>2 DEF Transaction
  <2>4. /\ txn' \in [Sessions -> Transaction \cup {Idle}]
        /\ \A r \in Sessions \ {s} : txn'[r] = txn[r]
        /\ txn'[s] = [txn[s] EXCEPT !.loaded = tier[t], !.pc = "lock"]
    BY <2>1, <2>3 DEF TransactionsTypeOK
  <2>5. /\ txn'[s].op = txn[s].op /\ txn'[s].claim = txn[s].claim
        /\ txn'[s].seen = txn[s].seen /\ txn'[s].pc = "lock"
    BY <1>1, <2>4 DEF Transaction
  <2>6. MovesStock(s)' = MovesStock(s)
    BY <2>5 DEF MovesStock
  <2>7. Progressed(s)'
    BY <2>1, <2>5, <2>6 DEF Progressed, At, vars
  <2>8. QED
    BY <2>1, <2>4, <2>5, <2>7, MovedOn DEF vars, locks, TransactionsTypeOK
<1>5. CASE LockTier(s)
  <2>1. /\ At(s, "lock") /\ Blockers(s) = {} /\ FindTier(txn[s].claim) /\ CanMove(s)
        /\ tierLock' = [tierLock EXCEPT ![t] = s]
        /\ MoveTo(s, "write")
        /\ UNCHANGED <<vars, keyShare, claimLock>>
    BY <1>5 DEF LockTier
  <2>2. tierLock[t] \in {s, NoSession}
    BY <2>1 DEF Blockers, At
  <2>3. tierLock' \in [Tiers -> Sessions \cup {NoSession}]
    BY <1>1, <2>1 DEF TransactionsTypeOK
  <2>4. \A u \in Tiers, r \in Sessions \ {s} : tierLock[u] = r => tierLock'[u] = r
    BY <1>1, <2>1, <2>2, SessionsAssumption DEF TransactionsTypeOK
  <2>5. HoldsTier(s)'
    BY <1>1, <1>2, <2>1 DEF HoldsTier, TransactionsTypeOK, FindTier, Usable, vars
  <2>6. Progressed(s)'
    BY <1>2, <2>1, <2>5 DEF Progressed, At, vars
  <2>7. QED
    BY <1>2, <2>1, <2>3, <2>4, <2>6, MovedOn DEF vars, TransactionsTypeOK
<1>6. ASSUME UNCHANGED <<vars, tierLock>>, MoveTo(s, "commit"),
             HoldsTier(s) \/ ~MovesStock(s)
      PROVE  Progressed(s)'
  <2>1. HoldsTier(s) => HoldsTier(s)'
    BY <1>2, <1>6 DEF HoldsTier, FindTier, Usable, vars
  <2>2. QED
    BY <1>2, <1>6, <2>1 DEF Progressed, At, vars
<1>7. ASSUME keyShare' = [keyShare EXCEPT ![t] = @ \cup {s}]
      PROVE  keyShare' \in [Tiers -> SUBSET Sessions]
  BY <1>1, <1>7 DEF TransactionsTypeOK
<1>8. CASE InsertClaim(s)
  <2>1. /\ At(s, "write") /\ txn[s].op = "create"
        /\ keyShare' = [keyShare EXCEPT ![t] = @ \cup {s}]
        /\ MoveTo(s, "commit")
        /\ UNCHANGED <<vars, tierLock, claimLock>>
    BY <1>8 DEF InsertClaim
  <2>2. Progressed(s)'
    BY <1>6, <2>1 DEF Progressed
  <2>3. QED
    BY <1>2, <1>7, <2>1, <2>2, MovedOn DEF vars, TransactionsTypeOK
<1>9. CASE EmitEvent(s)
  <2>1. /\ At(s, "emit")
        /\ keyShare' = [keyShare EXCEPT ![t] = @ \cup {s}]
        /\ MoveTo(s, "commit")
        /\ UNCHANGED <<vars, tierLock, claimLock>>
    BY <1>9 DEF EmitEvent
  <2>2. Progressed(s)'
    BY <1>6, <2>1 DEF Progressed
  <2>3. QED
    BY <1>2, <1>7, <2>1, <2>2, MovedOn DEF vars, TransactionsTypeOK
<1>10. CASE UpdateClaim(s)
  <2>1. /\ At(s, "write") /\ txn[s].op # "create"
        /\ claimLock' = [claimLock EXCEPT ![txn[s].claim] = s]
        /\ MoveTo(s, IF MovesStock(s) THEN "commit" ELSE "emit")
        /\ UNCHANGED <<vars, tierLock, keyShare>>
    BY <1>10 DEF UpdateClaim
  <2>2. claimLock' \in [Claims -> Sessions \cup {NoSession}]
    BY <1>1, <2>1 DEF TransactionsTypeOK
  <2>3. CASE MovesStock(s)
    <3>1. Progressed(s)'
      BY <1>6, <2>1, <2>3 DEF Progressed
    <3>2. QED
      BY <1>2, <2>1, <2>2, <2>3, <3>1, MovedOn DEF vars, TransactionsTypeOK
  <2>4. CASE ~MovesStock(s)
    <3>1. Progressed(s)'
      BY <1>2, <2>1, <2>4 DEF Progressed, At, vars
    <3>2. QED
      BY <1>2, <2>1, <2>2, <2>4, <3>1, MovedOn DEF vars, TransactionsTypeOK
  <2>5. QED
    BY <2>3, <2>4
<1>11. QED
  BY <1>3, <1>4, <1>5, <1>8, <1>9, <1>10

\* A transaction that is rolled back, for whatever reason.
LEMMA RollBackStep ==
    ASSUME TransactionsInv, NEW s \in Sessions, ~At(s, "idle"), RollBack(s)
    PROVE  TransactionsInv'
<1>1. Release(s) /\ UNCHANGED vars /\ TransactionsTypeOK
  BY DEF RollBack, TransactionsInv
<1>2. txn'[s] = Idle
  BY <1>1, ReleaseType
<1>3. Progressed(s)'
  BY <1>2 DEF Progressed, At, Idle
<1>4. /\ txn' \in [Sessions -> Transaction \cup {Idle}]
      /\ tierLock' \in [Tiers -> Sessions \cup {NoSession}]
      /\ keyShare' \in [Tiers -> SUBSET Sessions]
      /\ claimLock' \in [Claims -> Sessions \cup {NoSession}]
      /\ \A r \in Sessions \ {s} : txn'[r] = txn[r]
      /\ \A t \in Tiers, r \in Sessions \ {s} : tierLock[t] = r => tierLock'[t] = r
  BY <1>1, ReleaseType
<1>5. QED
  BY <1>1, <1>2, <1>3, <1>4, MovedOn

\* What a committing session has locked.
LEMMA AtCommit ==
    ASSUME TransactionsInv, NEW s \in Sessions, Commit(s)
    PROVE  /\ ~At(s, "idle")
           /\ txn[s].seen \in From(txn[s].op)
           /\ MovesStock(s) => HoldsTier(s)
           /\ txn[s].op = "create" <=> status[txn[s].claim] = "absent"
  BY DEF TransactionsInv, Progressed, Commit, At

\* A commit.
LEMMA CommitStep ==
    ASSUME TransactionsInv, NEW s \in Sessions, Commit(s)
    PROVE  TransactionsInv'
<1> DEFINE k == txn[s].claim
           t == TierOfTxn(s)
           new == WriteBack(tier[t], txn[s].loaded, Moved(s))
<1>1. TransactionsTypeOK /\ ~At(s, "idle") /\ Release(s)
  BY AtCommit DEF TransactionsInv, Commit
<1>2. k \in Claims /\ t \in Tiers /\ txn[s].op \in Requests
  BY <1>1, Begun
<1>3. status' = [status EXCEPT ![k] = Target(txn[s].op)]
      /\ tier' = (IF MovesStock(s) THEN [tier EXCEPT ![t] = new] ELSE tier)
      /\ UNCHANGED <<campaign, progress, archived>>
  BY DEF Commit, ClaimMoves
<1>4. Target(txn[s].op) \in ClaimStatuses \ {"absent"}
  BY <1>2 DEF Target, Requests, ClaimStatuses
<1>5. MovesStock(s) => /\ new \in GiftTier
                       /\ new.row = tier[t].row
                       /\ new.active = tier[t].active
  BY <1>1, AtCommit, MovedType DEF HoldsTier
<1>6. /\ tier' \in [Tiers -> GiftTier]
      /\ \A u \in Tiers : tier'[u].row = tier[u].row /\ tier'[u].active = tier[u].active
  BY <1>1, <1>2, <1>3, <1>5 DEF TransactionsTypeOK, TypeOK, CampaignsTypeOK
<1>7. /\ status' \in [Claims -> ClaimStatuses]
      /\ status'[k] # "absent"
      /\ \A j \in Claims \ {k} : status'[j] = status[j]
  BY <1>1, <1>2, <1>3, <1>4 DEF TransactionsTypeOK, TypeOK
<1>8. TransactionsTypeOK'
  BY <1>1, <1>3, <1>6, <1>7, ReleaseType
     DEF TransactionsTypeOK, TypeOK, CampaignsTypeOK
<1>9. Undisturbed'
  BY <1>3 DEF TransactionsInv, Undisturbed
<1>10. OneCreator'
  BY <1>1, ReleaseType DEF TransactionsInv, OneCreator, At, Idle
<1>11. Progressed(s)'
  BY <1>1, ReleaseType DEF Progressed, At, Idle
<1>12. ASSUME NEW r \in Sessions \ {s}
       PROVE  Progressed(r)'
  <2>1. ~At(r, "idle") => TierOfTxn(r) \in Tiers /\ txn[r].claim \in Claims
    BY <1>1, Begun
  <2>2. ASSUME ~At(r, "idle")
        PROVE  status'[txn[r].claim] = "absent" <=> status[txn[r].claim] = "absent"
    <3>1. CASE txn[r].claim = k
      <4>1. status[k] # "absent"
        BY <1>1, <2>2, <3>1, AtCommit DEF TransactionsInv, OneCreator
      <4>2. QED
        BY <1>7, <3>1, <4>1
    <3>2. CASE txn[r].claim # k
      BY <1>7, <2>1, <2>2, <3>2
    <3>3. QED
      BY <3>1, <3>2
  <2>3. ~At(r, "idle") => (FindTier(txn[r].claim) => FindTier(txn[r].claim)')
    <3>1. txn'[r] = txn[r]
      BY <1>1, ReleaseType
    <3>2. QED
      BY <1>6, <2>1, <3>1 DEF FindTier, Usable, TierOfTxn
  <2>4. QED
    BY <1>1, <2>1, <2>2, <2>3, ReleaseType, Kept
<1>13. QED
  BY <1>8, <1>9, <1>10, <1>11, <1>12 DEF TransactionsInv

\* An edit of the tiers leaves every locked row alone.
LEMMA EditStep ==
    ASSUME TransactionsInv, EditTiers
    PROVE  TransactionsInv'
<1>1. CampaignsTypeOK'
  BY CampaignsType
     DEF TransactionsInv, TransactionsTypeOK, TypeOK, EditTiers, CampaignsNext
<1>2. UNCHANGED <<campaign, progress, archived, status, txn, locks>>
  BY DEF EditTiers, TierStep, CreateTier, UpdateTier, DeleteTier
<1>3. TransactionsTypeOK' /\ Undisturbed' /\ OneCreator'
  BY <1>1, <1>2 DEF TransactionsInv, TransactionsTypeOK, TypeOK, CampaignsTypeOK,
     Undisturbed, OneCreator, At, locks
<1>4. ASSUME NEW r \in Sessions
      PROVE  Progressed(r)'
  <2>1. ~At(r, "idle") => TierOfTxn(r) \in Tiers
    BY Begun DEF TransactionsInv
  <2>2. ~At(r, "idle") /\ tierLock[TierOfTxn(r)] = r
          => tier'[TierOfTxn(r)] = tier[TierOfTxn(r)]
    BY <2>1, SessionsAssumption DEF EditTiers
  <2>3. QED
    BY <1>2, <2>1, <2>2, Kept DEF locks, FindTier, Usable, TierOfTxn
<1>5. QED
  BY <1>3, <1>4 DEF TransactionsInv

----------------------------------------------------------------------------
(* The theorems.                                                           *)

LEMMA InductiveTransactions == TSpec => []TransactionsInv
<1>1. TInit => TransactionsInv
  <2> SUFFICES ASSUME TInit
               PROVE  TransactionsInv
    OBVIOUS
  <2>1. campaign \in Campaign
    BY DEF TInit, Campaign, CampaignStatuses
  <2>2. tier \in [Tiers -> GiftTier]
    <3>1. \A d \in TierData :
            [row |-> "live", required |-> d.required, mode |-> d.mode,
             stock |-> d.stock, active |-> d.active, reserved |-> 0, fulfilled |-> 0]
              \in GiftTier
      BY CampaignsAssumption DEF TierData, GiftTier
    <3>2. QED
      BY <3>1 DEF TInit
  <2>3. TransactionsTypeOK
    BY <2>1, <2>2, RewardClaimsAssumption
       DEF TInit, TransactionsTypeOK, TypeOK, CampaignsTypeOK, ClaimStatuses
  <2>4. \A s \in Sessions : At(s, "idle")
    BY DEF TInit, At, Idle
  <2>5. QED
    BY <2>3, <2>4 DEF TInit, TransactionsInv, Undisturbed, OneCreator, Progressed
<1>2. TransactionsInv /\ [TNext]_tVars => TransactionsInv'
  <2> SUFFICES ASSUME TransactionsInv, [TNext]_tVars
               PROVE  TransactionsInv'
    OBVIOUS
  <2>1. ASSUME NEW s \in Sessions, Step(s)
        PROVE  TransactionsInv'
    BY <2>1, StatementStep, CommitStep, RollBackStep DEF Step, Refuse, At
  <2>2. ASSUME NEW s \in Sessions, Disconnect(s) \/ DetectDeadlock(s)
        PROVE  TransactionsInv'
    BY <2>2, RollBackStep DEF Disconnect, DetectDeadlock
  <2>3. CASE UNCHANGED tVars
    <3>1. UNCHANGED <<campaign, tier, progress, archived, status, txn,
                      tierLock, keyShare, claimLock>>
      BY <2>3 DEF tVars, vars, locks
    <3>2. TransactionsTypeOK' /\ Undisturbed' /\ OneCreator'
      BY <3>1 DEF TransactionsInv, TransactionsTypeOK, TypeOK, CampaignsTypeOK,
         Undisturbed, OneCreator, At
    <3>3. \A r \in Sessions : Progressed(r)'
      BY <3>1, Kept DEF FindTier, Usable
    <3>4. QED
      BY <3>2, <3>3 DEF TransactionsInv
  <2>4. QED
    BY <2>1, <2>2, <2>3, BeginStep, EditStep DEF TNext
<1>3. QED
  BY <1>1, <1>2, PTL DEF TSpec

\* Every row and every transaction stays in its domain, however the requests
\* interleave: no stale counter ever makes a tier's counters negative.
THEOREM TransactionsTypeCorrect == TSpec => []TransactionsTypeOK
  BY InductiveTransactions, PTL DEF TransactionsInv

\* No commit and no edit changes a tier under a session that keeps its lock.
THEOREM LocksPinRows == TSpec => LockPinsRow
<1> DEFINE Pinned == \A t \in Tiers :
         tierLock[t] # NoSession /\ tierLock'[t] = tierLock[t] => tier'[t] = tier[t]
<1>1. TransactionsInv /\ [TNext]_tVars => Pinned
  <2> SUFFICES ASSUME TransactionsInv, [TNext]_tVars, NEW t \in Tiers,
                      tierLock[t] # NoSession, tierLock'[t] = tierLock[t]
               PROVE  tier'[t] = tier[t]
    OBVIOUS
  <2>1. ASSUME NEW s \in Sessions, Commit(s)
        PROVE  tier'[t] = tier[t]
    <3>1. Release(s) /\ ~At(s, "idle") /\ TransactionsTypeOK
      BY <2>1, AtCommit DEF Commit, TransactionsInv
    <3>2. tierLock[t] # s
      BY <3>1, ReleaseType
    <3>3. MovesStock(s) => TierOfTxn(s) # t
      BY <2>1, <3>2, AtCommit DEF HoldsTier
    <3>4. QED
      BY <2>1, <3>1, <3>3 DEF Commit, TransactionsTypeOK, TypeOK, CampaignsTypeOK
  <2>2. CASE EditTiers
    BY <2>2 DEF EditTiers
  <2>3. CASE UNCHANGED vars
    BY <2>3 DEF vars
  <2>4. QED
    BY <2>1, <2>2, <2>3 DEF TNext, Step, Begin, CheckActiveClaim, LoadTier, LockTier,
       InsertClaim, UpdateClaim, EmitEvent, Refuse, Disconnect, DetectDeadlock,
       RollBack, tVars
<1>2. QED
  BY <1>1, InductiveTransactions, PTL DEF TSpec, LockPinsRow

\* Writing back what was computed from an object whose counters and terms are
\* those of the row is computing it from the row.
LEMMA FreshWriteBack ==
    ASSUME NEW row \in GiftTier, NEW old \in GiftTier,
           row.mode = old.mode, row.stock = old.stock,
           row.reserved = old.reserved, row.fulfilled = old.fulfilled
    PROVE  /\ CanReserve(old) => CanReserve(row)
           /\ CanRelease(old) => CanRelease(row)
           /\ WriteBack(row, old, Reserved(old)) = Reserved(row)
           /\ WriteBack(row, old, Released(old)) = Released(row)
           /\ WriteBack(row, old, FulfilledStock(old)) = FulfilledStock(row)
<1>1. row.reserved \in Nat /\ row.fulfilled \in Nat
  BY DEF GiftTier
<1>2. (CanReserve(old) => CanReserve(row)) /\ (CanRelease(old) => CanRelease(row))
  BY DEF CanReserve, CanRelease, Available
<1>3. WriteBack(row, old, Reserved(old)) = Reserved(row)
  BY <1>1 DEF WriteBack, Reserved, GiftTier
<1>4. WriteBack(row, old, Released(old)) = Released(row)
  BY <1>1 DEF WriteBack, Released, GiftTier
<1>5. WriteBack(row, old, FulfilledStock(old)) = FulfilledStock(row)
  BY <1>1 DEF WriteBack, FulfilledStock, GiftTier
<1>6. QED
  BY <1>2, <1>3, <1>4, <1>5

\* The commit of a request that moves stock.
LEMMA FreshDecision ==
    ASSUME TransactionsInv, NEW s \in Sessions, Commit(s), StillTrue(s),
           txn[s].op # "create", MovesStock(s)
    PROVE  ClaimStep
<1> DEFINE k == txn[s].claim
           t == TierOf[k]
           row == tier[t]
           old == txn[s].loaded
<1>1. TransactionsTypeOK /\ ~At(s, "idle") /\ txn[s].seen \in From(txn[s].op)
      /\ HoldsTier(s)
  BY AtCommit DEF TransactionsInv
<1>2. k \in Claims /\ t \in Tiers /\ txn[s].op \in Requests /\ old \in GiftTier
      /\ row \in GiftTier
  BY <1>1, Begun DEF TransactionsTypeOK, TypeOK, CampaignsTypeOK, TierOfTxn
<1>3. FindTier(k) /\ CanMove(s) /\ TierOfTxn(s) = t
  BY <1>1 DEF HoldsTier, TierOfTxn
<1>4. /\ status[k] = txn[s].seen
      /\ row.mode = old.mode /\ row.stock = old.stock
      /\ row.reserved = old.reserved /\ row.fulfilled = old.fulfilled
  BY <1>3 DEF StillTrue
<1>5. /\ ClaimMoves(k, Target(txn[s].op))
      /\ tier' = [tier EXCEPT ![t] = WriteBack(row, old, Moved(s))]
      /\ UNCHANGED <<campaign, progress, archived>>
  BY <1>3 DEF Commit
<1>6. CASE txn[s].op = "approve"
  <2>1. CanReserve(row) /\ tier' = [tier EXCEPT ![t] = Reserved(row)]
    BY <1>2, <1>3, <1>4, <1>5, <1>6, FreshWriteBack DEF CanMove, Moved
  <2>2. ApproveClaim(k)
    BY <1>1, <1>3, <1>4, <1>5, <1>6, <2>1 DEF ApproveClaim, MoveStock, From, Target
  <2>3. QED
    BY <1>2, <2>2 DEF ClaimStep
<1>7. CASE txn[s].op = "fulfill"
  <2>1. CanRelease(row) /\ tier' = [tier EXCEPT ![t] = FulfilledStock(row)]
    BY <1>2, <1>3, <1>4, <1>5, <1>7, FreshWriteBack DEF CanMove, Moved
  <2>2. FulfillClaim(k)
    BY <1>1, <1>3, <1>4, <1>5, <1>7, <2>1 DEF FulfillClaim, MoveStock, From, Target
  <2>3. QED
    BY <1>2, <2>2 DEF ClaimStep
<1>8. CASE txn[s].op \in {"reject", "cancel"}
  <2>1. CanRelease(row) /\ tier' = [tier EXCEPT ![t] = Released(row)]
    BY <1>2, <1>3, <1>4, <1>5, <1>8, FreshWriteBack DEF CanMove, Moved
  <2>2. status[k] = "approved"
    BY <1>4, <1>8 DEF MovesStock
  <2>3. RejectClaim(k) \/ CancelClaim(k)
    BY <1>3, <1>5, <1>8, <2>1, <2>2
       DEF RejectClaim, CancelClaim, CloseApproved, MoveStock, Target
  <2>4. QED
    BY <1>2, <2>3 DEF ClaimStep
<1>9. QED
  BY <1>2, <1>6, <1>7, <1>8 DEF Requests

\* Only stale reads separate the interleaved requests from the atomic ones.
THEOREM FreshCommitsAtomic == TSpec => FreshCommitsAreAtomic
<1> DEFINE Fresh == \A s \in Sessions : Commit(s) /\ StillTrue(s) => ClaimStep
<1>1. TransactionsInv => Fresh
  <2> SUFFICES ASSUME TransactionsInv, NEW s \in Sessions, Commit(s), StillTrue(s)
               PROVE  ClaimStep
    OBVIOUS
  <2> DEFINE k == txn[s].claim
  <2>1. TransactionsTypeOK /\ ~At(s, "idle") /\ txn[s].seen \in From(txn[s].op)
    BY AtCommit DEF TransactionsInv
  <2>2. k \in Claims /\ txn[s].op \in Requests
    BY <2>1, Begun
  <2>3. CASE txn[s].op = "create"
    <3>1. status[k] = "absent" /\ ~MovesStock(s)
      BY <2>1, <2>3, AtCommit DEF MovesStock, From
    <3>2. CreateClaim(k)
      BY <2>2, <2>3, <3>1
         DEF TransactionsInv, Undisturbed, CreateClaim, StillTrue, Commit, Target,
             TierOfTxn
    <3>3. QED
      BY <2>2, <3>2 DEF ClaimStep
  <2>4. CASE txn[s].op # "create" /\ MovesStock(s)
    BY <2>4, FreshDecision
  <2>5. CASE txn[s].op # "create" /\ ~MovesStock(s)
    <3>1. txn[s].op \in {"reject", "cancel"} /\ status[k] = "pending"
      BY <2>1, <2>2, <2>5 DEF MovesStock, StillTrue, From, Requests, ActiveStatuses
    <3>2. RejectClaim(k) \/ CancelClaim(k)
      BY <2>5, <3>1 DEF RejectClaim, CancelClaim, ClosePending, Commit, Target
    <3>3. QED
      BY <2>2, <3>2 DEF ClaimStep
  <2>6. QED
    BY <2>3, <2>4, <2>5
<1>2. QED
  BY <1>1, InductiveTransactions, PTL DEF TSpec, FreshCommitsAreAtomic

----------------------------------------------------------------------------
(* Deadlocks.                                                              *)

\* Where a session is that holds a lock, and which row the lock is on.
HoldsOnly(s) ==
    /\ \A t \in Tiers :
         tierLock[t] = s => /\ At(s, "write") \/ At(s, "commit")
                            /\ t = TierOfTxn(s) /\ MovesStock(s)
    /\ \A t \in Tiers : s \in keyShare[t] => At(s, "commit")
    /\ \A k \in Claims :
         claimLock[k] = s => /\ At(s, "emit") \/ At(s, "commit")
                             /\ k = txn[s].claim

LocksInv == \A s \in Sessions : HoldsOnly(s)

\* A session whose record stays and whose locks do not grow still holds only
\* what it held.
LEMMA HeldOn ==
    ASSUME NEW r \in Sessions, HoldsOnly(r), txn'[r] = txn[r],
           \A t \in Tiers : tierLock'[t] = r => tierLock[t] = r,
           \A t \in Tiers : r \in keyShare'[t] => r \in keyShare[t],
           \A k \in Claims : claimLock'[k] = r => claimLock[k] = r
    PROVE  HoldsOnly(r)'
  BY DEF HoldsOnly, At, TierOfTxn, MovesStock

\* A statement of s that takes no lock and moves s to a statement with its
\* claim, at which the locks it has may be held.
LEMMA StatementLocks ==
    ASSUME TransactionsInv, LocksInv, NEW s \in Sessions,
           \/ CheckActiveClaim(s) \/ LoadTier(s) \/ LockTier(s)
           \/ InsertClaim(s) \/ UpdateClaim(s) \/ EmitEvent(s)
    PROVE  LocksInv'
<1> TransactionsTypeOK /\ Progressed(s) /\ HoldsOnly(s)
  BY DEF TransactionsInv, LocksInv
<1> ~At(s, "idle")
  BY DEF CheckActiveClaim, LoadTier, LockTier, InsertClaim, UpdateClaim, EmitEvent, At
<1> DEFINE t == TierOfTxn(s)
<1>1. /\ t \in Tiers /\ txn[s].claim \in Claims /\ txn[s] \in Transaction
  BY Begun
<1>2. ASSUME NEW pc \in {"check", "load", "lock", "write", "emit", "commit"},
             MoveTo(s, pc)
      PROVE  /\ \A r \in Sessions \ {s} : txn'[r] = txn[r]
             /\ txn'[s].claim = txn[s].claim /\ txn'[s].pc = pc
             /\ MovesStock(s)' = MovesStock(s)
             /\ TierOfTxn(s)' = TierOfTxn(s)
  BY <1>2, MoveToType DEF MovesStock, TierOfTxn
<1>3. CASE CheckActiveClaim(s)
  <2>1. MoveTo(s, "write") /\ UNCHANGED <<tierLock, keyShare, claimLock>> /\ At(s, "check")
    BY <1>3 DEF CheckActiveClaim, locks
  <2>2. HoldsOnly(s)'
    BY <1>2, <2>1 DEF HoldsOnly, At
  <2>3. QED
    BY <1>2, <2>1, <2>2, HeldOn DEF LocksInv
<1>4. CASE LoadTier(s)
  <2>1. /\ txn' = [txn EXCEPT ![s].loaded = tier[t], ![s].pc = "lock"]
        /\ UNCHANGED <<tierLock, keyShare, claimLock>> /\ At(s, "load")
    BY <1>4 DEF LoadTier, locks
  <2>2. \A r \in Sessions \ {s} : txn'[r] = txn[r]
    BY <2>1 DEF TransactionsTypeOK
  <2>3. HoldsOnly(s)'
    BY <2>1 DEF HoldsOnly, At
  <2>4. QED
    BY <2>1, <2>2, <2>3, HeldOn DEF LocksInv
<1>5. CASE LockTier(s)
  <2>1. /\ At(s, "lock") /\ MoveTo(s, "write")
        /\ tierLock' = [tierLock EXCEPT ![t] = s]
        /\ UNCHANGED <<keyShare, claimLock>>
    BY <1>5 DEF LockTier
  <2>2. MovesStock(s)
    BY <2>1 DEF Progressed
  <2>3. HoldsOnly(s)'
    BY <1>1, <1>2, <2>1, <2>2 DEF HoldsOnly, At, TransactionsTypeOK
  <2>4. \A r \in Sessions \ {s}, u \in Tiers : tierLock'[u] = r => tierLock[u] = r
    BY <2>1 DEF TransactionsTypeOK
  <2>5. QED
    BY <1>2, <2>1, <2>3, <2>4, HeldOn DEF LocksInv
<1>6. ASSUME keyShare' = [keyShare EXCEPT ![t] = @ \cup {s}],
             \/ At(s, "write") /\ txn[s].op = "create"
             \/ At(s, "emit"),
             MoveTo(s, "commit"), UNCHANGED <<tierLock, claimLock>>
      PROVE  LocksInv'
  <2>1. \A u \in Tiers : tierLock[u] # s
    BY <1>6 DEF HoldsOnly, At, Progressed, MovesStock, From
  <2>2. HoldsOnly(s)'
    BY <1>1, <1>2, <1>6, <2>1 DEF HoldsOnly, At
  <2>3. \A r \in Sessions \ {s}, u \in Tiers : r \in keyShare'[u] => r \in keyShare[u]
    BY <1>6 DEF TransactionsTypeOK
  <2>4. QED
    BY <1>2, <1>6, <2>2, <2>3, HeldOn DEF LocksInv
<1>7. CASE InsertClaim(s) \/ EmitEvent(s)
  BY <1>6, <1>7 DEF InsertClaim, EmitEvent
<1>8. CASE UpdateClaim(s)
  <2>1. /\ At(s, "write")
        /\ claimLock' = [claimLock EXCEPT ![txn[s].claim] = s]
        /\ MoveTo(s, IF MovesStock(s) THEN "commit" ELSE "emit")
        /\ UNCHANGED <<tierLock, keyShare>>
    BY <1>8 DEF UpdateClaim
  <2>2. /\ \A r \in Sessions \ {s} : txn'[r] = txn[r]
        /\ txn'[s].claim = txn[s].claim
        /\ txn'[s].pc = IF MovesStock(s) THEN "commit" ELSE "emit"
        /\ MovesStock(s)' = MovesStock(s) /\ TierOfTxn(s)' = TierOfTxn(s)
    BY <1>2, <2>1
  <2>3. /\ \A k \in Claims : claimLock'[k] = s => k = txn[s].claim
        /\ \A r \in Sessions \ {s}, k \in Claims : claimLock'[k] = r => claimLock[k] = r
    BY <2>1 DEF TransactionsTypeOK, HoldsOnly, At
  <2>4. HoldsOnly(s)'
    BY <2>1, <2>2, <2>3 DEF HoldsOnly, At
  <2>5. QED
    BY <2>1, <2>2, <2>3, <2>4, HeldOn DEF LocksInv
<1>9. QED
  BY <1>3, <1>4, <1>5, <1>7, <1>8

\* The end of a transaction leaves it no lock and the others theirs.
LEMMA ReleaseLocks ==
    ASSUME TransactionsInv, LocksInv, NEW s \in Sessions, Release(s)
    PROVE  LocksInv'
<1>1. TransactionsTypeOK
  BY DEF TransactionsInv
<1>2. /\ \A t \in Tiers : tierLock'[t] # s /\ s \notin keyShare'[t]
      /\ \A k \in Claims : claimLock'[k] # s
  BY SessionsAssumption DEF Release
<1>3. HoldsOnly(s)'
  BY <1>2 DEF HoldsOnly
<1>4. ASSUME NEW r \in Sessions \ {s}
      PROVE  /\ txn'[r] = txn[r]
             /\ \A t \in Tiers : tierLock'[t] = r => tierLock[t] = r
             /\ \A t \in Tiers : r \in keyShare'[t] => r \in keyShare[t]
             /\ \A k \in Claims : claimLock'[k] = r => claimLock[k] = r
  BY <1>1, SessionsAssumption DEF Release, TransactionsTypeOK
<1>5. QED
  BY <1>3, <1>4, HeldOn DEF LocksInv

\* Whoever is waited for and waits is at its flush with the tier or at its
\* event with the claim.
LEMMA WaitingHolder ==
    ASSUME TransactionsInv, LocksInv, NEW s \in Sessions, NEW r \in Sessions,
           r \in Blockers(s), s \in Blockers(r)
    PROVE  \/ /\ At(r, "write") /\ MovesStock(r) /\ tierLock[TierOfTxn(r)] = r
              /\ tierLock[TierOfTxn(s)] = r
           \/ At(r, "emit") /\ claimLock[txn[s].claim] = r /\ txn[s].claim = txn[r].claim
<1>1. ~At(r, "commit")
  BY DEF Blockers, At
<1>2. HoldsOnly(r) /\ TransactionsTypeOK
  BY DEF LocksInv, TransactionsInv
<1>3. ~At(s, "idle")
  BY DEF Blockers, At
<1>4. TierOfTxn(s) \in Tiers /\ txn[s].claim \in Claims
  BY <1>2, <1>3, Begun
<1>5. \/ tierLock[TierOfTxn(s)] = r
      \/ r \in keyShare[TierOfTxn(s)]
      \/ claimLock[txn[s].claim] = r
  BY DEF Blockers, At
<1>6. QED
  BY <1>1, <1>2, <1>4, <1>5 DEF HoldsOnly

\* Two requests wait for each other only when one decides a claim with its
\* tier locked and the other closes the same claim as pending.
THEOREM OnlyDecisionsDeadlock == TSpec => []DeadlocksAreDecisionRaces
<1>1. TInit => LocksInv
  BY SessionsAssumption DEF TInit, LocksInv, HoldsOnly
<1>2. TransactionsInv /\ LocksInv /\ [TNext]_tVars => LocksInv'
  <2> SUFFICES ASSUME TransactionsInv, LocksInv, [TNext]_tVars
               PROVE  LocksInv'
    OBVIOUS
  <2>1. ASSUME NEW s \in Sessions, NEW op \in Requests, NEW k \in Claims, Begin(s, op, k)
        PROVE  LocksInv'
    <3>1. /\ At(s, "idle") /\ HoldsOnly(s) /\ UNCHANGED <<tierLock, keyShare, claimLock>>
          /\ \A r \in Sessions \ {s} : txn'[r] = txn[r]
      BY <2>1 DEF Begin, locks, LocksInv, TransactionsInv, TransactionsTypeOK
    <3>2. HoldsOnly(s)'
      BY <3>1 DEF HoldsOnly, At
    <3>3. QED
      BY <3>1, <3>2, HeldOn DEF LocksInv
  <2>2. ASSUME NEW s \in Sessions, Step(s) \/ Disconnect(s) \/ DetectDeadlock(s)
        PROVE  LocksInv'
    BY <2>2, StatementLocks, ReleaseLocks
       DEF Step, Commit, Refuse, Disconnect, DetectDeadlock, RollBack
  <2>3. CASE UNCHANGED <<txn, locks>>
    BY <2>3, HeldOn DEF locks, LocksInv
  <2>4. QED
    BY <2>1, <2>2, <2>3 DEF TNext, EditTiers, tVars
<1>3. TransactionsInv /\ LocksInv => DeadlocksAreDecisionRaces
  <2> SUFFICES ASSUME TransactionsInv, LocksInv, NEW s \in Sessions, NEW r \in Sessions,
                      r \in Blockers(s), s \in Blockers(r)
               PROVE  DecisionRace(s, r) \/ DecisionRace(r, s)
    BY DEF DeadlocksAreDecisionRaces
  <2>1. TransactionsTypeOK /\ HoldsOnly(s) /\ HoldsOnly(r)
    BY DEF TransactionsInv, LocksInv
  <2>2. CASE At(r, "write") /\ MovesStock(r) /\ tierLock[TierOfTxn(r)] = r
    <3>1. Progressed(r) /\ txn[r].op # "create"
      BY <2>2 DEF TransactionsInv, Progressed, MovesStock, At, From
    <3>2. claimLock[txn[r].claim] = s
      BY <2>2, <3>1 DEF Blockers, At
    <3>3. txn[r].claim \in Claims
      BY <2>1, <2>2, Begun DEF At
    <3>4. txn[s].claim = txn[r].claim /\ At(s, "emit")
      <4>1. ~At(s, "commit")
        BY DEF Blockers, At
      <4>2. QED
        BY <2>1, <3>2, <3>3, <4>1 DEF HoldsOnly
    <3>5. QED
      BY <2>2, <3>2, <3>4 DEF DecisionRace
  <2>3. CASE At(r, "emit") /\ claimLock[txn[s].claim] = r /\ txn[s].claim = txn[r].claim
    <3>1. \/ At(s, "write") /\ tierLock[TierOfTxn(s)] = s
          \/ At(s, "emit")
      BY WaitingHolder
    <3>2. tierLock[TierOfTxn(r)] = s /\ TierOfTxn(r) \in Tiers
      BY <2>1, <2>3, Begun DEF Blockers, At
    <3>3. ~At(s, "emit")
      BY <2>1, <3>2 DEF HoldsOnly, At
    <3>4. QED
      BY <2>3, <3>1, <3>3 DEF DecisionRace
  <2>4. QED
    BY <2>2, <2>3, WaitingHolder
<1>4. QED
  BY <1>1, <1>2, <1>3, InductiveTransactions, PTL DEF TSpec
=============================================================================
