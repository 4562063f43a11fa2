------------------------- MODULE CustomerPortalProofs -------------------------
(***************************************************************************)
(* Proofs about StaffSessions and CustomerPortal, for any users, sessions, *)
(* customers and links, and any number of requests at a time.              *)
(*                                                                         *)
(* AccessInv adds to the type what a request in flight and a session know  *)
(* of the rows they name.  Known: these rows exist, and a use_count that   *)
(* was read is no more than the uses there have been.  Families: a session *)
(* was exchanged for one that exists and is revoked.                       *)
(***************************************************************************)
EXTENDS CustomerPortal, FiniteSetTheorems, TLAPS

Known ==
    \A p \in Requests :
      /\ request[p].kind \in {"refresh"} \cup TokenKinds => Row(request[p].session)
      /\ request[p].kind \in {"revoke", "visit", "open"} => LinkRow(request[p].link)
      /\ request[p].kind = "open" => request[p].uses <= opened[request[p].link]

Families ==
    \A t \in Sessions :
      Row(t) => /\ Row(session[t].from) /\ Row(session[t].login)
                /\ session[t].from # t => session[session[t].from].revoked

Unused == \A l \in Links : ~LinkRow(l) => opened[l] = 0 /\ l \notin tokens

AccessInv ==
    /\ AccessTypeOK
    /\ Known
    /\ Families
    /\ ExchangesOverlap
    /\ UsesAreCounted
    /\ Unused

----------------------------------------------------------------------------
(* Fields.                                                                 *)

AllRequests == StaffRequest \cup PortalRequest

LEMMA RequestFields ==
    ASSUME NEW r \in AllRequests
    PROVE  /\ r.kind = "login" => r.user \in Users
           /\ r.kind \in {"refresh"} \cup TokenKinds => r.session \in Sessions
           /\ r.kind = "office" => r.as \in Roles
           /\ r.kind = "link" => r.customer \in Customers
           /\ r.kind \in {"revoke", "visit", "open"} => r.link \in Links
           /\ r.kind = "open" => r.uses \in Nat
           /\ r = Idle => r.kind = "idle"
BY DEF AllRequests, StaffRequest, PortalRequest, Idle, TokenKinds

LEMMA SessionFields ==
    ASSUME AccessTypeOK, NEW s \in Sessions, Row(s)
    PROVE  /\ session[s].user \in Users
           /\ session[s].from \in Sessions
           /\ session[s].login \in Sessions
           /\ session[s].revoked \in BOOLEAN
           /\ session[s].age \in 0..SessionAge
           /\ session[s] \in Session
BY DEF AccessTypeOK, StaffTypeOK, Row, Session

LEMMA LinkFields ==
    ASSUME AccessTypeOK, NEW l \in Links, LinkRow(l)
    PROVE  /\ link[l].customer \in Customers
           /\ link[l].revoked \in BOOLEAN
           /\ link[l].expired \in BOOLEAN
           /\ link[l].used \in BOOLEAN
           /\ link[l].uses \in Nat
           /\ link[l] \in Link
BY DEF AccessTypeOK, LinkRow, Link

LEMMA FreshSession ==
    ASSUME RoomForSession
    PROVE  Fresh \in Sessions /\ ~Row(Fresh)
BY DEF RoomForSession, Fresh

LEMMA NewSessionFields ==
    ASSUME NEW u \in Users, NEW f \in Sessions, NEW l \in Sessions
    PROVE  /\ NewSession(u, f, l) \in Session
           /\ NewSession(u, f, l).user = u
           /\ NewSession(u, f, l).from = f
           /\ NewSession(u, f, l).login = l
           /\ NewSession(u, f, l).revoked = FALSE
           /\ NewSession(u, f, l).age = 0
BY DEF NewSession, Session, SessionAge

----------------------------------------------------------------------------
(* The type.                                                               *)

LEMMA TypeInit == Init => AccessTypeOK
BY DEF Init, StaffInit, AccessTypeOK, StaffTypeOK, Roles, AllRequests, StaffRequest, Idle

LEMMA StartedType ==
    ASSUME AccessTypeOK, NEW p \in Requests, NEW r \in AllRequests, Started(p, r),
           UNCHANGED <<staff, portal>>
    PROVE  AccessTypeOK'
BY DEF AccessTypeOK, StaffTypeOK, Started, AllRequests, staff, portal

LEMMA DoneType ==
    ASSUME AccessTypeOK, NEW p \in Requests, Done(p)
    PROVE  request' \in [Requests -> AllRequests]
BY DEF AccessTypeOK, Done, AllRequests, StaffRequest

\* What each kind of request has checked when it begins.
Sound(r) ==
    /\ r.kind = "login" => r.user \in active
    /\ r.kind = "refresh" => Live(r.session) /\ session[r.session].user \in active
    /\ r.kind \in TokenKinds => Admitted(r.session)
    /\ r.kind = "office" => r.as = role[session[r.session].user]
    /\ r.kind = "revoke" => LinkRow(r.link)
    /\ r.kind \in {"visit", "open"} => LinkRow(r.link) /\ Valid(r.link)
    /\ r.kind = "open" => r.uses = link[r.link].uses

Begin(p) == (StaffBegin(p) /\ UNCHANGED portal) \/ PortalBegin(p)

LEMMA BeginIsSound ==
    ASSUME AccessTypeOK, Unused, NEW p \in Requests, Begin(p)
    PROVE  \E r \in AllRequests : Sound(r) /\ Started(p, r) /\ UNCHANGED <<staff, portal>>
<1>1. CASE \E u \in Users : (BeginLogin(p, u) \/ BeginPlatformLogin(p, u)) /\ UNCHANGED portal
  BY <1>1 DEF BeginLogin, BeginPlatformLogin, AllRequests, StaffRequest, Sound, TokenKinds
<1>2. CASE \E s \in Sessions : BeginRefresh(p, s) /\ UNCHANGED portal
  BY <1>2 DEF BeginRefresh, AllRequests, StaffRequest, Sound, TokenKinds
<1>3. CASE \E s \in Sessions : BeginOffice(p, s) /\ UNCHANGED portal
  <2>1. PICK s \in Sessions : BeginOffice(p, s) /\ UNCHANGED portal
    BY <1>3
  <2>2. session[s].user \in Users
    BY <2>1, SessionFields DEF BeginOffice, Admitted, TokenValid
  <2>3. role[session[s].user] \in Roles
    BY <2>2 DEF AccessTypeOK, StaffTypeOK
  <2> QED BY <2>1, <2>3 DEF BeginOffice, AllRequests, StaffRequest, Sound, TokenKinds
<1>4. CASE \E s \in Sessions, c \in Customers : BeginCreateLink(p, s, c)
  BY <1>4 DEF BeginCreateLink, AdmittedToCompany, AllRequests, PortalRequest, Sound, TokenKinds
<1>5. CASE \E s \in Sessions, l \in Links : BeginRevokeLink(p, s, l)
  BY <1>5 DEF BeginRevokeLink, AdmittedToCompany, AllRequests, PortalRequest, Sound, TokenKinds
<1>6. CASE \E l \in Links : BeginOpen(p, l)
  <2>1. PICK l \in Links : BeginOpen(p, l)
    BY <1>6
  <2>2. link[l].uses \in Nat
    BY <2>1, LinkFields DEF BeginOpen
  <2> QED BY <2>1, <2>2 DEF BeginOpen, AllRequests, PortalRequest, Sound, TokenKinds
<1>7. CASE \E l \in Links : BeginVisit(p, l)
  BY <1>7 DEF BeginVisit, Unused, AllRequests, PortalRequest, Sound, TokenKinds
<1> QED BY <1>1, <1>2, <1>3, <1>4, <1>5, <1>6, <1>7 DEF Begin, StaffBegin, PortalBegin

----------------------------------------------------------------------------
(* AccessInv holds at first, and is kept when a request begins.            *)

LEMMA InvInit == Init => AccessInv
<1> SUFFICES ASSUME Init PROVE AccessInv
  OBVIOUS
<1>1. AccessTypeOK
  BY TypeInit
<1>2. /\ \A p \in Requests : request[p] = Idle
      /\ \A s \in Sessions : ~Row(s)
      /\ \A l \in Links : ~LinkRow(l) /\ opened[l] = 0 /\ l \notin tokens
  BY DEF Init, StaffInit, Row, LinkRow
<1>3. Known
  BY <1>2 DEF Known, Idle, TokenKinds
<1>4. ExchangesOverlap
  <2>1. \A s \in Sessions : ExchangedFor(s) = {} /\ Refreshing(s) = {}
    BY <1>2 DEF ExchangedFor, Refreshing, Idle
  <2>2. Cardinality(Requests) \in Nat
    BY StaffSessionsAssumption, FS_CardinalityType
  <2> QED BY <2>1, <2>2, FS_EmptySet DEF ExchangesOverlap
<1> QED BY <1>1, <1>2, <1>3, <1>4 DEF AccessInv, Families, UsesAreCounted, Unused

LEMMA StartedKnown ==
    ASSUME AccessTypeOK, Known, NEW p \in Requests, NEW r \in AllRequests, Sound(r),
           Started(p, r), UNCHANGED <<staff, portal>>, UsesAreCounted
    PROVE  Known'
<1> SUFFICES ASSUME NEW q \in Requests
             PROVE  /\ request[q]'.kind \in {"refresh"} \cup TokenKinds => Row(request[q]'.session)
                    /\ request[q]'.kind \in {"revoke", "visit", "open"} => LinkRow(request[q]'.link)
                    /\ request[q]'.kind = "open" => request[q]'.uses <= opened[request[q]'.link]
  BY DEF Known, Row, LinkRow, staff, portal
<1>1. CASE q # p
  <2>1. request'[q] = request[q]
    BY <1>1 DEF Started, AccessTypeOK
  <2> QED BY <2>1 DEF Known
<1>2. CASE q = p
  <2>1. request'[q] = r
    BY <1>2 DEF Started, AccessTypeOK
  <2>2. r.kind \in {"refresh"} \cup TokenKinds => Row(r.session)
    BY DEF Sound, Live, Admitted, TokenValid
  <2>3. r.kind \in {"revoke", "visit", "open"} => LinkRow(r.link)
    BY DEF Sound
  <2>4. r.kind = "open" => r.uses <= opened[r.link]
    BY RequestFields DEF Sound, UsesAreCounted
  <2> QED BY <2>1, <2>2, <2>3, <2>4
<1> QED BY <1>1, <1>2

LEMMA NoExchangeYet ==
    ASSUME Families, NEW s \in Sessions, Live(s)
    PROVE  ExchangedFor(s) = {}
BY DEF Families, Live, ExchangedFor

LEMMA RefreshesFit ==
    ASSUME NEW s \in Sessions
    PROVE  /\ IsFiniteSet(Refreshing(s)) /\ Cardinality(Refreshing(s)) \in Nat
           /\ Cardinality(Requests) \in Nat
           /\ Cardinality(Refreshing(s)) <= Cardinality(Requests)
           /\ IsFiniteSet(ExchangedFor(s)) /\ Cardinality(ExchangedFor(s)) \in Nat
<1>1. Refreshing(s) \subseteq Requests /\ ExchangedFor(s) \subseteq Sessions
  BY DEF Refreshing, ExchangedFor
<1> QED BY <1>1, StaffSessionsAssumption, FS_Subset, FS_CardinalityType

LEMMA StartedOverlap ==
    ASSUME AccessTypeOK, Families, ExchangesOverlap, NEW p \in Requests,
           NEW r \in AllRequests, Sound(r), Started(p, r), UNCHANGED <<staff, portal>>
    PROVE  ExchangesOverlap'
<1> SUFFICES ASSUME NEW s \in Sessions
             PROVE  (Cardinality(ExchangedFor(s)) + Cardinality(Refreshing(s)) <= Cardinality(Requests))'
  BY DEF ExchangesOverlap
<1>1. ExchangedFor(s)' = ExchangedFor(s)
  BY DEF ExchangedFor, Row, staff
<1>2. CASE r.kind = "refresh" /\ r.session = s
  <2>1. ExchangedFor(s) = {}
    BY <1>2, NoExchangeYet DEF Sound
  <2>2. Refreshing(s)' \subseteq Requests
    BY DEF Refreshing
  <2>3. Cardinality(Refreshing(s)') <= Cardinality(Requests) /\ Cardinality(Refreshing(s)') \in Nat
    BY <2>2, StaffSessionsAssumption, FS_Subset, FS_CardinalityType
  <2> QED BY <1>1, <2>1, <2>3, FS_EmptySet
<1>3. CASE ~(r.kind = "refresh" /\ r.session = s)
  <2>1. Refreshing(s)' \subseteq Refreshing(s)
    BY <1>3 DEF Refreshing, Started, AccessTypeOK
  <2>2. Cardinality(Refreshing(s)') <= Cardinality(Refreshing(s)) /\ Cardinality(Refreshing(s)') \in Nat
    BY <2>1, RefreshesFit, FS_Subset, FS_CardinalityType
  <2> QED BY <1>1, <2>2, RefreshesFit DEF ExchangesOverlap
<1> QED BY <1>2, <1>3

LEMMA InvBegin ==
    ASSUME AccessInv, NEW p \in Requests, Begin(p)
    PROVE  AccessInv'
<1>1. PICK r \in AllRequests : Sound(r) /\ Started(p, r) /\ UNCHANGED <<staff, portal>>
  BY BeginIsSound DEF AccessInv
<1>2. AccessTypeOK'
  BY <1>1, StartedType DEF AccessInv
<1>3. Known'
  BY <1>1, StartedKnown DEF AccessInv
<1>4. Families'
  BY <1>1 DEF AccessInv, Families, Row, staff
<1>5. ExchangesOverlap'
  BY <1>1, StartedOverlap DEF AccessInv
<1>6. UsesAreCounted' /\ Unused'
  BY <1>1 DEF AccessInv, UsesAreCounted, Unused, LinkRow, portal
<1> QED BY <1>2, <1>3, <1>4, <1>5, <1>6 DEF AccessInv

----------------------------------------------------------------------------
(* A commit that leaves the sessions alone.                                *)

LEMMA DoneFields ==
    ASSUME AccessTypeOK, NEW p \in Requests, Done(p), NEW q \in Requests
    PROVE  request'[q] = request[q] \/ request'[q].kind = "idle"
BY DEF Done, AccessTypeOK, Idle

LEMMA DoneOverlap ==
    ASSUME AccessTypeOK, ExchangesOverlap, NEW p \in Requests, Done(p), session' = session
    PROVE  ExchangesOverlap'
<1> SUFFICES ASSUME NEW s \in Sessions
             PROVE  (Cardinality(ExchangedFor(s)) + Cardinality(Refreshing(s)) <= Cardinality(Requests))'
  BY DEF ExchangesOverlap
<1>1. ExchangedFor(s)' = ExchangedFor(s)
  BY DEF ExchangedFor, Row
<1>2. Refreshing(s)' \subseteq Refreshing(s)
  BY DoneFields DEF Refreshing
<1>3. Cardinality(Refreshing(s)') <= Cardinality(Refreshing(s)) /\ Cardinality(Refreshing(s)') \in Nat
  BY <1>2, RefreshesFit, FS_Subset, FS_CardinalityType
<1> QED BY <1>1, <1>3, RefreshesFit DEF ExchangesOverlap

LEMMA DoneKeeps ==
    ASSUME AccessInv, NEW p \in Requests, Done(p), session' = session,
           AccessTypeOK',
           \A l \in Links : LinkRow(l) => LinkRow(l)' /\ opened[l] <= opened[l]'
    PROVE  Known' /\ Families' /\ ExchangesOverlap'
<1>1. Known'
  <2> SUFFICES ASSUME NEW q \in Requests
               PROVE  /\ request'[q].kind \in {"refresh"} \cup TokenKinds
                           => session'[request'[q].session] # NoSession
                      /\ request'[q].kind \in {"revoke", "visit", "open"}
                           => link'[request'[q].link] # NoLink
                      /\ request'[q].kind = "open"
                           => request'[q].uses <= opened'[request'[q].link]
    BY DEF Known, Row, LinkRow
  <2>1. CASE request'[q] = request[q]
    <3>1. request[q] \in AllRequests
      BY DEF AccessInv, AccessTypeOK, AllRequests
    <3>2. request[q].kind \in {"refresh"} \cup TokenKinds => Row(request[q].session)
      BY DEF AccessInv, Known
    <3>3. request[q].kind \in {"revoke", "visit", "open"} => LinkRow(request[q].link) /\ request[q].link \in Links
      BY <3>1, RequestFields DEF AccessInv, Known
    <3>4. request[q].kind = "open" => /\ request[q].uses <= opened[request[q].link]
                                     /\ request[q].uses \in Nat
      BY <3>1, RequestFields DEF AccessInv, Known
    <3>5. \A l \in Links : opened[l] \in Nat /\ opened'[l] \in Nat
      BY DEF AccessInv, AccessTypeOK
    <3> QED BY <2>1, <3>2, <3>3, <3>4, <3>5 DEF Row, LinkRow
  <2>2. CASE request'[q].kind = "idle"
    BY <2>2 DEF TokenKinds
  <2> QED BY <2>1, <2>2, DoneFields DEF AccessInv
<1>2. Families'
  BY DEF AccessInv, Families, Row
<1>3. ExchangesOverlap'
  BY DoneOverlap DEF AccessInv
<1> QED BY <1>1, <1>2, <1>3

LEMMA InvUsers ==
    ASSUME AccessInv, NEW p \in Requests, UNCHANGED portal,
           \/ \E u \in Users, r \in Roles : CreateUser(p, u, r)
           \/ \E u \in Users, r \in Roles, on \in BOOLEAN : UpdateUser(p, u, r, on)
           \/ ProvisionCompany(p)
           \/ EndRequest(p)
    PROVE  AccessInv'
<1>1. Done(p) /\ session' = session
  BY DEF CreateUser, UpdateUser, ProvisionCompany, EndRequest, staff
<1>2. role' \in [Users -> Roles] /\ active' \subseteq Users
  BY StaffSessionsAssumption DEF AccessInv, AccessTypeOK, StaffTypeOK, CreateUser, UpdateUser,
     ProvisionCompany, CompanyCreated, EndRequest, staff, Roles, CompanyRoles, AdminRoles, GivenRoles
<1>3. AccessTypeOK'
  BY <1>1, <1>2, DoneType DEF AccessInv, AccessTypeOK, StaffTypeOK, portal, AllRequests
<1>4. \A l \in Links : LinkRow(l) => LinkRow(l)' /\ opened[l] <= opened[l]'
  BY DEF LinkRow, portal, AccessInv, AccessTypeOK
<1>5. Known' /\ Families' /\ ExchangesOverlap'
  BY <1>1, <1>3, <1>4, DoneKeeps
<1>6. UsesAreCounted' /\ Unused'
  BY DEF AccessInv, UsesAreCounted, Unused, LinkRow, portal
<1> QED BY <1>3, <1>5, <1>6 DEF AccessInv

----------------------------------------------------------------------------
(* The commits about links and customers.                                  *)

LEMMA LinkIsRow == \A x \in Link : x # NoLink
BY CustomerPortalAssumption

LEMMA InvCreateLink ==
    ASSUME AccessInv, NEW p \in Requests, NEW l \in Links, FinishCreateLink(p, l)
    PROVE  AccessInv'
<1> DEFINE new == [customer |-> request[p].customer, revoked |-> FALSE,
                   expired |-> FALSE, used |-> FALSE, uses |-> 0]
<1>1. request[p] \in AllRequests
  BY DEF AccessInv, AccessTypeOK, AllRequests
<1>2. request[p].customer \in Customers
  BY <1>1, RequestFields DEF FinishCreateLink
<1>3. new \in Link
  BY <1>2 DEF Link
<1>4. link' = [link EXCEPT ![l] = new] /\ opened' = opened /\ tokens' = tokens
  BY DEF FinishCreateLink
<1> HIDE DEF new
<1>5. AccessTypeOK'
  BY <1>3, <1>4, DoneType DEF FinishCreateLink, AccessInv, AccessTypeOK, StaffTypeOK, staff, AllRequests
<1>6. \A k \in Links : LinkRow(k) => LinkRow(k)' /\ opened[k] <= opened[k]'
  BY <1>3, <1>4, LinkIsRow DEF LinkRow, AccessInv, AccessTypeOK
<1>7. Known' /\ Families' /\ ExchangesOverlap'
  BY <1>5, <1>6, DoneKeeps DEF FinishCreateLink, staff
<1>8. UsesAreCounted'
  <2> SUFFICES ASSUME NEW k \in Links, LinkRow(k)'
               PROVE  (/\ link[k].uses <= opened[k]
                       /\ opened[k] > 0 => link[k].uses > 0
                       /\ link[k].used <=> opened[k] > 0)'
    BY DEF UsesAreCounted
  <2>1. CASE k = l
    <3>1. link'[k] = new /\ opened'[k] = 0
      BY <2>1, <1>4 DEF AccessInv, AccessTypeOK, Unused, FinishCreateLink
    <3> QED BY <3>1 DEF new
  <2>2. CASE k # l
    <3>1. link'[k] = link[k] /\ opened'[k] = opened[k]
      BY <2>2, <1>4 DEF AccessInv, AccessTypeOK
    <3> QED BY <3>1 DEF AccessInv, UsesAreCounted, LinkRow
  <2> QED BY <2>1, <2>2
<1>9. Unused'
  BY <1>3, <1>4, LinkIsRow DEF AccessInv, AccessTypeOK, Unused, LinkRow
<1> QED BY <1>5, <1>7, <1>8, <1>9 DEF AccessInv

LEMMA InvRevokeOrArchive ==
    ASSUME AccessInv, NEW p \in Requests,
           FinishRevokeLink(p) \/ \E c \in Customers : ArchiveCustomer(p, c)
    PROVE  AccessInv'
<1>1. /\ Done(p) /\ session' = session /\ role' = role /\ active' = active
      /\ archived' \subseteq Customers /\ tokens' = tokens /\ opened' = opened
  BY DEF AccessInv, AccessTypeOK, FinishRevokeLink, ArchiveCustomer, staff
<1>2. link' \in [Links -> Link \cup {NoLink}]
      /\ \A k \in Links : /\ LinkRow(k)' <=> LinkRow(k)
                          /\ LinkRow(k) => link'[k].uses = link[k].uses /\ link'[k].used = link[k].used
  <2>1. CASE link' = link
    BY <2>1 DEF AccessInv, AccessTypeOK, LinkRow
  <2>2. CASE FinishRevokeLink(p)
    <3> DEFINE l == request[p].link
    <3>1. request[p] \in AllRequests /\ request[p].kind = "revoke"
      BY <2>2 DEF AccessInv, AccessTypeOK, AllRequests, FinishRevokeLink
    <3>2. l \in Links /\ LinkRow(l)
      BY <3>1, RequestFields DEF AccessInv, Known
    <3>3. link' = [link EXCEPT ![l].revoked = TRUE]
      BY <2>2 DEF FinishRevokeLink
    <3>4. [link[l] EXCEPT !.revoked = TRUE] \in Link
      BY <3>2, LinkFields DEF Link, AccessInv
    <3> HIDE DEF l
    <3>5. link' = [link EXCEPT ![l] = [link[l] EXCEPT !.revoked = TRUE]]
      BY <3>3
    <3>6. /\ [link[l] EXCEPT !.revoked = TRUE].uses = link[l].uses
          /\ [link[l] EXCEPT !.revoked = TRUE].used = link[l].used
      BY <3>2, LinkFields DEF Link, AccessInv
    <3> QED BY <3>2, <3>4, <3>5, <3>6, LinkIsRow DEF AccessInv, AccessTypeOK, LinkRow
  <2> QED BY <2>1, <2>2 DEF ArchiveCustomer
<1>3. AccessTypeOK'
  BY <1>1, <1>2, DoneType DEF AccessInv, AccessTypeOK, StaffTypeOK, AllRequests
<1>4. Known' /\ Families' /\ ExchangesOverlap'
  <2>1. \A k \in Links : LinkRow(k) => LinkRow(k)' /\ opened[k] <= opened[k]'
    <3>1. \A k \in Links : opened[k] \in Nat
      BY DEF AccessInv, AccessTypeOK
    <3> QED BY <1>1, <1>2, <3>1
  <2> QED BY <1>1, <1>3, <2>1, DoneKeeps
<1>5. UsesAreCounted' /\ Unused'
  BY <1>1, <1>2 DEF AccessInv, UsesAreCounted, Unused, LinkRow
<1> QED BY <1>3, <1>4, <1>5 DEF AccessInv

LEMMA InvFinishOpen ==
    ASSUME AccessInv, NEW p \in Requests, FinishOpen(p)
    PROVE  AccessInv'
<1> DEFINE l == request[p].link
           n == request[p].uses + 1
           new == [link[l] EXCEPT !.used = TRUE, !.uses = n]
<1>1. request[p] \in AllRequests /\ request[p].kind = "open"
  BY DEF AccessInv, AccessTypeOK, AllRequests, FinishOpen
<1>2. /\ l \in Links /\ LinkRow(l)
      /\ request[p].uses \in Nat /\ request[p].uses <= opened[l]
  BY <1>1, RequestFields DEF AccessInv, Known
<1>3. n \in Nat /\ n > 0 /\ n <= opened[l] + 1 /\ opened[l] \in Nat
  BY <1>2 DEF AccessInv, AccessTypeOK
<1>4. link' = [link EXCEPT ![l].used = TRUE, ![l].uses = n]
      /\ opened' = [opened EXCEPT ![l] = @ + 1] /\ tokens' = tokens \cup {l}
      /\ Done(p) /\ archived' = archived
      /\ role' = role /\ active' = active /\ session' = session
  BY DEF FinishOpen, staff
<1>5. new \in Link /\ new.used = TRUE /\ new.uses = n
  BY <1>2, <1>3, LinkFields DEF Link, AccessInv
<1>6. link \in [Links -> Link \cup {NoLink}]
  BY DEF AccessInv, AccessTypeOK
<1>7. link' = [link EXCEPT ![l] = new]
  BY <1>2, <1>4, <1>6
<1> HIDE DEF l, n, new
<1>8. AccessTypeOK'
  <2>1. link' \in [Links -> Link \cup {NoLink}] /\ tokens' \subseteq Links
    BY <1>2, <1>4, <1>5, <1>6, <1>7 DEF AccessInv, AccessTypeOK
  <2>2. opened' \in [Links -> Nat]
    BY <1>2, <1>4 DEF AccessInv, AccessTypeOK
  <2> QED BY <1>4, <2>1, <2>2, DoneType DEF AccessInv, AccessTypeOK, StaffTypeOK, AllRequests
<1>9. \A k \in Links : LinkRow(k) => LinkRow(k)' /\ opened[k] <= opened[k]'
  <2>1. \A k \in Links : opened'[k] = IF k = l THEN opened[k] + 1 ELSE opened[k]
    BY <1>4 DEF AccessInv, AccessTypeOK
  <2>2. \A k \in Links : opened[k] \in Nat
    BY DEF AccessInv, AccessTypeOK
  <2> QED BY <1>5, <1>6, <1>7, <2>1, <2>2, LinkIsRow DEF LinkRow
<1>10. Known' /\ Families' /\ ExchangesOverlap'
  BY <1>4, <1>8, <1>9, DoneKeeps
<1>11. UsesAreCounted'
  <2> SUFFICES ASSUME NEW k \in Links, LinkRow(k)'
               PROVE  (/\ link[k].uses <= opened[k]
                       /\ opened[k] > 0 => link[k].uses > 0
                       /\ link[k].used <=> opened[k] > 0)'
    BY DEF UsesAreCounted
  <2>1. CASE k = l
    <3>1. link'[k] = new /\ opened'[k] = opened[l] + 1
      BY <2>1, <1>2, <1>4, <1>6, <1>7 DEF AccessInv, AccessTypeOK
    <3> QED BY <3>1, <1>3, <1>5
  <2>2. CASE k # l
    <3>1. link'[k] = link[k] /\ opened'[k] = opened[k]
      BY <2>2, <1>4, <1>6, <1>7 DEF AccessInv, AccessTypeOK
    <3> QED BY <3>1 DEF AccessInv, UsesAreCounted, LinkRow
  <2> QED BY <2>1, <2>2
<1>12. Unused'
  <2> SUFFICES ASSUME NEW k \in Links, ~LinkRow(k)'
               PROVE  opened'[k] = 0 /\ k \notin tokens'
    BY DEF Unused
  <2>1. ~LinkRow(k) /\ k # l
    BY <1>2, <1>9
  <2> QED BY <2>1, <1>4 DEF AccessInv, AccessTypeOK, Unused
<1> QED BY <1>8, <1>10, <1>11, <1>12 DEF AccessInv

----------------------------------------------------------------------------
(* Time passes for links.                                                  *)

LEMMA InvExpire ==
    ASSUME AccessInv, NEW l \in Links, ExpireLink(l) \/ ExpireTokens(l)
    PROVE  AccessInv'
<1>1. UNCHANGED <<staff, request, archived, opened>> /\ tokens' \subseteq tokens
  BY DEF ExpireLink, ExpireTokens
<1>2. link' \in [Links -> Link \cup {NoLink}]
      /\ \A k \in Links : /\ LinkRow(k)' <=> LinkRow(k)
                          /\ LinkRow(k) => link'[k].uses = link[k].uses /\ link'[k].used = link[k].used
  <2>1. CASE link' = link
    BY <2>1 DEF AccessInv, AccessTypeOK, LinkRow
  <2>2. CASE ExpireLink(l)
    <3>1. LinkRow(l) /\ link' = [link EXCEPT ![l] = [link[l] EXCEPT !.expired = TRUE]]
      BY <2>2 DEF ExpireLink
    <3>2. /\ [link[l] EXCEPT !.expired = TRUE] \in Link
          /\ [link[l] EXCEPT !.expired = TRUE].uses = link[l].uses
          /\ [link[l] EXCEPT !.expired = TRUE].used = link[l].used
      BY <3>1, LinkFields DEF Link, AccessInv
    <3> QED BY <3>1, <3>2, LinkIsRow DEF AccessInv, AccessTypeOK, LinkRow
  <2> QED BY <2>1, <2>2 DEF ExpireTokens
<1>3. AccessTypeOK'
  BY <1>1, <1>2 DEF AccessInv, AccessTypeOK, StaffTypeOK, staff
<1>4. Known'
  <2> SUFFICES ASSUME NEW q \in Requests
               PROVE  /\ request[q].kind \in {"refresh"} \cup TokenKinds => Row(request[q].session)
                      /\ request[q].kind \in {"revoke", "visit", "open"}
                           => link'[request[q].link] # NoLink
                      /\ request[q].kind = "open" => request[q].uses <= opened[request[q].link]
    BY <1>1 DEF Known, Row, LinkRow, staff
  <2>1. request[q] \in AllRequests
    BY DEF AccessInv, AccessTypeOK, AllRequests
  <2>2. request[q].kind \in {"revoke", "visit", "open"} => link[request[q].link] # NoLink /\ request[q].link \in Links
    BY <2>1, RequestFields DEF AccessInv, Known, LinkRow
  <2> QED BY <1>2, <2>2 DEF AccessInv, Known, LinkRow
<1>5. Families' /\ ExchangesOverlap'
  BY <1>1 DEF AccessInv, Families, ExchangesOverlap, ExchangedFor, Refreshing, Row, staff
<1>6. UsesAreCounted' /\ Unused'
  BY <1>1, <1>2 DEF AccessInv, UsesAreCounted, Unused, LinkRow
<1> QED BY <1>3, <1>4, <1>5, <1>6 DEF AccessInv

----------------------------------------------------------------------------
(* Sessions are opened.                                                    *)

LEMMA SessionIsRow == \A x \in Session : x # NoSession
BY NoSessionAssumption

LEMMA InvLogin ==
    ASSUME AccessInv, NEW u \in Users, NEW f \in Sessions, ~Row(f),
           session' = [session EXCEPT ![f] = NewSession(u, f, f)],
           UNCHANGED portal, AccessTypeOK',
           \A q \in Requests : request'[q] = request[q] \/ request'[q].kind = "idle"
    PROVE  AccessInv'
<1> DEFINE new == NewSession(u, f, f)
<1>1. new \in Session /\ new.from = f /\ new.login = f /\ new # NoSession
  <2>1. new \in Session /\ new.from = f /\ new.login = f
    BY NewSessionFields, ZenonT(30)
  <2> QED BY <2>1, SessionIsRow
<1>2. session \in [Sessions -> Session \cup {NoSession}]
  BY DEF AccessInv, AccessTypeOK, StaffTypeOK
<1>3. \A s \in Sessions : session'[s] = IF s = f THEN new ELSE session[s]
  BY <1>2
<1> HIDE DEF new
<1>4. \A s \in Sessions : Row(s)' <=> Row(s) \/ s = f
  BY <1>1, <1>3 DEF Row
<1>5. Known'
  <2> SUFFICES ASSUME NEW q \in Requests
               PROVE  /\ request'[q].kind \in {"refresh"} \cup TokenKinds
                           => session'[request'[q].session] # NoSession
                      /\ request'[q].kind \in {"revoke", "visit", "open"}
                           => link[request'[q].link] # NoLink
                      /\ request'[q].kind = "open"
                           => request'[q].uses <= opened[request'[q].link]
    BY DEF Known, Row, LinkRow, portal
  <2>1. CASE request'[q] = request[q]
    <3>1. request[q] \in AllRequests
      BY DEF AccessInv, AccessTypeOK, AllRequests
    <3>2. request[q].kind \in {"refresh"} \cup TokenKinds
            => Row(request[q].session) /\ request[q].session \in Sessions
      BY <3>1, RequestFields DEF AccessInv, Known
    <3> QED BY <2>1, <3>2, <1>4 DEF AccessInv, Known, Row, LinkRow
  <2>2. CASE request'[q].kind = "idle"
    BY <2>2 DEF TokenKinds
  <2> QED BY <2>1, <2>2
<1>6. Families'
  <2> SUFFICES ASSUME NEW t \in Sessions, Row(t)'
               PROVE  /\ session'[session'[t].from] # NoSession
                      /\ session'[session'[t].login] # NoSession
                      /\ session'[t].from # t => session'[session'[t].from].revoked
    BY DEF Families, Row
  <2>1. CASE t = f
    BY <2>1, <1>1, <1>3
  <2>2. CASE t # f
    <3>1. Row(t) /\ session'[t] = session[t]
      BY <2>2, <1>3, <1>4
    <3>2. session[t].from \in Sessions /\ session[t].login \in Sessions
      BY <3>1, SessionFields DEF AccessInv
    <3> QED BY <3>1, <3>2, <1>3, <1>4 DEF AccessInv, Families, Row
  <2> QED BY <2>1, <2>2
<1>7. ExchangesOverlap'
  <2> SUFFICES ASSUME NEW s \in Sessions
               PROVE  (Cardinality(ExchangedFor(s)) + Cardinality(Refreshing(s)) <= Cardinality(Requests))'
    BY DEF ExchangesOverlap
  <2>1. ExchangedFor(s)' = ExchangedFor(s)
    BY <1>1, <1>3, <1>4 DEF ExchangedFor
  <2>2. Refreshing(s)' \subseteq Refreshing(s)
    BY DEF Refreshing
  <2>3. Cardinality(Refreshing(s)') <= Cardinality(Refreshing(s)) /\ Cardinality(Refreshing(s)') \in Nat
    BY <2>2, RefreshesFit, FS_Subset, FS_CardinalityType
  <2> QED BY <2>1, <2>3, RefreshesFit DEF AccessInv, ExchangesOverlap
<1>8. UsesAreCounted' /\ Unused'
  BY DEF AccessInv, UsesAreCounted, Unused, LinkRow, portal
<1> QED BY <1>5, <1>6, <1>7, <1>8 DEF AccessInv

LEMMA InvOpenSession ==
    ASSUME AccessInv, UNCHANGED portal,
           RegisterCompany \/ \E p \in Requests : FinishLogin(p)
    PROVE  AccessInv'
<1>1. CASE RegisterCompany
  <2>1. Fresh \in Sessions /\ ~Row(Fresh) /\ Owner \in Users
    BY <1>1, FreshSession, StaffSessionsAssumption DEF RegisterCompany
  <2>2. session' = [session EXCEPT ![Fresh] = NewSession(Owner, Fresh, Fresh)] /\ request' = request
    BY <1>1 DEF RegisterCompany
  <2>3. NewSession(Owner, Fresh, Fresh) \in Session
    BY <2>1, NewSessionFields
  <2>4. role' \in [Users -> Roles] /\ active' \subseteq Users
    BY <1>1, <2>1 DEF RegisterCompany, CompanyCreated, AccessInv, AccessTypeOK, StaffTypeOK,
       Roles, CompanyRoles, AdminRoles
  <2>5. AccessTypeOK'
    BY <2>1, <2>2, <2>3, <2>4 DEF AccessInv, AccessTypeOK, StaffTypeOK, portal
  <2> QED BY <2>1, <2>2, <2>5, InvLogin
<1>2. ASSUME NEW p \in Requests, FinishLogin(p) PROVE AccessInv'
  <2> DEFINE u == request[p].user
  <2>1. Fresh \in Sessions /\ ~Row(Fresh)
    BY <1>2, FreshSession DEF FinishLogin
  <2>2. u \in Users
    BY <1>2, RequestFields DEF FinishLogin, AccessInv, AccessTypeOK, AllRequests
  <2>3. /\ session' = [session EXCEPT ![Fresh] = NewSession(u, Fresh, Fresh)]
        /\ Done(p) /\ role' = role /\ active' = active
    BY <1>2 DEF FinishLogin
  <2> HIDE DEF u
  <2>4. NewSession(u, Fresh, Fresh) \in Session
    BY <2>1, <2>2, NewSessionFields
  <2>5. AccessTypeOK'
    BY <2>1, <2>3, <2>4, DoneType DEF AccessInv, AccessTypeOK, StaffTypeOK, AllRequests, portal
  <2>6. \A q \in Requests : request'[q] = request[q] \/ request'[q].kind = "idle"
    BY <2>3, DoneFields DEF AccessInv
  <2> QED BY <2>1, <2>2, <2>3, <2>5, <2>6, InvLogin
<1> QED BY <1>1, <1>2

LEMMA InvFinishRefresh ==
    ASSUME AccessInv, NEW p \in Requests, FinishRefresh(p), UNCHANGED portal
    PROVE  AccessInv'
<1> DEFINE old == request[p].session
           f == Fresh
           gone == [session[old] EXCEPT !.revoked = TRUE]
           new == NewSession(session[old].user, old, session[old].login)
<1>1. request[p] \in AllRequests /\ request[p].kind = "refresh"
  BY DEF AccessInv, AccessTypeOK, AllRequests, FinishRefresh
<1>2. old \in Sessions /\ Row(old)
  BY <1>1, RequestFields DEF AccessInv, Known
<1>3. f \in Sessions /\ ~Row(f)
  BY FreshSession DEF FinishRefresh
<1>4. session \in [Sessions -> Session \cup {NoSession}]
  BY DEF AccessInv, AccessTypeOK, StaffTypeOK
<1>5. /\ gone \in Session /\ gone.from = session[old].from /\ gone.login = session[old].login
      /\ gone.revoked = TRUE
  BY <1>2, SessionFields DEF Session, AccessInv
<1>6. /\ new \in Session /\ new.from = old /\ new.login = session[old].login
      /\ session[old].login \in Sessions /\ session[old].from \in Sessions
  <2>1. /\ session[old].user \in Users
        /\ session[old].login \in Sessions /\ session[old].from \in Sessions
    BY <1>2, SessionFields DEF AccessInv
  <2> QED BY <2>1, <1>2, NewSessionFields DEF NewSession
<1>7. session' = [session EXCEPT ![old].revoked = TRUE, ![f] = new]
      /\ Done(p) /\ role' = role /\ active' = active
  BY DEF FinishRefresh
<1>8. \A s \in Sessions : session'[s] = IF s = f THEN new ELSE IF s = old THEN gone ELSE session[s]
  BY <1>2, <1>3, <1>4, <1>7 DEF Row
<1>9. session' \in [Sessions -> Session \cup {NoSession}]
  <2>1. session' = [[session EXCEPT ![old] = gone] EXCEPT ![f] = new]
    BY <1>2, <1>4, <1>7
  <2> QED BY <2>1, <1>4, <1>5, <1>6
<1> HIDE DEF old, f, gone, new
<1>10. AccessTypeOK'
  BY <1>7, <1>9, DoneType DEF AccessInv, AccessTypeOK, StaffTypeOK, AllRequests, portal
<1>11. gone # NoSession /\ new # NoSession
  BY <1>5, <1>6, SessionIsRow
<1>12. \A s \in Sessions : Row(s)' <=> Row(s) \/ s = f
  BY <1>2, <1>8, <1>11 DEF Row
<1>13. \A q \in Requests : request'[q] = request[q] \/ request'[q].kind = "idle"
  BY <1>7, DoneFields DEF AccessInv
<1>14. Known'
  <2> SUFFICES ASSUME NEW q \in Requests
               PROVE  /\ request'[q].kind \in {"refresh"} \cup TokenKinds
                           => session'[request'[q].session] # NoSession
                      /\ request'[q].kind \in {"revoke", "visit", "open"}
                           => link[request'[q].link] # NoLink
                      /\ request'[q].kind = "open"
                           => request'[q].uses <= opened[request'[q].link]
    BY DEF Known, Row, LinkRow, portal
  <2>1. CASE request'[q] = request[q]
    <3>1. request[q] \in AllRequests
      BY DEF AccessInv, AccessTypeOK, AllRequests
    <3>2. request[q].kind \in {"refresh"} \cup TokenKinds
            => Row(request[q].session) /\ request[q].session \in Sessions
      BY <3>1, RequestFields DEF AccessInv, Known
    <3> QED BY <2>1, <3>2, <1>12 DEF AccessInv, Known, Row, LinkRow
  <2>2. CASE request'[q].kind = "idle"
    BY <2>2 DEF TokenKinds
  <2> QED BY <2>1, <2>2, <1>13
<1>15. Families'
  <2> SUFFICES ASSUME NEW t \in Sessions, Row(t)'
               PROVE  /\ session'[session'[t].from] # NoSession
                      /\ session'[session'[t].login] # NoSession
                      /\ session'[t].from # t => session'[session'[t].from].revoked
    BY DEF Families, Row
  <2>0. old # f
    BY <1>2, <1>3
  <2>1. CASE t = f
    <3>1. Row(session[old].login)
      BY <1>2 DEF AccessInv, Families
    <3> QED BY <2>0, <2>1, <3>1, <1>2, <1>3, <1>5, <1>6, <1>8, <1>11, <1>12 DEF Row
  <2>2. CASE t # f
    <3>1. Row(t) /\ session'[t].from = session[t].from /\ session'[t].login = session[t].login
      BY <2>2, <1>5, <1>8, <1>12
    <3>2. session[t].from \in Sessions /\ session[t].login \in Sessions
      BY <3>1, SessionFields DEF AccessInv
    <3>3. Row(session[t].from) /\ Row(session[t].login)
      BY <3>1 DEF AccessInv, Families
    <3>4. session[t].from # t => session'[session[t].from].revoked
      <4>1. session[t].from # t => session[session[t].from].revoked
        BY <3>1 DEF AccessInv, Families
      <4>2. session[t].from # f
        BY <3>3, <1>3
      <4> QED BY <4>1, <4>2, <3>2, <1>5, <1>8
    <3> QED BY <3>1, <3>2, <3>3, <3>4, <1>12 DEF Row
  <2> QED BY <2>1, <2>2
<1>16. ExchangesOverlap'
  <2> SUFFICES ASSUME NEW s \in Sessions
               PROVE  (Cardinality(ExchangedFor(s)) + Cardinality(Refreshing(s)) <= Cardinality(Requests))'
    BY DEF ExchangesOverlap
  <2>1. Refreshing(s)' \subseteq Refreshing(s)
    BY <1>13 DEF Refreshing
  <2>2. Cardinality(Refreshing(s)') <= Cardinality(Refreshing(s)) /\ Cardinality(Refreshing(s)') \in Nat
    BY <2>1, RefreshesFit, FS_Subset, FS_CardinalityType
  <2>3. CASE s # old
    <3>1. ExchangedFor(s)' = ExchangedFor(s)
      BY <2>3, <1>2, <1>3, <1>5, <1>6, <1>8, <1>12 DEF ExchangedFor
    <3> QED BY <3>1, <2>2, RefreshesFit DEF AccessInv, ExchangesOverlap
  <2>4. CASE s = old
    <3>1. ExchangedFor(s)' = ExchangedFor(s) \cup {f} /\ f \notin ExchangedFor(s)
      BY <2>4, <1>2, <1>3, <1>5, <1>6, <1>8, <1>12 DEF ExchangedFor
    <3>2. Cardinality(ExchangedFor(s)') = Cardinality(ExchangedFor(s)) + 1
      BY <3>1, RefreshesFit, FS_AddElement
    <3>3. p \in Refreshing(s) /\ p \notin Refreshing(s)'
      BY <2>4, <1>1, <1>7 DEF Refreshing, Done, Idle, old, AccessInv, AccessTypeOK
    <3>4. Refreshing(s)' \subseteq Refreshing(s) \ {p}
      BY <2>1, <3>3
    <3>5. /\ IsFiniteSet(Refreshing(s) \ {p})
          /\ Cardinality(Refreshing(s) \ {p}) = Cardinality(Refreshing(s)) - 1
      BY <3>3, RefreshesFit, FS_RemoveElement
    <3>6. Cardinality(Refreshing(s)') <= Cardinality(Refreshing(s)) - 1
      BY <3>4, <3>5, FS_Subset
    <3> QED BY <3>2, <3>6, <2>2, RefreshesFit DEF AccessInv, ExchangesOverlap
  <2> QED BY <2>3, <2>4
<1>17. UsesAreCounted' /\ Unused'
  BY DEF AccessInv, UsesAreCounted, Unused, LinkRow, portal
<1> QED BY <1>10, <1>14, <1>15, <1>16, <1>17 DEF AccessInv

\* Logout and Age: one session is revoked or grows older.
Spent(s, new) ==
    /\ s \in Sessions /\ Row(s)
    /\ new \in Session
    /\ new.user = session[s].user /\ new.from = session[s].from
    /\ new.login = session[s].login
    /\ session[s].revoked => new.revoked
    /\ session[s].age <= new.age
    /\ session' = [session EXCEPT ![s] = new]

LEMMA Spending ==
    ASSUME AccessTypeOK, NEW s \in Sessions, Logout(s) \/ Age(s)
    PROVE  /\ \E new \in Session : Spent(s, new)
           /\ UNCHANGED <<role, active, request>>
<1>1. CASE Logout(s)
  <2> DEFINE new == [session[s] EXCEPT !.revoked = TRUE]
  <2>1. Row(s) /\ session' = [session EXCEPT ![s] = new]
    BY <1>1 DEF Logout
  <2>2. session[s] \in Session
    BY <2>1, SessionFields
  <2>3. /\ new \in Session /\ new.user = session[s].user /\ new.from = session[s].from
        /\ new.login = session[s].login /\ new.revoked = TRUE /\ new.age = session[s].age
    BY <2>2 DEF Session
  <2>4. session[s].age \in Nat
    BY <2>2 DEF Session, SessionAge
  <2> HIDE DEF new
  <2>5. Spent(s, new)
    BY <2>1, <2>3, <2>4 DEF Spent
  <2> QED BY <1>1, <2>3, <2>5 DEF Logout
<1>2. CASE Age(s)
  <2> DEFINE new == [session[s] EXCEPT !.age = @ + 1]
  <2>1. Row(s) /\ session' = [session EXCEPT ![s] = new] /\ session[s].age < SessionAge
    BY <1>2 DEF Age
  <2>2. session[s] \in Session
    BY <2>1, SessionFields
  <2>3. session[s].age \in 0..SessionAge
    BY <2>2 DEF Session
  <2>4. session[s].age + 1 \in 0..SessionAge /\ session[s].age <= session[s].age + 1
    BY <2>1, <2>3 DEF SessionAge
  <2>5. /\ new \in Session /\ new.user = session[s].user /\ new.from = session[s].from
        /\ new.login = session[s].login /\ new.revoked = session[s].revoked
        /\ new.age = session[s].age + 1
    BY <2>2, <2>4 DEF Session
  <2> HIDE DEF new
  <2>6. Spent(s, new)
    BY <2>1, <2>4, <2>5 DEF Spent
  <2> QED BY <1>2, <2>5, <2>6 DEF Age
<1> QED BY <1>1, <1>2

LEMMA InvSpent ==
    ASSUME AccessInv, NEW s \in Sessions, Logout(s) \/ Age(s), UNCHANGED portal
    PROVE  AccessInv'
<1>1. UNCHANGED <<role, active, request>>
  BY Spending DEF AccessInv
<1>2. PICK new \in Session : Spent(s, new)
  BY Spending DEF AccessInv
<1>3. session \in [Sessions -> Session \cup {NoSession}]
  BY DEF AccessInv, AccessTypeOK, StaffTypeOK
<1>4. AccessTypeOK'
  BY <1>1, <1>2, <1>3 DEF Spent, AccessInv, AccessTypeOK, StaffTypeOK, portal
<1>5. new # NoSession
  BY SessionIsRow
<1>6. \A t \in Sessions :
        /\ Row(t)' <=> Row(t)
        /\ session'[t].from = session[t].from /\ session'[t].login = session[t].login
        /\ session[t].revoked => session'[t].revoked
  BY <1>2, <1>3, <1>5 DEF Spent, Row
<1>7. Known'
  <2> SUFFICES ASSUME NEW q \in Requests
               PROVE  /\ request'[q].kind \in {"refresh"} \cup TokenKinds
                           => session'[request'[q].session] # NoSession
                      /\ request'[q].kind \in {"revoke", "visit", "open"}
                           => link[request'[q].link] # NoLink
                      /\ request'[q].kind = "open"
                           => request'[q].uses <= opened[request'[q].link]
    BY DEF Known, Row, LinkRow, portal
  <2>1. request[q] \in AllRequests /\ request'[q] = request[q]
    BY <1>1 DEF AccessInv, AccessTypeOK, AllRequests
  <2>2. request[q].kind \in {"refresh"} \cup TokenKinds
          => Row(request[q].session) /\ request[q].session \in Sessions
    BY <2>1, RequestFields DEF AccessInv, Known
  <2> QED BY <2>1, <2>2, <1>6 DEF AccessInv, Known, Row, LinkRow
<1>8. Families'
  <2> SUFFICES ASSUME NEW t \in Sessions, Row(t)'
               PROVE  /\ session'[session'[t].from] # NoSession
                      /\ session'[session'[t].login] # NoSession
                      /\ session'[t].from # t => session'[session'[t].from].revoked
    BY DEF Families, Row
  <2>1. Row(t) /\ session'[t].from = session[t].from /\ session'[t].login = session[t].login
    BY <1>6
  <2>2. session[t].from \in Sessions /\ session[t].login \in Sessions
    BY <2>1, SessionFields DEF AccessInv
  <2>3. /\ Row(session[t].from) /\ Row(session[t].login)
        /\ session[t].from # t => session[session[t].from].revoked
    BY <2>1 DEF AccessInv, Families
  <2> QED BY <2>1, <2>2, <2>3, <1>6 DEF Row
<1>9. ExchangesOverlap'
  <2>1. \A t \in Sessions : ExchangedFor(t)' = ExchangedFor(t) /\ Refreshing(t)' = Refreshing(t)
    BY <1>1, <1>6 DEF ExchangedFor, Refreshing
  <2> QED BY <2>1 DEF AccessInv, ExchangesOverlap
<1>10. UsesAreCounted' /\ Unused'
  BY DEF AccessInv, UsesAreCounted, Unused, LinkRow, portal
<1> QED BY <1>4, <1>7, <1>8, <1>9, <1>10 DEF AccessInv

----------------------------------------------------------------------------
(* The invariant and what follows from it.                                 *)

\* Every step is one of these.
LEMMA Steps ==
    ASSUME Next
    PROVE  \/ \E p \in Requests : Begin(p)
           \/ \E p \in Requests : StaffCommit(p) /\ UNCHANGED portal
           \/ \E p \in Requests : PortalCommit(p)
           \/ \E s \in Sessions : (Logout(s) \/ Age(s)) /\ UNCHANGED portal
           \/ RegisterCompany /\ UNCHANGED portal
           \/ \E l \in Links : ExpireLink(l) \/ ExpireTokens(l)
BY DEF Next, StaffStep, PortalStep, Begin

LEMMA InvNext ==
    ASSUME AccessInv, [Next]_vars
    PROVE  AccessInv'
<1>1. ASSUME NEW p \in Requests, StaffCommit(p), UNCHANGED portal PROVE AccessInv'
  BY <1>1, InvOpenSession, InvFinishRefresh, InvUsers DEF StaffCommit
<1>2. ASSUME NEW p \in Requests, PortalCommit(p) PROVE AccessInv'
  BY <1>2, InvCreateLink, InvRevokeOrArchive, InvFinishOpen DEF PortalCommit
<1>3. CASE UNCHANGED vars
  BY <1>3 DEF vars, AccessInv, AccessTypeOK, StaffTypeOK, Known, Families, ExchangesOverlap,
     ExchangedFor, Refreshing, UsesAreCounted, Unused, Row, LinkRow
<1>4. CASE Next
  BY <1>1, <1>2, <1>4, Steps, InvBegin, InvSpent, InvOpenSession, InvExpire
<1> QED BY <1>3, <1>4

THEOREM AccessInvHolds == Spec => []AccessInv
<1>1. Init => AccessInv
  BY InvInit
<1>2. AccessInv /\ [Next]_vars => AccessInv'
  BY InvNext
<1> QED BY <1>1, <1>2, PTL DEF Spec

\* The type of all variables.
THEOREM AccessTypeHolds == Spec => []AccessTypeOK
<1>1. AccessInv => AccessTypeOK
  BY DEF AccessInv
<1> QED BY <1>1, AccessInvHolds, PTL

\* A refresh token is exchanged at most as often as requests with it can
\* overlap, for any number of requests served at one time.
THEOREM ExchangesOnlyOverlap == Spec => []ExchangesOverlap
<1>1. AccessInv => ExchangesOverlap
  BY DEF AccessInv
<1> QED BY <1>1, AccessInvHolds, PTL

\* use_count is never more than the uses there have been, and 0 only before
\* the first.
THEOREM UsesCounted == Spec => []UsesAreCounted
<1>1. AccessInv => UsesAreCounted
  BY DEF AccessInv
<1> QED BY <1>1, AccessInvHolds, PTL

----------------------------------------------------------------------------
(* What a step can do to a request, a session and a link.                  *)

LEMMA RequestSteps ==
    ASSUME AccessInv, [Next]_vars, NEW q \in Requests
    PROVE  \/ request'[q] = request[q]
           \/ request'[q] = Idle
           \/ Sound(request'[q]) /\ request'[q] \in AllRequests /\ UNCHANGED <<staff, portal>>
<1>0. request \in [Requests -> AllRequests]
  BY DEF AccessInv, AccessTypeOK, AllRequests
<1>1. ASSUME NEW p \in Requests, Begin(p)
      PROVE  \/ request'[q] = request[q]
             \/ Sound(request'[q]) /\ request'[q] \in AllRequests /\ UNCHANGED <<staff, portal>>
  <2>1. PICK r \in AllRequests : Sound(r) /\ Started(p, r) /\ UNCHANGED <<staff, portal>>
    BY <1>1, BeginIsSound DEF AccessInv
  <2>2. request'[q] = IF q = p THEN r ELSE request[q]
    BY <1>0, <2>1 DEF Started
  <2> QED BY <2>1, <2>2
<1>2. ASSUME NEW p \in Requests, Done(p) PROVE request'[q] = request[q] \/ request'[q] = Idle
  BY <1>0, <1>2 DEF Done
<1>3. ASSUME NEW p \in Requests, StaffCommit(p) \/ PortalCommit(p) PROVE Done(p)
  BY <1>3 DEF StaffCommit, PortalCommit, FinishLogin, FinishRefresh, CreateUser, UpdateUser,
     ProvisionCompany, EndRequest, FinishCreateLink, FinishRevokeLink, ArchiveCustomer, FinishOpen
<1>4. CASE UNCHANGED vars
  BY <1>4 DEF vars
<1>5. CASE \/ \E s \in Sessions : Logout(s) \/ Age(s)
           \/ RegisterCompany
           \/ \E l \in Links : ExpireLink(l) \/ ExpireTokens(l)
  BY <1>5 DEF Logout, Age, RegisterCompany, ExpireLink, ExpireTokens
<1> QED BY <1>1, <1>2, <1>3, <1>4, <1>5, Steps

LEMMA LinkSteps ==
    ASSUME AccessInv, [Next]_vars, NEW l \in Links, LinkRow(l)
    PROVE  /\ LinkRow(l)' /\ link'[l].customer = link[l].customer
           /\ link[l].revoked => link'[l].revoked
           /\ link[l].expired => link'[l].expired
           /\ archived \subseteq archived'
<1>0. link \in [Links -> Link \cup {NoLink}] /\ link[l] \in Link
  BY LinkFields DEF AccessInv, AccessTypeOK
<1>1. CASE link' = link /\ archived \subseteq archived'
  BY <1>1 DEF LinkRow
<1>2. CASE \E p \in Requests, k \in Links : FinishCreateLink(p, k)
  BY <1>0, <1>2 DEF FinishCreateLink, LinkRow
<1>3. ASSUME NEW p \in Requests, FinishRevokeLink(p)
      PROVE  /\ LinkRow(l)' /\ link'[l].customer = link[l].customer
             /\ link[l].revoked => link'[l].revoked
             /\ link[l].expired => link'[l].expired
             /\ archived \subseteq archived'
  <2> DEFINE new == [link[l] EXCEPT !.revoked = TRUE]
  <2>1. /\ new \in Link /\ new.customer = link[l].customer /\ new.revoked = TRUE
        /\ new.expired = link[l].expired
    BY <1>0 DEF Link
  <2>2. link'[l] = new \/ link'[l] = link[l]
    BY <1>0, <1>3 DEF FinishRevokeLink
  <2>3. archived' = archived
    BY <1>3 DEF FinishRevokeLink
  <2> HIDE DEF new
  <2> QED BY <2>1, <2>2, <2>3, LinkIsRow DEF LinkRow
<1>4. ASSUME NEW p \in Requests, FinishOpen(p)
      PROVE  /\ LinkRow(l)' /\ link'[l].customer = link[l].customer
             /\ link[l].revoked => link'[l].revoked
             /\ link[l].expired => link'[l].expired
             /\ archived \subseteq archived'
  <2> DEFINE n == request[p].uses + 1
             new == [link[l] EXCEPT !.used = TRUE, !.uses = n]
  <2>0. n \in Nat
    BY <1>4, RequestFields DEF FinishOpen, AccessInv, AccessTypeOK, AllRequests
  <2>2. link'[l] = new \/ link'[l] = link[l]
    BY <1>0, <1>4 DEF FinishOpen
  <2> HIDE DEF n
  <2>1. /\ new \in Link /\ new.customer = link[l].customer /\ new.revoked = link[l].revoked
        /\ new.expired = link[l].expired
    BY <1>0, <2>0 DEF Link
  <2>3. archived' = archived
    BY <1>4 DEF FinishOpen
  <2> HIDE DEF new
  <2> QED BY <2>1, <2>2, <2>3, LinkIsRow DEF LinkRow
<1>5. ASSUME NEW k \in Links, ExpireLink(k)
      PROVE  /\ LinkRow(l)' /\ link'[l].customer = link[l].customer
             /\ link[l].revoked => link'[l].revoked
             /\ link[l].expired => link'[l].expired
             /\ archived \subseteq archived'
  <2> DEFINE new == [link[l] EXCEPT !.expired = TRUE]
  <2>1. /\ new \in Link /\ new.customer = link[l].customer /\ new.revoked = link[l].revoked
        /\ new.expired = TRUE
    BY <1>0 DEF Link
  <2>2. link'[l] = new \/ link'[l] = link[l]
    BY <1>0, <1>5 DEF ExpireLink
  <2>3. archived' = archived
    BY <1>5 DEF ExpireLink
  <2> HIDE DEF new
  <2> QED BY <2>1, <2>2, <2>3, LinkIsRow DEF LinkRow
<1>6. ASSUME NEW p \in Requests, Begin(p) PROVE link' = link /\ archived' = archived
  BY <1>6, BeginIsSound DEF AccessInv, portal
<1>7. CASE UNCHANGED vars
  BY <1>1, <1>7 DEF vars
<1>8. CASE Next
  BY <1>1, <1>2, <1>3, <1>4, <1>5, <1>6, <1>8, Steps DEF PortalCommit, ArchiveCustomer,
     ExpireTokens, portal
<1> QED BY <1>7, <1>8

LEMMA ClosedStays ==
    ASSUME AccessInv, [Next]_vars, NEW l \in Links, Closed(l)
    PROVE  Closed(l)' /\ Using(l)' \subseteq Using(l)
<1>1. Closed(l)'
  BY LinkSteps DEF Closed, Valid
<1>2. ASSUME NEW q \in Requests, request'[q].kind \in {"open", "visit"}, request'[q].link = l
      PROVE  q \in Using(l)
  <2>1. CASE request'[q] = request[q]
    BY <1>2, <2>1 DEF Using
  <2>2. CASE request'[q] = Idle
    BY <1>2, <2>2 DEF Idle
  <2>3. CASE Sound(request'[q])
    BY <1>2, <2>3 DEF Sound, Closed
  <2> QED BY <2>1, <2>2, <2>3, RequestSteps
<1> QED BY <1>1, <1>2 DEF Using

\* A closed link stays closed and no request with it begins any more.
THEOREM ClosedLinksWindDown == Spec => ClosedLinkWindsDown
<1> DEFINE A == \A l \in Links : Closed(l) => Closed(l)' /\ Using(l)' \subseteq Using(l)
<1>1. AccessInv /\ [Next]_vars => [A]_vars
  BY ClosedStays
<1> QED BY <1>1, AccessInvHolds, PTL DEF Spec, ClosedLinkWindsDown

\* A row keeps its user and its login, is not taken back, and does not grow
\* younger.
Kept(s) ==
    /\ Row(s)'
    /\ session'[s].user = session[s].user
    /\ session'[s].login = session[s].login
    /\ session[s].revoked => session'[s].revoked
    /\ session[s].age <= session'[s].age

LEMMA SessionKept ==
    ASSUME AccessInv, NEW s \in Sessions, Row(s), session'[s] = session[s]
    PROVE  Kept(s)
<1>1. session[s].age \in Nat
  BY SessionFields DEF AccessInv, SessionAge
<1> QED BY <1>1 DEF Kept, Row

LEMMA RefreshKeeps ==
    ASSUME AccessInv, NEW p \in Requests, FinishRefresh(p), NEW s \in Sessions
    PROVE  /\ Row(s) => Kept(s)
           /\ ~Row(s) /\ Row(s)' =>
                session'[s].login = session[request[p].session].login
<1> DEFINE old == request[p].session
           gone == [session[old] EXCEPT !.revoked = TRUE]
           new == NewSession(session[old].user, old, session[old].login)
<1>1. request[p] \in AllRequests /\ request[p].kind = "refresh"
  BY DEF AccessInv, AccessTypeOK, AllRequests, FinishRefresh
<1>2. old \in Sessions /\ Row(old)
  BY <1>1, RequestFields DEF AccessInv, Known
<1>3. Fresh \in Sessions /\ ~Row(Fresh)
  BY FreshSession DEF FinishRefresh
<1>4. session \in [Sessions -> Session \cup {NoSession}]
  BY DEF AccessInv, AccessTypeOK, StaffTypeOK
<1>5. session[old] \in Session
  BY <1>2, SessionFields DEF AccessInv
<1>6. /\ gone \in Session /\ gone.user = session[old].user /\ gone.login = session[old].login
      /\ gone.revoked = TRUE /\ gone.age = session[old].age
  BY <1>5 DEF Session
<1>7. session' = [session EXCEPT ![old].revoked = TRUE, ![Fresh] = new]
  BY DEF FinishRefresh
<1>8. session'[s] = IF s = Fresh THEN new ELSE IF s = old THEN gone ELSE session[s]
  BY <1>2, <1>3, <1>4, <1>7 DEF Row
<1>9. new.login = session[old].login
  BY DEF NewSession
<1>10. session[old].age \in Nat
  BY <1>5 DEF Session, SessionAge
<1> HIDE DEF gone, new
<1>11. CASE s = Fresh
  BY <1>3, <1>8, <1>9, <1>11 DEF Row
<1>12. CASE s # Fresh /\ s = old
  BY <1>2, <1>6, <1>8, <1>10, <1>12, SessionIsRow DEF Kept, Row
<1>13. CASE s # Fresh /\ s # old
  BY <1>8, <1>13, SessionKept DEF Row
<1> QED BY <1>11, <1>12, <1>13

LEMMA SessionSteps ==
    ASSUME AccessInv, [Next]_vars, NEW s \in Sessions
    PROVE  /\ Row(s) => Kept(s)
           /\ ~Row(s) /\ Row(s)' =>
                \/ session'[s].login = s
                \/ \E p \in Requests : /\ request[p].kind = "refresh"
                                       /\ session'[s].login = session[request[p].session].login
<1>0. session \in [Sessions -> Session \cup {NoSession}]
  BY DEF AccessInv, AccessTypeOK, StaffTypeOK
<1>1. CASE session' = session
  BY <1>1, SessionKept DEF Row
<1>2. ASSUME NEW p \in Requests, Begin(p) PROVE session' = session
  BY <1>2, BeginIsSound DEF AccessInv, staff
<1>3. ASSUME RegisterCompany \/ \E p \in Requests : FinishLogin(p)
      PROVE  /\ Row(s) => session'[s] = session[s]
             /\ ~Row(s) /\ Row(s)' => session'[s].login = s
  <2>1. PICK u : session' = [session EXCEPT ![Fresh] = NewSession(u, Fresh, Fresh)] /\ RoomForSession
    BY <1>3 DEF RegisterCompany, FinishLogin
  <2>2. Fresh \in Sessions /\ ~Row(Fresh)
    BY <2>1, FreshSession
  <2>3. session'[s] = IF s = Fresh THEN NewSession(u, Fresh, Fresh) ELSE session[s]
    BY <1>0, <2>1
  <2>4. NewSession(u, Fresh, Fresh).login = Fresh
    BY DEF NewSession
  <2> QED BY <2>2, <2>3, <2>4 DEF Row
<1>4. ASSUME NEW p \in Requests, FinishRefresh(p)
      PROVE  /\ Row(s) => Kept(s)
             /\ ~Row(s) /\ Row(s)' => /\ request[p].kind = "refresh"
                                      /\ session'[s].login = session[request[p].session].login
  BY <1>4, RefreshKeeps DEF FinishRefresh
<1>5. ASSUME NEW t \in Sessions, Logout(t) \/ Age(t)
      PROVE  (Row(s) => Kept(s)) /\ (~Row(s) => ~Row(s)')
  <2>1. PICK new \in Session : Spent(t, new)
    BY <1>5, Spending DEF AccessInv
  <2>2. Row(t) /\ session'[s] = IF s = t THEN new ELSE session[s]
    BY <1>0, <2>1 DEF Spent
  <2>3. CASE s = t
    BY <2>1, <2>2, <2>3, SessionIsRow DEF Spent, Kept, Row
  <2>4. CASE s # t
    BY <2>2, <2>4, SessionKept DEF Row
  <2> QED BY <2>3, <2>4
<1>6. ASSUME NEW p \in Requests, StaffCommit(p), ~FinishLogin(p), ~FinishRefresh(p)
      PROVE  session' = session
  BY <1>6 DEF StaffCommit, CreateUser, UpdateUser, ProvisionCompany, EndRequest, staff
<1>7. ASSUME NEW p \in Requests, PortalCommit(p) PROVE session' = session
  BY <1>7 DEF PortalCommit, FinishCreateLink, FinishRevokeLink, ArchiveCustomer, FinishOpen, staff
<1>8. ASSUME NEW l \in Links, ExpireLink(l) \/ ExpireTokens(l) PROVE session' = session
  BY <1>8 DEF ExpireLink, ExpireTokens, staff
<1>9. CASE UNCHANGED vars
  BY <1>1, <1>9 DEF vars
<1>10. CASE RegisterCompany \/ \E p \in Requests : FinishLogin(p)
  BY <1>3, <1>10, SessionKept
<1>11. CASE Next
  BY <1>1, <1>2, <1>4, <1>5, <1>6, <1>7, <1>8, <1>10, <1>11, Steps
<1> QED BY <1>9, <1>11

----------------------------------------------------------------------------
(* The action properties about the staff.                                  *)

\* A request with a session names one that exists, whose user and login the
\* step keeps.
LEMMA SessionOfRequest ==
    ASSUME AccessInv, [Next]_vars, NEW q \in Requests,
           request[q].kind \in {"refresh"} \cup TokenKinds
    PROVE  /\ request[q].session \in Sessions
           /\ Row(request[q].session)
           /\ session'[request[q].session].user = session[request[q].session].user
           /\ session'[request[q].session].login = session[request[q].session].login
<1>1. request[q] \in AllRequests
  BY DEF AccessInv, AccessTypeOK, AllRequests
<1>2. request[q].session \in Sessions /\ Row(request[q].session)
  BY <1>1, RequestFields DEF AccessInv, Known
<1> QED BY <1>2, SessionSteps DEF Kept

LEMMA DisabledStaysOut ==
    ASSUME AccessInv, [Next]_vars, NEW u \in Users, u \notin active
    PROVE  ActingFor(u)' \subseteq ActingFor(u)
<1>1. SUFFICES ASSUME NEW q \in Requests,
                      \/ request'[q].kind = "login" /\ request'[q].user = u
                      \/ /\ request'[q].kind \in {"refresh"} \cup TokenKinds
                         /\ session'[request'[q].session].user = u
               PROVE  q \in ActingFor(u)
  BY DEF ActingFor
<1>2. CASE request'[q] = request[q]
  BY <1>1, <1>2, SessionOfRequest DEF ActingFor
<1>3. CASE request'[q] = Idle
  BY <1>1, <1>3 DEF Idle, TokenKinds
<1>4. CASE Sound(request'[q]) /\ UNCHANGED staff
  BY <1>1, <1>4 DEF Sound, Admitted, staff
<1> QED BY <1>2, <1>3, <1>4, RequestSteps

\* A disabled account is out at every door.
THEOREM DisabledAreOut == Spec => DisabledIsOut
<1> DEFINE A == \A u \in Users :
                  u \notin active /\ u \notin active' => ActingFor(u)' \subseteq ActingFor(u)
<1>1. AccessInv /\ [Next]_vars => [A]_<<staff, request>>
  BY DisabledStaysOut
<1> QED BY <1>1, AccessInvHolds, PTL DEF Spec, DisabledIsOut

LEMMA NoAdminBegins ==
    ASSUME AccessInv, [Next]_vars, LockedOut, NEW q \in Requests
    PROVE  ~AsAdmin(q)'
<1>1. CASE request'[q] = request[q]
  BY <1>1 DEF LockedOut, AsAdmin
<1>2. CASE request'[q] = Idle
  BY <1>2 DEF Idle, AsAdmin
<1>3. CASE Sound(request'[q])
  BY <1>3 DEF Sound, Admitted, LockedOut, AsAdmin, TokenKinds
<1> QED BY <1>1, <1>2, <1>3, RequestSteps

LEMMA LockedOutStays ==
    ASSUME AccessInv, [Next]_vars, LockedOut
    PROVE  LockedOut'
<1>1. CASE UNCHANGED <<role, active>>
  BY <1>1, NoAdminBegins DEF LockedOut
<1>2. ASSUME NEW p \in Requests, Begin(p) PROVE UNCHANGED <<role, active>>
  BY <1>2, BeginIsSound DEF AccessInv, staff
<1>3. ASSUME NEW p \in Requests, StaffCommit(p) PROVE UNCHANGED <<role, active>>
  <2>1. ~AsAdmin(p) /\ role[Owner] # "none"
    BY DEF LockedOut
  <2> QED BY <1>3, <2>1 DEF StaffCommit, FinishLogin, FinishRefresh, CreateUser, UpdateUser,
        ProvisionCompany, CompanyCreated, EndRequest, staff
<1>4. ASSUME NEW p \in Requests, PortalCommit(p) PROVE UNCHANGED <<role, active>>
  BY <1>4 DEF PortalCommit, FinishCreateLink, FinishRevokeLink, ArchiveCustomer, FinishOpen, staff
<1>5. CASE \/ \E s \in Sessions : Logout(s) \/ Age(s)
           \/ \E l \in Links : ExpireLink(l) \/ ExpireTokens(l)
  BY <1>1, <1>5 DEF Logout, Age, ExpireLink, ExpireTokens, staff
<1>6. CASE RegisterCompany
  BY <1>6 DEF RegisterCompany, CompanyCreated, LockedOut
<1>7. CASE UNCHANGED vars
  BY <1>1, <1>7 DEF vars
<1> QED BY <1>1, <1>2, <1>3, <1>4, <1>5, <1>6, <1>7, Steps

\* A company without an active administrator does not get one again.
THEOREM LockedOutStaysSo == Spec => LockedOutForGood
<1> DEFINE A == LockedOut => LockedOut'
<1>1. AccessInv /\ [Next]_vars => [A]_<<staff, request>>
  BY LockedOutStays
<1> QED BY <1>1, AccessInvHolds, PTL DEF Spec, LockedOutForGood

LEMMA NotLiveAgain ==
    ASSUME AccessInv, [Next]_vars, NEW s \in Sessions, Row(s), ~Live(s)
    PROVE  ~Live(s)'
<1>1. Kept(s)
  BY SessionSteps
<1>2. session[s].age \in Nat
  BY SessionFields DEF AccessInv, SessionAge
<1>3. session'[s].age \in Nat
  <2>1. AccessTypeOK' /\ Row(s)'
    BY <1>1, InvNext DEF Kept, AccessInv
  <2>2. session'[s] \in Session
    BY <2>1 DEF AccessTypeOK, StaffTypeOK, Row
  <2> QED BY <2>2 DEF Session, SessionAge
<1> QED BY <1>1, <1>2, <1>3 DEF Kept, Live, SessionAge

LEMMA OverStays ==
    ASSUME AccessInv, [Next]_vars, NEW l \in Sessions, LoginOver(l)
    PROVE  /\ LoginOver(l)'
           /\ TokensGone(l) => ServedFor(l)' \subseteq ServedFor(l)
<1>1. Row(l)'
  BY SessionSteps DEF LoginOver, Kept
<1>2. ASSUME NEW s \in Sessions, Row(s)', session'[s].login = l
      PROVE  Row(s) /\ session[s].login = l
  <2>1. CASE Row(s)
    BY <1>2, <2>1, SessionSteps DEF Kept
  <2>2. CASE ~Row(s)
    <3>1. session'[s].login # s
      BY <1>2, <2>2 DEF LoginOver
    <3>2. PICK p \in Requests : /\ request[p].kind = "refresh"
                                /\ session[request[p].session].login = l
      BY <1>2, <2>2, <3>1, SessionSteps
    <3>3. request[p].session \in Sessions /\ Row(request[p].session)
      BY <3>2, SessionOfRequest
    <3>4. p \in Refreshing(request[p].session)
      BY <3>2 DEF Refreshing
    <3> QED BY <3>2, <3>3, <3>4 DEF LoginOver
  <2> QED BY <2>1, <2>2
<1>3. ASSUME NEW s \in Sessions, Row(s), session[s].login = l
      PROVE  ~Live(s)' /\ Refreshing(s)' = {}
  <2>1. ~Live(s) /\ Refreshing(s) = {}
    BY <1>3 DEF LoginOver
  <2>2. ASSUME NEW q \in Requests, request'[q].kind = "refresh", request'[q].session = s
        PROVE  FALSE
    <3>1. CASE request'[q] = request[q]
      BY <2>1, <2>2, <3>1 DEF Refreshing
    <3>2. CASE request'[q] = Idle
      BY <2>2, <3>2 DEF Idle
    <3>3. CASE Sound(request'[q])
      BY <2>1, <2>2, <3>3 DEF Sound
    <3> QED BY <3>1, <3>2, <3>3, RequestSteps
  <2>3. Refreshing(s)' = {}
    BY <2>2 DEF Refreshing
  <2> QED BY <1>3, <2>1, <2>3, NotLiveAgain
<1>4. LoginOver(l)'
  <2> SUFFICES ASSUME NEW s \in Sessions, Row(s)', session'[s].login = l
               PROVE  ~Live(s)' /\ Refreshing(s)' = {}
    BY <1>1 DEF LoginOver
  <2> QED BY <1>2, <1>3
<1>5. ASSUME TokensGone(l), NEW q \in Requests, request'[q].kind \in TokenKinds,
             session'[request'[q].session].login = l
      PROVE  q \in ServedFor(l)
  <2>1. CASE request'[q] = request[q]
    BY <1>5, <2>1, SessionOfRequest DEF ServedFor
  <2>2. CASE request'[q] = Idle
    BY <1>5, <2>2 DEF Idle, TokenKinds
  <2>3. CASE Sound(request'[q]) /\ request'[q] \in AllRequests /\ UNCHANGED staff
    <3>1. request'[q].session \in Sessions
      BY <1>5, <2>3, RequestFields
    <3>2. TokenValid(request'[q].session) /\ session[request'[q].session].login = l
      BY <1>5, <2>3 DEF Sound, Admitted, staff
    <3> QED BY <1>5, <3>1, <3>2 DEF TokensGone, TokenValid
  <2> QED BY <2>1, <2>2, <2>3, RequestSteps
<1> QED BY <1>4, <1>5 DEF ServedFor

\* A login that is over stays over.
THEOREM OverIsForGood == Spec => OverForGood
<1> DEFINE A == \A l \in Sessions :
                  LoginOver(l) =>
                    /\ LoginOver(l)'
                    /\ TokensGone(l) => ServedFor(l)' \subseteq ServedFor(l)
<1>1. AccessInv /\ [Next]_vars => [A]_<<staff, request>>
  BY OverStays
<1> QED BY <1>1, AccessInvHolds, PTL DEF Spec, OverForGood
=============================================================================
