---------------------------- MODULE StaffSessions ----------------------------
(***************************************************************************)
(* Accounts, logins and requests of the staff of one company and of the    *)
(* platform: AuthService (modules/auth/service.py), get_current_user and   *)
(* the role checks (modules/auth/dependencies.py), UserService and its     *)
(* router, and the creation of a company.                                  *)
(*                                                                         *)
(* A request is a process with two steps.  The first one has read what the *)
(* request decides by; the second one commits what it writes.  No row is   *)
(* locked in between, so any other request may come in.  The sessions of   *)
(* the model stand for the rows of user_sessions and, since each login and *)
(* each refresh hands out one of each, for the access tokens too.          *)
(***************************************************************************)
EXTENDS Naturals, FiniteSets

CONSTANTS Users,
          Owner,       \* who registers the company
          Sessions,    \* identities a user_sessions row can have
          Requests,    \* what is served at one time
          NoSession

ASSUME StaffSessionsAssumption ==
    /\ Owner \in Users
    /\ IsFiniteSet(Sessions)
    /\ IsFiniteSet(Requests)

VARIABLES role,      \* of each user, "none" while there is no row
          active,    \* users with status active; the others are disabled
          session,   \* the user_sessions rows
          request    \* what each request has read, or Idle

staff == <<role, active, session>>

AdminRoles == {"owner", "admin"}

GivenRoles == {"admin", "sales_manager"}

CompanyRoles == AdminRoles \cup GivenRoles

Roles == {"none", "platform_admin"} \cup CompanyRoles

\* The access token lives 15 minutes and the session 14 days: a session's age
\* counts which of the two limits have passed.
TokenAge == 1

SessionAge == 2

\* from is the session this one was exchanged for and login the first of them
\* all (both itself after a login): the table does not keep them.
Session == [user : Users, from : Sessions, login : Sessions,
            revoked : BOOLEAN, age : 0..SessionAge]

ASSUME NoSessionAssumption == NoSession \notin Session

Idle == [kind |-> "idle"]

\* Requests that come with an access token; those about links are in
\* CustomerPortal.
TokenKinds == {"office", "link", "revoke"}

StaffRequest ==
    {Idle}
      \cup [kind : {"login"}, user : Users]
      \cup [kind : {"refresh"}, session : Sessions]
      \cup [kind : {"office"}, session : Sessions, as : Roles]

StaffTypeOK ==
    /\ role \in [Users -> Roles]
    /\ active \subseteq Users
    /\ session \in [Sessions -> Session \cup {NoSession}]

\* The platform's administrators have no company and are there from the start.
StaffInit ==
    /\ role \in [Users -> {"none", "platform_admin"}]
    /\ role[Owner] = "none"
    /\ active = {u \in Users : role[u] = "platform_admin"}
    /\ session = [s \in Sessions |-> NoSession]

----------------------------------------------------------------------------
(* Sessions and tokens.                                                    *)

Row(s) == session[s] # NoSession

\* A mutant: revoked_at is not looked at.
NotExpired(s) == Row(s) /\ session[s].age < SessionAge

\* A refresh token that is still exchanged.
Live(s) == Row(s) /\ ~session[s].revoked /\ session[s].age < SessionAge

\* An access token that decodes: revoking the session does not end it.
TokenValid(s) == Row(s) /\ session[s].age < TokenAge

Started(p, r) ==
    /\ request[p] = Idle
    /\ request' = [request EXCEPT ![p] = r]

Done(p) == request' = [request EXCEPT ![p] = Idle]

\* _create_refresh_session: rows are inserted under an identity nothing else
\* has; which one does not matter.
NewSession(u, from, login) ==
    [user |-> u, from |-> from, login |-> login, revoked |-> FALSE, age |-> 0]

Fresh == CHOOSE s \in Sessions : ~Row(s)

RoomForSession == \E s \in Sessions : ~Row(s)

----------------------------------------------------------------------------
(* AuthService.                                                            *)

\* create_company_with_owner; the slug and the e-mail address are taken once.
CompanyCreated ==
    /\ role[Owner] = "none"
    /\ role' = [role EXCEPT ![Owner] = "owner"]
    /\ active' = active \cup {Owner}

\* register_company_owner: company, owner and session in one transaction.
RegisterCompany ==
    /\ CompanyCreated
    /\ RoomForSession
    /\ session' = [session EXCEPT ![Fresh] = NewSession(Owner, Fresh, Fresh)]
    /\ UNCHANGED request

\* login, up to the last check, with the right password.
BeginLogin(p, u) ==
    /\ role[u] \in CompanyRoles
    /\ u \in active
    /\ Started(p, [kind |-> "login", user |-> u])
    /\ UNCHANGED staff

BeginPlatformLogin(p, u) ==
    /\ role[u] = "platform_admin"
    /\ u \in active
    /\ Started(p, [kind |-> "login", user |-> u])
    /\ UNCHANGED staff

FinishLogin(p) ==
    /\ request[p].kind = "login"
    /\ RoomForSession
    /\ session' = [session EXCEPT ![Fresh] = NewSession(request[p].user, Fresh, Fresh)]
    /\ Done(p)
    /\ UNCHANGED <<role, active>>

\* A mutant: expires_at is not looked at.
BeginRefreshOfOld(p, s) ==
    /\ Row(s)
    /\ ~session[s].revoked
    /\ session[s].user \in active
    /\ Started(p, [kind |-> "refresh", session |-> s])
    /\ UNCHANGED staff

\* refresh, up to the last check.
BeginRefresh(p, s) ==
    /\ Live(s)
    /\ session[s].user \in active
    /\ Started(p, [kind |-> "refresh", session |-> s])
    /\ UNCHANGED staff

\* The old session is revoked and a new one opened in one commit; that the
\* old one has been revoked meanwhile is not noticed.
FinishRefresh(p) ==
    /\ request[p].kind = "refresh"
    /\ RoomForSession
    /\ LET old == request[p].session
       IN session' =
            [session EXCEPT ![old].revoked = TRUE,
                            ![Fresh] = NewSession(session[old].user, old, session[old].login)]
    /\ Done(p)
    /\ UNCHANGED <<role, active>>

\* logout: one row, and revoking it again changes nothing, so its two steps
\* are one here.
Logout(s) ==
    /\ Row(s)
    /\ ~session[s].revoked
    /\ session' = [session EXCEPT ![s].revoked = TRUE]
    /\ UNCHANGED <<role, active, request>>

----------------------------------------------------------------------------
(* Requests with an access token.                                          *)

\* get_current_user.  Its comparisons of scope and company cannot fail for a
\* token this server has made: no code moves a user to another company.
Admitted(s) == TokenValid(s) /\ session[s].user \in active

BeginOffice(p, s) ==
    /\ Admitted(s)
    /\ Started(p, [kind |-> "office", session |-> s, as |-> role[session[s].user]])
    /\ UNCHANGED staff

\* A mutant: require_company_user where require_owner_or_admin stands.
AsCompanyUser(p) == request[p].kind = "office" /\ request[p].as \in CompanyRoles

\* require_owner_or_admin
AsAdmin(p) == request[p].kind = "office" /\ request[p].as \in AdminRoles

CreateUser(p, u, r) ==
    /\ AsAdmin(p)
    /\ u # Owner
    /\ role[u] = "none"
    /\ r \in GivenRoles
    /\ role' = [role EXCEPT ![u] = r]
    /\ active' = active \cup {u}
    /\ Done(p)
    /\ UNCHANGED session

\* update_user: a new role, a new status or both; r and on are what the user
\* has where the request leaves them out.  It may be the owner, and the very
\* user who asks.
UpdateUser(p, u, r, on) ==
    /\ AsAdmin(p)
    /\ role[u] \in CompanyRoles
    /\ r \in GivenRoles \cup {role[u]}
    /\ role' = [role EXCEPT ![u] = r]
    /\ active' = IF on THEN active \cup {u} ELSE active \ {u}
    /\ Done(p)
    /\ UNCHANGED session

\* provision_company, by the platform: an owner who has not logged in yet.
ProvisionCompany(p) ==
    /\ request[p].kind = "office"
    /\ request[p].as = "platform_admin"
    /\ CompanyCreated
    /\ Done(p)
    /\ UNCHANGED session

\* The request only reads, is refused, or its transaction is lost.
EndRequest(p) ==
    /\ request[p] # Idle
    /\ Done(p)
    /\ UNCHANGED staff

\* A mutant: no end to it.
AgeOn(s) ==
    /\ Row(s)
    /\ session' = [session EXCEPT ![s].age = @ + 1]
    /\ UNCHANGED <<role, active, request>>

\* Time passes for one session and its access token.
Age(s) ==
    /\ Row(s)
    /\ session[s].age < SessionAge
    /\ session' = [session EXCEPT ![s].age = @ + 1]
    /\ UNCHANGED <<role, active, request>>

StaffCommit(p) ==
    \/ FinishLogin(p)
    \/ FinishRefresh(p)
    \/ \E u \in Users, r \in Roles : CreateUser(p, u, r)
    \/ \E u \in Users, r \in Roles, on \in BOOLEAN : UpdateUser(p, u, r, on)
    \/ ProvisionCompany(p)
    \/ EndRequest(p)

StaffBegin(p) ==
    \/ \E u \in Users : BeginLogin(p, u) \/ BeginPlatformLogin(p, u)
    \/ \E s \in Sessions : BeginRefresh(p, s) \/ BeginOffice(p, s)

StaffStep ==
    \/ \E p \in Requests : StaffBegin(p) \/ StaffCommit(p)
    \/ \E s \in Sessions : Logout(s) \/ Age(s)
    \/ RegisterCompany

----------------------------------------------------------------------------
(* Properties.                                                             *)

Refreshing(s) == {p \in Requests : request[p].kind = "refresh" /\ request[p].session = s}

ExchangedFor(s) == {t \in Sessions : Row(t) /\ session[t].from = s /\ t # s}

\* A refresh token is exchanged once ("old_token_response.status_code == 401",
\* tests/test_auth_companies_users.py:342), or as often as requests with it
\* overlapped: those in flight and those that have succeeded are together
\* never more than can be served at one time.
ExchangesOverlap ==
    \A s \in Sessions :
      Cardinality(ExchangedFor(s)) + Cardinality(Refreshing(s)) <= Cardinality(Requests)

\* A login is over when all sessions it was prolonged by are revoked or
\* expired and none of them is being exchanged.
LoginOver(l) ==
    /\ Row(l)
    /\ \A s \in Sessions :
         Row(s) /\ session[s].login = l => ~Live(s) /\ Refreshing(s) = {}

ServedFor(l) ==
    {p \in Requests :
       request[p].kind \in TokenKinds /\ session[request[p].session].login = l}

TokensGone(l) == \A s \in Sessions : Row(s) /\ session[s].login = l => ~TokenValid(s)

\* What is over stays over: no disabling, enabling or new login of the user,
\* no late refresh makes a session of it usable again; and once the access
\* tokens handed out before have run out, no request of it begins.
OverForGood ==
    [][\A l \in Sessions :
         LoginOver(l) =>
           /\ LoginOver(l)'
           /\ TokensGone(l) => ServedFor(l)' \subseteq ServedFor(l)]_<<staff, request>>

ActingFor(u) ==
    {p \in Requests :
       \/ request[p].kind = "login" /\ request[p].user = u
       \/ /\ request[p].kind \in {"refresh"} \cup TokenKinds
          /\ session[request[p].session].user = u}

\* A disabled account is out at every door: while the user is disabled no
\* login, refresh or request of theirs begins, whatever tokens they hold; the
\* ones admitted before may end.
DisabledIsOut ==
    [][\A u \in Users :
         u \notin active /\ u \notin active' => ActingFor(u)' \subseteq ActingFor(u)]_<<staff, request>>

\* The company exists, none of its administrators is active, and none of
\* their requests is under way.
LockedOut ==
    /\ role[Owner] # "none"
    /\ \A u \in active : role[u] \notin AdminRoles
    /\ \A p \in Requests : ~AsAdmin(p)

\* Nothing stops the last administrator from being disabled or demoted, and
\* nobody can undo it through the interface: no sales manager and no platform
\* administrator gets the company an active administrator again.
LockedOutForGood == [][LockedOut => LockedOut']_<<staff, request>>
=============================================================================
