---------------------------- MODULE CustomerPortal ----------------------------
(***************************************************************************)
(* The customers' way into the portal (modules/portal/service.py and       *)
(* router.py) on top of the staff who create and revoke its magic links:   *)
(* a link, open for 30 days, is exchanged any number of times for portal   *)
(* tokens that live 12 hours, and every request with one looks at the link *)
(* again.                                                                  *)
(***************************************************************************)
EXTENDS StaffSessions

CONSTANTS Customers,
          Links,      \* identities a magic_link_tokens row can have
          NoLink,
          MaxOpens    \* bound: portal sessions opened by one link

VARIABLES archived,   \* soft-deleted customers
          link,       \* the magic_link_tokens rows
          tokens,     \* links with a portal token that has not expired
          opened      \* portal sessions each link has opened, ever

portal == <<archived, link, tokens, opened>>

vars == <<role, active, session, request, archived, link, tokens, opened>>

\* used stands for used_at.
Link == [customer : Customers, revoked : BOOLEAN, expired : BOOLEAN,
         used : BOOLEAN, uses : Nat]

ASSUME CustomerPortalAssumption == NoLink \notin Link /\ MaxOpens \in Nat

PortalRequest ==
    [kind : {"link"}, session : Sessions, customer : Customers]
      \cup [kind : {"revoke"}, session : Sessions, link : Links]
      \cup [kind : {"visit"}, link : Links]
      \cup [kind : {"open"}, link : Links, uses : Nat]

AccessTypeOK ==
    /\ StaffTypeOK
    /\ request \in [Requests -> StaffRequest \cup PortalRequest]
    /\ archived \subseteq Customers
    /\ link \in [Links -> Link \cup {NoLink}]
    /\ tokens \subseteq Links
    /\ opened \in [Links -> Nat]

Init ==
    /\ StaffInit
    /\ request = [p \in Requests |-> Idle]
    /\ archived \in SUBSET Customers
    /\ link = [l \in Links |-> NoLink]
    /\ tokens = {}
    /\ opened = [l \in Links |-> 0]

----------------------------------------------------------------------------
(* The staff's requests about links and customers.                         *)

LinkRow(l) == link[l] # NoLink

\* require_company_user
AdmittedToCompany(s) == Admitted(s) /\ role[session[s].user] \in CompanyRoles

\* create_magic_link: the customer is looked up, then the row inserted.
BeginCreateLink(p, s, c) ==
    /\ AdmittedToCompany(s)
    /\ c \notin archived
    /\ Started(p, [kind |-> "link", session |-> s, customer |-> c])
    /\ UNCHANGED <<staff, portal>>

FinishCreateLink(p, l) ==
    /\ request[p].kind = "link"
    /\ ~LinkRow(l)
    /\ link' = [link EXCEPT ![l] = [customer |-> request[p].customer, revoked |-> FALSE,
                                    expired |-> FALSE, used |-> FALSE, uses |-> 0]]
    /\ Done(p)
    /\ UNCHANGED <<staff, archived, tokens, opened>>

\* revoke_magic_link
BeginRevokeLink(p, s, l) ==
    /\ AdmittedToCompany(s)
    /\ LinkRow(l)
    /\ link[l].customer \notin archived
    /\ Started(p, [kind |-> "revoke", session |-> s, link |-> l])
    /\ UNCHANGED <<staff, portal>>

FinishRevokeLink(p) ==
    /\ request[p].kind = "revoke"
    /\ link' = [link EXCEPT ![request[p].link].revoked = TRUE]
    /\ Done(p)
    /\ UNCHANGED <<staff, archived, tokens, opened>>

\* delete_customer; the links stay as they are.
ArchiveCustomer(p, c) ==
    /\ AsAdmin(p)
    /\ c \notin archived
    /\ archived' = archived \cup {c}
    /\ Done(p)
    /\ UNCHANGED <<staff, link, tokens, opened>>

----------------------------------------------------------------------------
(* The customer's requests.                                                *)

\* _validate_magic_link and the customer, as both doors check them.
Valid(l) ==
    /\ ~link[l].revoked
    /\ ~link[l].expired
    /\ link[l].customer \notin archived

\* create_portal_session, up to the last check.
BeginOpen(p, l) ==
    /\ LinkRow(l)
    /\ Valid(l)
    /\ opened[l] < MaxOpens
    /\ Started(p, [kind |-> "open", link |-> l, uses |-> link[l].uses])
    /\ UNCHANGED <<staff, portal>>

\* A mutant: the whole row is written back as it was read.
FinishOpenWithRow(p) ==
    /\ request[p].kind = "open"
    /\ LET l == request[p].link
       IN /\ link' = [link EXCEPT ![l].used = TRUE, ![l].uses = request[p].uses + 1,
                                  ![l].revoked = FALSE]
          /\ tokens' = tokens \cup {l}
          /\ opened' = [opened EXCEPT ![l] = @ + 1]
    /\ Done(p)
    /\ UNCHANGED <<staff, archived>>

\* The UPDATE names the columns that have changed only: used_at and use_count,
\* the latter as computed from what was read.
FinishOpen(p) ==
    /\ request[p].kind = "open"
    /\ LET l == request[p].link
       IN /\ link' = [link EXCEPT ![l].used = TRUE, ![l].uses = request[p].uses + 1]
          /\ tokens' = tokens \cup {l}
          /\ opened' = [opened EXCEPT ![l] = @ + 1]
    /\ Done(p)
    /\ UNCHANGED <<staff, archived>>

\* get_portal_context, before each of the portal's endpoints.
BeginVisit(p, l) ==
    /\ l \in tokens
    /\ Valid(l)
    /\ Started(p, [kind |-> "visit", link |-> l])
    /\ UNCHANGED <<staff, portal>>

ExpireLink(l) ==
    /\ LinkRow(l)
    /\ ~link[l].expired
    /\ link' = [link EXCEPT ![l].expired = TRUE]
    /\ UNCHANGED <<staff, request, archived, tokens, opened>>

\* The last of them.
ExpireTokens(l) ==
    /\ l \in tokens
    /\ tokens' = tokens \ {l}
    /\ UNCHANGED <<staff, request, archived, link, opened>>

PortalBegin(p) ==
    \/ \E s \in Sessions, c \in Customers : BeginCreateLink(p, s, c)
    \/ \E s \in Sessions, l \in Links : BeginRevokeLink(p, s, l)
    \/ \E l \in Links : BeginOpen(p, l) \/ BeginVisit(p, l)

PortalCommit(p) ==
    \/ \E l \in Links : FinishCreateLink(p, l)
    \/ FinishRevokeLink(p)
    \/ \E c \in Customers : ArchiveCustomer(p, c)
    \/ FinishOpen(p)

PortalStep ==
    \/ \E p \in Requests : PortalBegin(p) \/ PortalCommit(p)
    \/ \E l \in Links : ExpireLink(l) \/ ExpireTokens(l)

Next ==
    \/ StaffStep /\ UNCHANGED portal
    \/ PortalStep

Spec == Init /\ [][Next]_vars

----------------------------------------------------------------------------
(* Properties.                                                             *)

Closed(l) == LinkRow(l) /\ ~Valid(l)

Using(l) == {p \in Requests : request[p].kind \in {"open", "visit"} /\ request[p].link = l}

\* A link that is revoked, has expired or whose customer is archived stays
\* closed, whatever was under way, and nobody comes in by it any more: neither
\* with the link itself nor with the portal tokens it was exchanged for before.
ClosedLinkWindsDown ==
    [][\A l \in Links : Closed(l) => Closed(l)' /\ Using(l)' \subseteq Using(l)]_vars

\* use_count and used_at tell whether a link was ever used, and use_count never
\* more often than it was ("listed["use_count"] == 2",
\* tests/test_portal_magic_links.py:324); overlapping uses may count as one.
UsesAreCounted ==
    \A l \in Links :
      LinkRow(l) =>
        /\ link[l].uses <= opened[l]
        /\ opened[l] > 0 => link[l].uses > 0
        /\ link[l].used <=> opened[l] > 0
=============================================================================
