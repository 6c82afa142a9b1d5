---------------------------- MODULE Memberships ----------------------------
(***************************************************************************)
(* The members of one project: project_memberships, the membership claim   *)
(* that an access token carries (security/jwt.py), and the handlers of     *)
(* backend/app/routers/projects.py that add, change and remove members.    *)
(* Who may do so is decided by security/project_membership.py, from the    *)
(* claim, which is what the memberships were when the token was made.      *)
(*                                                                         *)
(* A change of a role counts the Leads in one step and commits in another, *)
(* with the steps of other requests in between.                            *)
(***************************************************************************)
EXTENDS Integers, FiniteSets

CONSTANTS
    Users,    \* users that may be members
    Admin,    \* a user whose global role is Admin
    MemberRequests  \* changes of a role under way at once

ASSUME AdminIsNoMember == Admin \notin Users

VARIABLES
    role,     \* project_memberships: each user's role, or "none"
    claim,    \* the role in the pm claim of a user's access token, or "none"
    change,   \* the changes between count and commit
    crossed   \* history: two changes that each take the role from a Lead have overlapped

membershipsVars == <<role, claim, change, crossed>>

Roles == {"Observer", "Contributor", "Lead"}
RoleOrNone == Roles \cup {"none"}
Rank == [x \in RoleOrNone |->
            CASE x = "Lead" -> 3 [] x = "Contributor" -> 2 [] x = "Observer" -> 1 [] OTHER -> 0]

\* A change of a user's role that has passed _assert_not_last_lead.
Change == [open : BOOLEAN, user : Users \cup {Admin}, to : RoleOrNone]
NoChange == [open |-> FALSE, user |-> Admin, to |-> "none"]

\* The rows, the claims and the changes; the change of an open request is of a user.
MembershipsTypeOK ==
    /\ role \in [Users -> RoleOrNone]
    /\ claim \in [Users -> RoleOrNone]
    /\ change \in [MemberRequests -> Change]
    /\ \A r \in MemberRequests : change[r].open => role[change[r].user] # "none"
    /\ crossed \in BOOLEAN

\* create_project: the creator becomes Lead in the same transaction.
MembershipsInit ==
    /\ \E u \in Users : role = [v \in Users |-> IF v = u THEN "Lead" ELSE "none"]
    /\ claim = role
    /\ change = [r \in MemberRequests |-> NoChange]
    /\ crossed = FALSE

-----------------------------------------------------------------------------
(* Claims *)

\* A login or a refresh: build_membership_claim reads the memberships.
Mint(u) ==
    /\ claim' = [claim EXCEPT ![u] = role[u]]
    /\ UNCHANGED <<role, change, crossed>>

\* require_project_membership(Lead): an Admin passes, others by their claim.
Passes(u) == u = Admin \/ (u \in Users /\ Rank[claim[u]] >= Rank["Lead"])

-----------------------------------------------------------------------------
(* Memberships *)

Leads == {u \in Users : role[u] = "Lead"}

\* add_member by the caller c; a second membership of a user is a 409.
AddMember(c, u, x) ==
    /\ Passes(c)
    /\ role[u] = "none"
    /\ role' = [role EXCEPT ![u] = x]
    /\ UNCHANGED <<claim, change, crossed>>

LosesLead(u, x) == role[u] = "Lead" /\ x # "Lead"

Losing == {r \in MemberRequests : change[r].open /\ LosesLead(change[r].user, change[r].to)}

OpenChange(r, u, x) ==
    /\ ~change[r].open
    /\ change' = [change EXCEPT ![r] = [open |-> TRUE, user |-> u, to |-> x]]
    /\ crossed' = (crossed \/ (LosesLead(u, x) /\ Losing # {}))

\* (mutant) The count includes the membership that is to go.
ChangeMemberCountAll(r, c, u, x) ==
    /\ Passes(c)
    /\ role[u] # "none"
    /\ LosesLead(u, x) => Leads # {}
    /\ OpenChange(r, u, x)
    /\ UNCHANGED <<role, claim>>

\* update_member_role and, to "none", remove_member: _assert_not_last_lead counts
\* the other Leads when a Lead is to lose the role.
ChangeMember(r, c, u, x) ==
    /\ Passes(c)
    /\ role[u] # "none"
    /\ LosesLead(u, x) => Leads \ {u} # {}
    /\ OpenChange(r, u, x)
    /\ UNCHANGED <<role, claim>>

\* The commit: nothing was locked.  Other changes of a row that is removed will
\* match nothing, and fail.
CommitMember(r) ==
    /\ change[r].open
    /\ role' = [role EXCEPT ![change[r].user] = change[r].to]
    /\ change' = [q \in MemberRequests |->
                     IF q = r \/ (change[r].to = "none" /\ change[q].user = change[r].user)
                     THEN NoChange ELSE change[q]]
    /\ UNCHANGED <<claim, crossed>>

-----------------------------------------------------------------------------
MembershipsNext ==
    \/ \E u \in Users : Mint(u)
    \/ \E c \in Users \cup {Admin}, u \in Users :
          \/ \E x \in Roles : AddMember(c, u, x)
          \/ \E r \in MemberRequests, x \in RoleOrNone : ChangeMember(r, c, u, x)
    \/ \E r \in MemberRequests : CommitMember(r)

MembershipsSpec == MembershipsInit /\ [][MembershipsNext]_membershipsVars

-----------------------------------------------------------------------------
(* Properties *)

\* A project keeps a Lead, whatever requests change its members, unless two that
\* each take the role from a Lead overlap: both count before either commits
\* (_assert_not_last_lead).
LeadKept == Leads # {} \/ crossed
=============================================================================
