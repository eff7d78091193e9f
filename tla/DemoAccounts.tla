------------------------------- MODULE DemoAccounts -------------------------------
(***************************************************************************)
(* The accounts of the demonstration and the swap of a role that takes one *)
(* permission from the appraiser and gives it back (demo/accounts.py,      *)
(* demo/permission.py).  Every command is one transaction under an         *)
(* advisory lock, hence one step; the grants of the production roles       *)
(* change by migrations in between.                                        *)
(***************************************************************************)
EXTENDS Naturals, FiniteSets

CONSTANTS
    Users,        \* owned accounts
    Appraiser,    \* the account whose role is swapped
    Inspectors,   \* the accounts of inspectors; the others are of reviewers
    Permissions,  \* permissions of the production roles
    Dynamic,      \* those that may be taken away
    Assistant     \* the permission of the companion role

DemoAssumption ==
    /\ Appraiser \in Users /\ Inspectors \subseteq Users \ {Appraiser}
    /\ Dynamic \subseteq Permissions /\ Assistant \notin Permissions

\* The production role of an account.
FormalOf(u) ==
    IF u = Appraiser THEN "APPRAISER" ELSE IF u \in Inspectors THEN "INSPECTOR" ELSE "REVIEWER"

Formal == {FormalOf(u) : u \in Users}

VARIABLES
    grants,     \* role_permissions of the production roles
    roles,      \* development roles that exist, with their permissions
    links,      \* user_roles of the accounts that exist
    inactive    \* development roles that were deactivated

demoVars == <<grants, roles, links, inactive>>

---------------------------------------------------------------------------
(* Roles and what they permit *)

Own == FormalOf(Appraiser)

Owned == DOMAIN links

RoleExists(r) == r \in DOMAIN roles

GrantsOf(r) == IF r \in Formal THEN grants[r] ELSE roles[r]

\* permission_codes of the roles that are active.
Effective(u) == UNION {GrantsOf(r) : r \in links[u] \ inactive}

Set(f, x, value) == [y \in DOMAIN f \cup {x} |-> IF y = x THEN value ELSE f[y]]

Without(f, S) == [y \in DOMAIN f \ S |-> f[y]]

Swapped == RoleExists("TEST")

DemoTypeOK ==
    /\ grants \in [Formal -> SUBSET Permissions]
    /\ DOMAIN roles \subseteq {"COMPANION", "TEST"}
    /\ \A r \in DOMAIN roles : roles[r] \subseteq Permissions \cup {Assistant}
    /\ Owned \subseteq Users
    /\ \A u \in Owned : links[u] \subseteq Formal \cup DOMAIN roles
    /\ inactive \subseteq DOMAIN roles

DemoInit ==
    /\ grants \in [Formal -> SUBSET Permissions]
    /\ roles = [r \in {} |-> {}] /\ links = [u \in {} |-> {}]
    /\ inactive = {}

---------------------------------------------------------------------------
(* The checks every command makes before it writes *)

\* _validate_ownership: links of others, or to other roles, are a collision.
OwnLinks(u) ==
    {FormalOf(u), "COMPANION"} \cup (IF u = Appraiser THEN {"TEST"} ELSE {})

Ownership == \A u \in Owned : links[u] \subseteq OwnLinks(u)

\* The test role is the appraiser's without one dynamic permission.
OneMissing ==
    /\ roles["TEST"] \subseteq grants[Own]
    /\ \E c \in Dynamic : grants[Own] \ roles["TEST"] = {c}

\* _validate_owned_demo_role_state.
RoleState ==
    /\ RoleExists("COMPANION") => roles["COMPANION"] = {Assistant}
    /\ Swapped =>
           /\ RoleExists("COMPANION") /\ "TEST" \notin inactive /\ OneMissing
           /\ Appraiser \in Owned => links[Appraiser] = {"TEST", "COMPANION"}

---------------------------------------------------------------------------
(* The commands *)

\* Mutant: the test role of an earlier swap stays when the links are restored.
SeedKeepingTestRole ==
    /\ Ownership /\ RoleState
    /\ roles' = Set(roles, "COMPANION", {Assistant})
    /\ links' = [u \in Users |-> {FormalOf(u), "COMPANION"}]
    /\ inactive' = {}
    /\ UNCHANGED grants

\* seed_accounts.
Seed ==
    /\ Ownership /\ RoleState
    /\ roles' = [r \in {"COMPANION"} |-> {Assistant}]
    /\ links' = [u \in Users |-> {FormalOf(u), "COMPANION"}]
    /\ inactive' = {}
    /\ UNCHANGED grants

NoLinks == [u \in {} |-> {}]

\* reset_accounts.
Reset ==
    /\ Ownership /\ RoleState
    /\ roles' = [r \in {} |-> {}] /\ links' = NoLinks
    /\ inactive' = {}
    /\ UNCHANGED grants

Companion ==
    /\ RoleExists("COMPANION") /\ "COMPANION" \notin inactive
    /\ roles["COMPANION"] = {Assistant}

\* _assert_no_unexpected_target_grant: a third role would keep the permission.
\* The application links no such role, only somebody at the database could.
GrantedElsewhere(c) == \E r \in links[Appraiser] \ {Own, "COMPANION"} : c \in GrantsOf(r)

CanRevoke(c) ==
    /\ Appraiser \in Owned /\ Companion
    /\ {Own, "COMPANION"} \subseteq links[Appraiser]
    /\ "TEST" \notin links[Appraiser] /\ c \in grants[Own]
    /\ ~GrantedElsewhere(c)

SwapLinks == {"TEST", "COMPANION"}

\* _revoke: the test role is filled anew, takes the place of the role, and the
\* permission must be gone by then.
Revoke(c) ==
    /\ CanRevoke(c)
    /\ roles' = Set(roles, "TEST", grants[Own] \ {c})
    /\ links' = [links EXCEPT ![Appraiser] = SwapLinks]
    /\ inactive' = inactive \ {"TEST"}
    /\ UNCHANGED grants
    /\ c \notin Effective(Appraiser)'

TestRoleOf(c) == roles["TEST"] = grants[Own] \ {c}

CanRestore(c) ==
    /\ Appraiser \in Owned /\ Companion
    /\ Swapped /\ "TEST" \notin inactive
    /\ links[Appraiser] = {"COMPANION", "TEST"}
    /\ c \in grants[Own] /\ TestRoleOf(c)

\* _restore.
Restore(c) ==
    /\ CanRestore(c)
    /\ roles' = Without(roles, {"TEST"})
    /\ links' = [links EXCEPT ![Appraiser] = {Own, "COMPANION"}]
    /\ UNCHANGED <<grants, inactive>>

\* A migration grants or takes a permission of a production role.
Migrate ==
    /\ \E r \in Formal, c \in Permissions :
           grants' = [grants EXCEPT ![r] = (@ \ {c}) \cup ({c} \ @)]
    /\ UNCHANGED <<roles, links, inactive>>

Deactivate ==
    /\ \E r \in DOMAIN roles : inactive' = inactive \cup {r}
    /\ UNCHANGED <<grants, roles, links>>

DemoNext ==
    \/ Seed \/ Reset
    \/ \E c \in Dynamic : Revoke(c) \/ Restore(c)
    \/ Migrate \/ Deactivate

DemoSpec == DemoInit /\ [][DemoNext]_demoVars

---------------------------------------------------------------------------
(* Properties *)

\* The test role exists exactly while it stands in for the appraiser's role:
\* no command leaves half of the swap, whatever came before it.
SwapIsWhole ==
    /\ Swapped <=> Appraiser \in Owned /\ "TEST" \in links[Appraiser]
    /\ Appraiser \in Owned => Cardinality(links[Appraiser] \cap {Own, "TEST"}) = 1
    /\ \A u \in Owned \ {Appraiser} : links[u] = {FormalOf(u), "COMPANION"}
==================================================================================
