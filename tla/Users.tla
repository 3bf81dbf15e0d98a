--------------------------------- MODULE Users ---------------------------------
(***************************************************************************)
(* The users of a workspace: who may create and change whom, and a user's  *)
(* roles in their two stores, the role_bindings rows and the column        *)
(* users.roles. What a change does to sessions and keys is module Access.  *)
(*                                                                         *)
(* A role_bindings row is <<role, n>>, n the request that inserted it.     *)
(***************************************************************************)
EXTENDS Naturals, FiniteSets

CONSTANTS
    Accounts,       \* users, the two founders among them
    Founders,       \* who is there at first
    RoleSets,       \* role sets a request asks for
    MaxChanges      \* bound: requests that pass their checks

ASSUME UsersAssumption ==
    /\ Founders \subseteq Accounts
    /\ RoleSets \subseteq SUBSET {"owner", "admin", "agent"} \ {{}}
    /\ MaxChanges \in Nat

VARIABLES
    accountStatus,         \* users.status, or "absent"
    bindings,       \* per user its role_bindings rows
    column,         \* per user users.roles
    change,         \* per caller: its request after the checks
    changes,
    crossed         \* history: users whose role replacements overlapped since the last lone one

usersVars == <<accountStatus, bindings, column, change, changes, crossed>>

NoChange ==
    [at |-> "idle", n |-> 0, user |-> "none", roles |-> {}, status |-> "same", seen |-> {}]

RolesOf(u) == {row[1] : row \in bindings[u]}
UserAdmins == {"owner", "admin"}

UsersInit ==
    /\ \E roles \in [Founders -> {{"owner"}, {"admin"}}] :
          /\ bindings = [u \in Accounts |-> IF u \in Founders THEN roles[u] \X {0} ELSE {}]
          /\ column = [u \in Accounts |-> IF u \in Founders THEN roles[u] ELSE {}]
    /\ accountStatus = [u \in Accounts |-> IF u \in Founders THEN "active" ELSE "absent"]
    /\ change = [c \in Accounts |-> NoChange]
    /\ changes = 0
    /\ crossed = {}

-----------------------------------------------------------------------------
(***************************************************************************)
(* authorization.ts.                                                       *)
(***************************************************************************)
CanGrantRole(c, role) ==
    RolesOf(c) \cap (IF role = "owner" THEN {"owner"} ELSE UserAdmins) # {}

AuthorizeRoleGrant(c, roles) ==
    RolesOf(c) \cap UserAdmins # {} /\ \A role \in roles : CanGrantRole(c, role)

AuthorizeManage(c, u) == \A role \in RolesOf(u) : CanGrantRole(c, role)

AuthorizeUserUpdate(c, u, roles) ==
    RolesOf(c) \cap UserAdmins # {} /\ AuthorizeManage(c, u) /\ AuthorizeRoleGrant(c, roles)

-----------------------------------------------------------------------------
Changing == {c \in Accounts : change[c] # NoChange}
Replacing(u) == {c \in Changing : change[c].user = u /\ change[c].roles # {}}
Signed(c) == accountStatus[c] = "active" /\ change[c] = NoChange /\ changes < MaxChanges

Admits(c, at, u, roles, newStatus) ==
    /\ changes' = changes + 1
    /\ change' = [change EXCEPT ![c] = [at |-> at, n |-> changes', user |-> u, roles |-> roles,
                                        status |-> newStatus, seen |-> {}]]
    /\ UNCHANGED <<accountStatus, bindings, column>>

BeginCreateUser(c, u, roles) ==
    /\ Signed(c)
    /\ accountStatus[u] = "absent"
    /\ AuthorizeRoleGrant(c, roles)
    /\ Admits(c, "create", u, roles, "active")
    /\ UNCHANGED crossed

\* Nobody changes their own roles or status.
BeginPatch(c, u, roles, newStatus) ==
    /\ c # u
    /\ Signed(c)
    /\ accountStatus[u] # "absent"
    /\ roles # {} \/ newStatus # "same"
    /\ AuthorizeUserUpdate(c, u, roles)
    /\ Admits(c, "recheck", u, roles, newStatus)
    /\ crossed' = IF roles # {} /\ Replacing(u) # {} THEN crossed \cup {u} ELSE crossed

\* refuseDeactivatedCaller; a caller that lost its role meanwhile goes on.
Recheck(c) ==
    /\ change[c].at \in {"recheck", "create"}
    /\ LET next == IF change[c].at = "create" THEN "insert"
                   ELSE IF change[c].status # "same" THEN "status" ELSE "roles"
       IN  IF accountStatus[c] = "active" THEN change' = [change EXCEPT ![c].at = next]
           ELSE change' = [change EXCEPT ![c] = NoChange]
    /\ UNCHANGED <<accountStatus, bindings, column, changes, crossed>>

\* The email is unique: of two creations one fails.
CreateUser(c) ==
    /\ change[c].at = "insert"
    /\ LET u == change[c].user
       IN  IF accountStatus[u] # "absent" THEN UNCHANGED <<accountStatus, bindings, column>>
           ELSE /\ accountStatus' = [accountStatus EXCEPT ![u] = "active"]
                /\ bindings' = [bindings EXCEPT ![u] = change[c].roles \X {change[c].n}]
                /\ column' = [column EXCEPT ![u] = change[c].roles]
    /\ change' = [change EXCEPT ![c] = NoChange]
    /\ UNCHANGED <<changes, crossed>>

UpdateStatus(c) ==
    /\ change[c].at = "status"
    /\ accountStatus' = [accountStatus EXCEPT ![change[c].user] = change[c].status]
    /\ IF change[c].roles = {} THEN change' = [change EXCEPT ![c] = NoChange]
       ELSE change' = [change EXCEPT ![c].at = "roles"]
    /\ UNCHANGED <<bindings, column, changes, crossed>>

\* updateRoles, its DELETE: it sees the rows committed by now, and waits for a
\* transaction that is deleting them.
DeleteBindings(c) ==
    /\ change[c].at = "roles"
    /\ change' = [change EXCEPT ![c].at = "commit", ![c].seen = bindings[change[c].user]]
    /\ UNCHANGED <<accountStatus, bindings, column, changes, crossed>>

CommitBindingsOnly(c) ==   \* mutant: users.roles is left as it was
    /\ change[c].at = "commit"
    /\ bindings' = [bindings EXCEPT ![change[c].user] = change[c].roles \X {change[c].n}]
    /\ change' = [change EXCEPT ![c] = NoChange]
    /\ UNCHANGED <<accountStatus, column, changes, crossed>>

\* ... its INSERTs, which pass over a role that is there, and users.roles.
CommitRoles(c) ==
    /\ change[c].at = "commit"
    /\ LET u == change[c].user
           left == bindings[u] \ change[c].seen
           new == {role \in change[c].roles : \A row \in left : row[1] # role}
       IN  /\ bindings' = [bindings EXCEPT ![u] = left \cup (new \X {change[c].n})]
           /\ column' = [column EXCEPT ![u] = change[c].roles]
           /\ crossed' = IF left = {} /\ Replacing(u) = {c} THEN crossed \ {u} ELSE crossed
    /\ change' = [change EXCEPT ![c] = NoChange]
    /\ UNCHANGED <<accountStatus, changes>>

UsersNext ==
    \E c \in Accounts :
        \/ \E u \in Accounts, roles \in RoleSets : BeginCreateUser(c, u, roles)
        \/ \E u \in Accounts, roles \in RoleSets \cup {{}}, s \in {"same", "active", "suspended"} :
              BeginPatch(c, u, roles, s)
        \/ Recheck(c) \/ CreateUser(c) \/ UpdateStatus(c) \/ DeleteBindings(c) \/ CommitRoles(c)

UsersSpec == UsersInit /\ [][UsersNext]_usersVars

-----------------------------------------------------------------------------
\* A user's roles are "replaced atomically in both stores": between requests the
\* two agree, unless two replacements of this user's roles overlapped, whose
\* inserted rows both stay until the next replacement.
RoleStoresAgree ==
    \A u \in Accounts : Replacing(u) = {} /\ u \notin crossed => RolesOf(u) = column[u]

=============================================================================
