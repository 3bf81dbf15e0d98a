-------------------------------- MODULE Rotation --------------------------------
(***************************************************************************)
(* Teams, the automation settings and the round-robin rotation: settings   *)
(* are read, merged with a patch and written back; a pick reads the team's *)
(* active members, then locks the settings row for the cursor.             *)
(*                                                                         *)
(* Members are ordered by created_at, which is their number.               *)
(***************************************************************************)
EXTENDS Naturals, FiniteSets

CONSTANTS
    Members,        \* users, by created_at
    Teams,
    Pickers,        \* workers that assign a new conversation
    Patchers,       \* requests that patch the settings
    MaxPicks,       \* bound: assignments
    MaxEdits        \* bound: changes of teams, members and settings

ASSUME RotationAssumption == Members \subseteq Nat /\ {MaxPicks, MaxEdits} \subseteq Nat

VARIABLES
    teams,          \* teams that exist
    memberOf,       \* team_members: per team a set of users
    activeUsers,    \* users whose status is active
    settings,       \* automation_settings: [enabled, team, hours]
    cursor,         \* round_robin_last_user_id (0: none)
    pick,           \* per picker: its assignment
    patching,       \* per patcher: its upsert, with the row it read
    picks, edits,
    served,         \* history: picks per user since the rotation last changed
    stale           \* history: pickers whose members are older than that

rotationVars == <<teams, memberOf, activeUsers, settings, cursor, pick, patching, picks, edits,
                  served, stale>>

NoTeam == "none"
NoPick == [at |-> "idle", team |-> NoTeam, ids |-> {}, last |-> 0]
NoPatch == [at |-> "idle", field |-> "none", value |-> "none", row |-> [enabled |-> FALSE]]

RotationInit ==
    /\ teams = Teams
    /\ memberOf = [t \in Teams |-> Members]
    /\ activeUsers = Members
    /\ settings = [enabled |-> TRUE, team |-> CHOOSE t \in Teams : TRUE, hours |-> "none"]
    /\ cursor = 0
    /\ pick = [p \in Pickers |-> NoPick]
    /\ patching = [q \in Patchers |-> NoPatch]
    /\ picks = 0
    /\ edits = 0
    /\ served = [u \in Members |-> 0]
    /\ stale = {}

-----------------------------------------------------------------------------
(***************************************************************************)
(* Round-robin assignment.                                                 *)
(***************************************************************************)
Picking == {p \in Pickers : pick[p] # NoPick}

BeginPick(p) ==
    /\ pick[p] = NoPick
    /\ picks < MaxPicks
    /\ settings.enabled /\ settings.team # NoTeam
    /\ pick' = [pick EXCEPT ![p] = [NoPick EXCEPT !.at = "members", !.team = settings.team]]
    /\ stale' = stale \ {p}
    /\ picks' = picks + 1
    /\ UNCHANGED <<teams, memberOf, activeUsers, settings, cursor, patching, edits, served>>

\* Without active members there is nobody to assign.
ReadMembers(p) ==
    /\ pick[p].at = "members"
    /\ LET ids == memberOf[pick[p].team] \cap activeUsers
       IN  pick' = [pick EXCEPT ![p] = IF ids = {} THEN NoPick
                                       ELSE [@ EXCEPT !.at = "lock", !.ids = ids]]
    /\ UNCHANGED <<teams, memberOf, activeUsers, settings, cursor, patching, picks, edits, served,
                   stale>>

LockWithoutWaiting(p) ==   \* mutant: the cursor is read without FOR UPDATE
    /\ pick[p].at = "lock"
    /\ pick' = [pick EXCEPT ![p].at = "commit", ![p].last = cursor]
    /\ UNCHANGED <<teams, memberOf, activeUsers, settings, cursor, patching, picks, edits, served,
                   stale>>

\* SELECT ... FOR UPDATE: one transaction at a time is between it and its commit.
LockCursor(p) ==
    /\ pick[p].at = "lock"
    /\ \A r \in Pickers : pick[r].at # "commit"
    /\ pick' = [pick EXCEPT ![p].at = "commit", ![p].last = cursor]
    /\ UNCHANGED <<teams, memberOf, activeUsers, settings, cursor, patching, picks, edits, served,
                   stale>>

\* The member after the cursor; one that is not a member starts over.
NextMember(ids, last) ==
    LET later == IF last \in ids THEN {u \in ids : u > last} ELSE {}
        from == IF later = {} THEN ids ELSE later
    IN  CHOOSE u \in from : \A v \in from : u <= v

CommitPick(p) ==
    /\ pick[p].at = "commit"
    /\ LET next == NextMember(pick[p].ids, pick[p].last)
       IN  /\ cursor' = next
           /\ served' = IF p \in stale THEN [u \in Members |-> 0]
                        ELSE [served EXCEPT ![next] = @ + 1]
    /\ pick' = [pick EXCEPT ![p] = NoPick]
    /\ UNCHANGED <<teams, memberOf, activeUsers, settings, patching, picks, edits, stale>>

-----------------------------------------------------------------------------
(***************************************************************************)
(* The routes of teams, users and settings.                                *)
(***************************************************************************)
Edit == edits < MaxEdits /\ edits' = edits + 1
Restarts == served' = [u \in Members |-> 0] /\ stale' = Picking

SetMember(t, u, on) ==
    /\ t \in teams
    /\ (u \in memberOf[t]) # on
    /\ Edit /\ Restarts
    /\ memberOf' = [memberOf EXCEPT ![t] = IF on THEN @ \cup {u} ELSE @ \ {u}]
    /\ UNCHANGED <<teams, activeUsers, settings, cursor, pick, patching, picks>>

SetUserActive(u, on) ==
    /\ (u \in activeUsers) # on
    /\ Edit /\ Restarts
    /\ activeUsers' = IF on THEN activeUsers \cup {u} ELSE activeUsers \ {u}
    /\ UNCHANGED <<teams, memberOf, settings, cursor, pick, patching, picks>>

\* The members cascade; the settings' reference is SET NULL.
DeleteTeam(t) ==
    /\ t \in teams
    /\ Edit /\ Restarts
    /\ teams' = teams \ {t}
    /\ memberOf' = [memberOf EXCEPT ![t] = {}]
    /\ settings' = IF settings.team = t THEN [settings EXCEPT !.team = NoTeam] ELSE settings
    /\ UNCHANGED <<activeUsers, cursor, pick, patching, picks>>

SettingsPatches == {<<"enabled", FALSE>>, <<"enabled", TRUE>>, <<"hours", "set">>}
           \cup {<<"team", t>> : t \in teams}

\* PUT /automation-settings: the team is looked up, then the upsert reads the row.
BeginUpsert(q, patch) ==
    /\ patching[q] = NoPatch
    /\ Edit
    /\ patching' = [patching EXCEPT ![q] = [at |-> "write", field |-> patch[1], value |-> patch[2],
                                            row |-> settings]]
    /\ UNCHANGED <<teams, memberOf, activeUsers, settings, cursor, pick, picks, served, stale>>

Merged(q) ==
    LET p == patching[q]
        Column(f) == IF p.field = f THEN p.value ELSE p.row[f]
    IN  [enabled |-> Column("enabled"), team |-> Column("team"), hours |-> Column("hours")]

\* ... and writes every column; a team deleted meanwhile fails its foreign key.
CommitUpsert(q) ==
    /\ patching[q].at = "write"
    /\ LET row == Merged(q)
       IN  IF row.team \notin teams \cup {NoTeam} THEN UNCHANGED <<settings, served, stale>>
           ELSE /\ settings' = row
                /\ IF row.team # settings.team THEN Restarts ELSE UNCHANGED <<served, stale>>
    /\ patching' = [patching EXCEPT ![q] = NoPatch]
    /\ UNCHANGED <<teams, memberOf, activeUsers, cursor, pick, picks, edits>>

RotationNext ==
    \/ \E p \in Pickers : BeginPick(p) \/ ReadMembers(p) \/ LockCursor(p) \/ CommitPick(p)
    \/ \E t \in Teams, u \in Members, on \in BOOLEAN : SetMember(t, u, on)
    \/ \E u \in Members, on \in BOOLEAN : SetUserActive(u, on)
    \/ \E t \in Teams : DeleteTeam(t)
    \/ \E q \in Patchers : CommitUpsert(q) \/ \E patch \in SettingsPatches : BeginUpsert(q, patch)

RotationSpec == RotationInit /\ [][RotationNext]_rotationVars

-----------------------------------------------------------------------------
\* "The rotation stays fair" however many inbound messages race: while the team
\* and its active members stay as they are, no member is more than one
\* assignment ahead of another.
RotationIsFair ==
    settings.team # NoTeam =>
        \A u, v \in memberOf[settings.team] \cap activeUsers : served[u] <= served[v] + 1

=============================================================================
