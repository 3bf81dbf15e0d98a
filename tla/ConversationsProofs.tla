------------------------ MODULE ConversationsProofs -------------------------
(***************************************************************************)
(* Proofs about four components a conversation meets: the contact and its  *)
(* consent, the chatbot's sessions, the rotation that assigns an agent and *)
(* the inbox that shows it, for any number of their actors and any bounds. *)
(***************************************************************************)
EXTENDS Contacts, Flows, Rotation, Inbox, SequenceTheorems, WellFoundedInduction, TLAPS

(***************************************************************************)
(* While an opt-out stands its row exists and says so, and no request that *)
(* could lift it is under way; a request under way once found a row.       *)
(***************************************************************************)
StoppedStands == stopped => contact # NoRow /\ optedOut /\ ~Consenting

RequestsFoundARow == \A r \in CrmRequests : crm[r].pc # "idle" => crm[r].row # NoRow

ContactsInv == ContactsTypeOK /\ StoppedStands /\ RequestsFoundARow

(* The request that is none yet.                                           *)
LEMMA NoCrmRequestFacts ==
  /\ NoCrmRequest \in [pc : {"idle"}, row : Nat, tag : Tags]
  /\ NoCrmRequest.tag \in Tags
  BY ContactsAssumption DEF NoCrmRequest, NoRow

(* The number has no row at first.                                         *)
LEMMA ContactsInitially == ContactsInit => ContactsInv
<1> SUFFICES ASSUME ContactsInit PROVE ContactsInv
  OBVIOUS
<1>1. \A r \in CrmRequests : crm[r] = NoCrmRequest
  BY DEF ContactsInit
<1>2. ContactsTypeOK
  BY NoCrmRequestFacts DEF ContactsInit, ContactsTypeOK, NoRow
<1> QED
  BY <1>1, <1>2, NoCrmRequestFacts
     DEF ContactsInit, ContactsInv, StoppedStands, RequestsFoundARow

(* What creates or changes the row, and no request with it: an import or a *)
(* message leaves the opt-out of the row it finds alone.                   *)
LEMMA RowKeeps ==
  ASSUME ContactsInv,
         NEW ts \in SUBSET Tags,
         \/ Insert(ts)
         \/ UNCHANGED <<contact, lastRow, optedOut>> /\ tags' \in SUBSET Tags,
         consents' = consents \/ consents' = consents \cup {contact'},
         history' \in BOOLEAN,
         UNCHANGED <<crm, stopped>>
  PROVE  ContactsInv'
<1> USE DEF ContactsInv
<1>1. CASE Insert(ts)
  <2>1. /\ contact = NoRow /\ lastRow' = lastRow + 1 /\ contact' = lastRow + 1
        /\ optedOut' = FALSE /\ tags' = ts
    BY <1>1 DEF Insert
  <2>2. ~stopped
    BY <2>1 DEF StoppedStands
  <2>3. ContactsTypeOK'
    <3>1. lastRow' \in Nat /\ contact' \in Nat
      BY <2>1 DEF ContactsTypeOK
    <3>2. consents' \subseteq Nat
      BY <3>1 DEF ContactsTypeOK
    <3>3. crm' = crm /\ stopped' = stopped
      OBVIOUS
    <3> QED
      BY <2>1, <3>1, <3>2, <3>3 DEF ContactsTypeOK
  <2> QED
    BY <2>2, <2>3 DEF StoppedStands, RequestsFoundARow
<1>2. CASE UNCHANGED <<contact, lastRow, optedOut>> /\ tags' \in SUBSET Tags
  <2>1. ContactsTypeOK'
    BY <1>2 DEF ContactsTypeOK
  <2> QED
    BY <1>2, <2>1 DEF StoppedStands, RequestsFoundARow, Consenting
<1> QED
  BY <1>1, <1>2

(* A request that begins has found a row; a consent request ends the time  *)
(* the opt-out stands.                                                     *)
LEMMA BeginKeeps ==
  ASSUME ContactsInv, NEW r \in CrmRequests,
         NEW pc \in {"grant", "revoke", "tag"}, NEW t \in Tags,
         BeginCrm(r, pc, t),
         IF pc = "grant" THEN stopped' = FALSE ELSE stopped' = stopped
  PROVE  ContactsInv'
<1> USE DEF ContactsInv
<1>1. /\ contact # NoRow /\ crm[r].pc = "idle"
      /\ crm' = [crm EXCEPT ![r] = [pc |-> pc, row |-> contact, tag |-> t]]
      /\ UNCHANGED <<contact, lastRow, optedOut, tags, consents, history>>
  BY DEF BeginCrm, AtStep
<1>2. ContactsTypeOK'
  BY <1>1 DEF ContactsTypeOK
<1>3. /\ crm'[r] = [pc |-> pc, row |-> contact, tag |-> t]
      /\ \A q \in CrmRequests \ {r} : crm'[q] = crm[q]
  BY <1>1 DEF ContactsTypeOK
<1>4. crm'[r].pc = pc /\ crm'[r].row = contact
  BY <1>3
<1>5. RequestsFoundARow'
  BY <1>1, <1>3, <1>4 DEF RequestsFoundARow
<1>6. CASE pc = "grant"
  BY <1>2, <1>5, <1>6 DEF StoppedStands
<1>7. CASE pc # "grant"
  <2>1. crm'[r].pc \notin {"grant", "lift"}
    BY <1>4, <1>7
  <2>2. Consenting' => Consenting
    BY <1>3, <2>1 DEF Consenting
  <2> QED
    BY <1>1, <1>2, <1>5, <1>7, <2>2 DEF StoppedStands
<1> QED
  BY <1>6, <1>7

(* A request that goes on or ends; only a consent request lifts.           *)
LEMMA RequestKeeps ==
  ASSUME ContactsInv, NEW r \in CrmRequests,
         \/ Grant(r) \/ LiftOptOut(r) \/ Revoke(r) \/ SetOptedOut(r) \/ AddTag(r)
  PROVE  ContactsInv'
<1> USE DEF ContactsInv
<1> DEFINE New == [pc : {"idle", "grant", "lift", "revoke", "optout", "tag"}, row : Nat, tag : Tags]
<1>1. /\ crm[r].pc \in {"grant", "lift", "revoke", "optout", "tag"}
      /\ UNCHANGED <<contact, lastRow, history>>
  BY DEF Grant, LiftOptOut, Revoke, SetOptedOut, AddTag, AtStep
<1>2. \/ crm[r].pc = "grant" /\ crm' = [crm EXCEPT ![r].pc = "lift"]
      \/ crm[r].pc = "revoke" /\ crm' = [crm EXCEPT ![r].pc = "optout"]
      \/ crm' = [crm EXCEPT ![r] = NoCrmRequest]
  BY DEF Grant, LiftOptOut, Revoke, SetOptedOut, AddTag, AtStep, GoCrm, EndCrm
<1>3. \A q \in CrmRequests \ {r} : crm'[q] = crm[q]
  BY <1>2 DEF ContactsTypeOK
<1>4. /\ crm' \in [CrmRequests -> New]
      /\ crm'[r].pc # "idle" => crm'[r].row = crm[r].row
      /\ crm'[r].pc \in {"grant", "lift"} => crm[r].pc = "grant"
  <2>1. crm \in [CrmRequests -> New]
    BY DEF ContactsTypeOK
  <2>2. CASE crm[r].pc = "grant" /\ crm' = [crm EXCEPT ![r].pc = "lift"]
    BY <2>1, <2>2
  <2>3. CASE crm[r].pc = "revoke" /\ crm' = [crm EXCEPT ![r].pc = "optout"]
    BY <2>1, <2>3
  <2>4. CASE crm' = [crm EXCEPT ![r] = NoCrmRequest]
    <3>1. crm'[r] = NoCrmRequest
      BY <2>1, <2>4
    <3>2. NoCrmRequest \in New /\ NoCrmRequest.pc = "idle"
      BY NoCrmRequestFacts
    <3> QED
      BY <2>1, <2>4, <3>1, <3>2
  <2> QED
    BY <1>2, <2>2, <2>3, <2>4
<1>5. RequestsFoundARow'
  BY <1>1, <1>3, <1>4 DEF RequestsFoundARow
<1>6. Consenting' => Consenting
  BY <1>3, <1>4 DEF Consenting
<1>7. crm[r].tag \in Tags /\ crm[r].row \in Nat
  BY DEF ContactsTypeOK
<1>8. /\ optedOut' \in BOOLEAN /\ stopped' \in BOOLEAN
      /\ tags' \in SUBSET Tags /\ consents' \in SUBSET Nat
  BY <1>7 DEF Grant, LiftOptOut, Revoke, SetOptedOut, AddTag, ContactsTypeOK
<1>9. ContactsTypeOK'
  BY <1>1, <1>4, <1>8 DEF ContactsTypeOK
<1>10. StoppedStands'
  <2>1. CASE Grant(r) \/ Revoke(r) \/ AddTag(r)
    BY <1>1, <1>6, <2>1 DEF Grant, Revoke, AddTag, StoppedStands
  <2>2. CASE LiftOptOut(r)
    BY <1>1, <1>6, <2>2 DEF LiftOptOut, StoppedStands, Consenting, AtStep
  <2>3. CASE SetOptedOut(r)
    <3>1. crm[r].row # NoRow
      BY <1>1 DEF RequestsFoundARow
    <3> QED
      BY <1>1, <1>6, <2>3, <3>1 DEF SetOptedOut, StoppedStands, SameRow
  <2> QED
    BY <2>1, <2>2, <2>3
<1> QED
  BY <1>5, <1>9, <1>10

(* Every operation keeps the invariant.                                    *)
LEMMA ContactsStep == ContactsInv /\ [ContactsNext]_contactsVars => ContactsInv'
<1> SUFFICES ASSUME ContactsInv, [ContactsNext]_contactsVars PROVE ContactsInv'
  OBVIOUS
<1>0. ContactsTypeOK
  BY DEF ContactsInv
<1>1. ASSUME NEW ts \in SUBSET Tags, CreateContact(ts) PROVE ContactsInv'
  BY <1>0, <1>1, RowKeeps DEF CreateContact, ContactsTypeOK
<1>2. ASSUME NEW ts \in SUBSET Tags, NEW grant \in BOOLEAN, Import(ts, grant) PROVE ContactsInv'
  BY <1>0, <1>2, RowKeeps DEF Import, BulkUpsert, ContactsTypeOK
<1>3. CASE MessageArrives
  <2>1. {} \in SUBSET Tags
    OBVIOUS
  <2> QED
    BY <1>0, <1>3, <2>1, RowKeeps DEF MessageArrives, ContactsTypeOK
<1>4. CASE DeleteContact
  BY <1>4 DEF DeleteContact, ContactsInv, ContactsTypeOK, StoppedStands, RequestsFoundARow, NoRow
<1>5. ASSUME NEW t \in Tags, RemoveTag(t) PROVE ContactsInv'
  <2>1. tags' \in SUBSET Tags /\ {} \in SUBSET Tags
    BY <1>0, <1>5 DEF RemoveTag, ContactsTypeOK
  <2> QED
    BY <1>0, <1>5, <2>1, RowKeeps DEF RemoveTag, ContactsTypeOK
<1>6. ASSUME NEW r \in CrmRequests, BeginConsent(r) \/ BeginOptOut(r) PROVE ContactsInv'
  BY <1>6, BeginKeeps, NoCrmRequestFacts DEF BeginConsent, BeginOptOut
<1>7. ASSUME NEW r \in CrmRequests, NEW t \in Tags, BeginTag(r, t) PROVE ContactsInv'
  BY <1>7, BeginKeeps DEF BeginTag
<1>8. ASSUME NEW r \in CrmRequests,
             Grant(r) \/ LiftOptOut(r) \/ Revoke(r) \/ SetOptedOut(r) \/ AddTag(r)
      PROVE  ContactsInv'
  BY <1>8, RequestKeeps
<1>9. CASE UNCHANGED contactsVars
  BY <1>9 DEF contactsVars, ContactsInv, ContactsTypeOK, StoppedStands, RequestsFoundARow,
              Consenting
<1> QED
  BY <1>1, <1>2, <1>3, <1>4, <1>5, <1>6, <1>7, <1>8, <1>9 DEF ContactsNext

(* Nothing but a consent request lifts an opt-out: no import (bulkUpsert), *)
(* no inbound message, no request that read the contact before it.         *)
THEOREM OptOutsStand == ContactsSpec => []OptOutStands
<1>1. ContactsInv => OptOutStands
  BY DEF ContactsInv, StoppedStands, OptOutStands, MayBeMessaged
<1> QED
  BY <1>1, ContactsInitially, ContactsStep, PTL DEF ContactsSpec

-----------------------------------------------------------------------------
SessionsOK ==
    /\ Len(sessions) \in Nat
    /\ sessions = [s \in 1..Len(sessions) |->
                      [node |-> sessions[s].node, status |-> sessions[s].status]]

(***************************************************************************)
(* A message in hand names a session there is, so saving it starts none:   *)
(* the session may have ended meanwhile, and stays ended.                  *)
(***************************************************************************)
HandlingOK ==
    /\ handling = [m \in FlowMessages |-> handling[m]]
    /\ \A m \in FlowMessages :
          handling[m] # NotHandling => handling[m].session \in 1..Len(sessions)

FlowsInv == SessionsOK /\ HandlingOK /\ OneSessionSpeaks

(* A session appended to the others is the last, the others stay.          *)
LEMMA SessionAppended ==
  ASSUME SessionsOK, NEW e
  PROVE  LET longer == Append(sessions, e) IN
         /\ Len(longer) = Len(sessions) + 1
         /\ longer = [s \in 1..Len(sessions) + 1 |-> IF s <= Len(sessions) THEN sessions[s] ELSE e]
<1> DEFINE S == {sessions[s] : s \in 1..Len(sessions)} \cup {e}
           longer == Append(sessions, e)
<1>1. sessions \in [1..Len(sessions) -> S]
  BY DEF SessionsOK
<1>2. sessions \in Seq(S)
  BY <1>1, SeqDef DEF SessionsOK
<1>3. e \in S
  OBVIOUS
<1> HIDE DEF S
<1>4. /\ longer \in Seq(S)
      /\ Len(longer) = Len(sessions) + 1
      /\ \A s \in 1..Len(sessions) : longer[s] = sessions[s]
      /\ longer[Len(sessions) + 1] = e
  BY <1>2, <1>3, AppendProperties
<1>5. longer \in [1..Len(longer) -> S]
  BY <1>4, LenProperties
<1> HIDE DEF longer
<1>6. \A s \in 1..Len(sessions) + 1 :
         longer[s] = IF s <= Len(sessions) THEN sessions[s] ELSE e
  BY <1>4 DEF SessionsOK
<1>7. longer = [s \in 1..Len(sessions) + 1 |-> IF s <= Len(sessions) THEN sessions[s] ELSE e]
  BY <1>4, <1>5, <1>6
<1> QED
  BY <1>4, <1>7 DEF longer

(* There is no session at first.                                           *)
LEMMA FlowsInitially == FlowsInit => FlowsInv
<1> SUFFICES ASSUME FlowsInit PROVE FlowsInv
  OBVIOUS
<1>1. Len(sessions) = 0 /\ sessions = <<>>
  BY DEF FlowsInit
<1>2. SessionsOK
  BY <1>1 DEF SessionsOK
<1> QED
  BY <1>1, <1>2 DEF FlowsInit, FlowsInv, HandlingOK, OneSessionSpeaks, ActiveSessions

(* A session is inserted only where none is active (the partial unique     *)
(* index of the active session).                                           *)
LEMMA StartKeeps ==
  ASSUME FlowsInv, NEW m \in FlowMessages, StartFlow(m)
  PROVE  FlowsInv'
<1> DEFINE started == [node |-> 1, status |-> "active"]
<1>1. /\ Len(sessions') = Len(sessions) + 1
      /\ sessions' = [s \in 1..Len(sessions) + 1 |->
                         IF s <= Len(sessions) THEN sessions[s] ELSE started]
  BY SessionAppended DEF StartFlow, FlowsInv
<1>2. SessionsOK'
  BY <1>1 DEF SessionsOK, FlowsInv
<1>3. HandlingOK'
  BY <1>1 DEF StartFlow, HandlingOK, FlowsInv, SessionsOK
<1>4. \A s \in 1..Len(sessions) : sessions'[s] = sessions[s] /\ sessions[s].status # "active"
  BY <1>1 DEF StartFlow, ActiveSessions, FlowsInv, SessionsOK
<1>5. OneSessionSpeaks'
  <2>1. SUFFICES ASSUME NEW s \in 1..Len(sessions'), sessions'[s].status = "active"
                 PROVE  s = Len(sessions')
    BY DEF OneSessionSpeaks, ActiveSessions
  <2>2. s \notin 1..Len(sessions)
    BY <1>4, <2>1
  <2> QED
    BY <1>1, <2>1, <2>2 DEF FlowsInv, SessionsOK
<1> QED
  BY <1>2, <1>3, <1>5 DEF FlowsInv

(* updateSession moves the cursor or ends the session, never both ways.    *)
LEMMA SaveKeeps ==
  ASSUME FlowsInv, NEW m \in FlowMessages, SaveSession(m)
  PROVE  FlowsInv'
<1> DEFINE k == handling[m].session
           saved == IF handling[m].waitsAt = NoNode
                    THEN [sessions[k] EXCEPT !.status = "completed"]
                    ELSE [sessions[k] EXCEPT !.node = handling[m].waitsAt]
<1>1. k \in 1..Len(sessions) /\ sessions' = [sessions EXCEPT ![k] = saved]
  BY DEF SaveSession, FlowsInv, HandlingOK
<1>2. sessions[k] = [node |-> sessions[k].node, status |-> sessions[k].status]
  BY <1>1 DEF FlowsInv, SessionsOK
<1>3. /\ saved = [node |-> saved.node, status |-> saved.status]
      /\ saved.status = "active" => sessions[k].status = "active"
  <2>1. CASE handling[m].waitsAt = NoNode
    BY <1>2, <2>1
  <2>2. CASE handling[m].waitsAt # NoNode
    BY <1>2, <2>2
  <2> QED
    BY <2>1, <2>2
<1> HIDE DEF k, saved
<1>4. sessions' = [s \in 1..Len(sessions) |-> IF s = k THEN saved ELSE sessions[s]]
  BY <1>1 DEF FlowsInv, SessionsOK
<1>5. Len(sessions') = Len(sessions)
  BY <1>4, LenProperties DEF FlowsInv, SessionsOK
<1>6. SessionsOK'
  BY <1>3, <1>4, <1>5 DEF FlowsInv, SessionsOK
<1>7. HandlingOK'
  BY <1>5 DEF FlowsInv, HandlingOK, SaveSession
<1>8. OneSessionSpeaks'
  BY <1>3, <1>4, <1>5 DEF FlowsInv, OneSessionSpeaks, ActiveSessions
<1> QED
  BY <1>6, <1>7, <1>8 DEF FlowsInv

(* Every operation keeps the invariant.                                    *)
LEMMA FlowsStep == FlowsInv /\ [FlowsNext]_flowsVars => FlowsInv'
<1> SUFFICES ASSUME FlowsInv, [FlowsNext]_flowsVars PROVE FlowsInv'
  OBVIOUS
<1> USE DEF FlowsInv, SessionsOK, HandlingOK, OneSessionSpeaks, ActiveSessions
<1>1. CASE Activate("active") \/ Activate("paused")
  BY <1>1 DEF Activate
<1>2. ASSUME NEW m \in FlowMessages, NEW reply \in Replies, ContinueSession(m, reply)
      PROVE  FlowsInv'
  BY <1>2 DEF ContinueSession
<1>3. ASSUME NEW m \in FlowMessages, StartFlow(m) PROVE FlowsInv'
  BY <1>3, StartKeeps
<1>4. ASSUME NEW m \in FlowMessages, SaveSession(m) PROVE FlowsInv'
  BY <1>4, SaveKeeps
<1>5. ASSUME NEW m \in FlowMessages, SaveLost(m) PROVE FlowsInv'
  BY <1>5 DEF SaveLost
<1>6. CASE UNCHANGED flowsVars
  BY <1>6 DEF flowsVars
<1> QED
  BY <1>1, <1>2, <1>3, <1>4, <1>5, <1>6 DEF FlowsNext

(* At most one session of a conversation is active, and only its last:     *)
(* a late save of an earlier one (runFlowRuntime) never revives it.        *)
THEOREM OnlyTheLastSessionSpeaks == FlowsSpec => []OneSessionSpeaks
<1>1. FlowsInv => OneSessionSpeaks
  BY DEF FlowsInv
<1> QED
  BY <1>1, FlowsInitially, FlowsStep, PTL DEF FlowsSpec

-----------------------------------------------------------------------------
(***************************************************************************)
(* The round-robin of a team. Types.                                       *)
(***************************************************************************)
RotationTypeOK ==
    /\ teams \subseteq Teams
    /\ activeUsers \subseteq Members
    /\ DOMAIN settings = {"enabled", "team", "hours"}
    /\ settings.team \in Teams \cup {NoTeam}
    /\ cursor \in Nat
    /\ served \in [Members -> Nat]
    /\ pick \in [Pickers -> [at : {"idle", "members", "lock", "commit"},
                             team : Teams \cup {NoTeam}, ids : SUBSET Members, last : Nat]]

(***************************************************************************)
(* The members whose turn can come; those after the cursor come before     *)
(* those up to it.                                                         *)
(***************************************************************************)
Rotating == memberOf[settings.team] \cap activeUsers
Later(u) == cursor \in Rotating /\ u > cursor
Precedes(u, v) == (Later(u) /\ ~Later(v)) \/ ((Later(u) <=> Later(v)) /\ u < v)

(***************************************************************************)
(* Counts of two members differ by at most one, and one whose turn comes   *)
(* later was not served less.                                              *)
(***************************************************************************)
ServedInTurn ==
    \A u, v \in Rotating :
        /\ served[u] <= served[v] + 1
        /\ Precedes(u, v) => served[u] <= served[v]

(***************************************************************************)
(* A pick under way reads the team of the settings, unless the settings,   *)
(* the team or its members changed (stale); the cursor's row is locked by  *)
(* one pick at a time, which saw the cursor.                               *)
(***************************************************************************)
PickersCurrent ==
    /\ \A p \in Pickers :
          /\ pick[p].at = "idle" => pick[p] = NoPick
          /\ pick[p].at \in {"lock", "commit"} => pick[p].ids # {}
          /\ p \notin stale /\ pick[p].at = "members" => pick[p].team = settings.team
          /\ p \notin stale /\ pick[p].at \in {"lock", "commit"} => pick[p].ids = Rotating
          /\ pick[p].at = "commit" => pick[p].last = cursor
    /\ \A p, r \in Pickers : pick[p].at = "commit" /\ pick[r].at = "commit" => p = r

RotationInv == RotationTypeOK /\ ServedInTurn /\ PickersCurrent

(* A set of numbers has a smallest one, and CHOOSE finds it.               *)
LEMMA SmallestMember ==
  ASSUME NEW S \in SUBSET Nat, S # {}
  PROVE  /\ (CHOOSE u \in S : \A v \in S : u <= v) \in S
         /\ \A v \in S : (CHOOSE u \in S : \A w \in S : u <= w) <= v
<1>1. PICK u \in S : \A v \in S : ~(<<v, u>> \in OpToRel(<, Nat))
  BY NatLessThanWellFounded, WFMin
<1>2. \A v \in S : u <= v
  <2> SUFFICES ASSUME NEW v \in S, v < u PROVE FALSE
    OBVIOUS
  <2> QED
    BY <1>1 DEF OpToRel
<1> QED
  BY <1>2

(* What nextRotationMember returns: the next id after the cursor, or the   *)
(* first one.                                                              *)
LEMMA NextInTurn ==
  ASSUME NEW ids \in SUBSET Nat, ids # {}, NEW last \in Nat
  PROVE  LET next == NextMember(ids, last) IN
         /\ next \in ids
         /\ \/ last \in ids /\ next > last /\ \A v \in ids : v > last => next <= v
            \/ (last \in ids => \A v \in ids : v <= last) /\ \A v \in ids : next <= v
<1> DEFINE later == IF last \in ids THEN {u \in ids : u > last} ELSE {}
           from == IF later = {} THEN ids ELSE later
           next == CHOOSE u \in from : \A v \in from : u <= v
<1>1. NextMember(ids, last) = next
  BY DEF NextMember
<1>2. from \in SUBSET Nat /\ from # {}
  OBVIOUS
<1>3. next \in from /\ \A v \in from : next <= v
  <2> HIDE DEF from
  <2> QED
    BY <1>2, SmallestMember
<1>4. CASE later = {}
  <2>1. from = ids
    BY <1>4
  <2>2. last \in ids => \A v \in ids : v <= last
    BY <1>4
  <2> QED
    BY <1>1, <1>3, <2>1, <2>2
<1>5. CASE later # {}
  <2>1. from = later /\ last \in ids /\ later = {u \in ids : u > last}
    BY <1>5
  <2> QED
    BY <1>1, <1>3, <2>1
<1> QED
  BY <1>4, <1>5

(* Nobody was served at first.                                             *)
LEMMA RotationInitially == RotationInit => RotationInv
<1> SUFFICES ASSUME RotationInit PROVE RotationInv
  OBVIOUS
<1> USE RotationAssumption DEF RotationInit
<1>1. RotationTypeOK
  BY DEF RotationTypeOK, NoPick
<1>2. \A u \in Members : served[u] = 0
  OBVIOUS
<1>3. ServedInTurn
  BY <1>2 DEF ServedInTurn, Rotating
<1>4. PickersCurrent
  BY DEF PickersCurrent, NoPick
<1> QED
  BY <1>1, <1>3, <1>4 DEF RotationInv

(* A change of settings, team or members starts the counting again.        *)
LEMMA RotationRestarts ==
  ASSUME RotationInv, RotationTypeOK', Restarts, UNCHANGED <<cursor, pick>>
  PROVE  RotationInv'
<1>1. \A u \in Members : served'[u] = 0
  BY DEF Restarts
<1>2. ServedInTurn'
  <2>1. Rotating' \subseteq Members
    BY DEF RotationTypeOK, Rotating
  <2>2. \A u, v \in Rotating' : served'[u] = 0 /\ served'[v] = 0
    BY <1>1, <2>1
  <2> QED
    BY <2>2 DEF ServedInTurn
<1>3. \A p \in Pickers : pick[p].at # "idle" => p \in stale'
  BY DEF Restarts, Picking, NoPick
<1>4. PickersCurrent'
  BY <1>3 DEF RotationInv, PickersCurrent
<1> QED
  BY <1>2, <1>4 DEF RotationInv

(* Types, step by step.                                                    *)
LEMMA RotationTypes ==
  ASSUME RotationTypeOK, PickersCurrent, [RotationNext]_rotationVars
  PROVE  RotationTypeOK'
<1> USE DEF RotationTypeOK
<1>1. ASSUME NEW p \in Pickers, BeginPick(p) PROVE RotationTypeOK'
  BY <1>1 DEF BeginPick, NoPick
<1>2. ASSUME NEW p \in Pickers, ReadMembers(p) PROVE RotationTypeOK'
  BY <1>2 DEF ReadMembers, NoPick
<1>3. ASSUME NEW p \in Pickers, LockCursor(p) PROVE RotationTypeOK'
  <2>1. UNCHANGED <<teams, activeUsers, settings, cursor, served>>
    BY <1>3 DEF LockCursor
  <2>2. pick' = [pick EXCEPT ![p] = [@ EXCEPT !.at = "commit", !.last = cursor]]
    BY <1>3 DEF LockCursor
  <2>3. [pick[p] EXCEPT !.at = "commit", !.last = cursor]
           \in [at : {"idle", "members", "lock", "commit"}, team : Teams \cup {NoTeam},
               ids : SUBSET Members, last : Nat]
    OBVIOUS
  <2>4. pick' \in [Pickers -> [at : {"idle", "members", "lock", "commit"},
                                team : Teams \cup {NoTeam}, ids : SUBSET Members, last : Nat]]
    BY <2>2, <2>3
  <2> QED
    BY <2>1, <2>4
<1>4. ASSUME NEW p \in Pickers, CommitPick(p) PROVE RotationTypeOK'
  <2> DEFINE next == NextMember(pick[p].ids, pick[p].last)
  <2>1. pick[p].ids \in SUBSET Nat /\ pick[p].ids # {} /\ pick[p].last \in Nat
    BY <1>4, RotationAssumption DEF CommitPick, PickersCurrent
  <2>2. next \in pick[p].ids
    BY <2>1, NextInTurn
  <2>3. next \in Nat /\ next \in Members
    BY <2>1, <2>2
  <2>4. /\ cursor' = next
        /\ served' = IF p \in stale THEN [u \in Members |-> 0]
                     ELSE [served EXCEPT ![next] = @ + 1]
        /\ pick' = [pick EXCEPT ![p] = NoPick]
        /\ UNCHANGED <<teams, activeUsers, settings>>
    BY <1>4 DEF CommitPick
  <2> HIDE DEF next
  <2> QED
    BY <2>3, <2>4 DEF NoPick
<1>5. ASSUME NEW t \in Teams, NEW u \in Members, NEW on \in BOOLEAN, SetMember(t, u, on)
      PROVE  RotationTypeOK'
  BY <1>5 DEF SetMember, Restarts
<1>6. ASSUME NEW u \in Members, NEW on \in BOOLEAN, SetUserActive(u, on) PROVE RotationTypeOK'
  BY <1>6 DEF SetUserActive, Restarts
<1>7. ASSUME NEW t \in Teams, DeleteTeam(t) PROVE RotationTypeOK'
  <2>1. settings'.team \in Teams \cup {NoTeam}
    BY <1>7 DEF DeleteTeam
  <2>3. DOMAIN settings' = {"enabled", "team", "hours"}
    BY <1>7 DEF DeleteTeam
  <2>2. /\ teams' \subseteq Teams /\ served' \in [Members -> Nat]
        /\ UNCHANGED <<activeUsers, cursor, pick>>
    BY <1>7 DEF DeleteTeam, Restarts
  <2> QED
    BY <2>1, <2>2, <2>3
<1>8. ASSUME NEW q \in Patchers, CommitUpsert(q) PROVE RotationTypeOK'
  <2>1. settings'.team \in Teams \cup {NoTeam}
    BY <1>8 DEF CommitUpsert
  <2>3. DOMAIN settings' = {"enabled", "team", "hours"}
    BY <1>8 DEF CommitUpsert, Merged
  <2>2. served' \in [Members -> Nat] /\ UNCHANGED <<teams, activeUsers, cursor, pick>>
    BY <1>8 DEF CommitUpsert, Restarts
  <2> QED
    BY <2>1, <2>2, <2>3
<1>9. CASE \/ UNCHANGED rotationVars
          \/ \E q \in Patchers : \E patch \in SettingsPatches : BeginUpsert(q, patch)
  BY <1>9 DEF BeginUpsert, rotationVars
<1> QED
  BY <1>1, <1>2, <1>3, <1>4, <1>5, <1>6, <1>7, <1>8, <1>9 DEF RotationNext

(* One case per step of a pick and per edit of the settings and the team.  *)
LEMMA RotationStep == RotationInv /\ [RotationNext]_rotationVars => RotationInv'
<1> SUFFICES ASSUME RotationInv, [RotationNext]_rotationVars PROVE RotationInv'
  OBVIOUS
<1>a. RotationTypeOK /\ ServedInTurn /\ PickersCurrent /\ RotationTypeOK'
  BY RotationTypes DEF RotationInv
<1>1. ASSUME NEW p \in Pickers, BeginPick(p) PROVE RotationInv'
  <2>1. /\ pick[p].at = "idle"
        /\ pick'[p].at = "members" /\ pick'[p].team = settings.team
        /\ \A r \in Pickers \ {p} : pick'[r] = pick[r]
        /\ stale' = stale \ {p}
        /\ UNCHANGED <<memberOf, activeUsers, settings, cursor, served>>
    BY <1>1, <1>a DEF BeginPick, NoPick, RotationTypeOK
  <2>2. ServedInTurn'
    BY <1>a, <2>1 DEF ServedInTurn, Rotating, Precedes, Later
  <2>3. PickersCurrent'
    BY <1>a, <2>1 DEF PickersCurrent, Rotating
  <2> QED
    BY <1>a, <2>2, <2>3 DEF RotationInv
<1>2. ASSUME NEW p \in Pickers, ReadMembers(p) PROVE RotationInv'
  <2> DEFINE ids == memberOf[pick[p].team] \cap activeUsers
  <2>1. /\ pick[p].at = "members"
        /\ \/ pick'[p] = NoPick
           \/ pick'[p].at = "lock" /\ ids # {} /\ pick'[p].ids = ids
              /\ pick'[p].team = pick[p].team
        /\ \A r \in Pickers \ {p} : pick'[r] = pick[r]
        /\ UNCHANGED <<memberOf, activeUsers, settings, cursor, served, stale>>
    BY <1>2, <1>a DEF ReadMembers, RotationTypeOK
  <2>2. ServedInTurn'
    BY <1>a, <2>1 DEF ServedInTurn, Rotating, Precedes, Later
  <2>3. CASE pick'[p] = NoPick
    BY <1>a, <2>1, <2>2, <2>3 DEF RotationInv, PickersCurrent, Rotating, NoPick
  <2>4. CASE pick'[p].at = "lock" /\ ids # {} /\ pick'[p].ids = ids
    <3>1. p \notin stale => ids = Rotating
      BY <1>a, <2>1 DEF PickersCurrent, Rotating
    <3>2. Rotating' = Rotating
      BY <2>1 DEF Rotating
    <3>3. PickersCurrent'
      BY <1>a, <2>1, <2>4, <3>1, <3>2 DEF PickersCurrent
    <3> QED
      BY <1>a, <2>2, <3>3 DEF RotationInv
  <2> QED
    BY <2>1, <2>3, <2>4
<1>3. ASSUME NEW p \in Pickers, LockCursor(p) PROVE RotationInv'
  <2>1. /\ pick[p].at = "lock" /\ \A r \in Pickers : pick[r].at # "commit"
        /\ pick'[p].at = "commit" /\ pick'[p].last = cursor
        /\ pick'[p].ids = pick[p].ids
        /\ \A r \in Pickers \ {p} : pick'[r] = pick[r]
        /\ UNCHANGED <<memberOf, activeUsers, settings, cursor, served, stale>>
    BY <1>3, <1>a DEF LockCursor, RotationTypeOK
  <2>2. ServedInTurn'
    BY <1>a, <2>1 DEF ServedInTurn, Rotating, Precedes, Later
  <2>3. PickersCurrent'
    BY <1>a, <2>1 DEF PickersCurrent, Rotating
  <2> QED
    BY <1>a, <2>2, <2>3 DEF RotationInv
<1>4. ASSUME NEW p \in Pickers, CommitPick(p) PROVE RotationInv'
  <2> DEFINE ids == pick[p].ids
             next == NextMember(ids, pick[p].last)
  <2>1. /\ pick[p].at = "commit"
        /\ cursor' = next
        /\ served' = IF p \in stale THEN [u \in Members |-> 0]
                     ELSE [served EXCEPT ![next] = @ + 1]
        /\ pick' = [pick EXCEPT ![p] = NoPick]
        /\ UNCHANGED <<memberOf, activeUsers, settings, stale>>
    BY <1>4 DEF CommitPick
  <2>2. /\ ids \in SUBSET Nat /\ ids \subseteq Members /\ ids # {}
        /\ pick[p].last = cursor /\ cursor \in Nat
    BY <1>a, <2>1, RotationAssumption DEF PickersCurrent, RotationTypeOK
  <2>3. /\ next \in ids
        /\ \/ cursor \in ids /\ next > cursor /\ \A v \in ids : v > cursor => next <= v
           \/ (cursor \in ids => \A v \in ids : v <= cursor) /\ \A v \in ids : next <= v
    BY <2>2, NextInTurn
  <2> HIDE DEF next
  <2>4. PickersCurrent'
    <3>1. pick'[p] = NoPick /\ \A r \in Pickers \ {p} : pick'[r] = pick[r] /\ pick[r].at # "commit"
      BY <1>a, <2>1 DEF PickersCurrent, RotationTypeOK
    <3>2. Rotating' = Rotating
      BY <2>1 DEF Rotating
    <3>3. \A r \in Pickers : pick'[r].at \in {"members", "lock", "commit"} => r # p
      BY <3>1 DEF NoPick
    <3> QED
      BY <1>a, <2>1, <3>1, <3>2, <3>3 DEF PickersCurrent
  <2>5. CASE p \in stale
    <3>1. \A u \in Members : served'[u] = 0
      BY <2>1, <2>5
    <3>2. ServedInTurn'
      <4>1. \A u \in Rotating' : served'[u] = 0
        BY <1>a, <3>1 DEF RotationTypeOK, Rotating
      <4> QED
        BY <4>1 DEF ServedInTurn
    <3> QED
      BY <1>a, <2>4, <3>2 DEF RotationInv
  <2>6. CASE p \notin stale
    <3>1. ids = Rotating /\ Rotating' = Rotating
      BY <1>a, <2>1, <2>6 DEF PickersCurrent, Rotating
    <3>2. /\ served'[next] = served[next] + 1
          /\ \A u \in Rotating : u # next => served'[u] = served[u]
          /\ \A u \in Rotating : served[u] \in Nat /\ u \in Nat
      BY <1>a, <2>1, <2>2, <2>3, <2>6, <3>1 DEF RotationTypeOK
    <3>3. \A u \in Rotating : u # next => Precedes(next, u)
      BY <2>2, <2>3, <3>1, <3>2 DEF Precedes, Later
    <3>4. \A u \in Rotating : served[next] <= served[u]
      BY <1>a, <2>3, <3>1, <3>2, <3>3 DEF ServedInTurn
    <3>5. \A u, v \in Rotating : Precedes(u, v)' => v = next \/ (u # next /\ Precedes(u, v))
      BY <2>1, <2>2, <2>3, <3>1, <3>2 DEF Precedes, Later
    <3>6. ServedInTurn'
      <4> SUFFICES ASSUME NEW u \in Rotating, NEW v \in Rotating
                   PROVE  /\ served'[u] <= served'[v] + 1
                          /\ Precedes(u, v)' => served'[u] <= served'[v]
        BY <3>1 DEF ServedInTurn
      <4>1. served[u] <= served[v] + 1 /\ (Precedes(u, v) => served[u] <= served[v])
        BY <1>a DEF ServedInTurn
      <4>2. served[next] <= served[u] /\ served[next] <= served[v]
        BY <3>4
      <4>3. next \in Rotating
        BY <2>3, <3>1
      <4>4. served[u] <= served[next] + 1
        BY <1>a, <4>3 DEF ServedInTurn
      <4> QED
        BY <3>2, <3>5, <4>1, <4>2, <4>3, <4>4
    <3> QED
      BY <1>a, <2>4, <3>6 DEF RotationInv
  <2> QED
    BY <2>5, <2>6
<1>5. CASE \/ \E t \in Teams, u \in Members, on \in BOOLEAN : SetMember(t, u, on)
           \/ \E u \in Members, on \in BOOLEAN : SetUserActive(u, on)
           \/ \E t \in Teams : DeleteTeam(t)
  <2>1. Restarts /\ UNCHANGED <<cursor, pick>>
    BY <1>5 DEF SetMember, SetUserActive, DeleteTeam
  <2> QED
    BY <1>a, <2>1, RotationRestarts
<1>6. ASSUME NEW q \in Patchers, CommitUpsert(q) PROVE RotationInv'
  <2>1. /\ UNCHANGED <<memberOf, activeUsers, cursor, pick>>
        /\ Restarts \/ (settings'.team = settings.team /\ UNCHANGED <<served, stale>>)
    BY <1>6 DEF CommitUpsert
  <2>2. CASE Restarts
    BY <1>a, <2>1, <2>2, RotationRestarts
  <2>3. CASE settings'.team = settings.team /\ UNCHANGED <<served, stale>>
    <3>1. ServedInTurn'
      BY <1>a, <2>1, <2>3 DEF ServedInTurn, Rotating, Precedes, Later
    <3>2. PickersCurrent'
      BY <1>a, <2>1, <2>3 DEF PickersCurrent, Rotating
    <3> QED
      BY <1>a, <3>1, <3>2 DEF RotationInv
  <2> QED
    BY <2>1, <2>2, <2>3
<1>7. CASE \/ UNCHANGED rotationVars
          \/ \E q \in Patchers : \E patch \in SettingsPatches : BeginUpsert(q, patch)
  <2>1. UNCHANGED <<memberOf, activeUsers, settings, cursor, pick, served, stale>>
    BY <1>7 DEF BeginUpsert, rotationVars
  <2>2. ServedInTurn'
    BY <1>a, <2>1 DEF ServedInTurn, Rotating, Precedes, Later
  <2>3. PickersCurrent'
    BY <1>a, <2>1 DEF PickersCurrent, Rotating
  <2> QED
    BY <1>a, <2>2, <2>3 DEF RotationInv
<1> QED
  BY <1>1, <1>2, <1>3, <1>4, <1>5, <1>6, <1>7 DEF RotationNext

(* No rotating member is more than one assignment ahead of another since   *)
(* the team, its members or its settings last changed, or a pick that had  *)
(* read them before assigned; for any number of concurrent messages        *)
(* (pickRotationAgent).                                                    *)
THEOREM RotationIsFairAlways == RotationSpec => []RotationIsFair
<1>1. RotationInv => RotationIsFair
  BY DEF RotationInv, RotationIsFair, ServedInTurn, Rotating
<1> QED
  BY <1>1, RotationInitially, RotationStep, PTL DEF RotationSpec

-----------------------------------------------------------------------------
(***************************************************************************)
(* The browser's inbox. What the proof needs of the types: counters are    *)
(* numbers, queries map to caches and fetches, and a stream up means that  *)
(* a connection was tried.                                                 *)
(***************************************************************************)
InboxShape ==
    /\ announcing \in [Gateways -> Nat]
    /\ stored \in Nat
    /\ attempts \in Nat
    /\ cache = [q \in Queries |-> cache[q]]
    /\ fetch = [q \in Queries |-> fetch[q]]
    /\ \A q \in Queries : fetch[q] \in {NoFetch, Asked} \/ fetch[q].at = "answered"
    /\ Streaming => attempts > 0

(***************************************************************************)
(* The stream is down and will be connected again, which resynchronises.   *)
(***************************************************************************)
WillReconnect == ~Streaming /\ attempts > 0

(***************************************************************************)
(* Something that will invalidate the query is still to come: a reconnect, *)
(* the deferred resync, an event announced, forwarded or due for a stored  *)
(* row.                                                                    *)
(***************************************************************************)
Pending(q) ==
    \/ WillReconnect \/ resync \/ arriving = "forward"
    \/ q = "list" /\ \E g \in Gateways : announcing[g] > 0
    \/ q = "thread" /\ stored > 0

(***************************************************************************)
(* A query shows what the server has, or its answer in hand does, or       *)
(* something pending will invalidate it, or a change passed it by.         *)
(***************************************************************************)
Current(q) ==
    \/ q \in passedBy
    \/ Pending(q)
    \/ /\ fetch[q] = NoFetch => cache[q] = Server[q]
       /\ fetch[q].at = "answered" => fetch[q].value = Server[q]

InboxInv == InboxShape /\ \A q \in Queries : Current(q)

(* Nothing is cached or under way at first.                                *)
LEMMA InboxInitially == InboxInit => InboxInv
<1> SUFFICES ASSUME InboxInit PROVE InboxInv
  OBVIOUS
<1> USE InboxAssumption DEF InboxInit
<1>1. InboxShape
  BY DEF InboxShape, Server, NoFetch, Asked, Streaming
<1>2. \A q \in Queries : Current(q)
  BY DEF Current, NoFetch, Asked, Pending
<1> QED
  BY <1>1, <1>2 DEF InboxInv

(* One case per turn of the browser, of a gateway or of the worker: each   *)
(* change of the server's rows leaves an announcement pending, and each    *)
(* announcement that is spent invalidates the query.                       *)
LEMMA InboxStep == InboxInv /\ [InboxNext]_inboxVars => InboxInv'
<1> SUFFICES ASSUME InboxInv, [InboxNext]_inboxVars PROVE InboxInv'
  OBVIOUS
<1> USE InboxAssumption
    DEF InboxInv, InboxShape, Current, Pending, WillReconnect, Streaming, Server, NoFetch, Asked,
        Database, UnderWay, Connection, Page
<1>1. ASSUME NEW q \in Queries, ServerAnswers(q) PROVE InboxInv'
  BY <1>1 DEF ServerAnswers
<1>2. ASSUME NEW q \in Queries, AnswerArrives(q) PROVE InboxInv'
  BY <1>2 DEF AnswerArrives
<1>3. ASSUME NEW g \in Gateways, Connect(g) PROVE InboxInv'
  BY <1>3 DEF Connect, RequestResync, RunResync, Resynced, PassedByResync
<1>4. ASSUME NEW next \in {"down", "refused"}, ConnectFails(next) PROVE InboxInv'
  BY <1>4 DEF ConnectFails
<1>5. CASE StreamEnds
  BY <1>5 DEF StreamEnds
<1>6. CASE IntervalEnds
  BY <1>6 DEF IntervalEnds, RunResync, Resynced, PassedByResync
<1>7. ASSUME NEW g \in Gateways, Broadcast(g) PROVE InboxInv'
  BY <1>7 DEF Broadcast, Unheard, HandleEvent, BeforeFirstStream, Invalidated
<1>8. ASSUME NEW heard \in BOOLEAN, ForwardInbound(heard) PROVE InboxInv'
  <2>1. CASE ~heard
    BY <1>8, <2>1 DEF ForwardInbound, Forwarded, Unheard, Queries
  <2>2. CASE heard /\ Streaming
    BY <1>8, <2>2 DEF ForwardInbound, Forwarded, Invalidated, Queries
  <2>3. CASE heard /\ ~Streaming
    <3>1. /\ UNCHANGED <<conversation, thread, announcing, stored, stream, attempts, resync, cache,
                         fetch>>
          /\ passedBy' = passedBy \cup BeforeFirstStream
      BY <1>8, <2>3 DEF ForwardInbound, HandleEvent, BeforeFirstStream
    <3> QED
      BY <2>3, <3>1 DEF BeforeFirstStream
  <2> QED
    BY <1>8, <2>1, <2>2, <2>3
<1>9. ASSUME NEW heard \in BOOLEAN, ForwardReceipt(heard) PROVE InboxInv'
  BY <1>9 DEF ForwardReceipt, Invalidated
<1>10. ASSUME NEW heard \in BOOLEAN, ForwardMediaStored(heard) PROVE InboxInv'
  BY <1>10 DEF ForwardMediaStored, Unheard, HandleEvent, BeforeFirstStream, Invalidated
<1>11. ASSUME NEW g \in Gateways, NEW row, NEW reached \in BOOLEAN, ByRoute(g, row, reached)
       PROVE InboxInv'
  BY <1>11 DEF ByRoute, Changes, Untold
<1>12. ASSUME NEW g \in Gateways, AssignTeam(g) PROVE InboxInv'
  BY <1>12 DEF AssignTeam
<1>13. ASSUME NEW g \in Gateways, NEW reached \in BOOLEAN, MarkRead(g, reached) PROVE InboxInv'
  <2>1. PICK row : Changes(g, row, reached)
    BY <1>13 DEF MarkRead
  <2>2. fetch' = Invalidated({"list"})
    BY <1>13 DEF MarkRead
  <2>3. PICK shown : cache' = [cache EXCEPT !["list"] = shown]
    BY <1>13 DEF MarkRead
  <2> QED
    BY <2>1, <2>2, <2>3 DEF Changes, Untold, Invalidated
<1>14. ASSUME NEW u, AssignByRule(u) PROVE InboxInv'
  BY <1>14 DEF AssignByRule, Untold
<1>15. CASE ReceiveInbound \/ ReceiveReceipt
  BY <1>15 DEF ReceiveInbound, ReceiveReceipt
<1>16. ASSUME NEW recorded \in BOOLEAN, RecordInbound(recorded) PROVE InboxInv'
  BY <1>16 DEF RecordInbound, NewMessage, Untold, Queries
<1>17. CASE ApplyStatusUpdate
  <2>1. /\ UNCHANGED <<conversation, announcing, arriving, stored, stream, attempts, resync, cache,
                       fetch>>
        /\ passedBy' = passedBy \cup {"thread"}
    BY <1>17 DEF ApplyStatusUpdate, Untold
  <2>2. Current("list")'
    BY <2>1 DEF Queries
  <2>3. Current("thread")'
    BY <2>1
  <2> QED
    BY <2>1, <2>2, <2>3 DEF Queries
<1>18. ASSUME NEW published \in BOOLEAN, StoreMedia(published) PROVE InboxInv'
  <2>1. /\ UNCHANGED <<conversation, announcing, arriving, stream, attempts, resync, cache, fetch>>
        /\ stored' \in Nat /\ stored' >= stored
        /\ passedBy \subseteq passedBy'
        /\ stored' > 0 \/ "thread" \in passedBy'
    BY <1>18 DEF StoreMedia, Untold
  <2>2. InboxShape'
    BY <2>1
  <2>3. Current("list")'
    BY <2>1 DEF Queries
  <2>4. Current("thread")'
    BY <2>1
  <2> QED
    BY <2>2, <2>3, <2>4 DEF Queries
<1>19. CASE SendMessage
  <2>1. /\ UNCHANGED <<conversation, thread, announcing, arriving, stored, stream, attempts, resync,
                       cache, passedBy>>
        /\ fetch' = [q \in Queries |-> Asked]
    BY <1>19 DEF SendMessage, Invalidated, Queries
  <2> QED
    BY <2>1
<1>20. ASSUME NEW created \in BOOLEAN, CreateOutboundRow(created) PROVE InboxInv'
  BY <1>20 DEF CreateOutboundRow, NewMessage, Untold, Queries
<1>21. CASE SendUnasked
  BY <1>21 DEF SendUnasked, NewMessage, Untold, Queries
<1>22. CASE UNCHANGED inboxVars
  BY <1>22 DEF inboxVars
<1> QED
  BY <1>1, <1>2, <1>3, <1>4, <1>5, <1>6, <1>7, <1>8, <1>9, <1>10, <1>11, <1>12, <1>13, <1>14,
     <1>15, <1>16, <1>17, <1>18, <1>19, <1>20, <1>21, <1>22
     DEF InboxNext, Assign, SetState, SetArchived, SetPinned

(* When nothing is pending and no answer is under way, each query of the   *)
(* page shows the server's rows, whatever gaps the stream had (use-sse.ts, *)
(* SseHub), for any number of gateways.                                    *)
THEOREM InboxCatchesUpAlways == InboxSpec => []InboxCatchesUp
<1>1. InboxInv => InboxCatchesUp
  BY DEF InboxInv, InboxCatchesUp, Settled, Current, Pending, WillReconnect
<1> QED
  BY <1>1, InboxInitially, InboxStep, PTL DEF InboxSpec

=============================================================================
