------------------------------- MODULE Contacts -------------------------------
(***************************************************************************)
(* One phone number in the CRM: its contact row, created by hand, by an    *)
(* import or by an inbound message, its consent records, its tags and its  *)
(* deletion, while consent and opt-out requests run their separate         *)
(* transactions.                                                           *)
(*                                                                         *)
(* A row is a number: a contact deleted and created again is another one.  *)
(***************************************************************************)
EXTENDS Naturals, FiniteSets

CONSTANTS
    CrmRequests,   \* concurrent consent, opt-out and tag requests
    Tags,
    TagLimit,      \* 50 in the gateway
    MaxRows        \* bound: rows the number has had

ASSUME ContactsAssumption == Tags # {} /\ TagLimit \in Nat /\ MaxRows \in Nat

NoRow == 0

VARIABLES
    contact,     \* the row of the number, or NoRow
    lastRow,     \* the rows there have been
    optedOut,    \* metadata.optedOut
    tags,        \* metadata.tags
    consents,    \* rows with an active consent record
    history,     \* the row has a conversation, which outlives it
    crm,         \* per request: [pc, row, tag]
    stopped      \* history: opted out, and no consent request began since or was under way

contactsVars == <<contact, lastRow, optedOut, tags, consents, history, crm, stopped>>

NoCrmRequest == [pc |-> "idle", row |-> NoRow, tag |-> CHOOSE t \in Tags : TRUE]

ContactsInit ==
    /\ contact = NoRow
    /\ lastRow = 0
    /\ optedOut = FALSE
    /\ tags = {}
    /\ consents = {}
    /\ history = FALSE
    /\ crm = [r \in CrmRequests |-> NoCrmRequest]
    /\ stopped = FALSE

-----------------------------------------------------------------------------
Insert(ts) ==
    /\ contact = NoRow
    /\ lastRow < MaxRows
    /\ lastRow' = lastRow + 1
    /\ contact' = lastRow + 1
    /\ optedOut' = FALSE
    /\ tags' = ts

\* POST /contacts; a number that exists is an error of the unique index.
CreateContact(ts) ==
    /\ Insert(ts)
    /\ Cardinality(ts) <= TagLimit
    /\ UNCHANGED <<consents, history, crm, stopped>>

ImportReplacesMetadata(ts, grant) ==   \* mutant: the import overwrites metadata as a whole
    /\ IF contact = NoRow THEN Insert(ts)
       ELSE tags' = ts /\ optedOut' = FALSE /\ UNCHANGED <<contact, lastRow>>
    /\ consents' = IF grant THEN consents \cup {contact'} ELSE consents
    /\ UNCHANGED <<history, crm, stopped>>

(***************************************************************************)
(* bulkUpsert of one row of a file: the tags of the file replace the       *)
(* contact's, none when the file has no tags (row.tags ?? [] leaves the    *)
(* COALESCE nothing to fall back for); optedOut is left alone; consent is  *)
(* recorded when the row says so.                                          *)
(***************************************************************************)
BulkUpsert(ts) ==
    IF contact = NoRow THEN Insert(ts)
    ELSE tags' = ts /\ UNCHANGED <<contact, lastRow, optedOut>>

\* POST /contacts/import, for the row of this contact's number.
Import(ts, grant) ==
    /\ BulkUpsert(ts)
    /\ consents' = IF grant THEN consents \cup {contact'} ELSE consents
    /\ UNCHANGED <<history, crm, stopped>>

\* An inbound message: findOrCreateByPhone and a conversation.
MessageArrives ==
    /\ IF contact = NoRow THEN Insert({}) ELSE UNCHANGED <<contact, lastRow, optedOut, tags>>
    /\ history' = TRUE
    /\ UNCHANGED <<consents, crm, stopped>>

\* DELETE /contacts/:id: refused while a conversation refers to the row; the
\* consent records go with it.
DeleteContact ==
    /\ contact # NoRow
    /\ ~history
    /\ contact' = NoRow
    /\ consents' = consents \ {contact}
    /\ stopped' = FALSE
    /\ UNCHANGED <<lastRow, optedOut, tags, history, crm>>

RemoveTag(t) ==
    /\ contact # NoRow
    /\ t \in tags
    /\ tags' = tags \ {t}
    /\ UNCHANGED <<contact, lastRow, optedOut, consents, history, crm, stopped>>

-----------------------------------------------------------------------------
(***************************************************************************)
(* Requests that read the contact and then write by its id, one            *)
(* transaction per write.                                                  *)
(***************************************************************************)
AtStep(r, pc) == crm[r].pc = pc
GoCrm(r, pc) == crm' = [crm EXCEPT ![r].pc = pc]
EndCrm(r) == crm' = [crm EXCEPT ![r] = NoCrmRequest]
SameRow(r) == crm[r].row = contact   \* an UPDATE by id finds the row

BeginCrm(r, pc, t) ==
    /\ AtStep(r, "idle")
    /\ contact # NoRow
    /\ crm' = [crm EXCEPT ![r] = [pc |-> pc, row |-> contact, tag |-> t]]
    /\ UNCHANGED <<contact, lastRow, optedOut, tags, consents, history>>

BeginConsent(r) == BeginCrm(r, "grant", NoCrmRequest.tag) /\ stopped' = FALSE

\* The insert of a consent record for a row that is gone is a foreign-key error.
Grant(r) ==
    /\ AtStep(r, "grant")
    /\ IF SameRow(r) THEN consents' = consents \cup {contact} /\ GoCrm(r, "lift")
       ELSE UNCHANGED consents /\ EndCrm(r)
    /\ UNCHANGED <<contact, lastRow, optedOut, tags, history, stopped>>

LiftOptOut(r) ==
    /\ AtStep(r, "lift")
    /\ optedOut' = (optedOut /\ ~SameRow(r))
    /\ EndCrm(r)
    /\ UNCHANGED <<contact, lastRow, tags, consents, history, stopped>>

BeginOptOut(r) == BeginCrm(r, "revoke", NoCrmRequest.tag) /\ UNCHANGED stopped

Revoke(r) ==
    /\ AtStep(r, "revoke")
    /\ consents' = consents \ {crm[r].row}
    /\ GoCrm(r, "optout")
    /\ UNCHANGED <<contact, lastRow, optedOut, tags, history, stopped>>

Consenting == \E r \in CrmRequests : crm[r].pc \in {"grant", "lift"}

\* setOptedOut(true); the event and the audit entry that follow change nothing here.
SetOptedOut(r) ==
    /\ AtStep(r, "optout")
    /\ optedOut' = (optedOut \/ SameRow(r))
    /\ stopped' = (stopped \/ (SameRow(r) /\ ~Consenting))
    /\ EndCrm(r)
    /\ UNCHANGED <<contact, lastRow, tags, consents, history>>

\* POST tags: the limit is checked on the row read, the tag added to the row as it is.
BeginTag(r, t) ==
    /\ Cardinality(tags) < TagLimit \/ t \in tags
    /\ BeginCrm(r, "tag", t)
    /\ UNCHANGED stopped

AddTag(r) ==
    /\ AtStep(r, "tag")
    /\ tags' = IF SameRow(r) THEN tags \cup {crm[r].tag} ELSE tags
    /\ EndCrm(r)
    /\ UNCHANGED <<contact, lastRow, optedOut, consents, history, stopped>>

ContactsNext ==
    \/ \E ts \in SUBSET Tags :
          \/ CreateContact(ts)
          \/ \E grant \in BOOLEAN : Import(ts, grant)
    \/ MessageArrives
    \/ DeleteContact
    \/ \E t \in Tags : RemoveTag(t)
    \/ \E r \in CrmRequests :
          \/ BeginConsent(r) \/ Grant(r) \/ LiftOptOut(r)
          \/ BeginOptOut(r) \/ Revoke(r) \/ SetOptedOut(r)
          \/ \E t \in Tags : BeginTag(r, t)
          \/ AddTag(r)

ContactsSpec == ContactsInit /\ [][ContactsNext]_contactsVars

-----------------------------------------------------------------------------
ContactsTypeOK ==
    /\ contact \in Nat
    /\ lastRow \in Nat
    /\ optedOut \in BOOLEAN
    /\ tags \subseteq Tags
    /\ consents \subseteq Nat
    /\ history \in BOOLEAN
    /\ crm \in [CrmRequests -> [pc : {"idle", "grant", "lift", "revoke", "optout", "tag"},
                               row : Nat, tag : Tags]]
    /\ stopped \in BOOLEAN

MayBeMessaged == contact # NoRow /\ contact \in consents /\ ~optedOut

\* Nothing but a consent request makes an opted-out contact one that campaigns
\* may message again: no import, however often, even one that records consent,
\* and no request that read the contact before it opted out.
OptOutStands == stopped => ~MayBeMessaged

=============================================================================
