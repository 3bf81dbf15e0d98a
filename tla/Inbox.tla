---------------------------------- MODULE Inbox ----------------------------------
(***************************************************************************)
(* The shared inbox as an agent sees it: one conversation and its thread   *)
(* in the database, the routes and the worker that change them, the events *)
(* streamed to the browser, and the browser's two cached queries.          *)
(*                                                                         *)
(* Query "list" shows the conversation's row, "thread" the number of       *)
(* changes of its messages. A frame that is sent on a stream still open    *)
(* arrives; one the stream lost is a frame sent after it closed. The       *)
(* row's assigned_team_id is a column the query does not select; the       *)
(* contact's name and number are left to Contacts.                         *)
(***************************************************************************)
EXTENDS Naturals, FiniteSets

CONSTANTS
    Gateways,       \* gateway instances, each with a hub of its own
    Agents,         \* values of assigned_user_id
    MaxWrites,      \* bound: changes of the conversation and its thread
    MaxStreams      \* bound: connection attempts

ASSUME InboxAssumption ==
    /\ {"down", "refused"} \cap Gateways = {}
    /\ {MaxWrites, MaxStreams} \subseteq Nat

VARIABLES
    conversation,   \* its row: [state, archived, pinned, unread, user, last], last its messages
    thread,         \* changes of its messages so far
    writes,
    announcing,     \* routes past their write: the gateway that will broadcast
    arriving,       \* an inbound message under way: "both", "write" or "forward" is left
    receipt,        \* a receipt of Meta's under way, likewise
    sending,        \* agent's messages whose row the worker has not created
    stored,         \* media.stored events not yet forwarded
    stream,         \* the browser's stream: "down", "refused" or a gateway
    attempts,       \* connection attempts so far
    resync,         \* the deferred resync's timer is set
    recent,         \* a resync ran within the last interval
    cache,          \* what the browser shows, per query
    fetch,          \* per query its request: at "none", "asked" or "answered"
    passedBy        \* history: queries a change has passed by

Database == <<conversation, thread, writes>>
UnderWay == <<announcing, arriving, receipt, sending, stored>>
Connection == <<stream, attempts, resync, recent>>
Page == <<cache, fetch, passedBy>>

inboxVars == <<conversation, thread, writes, announcing, arriving, receipt, sending, stored,
               stream, attempts, resync, recent, cache, fetch, passedBy>>

Queries == {"list", "thread"}
Server == [q \in Queries |-> IF q = "list" THEN conversation ELSE thread]
NoFetch == [at |-> "none", value |-> 0]
Asked == [at |-> "asked", value |-> 0]

InboxInit ==
    /\ conversation = [state |-> "open", archived |-> FALSE, pinned |-> FALSE, unread |-> 0,
                        user |-> "nobody", last |-> 0]
    /\ thread = 0
    /\ writes = 0
    /\ announcing = [g \in Gateways |-> 0]
    /\ arriving = "none"
    /\ receipt = "none"
    /\ sending = 0
    /\ stored = 0
    /\ stream = "down"
    /\ attempts = 0
    /\ resync = FALSE
    /\ recent = FALSE
    /\ cache = Server
    /\ fetch = [q \in Queries |-> Asked]
    /\ passedBy = {}

-----------------------------------------------------------------------------
(***************************************************************************)
(* The browser's queries.                                                  *)
(***************************************************************************)
\* invalidateQueries: the query is asked again, a request in flight is dropped.
Invalidated(qs) == [q \in Queries |-> IF q \in qs THEN Asked ELSE fetch[q]]

\* resyncAfterReconnect: cancelRefetch is off, a request in flight stays.
Resynced == [q \in Queries |-> IF fetch[q] = NoFetch THEN Asked ELSE fetch[q]]
PassedByResync == {q \in Queries : fetch[q].at = "answered"}

ServerAnswers(q) ==
    /\ fetch[q].at = "asked"
    /\ fetch' = [fetch EXCEPT ![q] = [at |-> "answered", value |-> Server[q]]]
    /\ UNCHANGED <<Database, UnderWay, Connection, cache, passedBy>>

AnswerArrives(q) ==
    /\ fetch[q].at = "answered"
    /\ cache' = [cache EXCEPT ![q] = fetch[q].value]
    /\ fetch' = [fetch EXCEPT ![q] = NoFetch]
    /\ passedBy' = IF fetch[q].value = Server[q] THEN passedBy \ {q} ELSE passedBy
    /\ UNCHANGED <<Database, UnderWay, Connection>>

-----------------------------------------------------------------------------
(***************************************************************************)
(* The stream: useSse.                                                     *)
(***************************************************************************)
Streaming == stream \in Gateways

RunResync ==
    /\ fetch' = Resynced
    /\ passedBy' = passedBy \cup PassedByResync
    /\ recent' = TRUE

RequestResyncOrDrop ==   \* mutant: a resync within the interval is dropped
    /\ resync' = FALSE
    /\ IF recent THEN UNCHANGED <<fetch, passedBy, recent>> ELSE RunResync

RequestResync ==
    IF resync \/ recent THEN resync' = TRUE /\ UNCHANGED <<fetch, passedBy, recent>>
    ELSE RunResync /\ UNCHANGED resync

\* Every connection but the first resyncs; the first leaves it to the page's load.
Connect(g) ==
    /\ stream = "down"
    /\ attempts < MaxStreams
    /\ attempts' = attempts + 1
    /\ stream' = g
    /\ IF attempts > 0 THEN RequestResync ELSE UNCHANGED <<fetch, passedBy, recent, resync>>
    /\ UNCHANGED <<Database, UnderWay, cache>>

\* An error, or a 401 of a session that still answers, is tried again; a 403 or
\* a session that is gone is not.
ConnectFails(next) ==
    /\ stream = "down"
    /\ attempts < MaxStreams
    /\ attempts' = attempts + 1
    /\ stream' = next
    /\ UNCHANGED <<Database, UnderWay, Page, recent, resync>>

StreamEnds ==
    /\ Streaming
    /\ stream' = "down"
    /\ UNCHANGED <<Database, UnderWay, Page, attempts, resync, recent>>

IntervalEnds ==
    /\ recent
    /\ resync' = FALSE
    /\ IF resync THEN RunResync ELSE recent' = FALSE /\ UNCHANGED <<fetch, passedBy>>
    /\ UNCHANGED <<Database, UnderWay, stream, attempts, cache>>

-----------------------------------------------------------------------------
(***************************************************************************)
(* What the hub sends the stream, and what the browser does with it.       *)
(***************************************************************************)
\* A change nobody will hear of: the page has loaded and its first stream is
\* not open yet.
BeforeFirstStream == {q \in Queries : attempts = 0 /\ fetch[q].at # "asked"}

HandleEvent(qs) ==
    IF Streaming THEN fetch' = Invalidated(qs) /\ UNCHANGED passedBy
    ELSE passedBy' = passedBy \cup (qs \cap BeforeFirstStream) /\ UNCHANGED fetch

\* What forwardEventToSse does not send: its lookup of the channel failed, or the
\* event came while the gateway's ephemeral queue was away.
Unheard(qs) ==
    /\ Streaming
    /\ passedBy' = passedBy \cup qs
    /\ UNCHANGED fetch

\* A route's broadcast goes to its own hub only.
Broadcast(g) ==
    /\ announcing[g] > 0
    /\ announcing' = [announcing EXCEPT ![g] = @ - 1]
    /\ IF stream \in Gateways \ {g} THEN Unheard({"list"}) ELSE HandleEvent({"list"})
    /\ UNCHANGED <<Database, arriving, receipt, sending, stored, Connection, cache>>

\* The bus hands an event of Meta's to the worker, which writes, and to every hub,
\* which forwards it without the conversation's id: the list is asked again and
\* the thread stays.
Forwarded(under) == IF under = "both" THEN "write" ELSE "none"

ForwardInbound(heard) ==
    /\ arriving \in {"both", "forward"}
    /\ arriving' = Forwarded(arriving)
    /\ IF ~heard THEN Unheard(Queries)
       ELSE IF Streaming THEN /\ fetch' = Invalidated({"list"})
                              /\ passedBy' = passedBy \cup {"thread"}
       ELSE HandleEvent(Queries)
    /\ UNCHANGED <<Database, announcing, receipt, sending, stored, Connection, cache>>

ForwardReceipt(heard) ==
    /\ receipt \in {"both", "forward"}
    /\ receipt' = Forwarded(receipt)
    /\ fetch' = IF heard /\ Streaming THEN Invalidated({"list"}) ELSE fetch
    /\ UNCHANGED <<Database, announcing, arriving, sending, stored, Connection, cache, passedBy>>

ForwardMediaStored(heard) ==
    /\ stored > 0
    /\ stored' = stored - 1
    /\ IF heard THEN HandleEvent({"thread"}) ELSE Unheard({"thread"})
    /\ UNCHANGED <<Database, announcing, arriving, receipt, sending, Connection, cache>>

-----------------------------------------------------------------------------
(***************************************************************************)
(* The changes.                                                            *)
(***************************************************************************)
Write == writes < MaxWrites /\ writes' = writes + 1

\* A change nobody hears of.
Untold(qs) == passedBy' = passedBy \cup qs

\* A route: the row, then the broadcast, which is not reached when the commit's
\* answer is lost or the gateway dies in between.
Changes(g, newRow, reached) ==
    /\ Write
    /\ conversation' = newRow
    /\ IF reached THEN announcing' = [announcing EXCEPT ![g] = @ + 1] /\ UNCHANGED passedBy
       ELSE Untold({"list"}) /\ UNCHANGED announcing
    /\ UNCHANGED <<thread, arriving, receipt, sending, stored, Connection>>

ByRoute(g, newRow, reached) ==
    /\ conversation # newRow
    /\ Changes(g, newRow, reached)
    /\ UNCHANGED <<cache, fetch>>

Assign(g, u, reached) == ByRoute(g, [conversation EXCEPT !.user = u], reached)
SetState(g, s, reached) == ByRoute(g, [conversation EXCEPT !.state = s], reached)
SetArchived(g, on, reached) == ByRoute(g, [conversation EXCEPT !.archived = on], reached)
SetPinned(g, on, reached) == ByRoute(g, [conversation EXCEPT !.pinned = on], reached)

\* A team's assignment is announced, though the list does not show it.
AssignTeam(g) ==
    /\ Write
    /\ announcing' = [announcing EXCEPT ![g] = @ + 1]
    /\ UNCHANGED <<conversation, thread, arriving, receipt, sending, stored, Connection, Page>>

\* useMarkRead: shown at once, asked again when the route has answered or failed;
\* the watermark now() also covers messages the browser has not seen.
MarkRead(g, reached) ==
    /\ cache["list"].unread > 0
    /\ Changes(g, [conversation EXCEPT !.unread = 0], reached)
    /\ cache' = [cache EXCEPT !["list"].unread = 0]
    /\ fetch' = Invalidated({"list"})

\* The worker's round-robin turn or rule, or a rule the gateway runs after its
\* broadcast, assigns the conversation and announces nothing.
AssignByRule(u) ==
    /\ conversation.user # u
    /\ Write
    /\ conversation' = [conversation EXCEPT !.user = u]
    /\ Untold({"list"})
    /\ UNCHANGED <<thread, UnderWay, Connection, cache, fetch>>

\* messageRepository.create: the message's row, and the conversation's last message.
NewMessage(unread) ==
    /\ conversation' = [conversation EXCEPT !.last = @ + 1, !.unread = @ + unread]
    /\ thread' = thread + 1

ReceiveInbound ==
    /\ arriving = "none"
    /\ Write
    /\ arriving' = "both"
    /\ UNCHANGED <<conversation, thread, announcing, receipt, sending, stored, Connection, Page>>

\* The worker's part. touchInbound leaves state and archived_at alone; a message
\* whose handler fails for good is never recorded.
RecordInbound(recorded) ==
    /\ arriving \in {"both", "write"}
    /\ IF recorded THEN NewMessage(1) ELSE UNCHANGED <<conversation, thread>>
    /\ IF arriving = "write" /\ recorded THEN Untold(Queries) ELSE UNCHANGED passedBy
    /\ arriving' = IF arriving = "both" THEN "forward" ELSE "none"
    /\ UNCHANGED <<writes, announcing, receipt, sending, stored, Connection, cache, fetch>>

\* Meta's receipt of a message sent moves its status; its frame does not say of
\* which conversation.
ReceiveReceipt ==
    /\ receipt = "none" /\ thread > 0
    /\ Write
    /\ receipt' = "both"
    /\ UNCHANGED <<conversation, thread, announcing, arriving, sending, stored, Connection, Page>>

ApplyStatusUpdate ==
    /\ receipt \in {"both", "write"}
    /\ thread' = thread + 1
    /\ Untold({"thread"})
    /\ receipt' = IF receipt = "both" THEN "forward" ELSE "none"
    /\ UNCHANGED <<conversation, writes, announcing, arriving, sending, stored, Connection, cache,
                   fetch>>

\* media.stored is published with a best effort.
StoreMedia(published) ==
    /\ thread > 0
    /\ Write
    /\ thread' = thread + 1
    /\ IF published THEN stored' = stored + 1 /\ UNCHANGED passedBy
       ELSE Untold({"thread"}) /\ UNCHANGED stored
    /\ UNCHANGED <<conversation, announcing, arriving, receipt, sending, Connection, cache, fetch>>

\* useSendMessage asks again when the gateway has accepted the message, whose
\* row the worker creates later, or never, and announces to nobody.
SendMessage ==
    /\ Write
    /\ sending' = sending + 1
    /\ fetch' = Invalidated(Queries)
    /\ UNCHANGED <<conversation, thread, announcing, arriving, receipt, stored, Connection, cache,
                   passedBy>>

CreateOutboundRow(created) ==
    /\ sending > 0
    /\ sending' = sending - 1
    /\ IF created THEN NewMessage(0) /\ Untold(Queries)
       ELSE UNCHANGED <<conversation, thread, passedBy>>
    /\ UNCHANGED <<writes, announcing, arriving, receipt, stored, Connection, cache, fetch>>

\* A campaign's message, or a rule's or a scheduler's template.
SendUnasked ==
    /\ Write
    /\ NewMessage(0)
    /\ Untold(Queries)
    /\ UNCHANGED <<UnderWay, Connection, cache, fetch>>

InboxNext ==
    \/ \E q \in Queries : ServerAnswers(q) \/ AnswerArrives(q)
    \/ \E g \in Gateways : Connect(g) \/ Broadcast(g) \/ AssignTeam(g)
    \/ \E g \in Gateways, reached \in BOOLEAN :
          \/ MarkRead(g, reached)
          \/ \E u \in Agents : Assign(g, u, reached)
          \/ \E s \in {"open", "pending", "closed"} : SetState(g, s, reached)
          \/ \E on \in BOOLEAN : SetArchived(g, on, reached) \/ SetPinned(g, on, reached)
    \/ \E next \in {"down", "refused"} : ConnectFails(next)
    \/ StreamEnds \/ IntervalEnds
    \/ ReceiveInbound \/ ReceiveReceipt \/ ApplyStatusUpdate
    \/ \E heard \in BOOLEAN :
          ForwardInbound(heard) \/ ForwardReceipt(heard) \/ ForwardMediaStored(heard)
    \/ \E recorded \in BOOLEAN : RecordInbound(recorded) \/ CreateOutboundRow(recorded)
    \/ \E published \in BOOLEAN : StoreMedia(published)
    \/ SendMessage \/ SendUnasked
    \/ \E u \in Agents : AssignByRule(u)

InboxSpec == InboxInit /\ [][InboxNext]_inboxVars

-----------------------------------------------------------------------------
Settled(q) ==
    /\ Streaming /\ ~resync
    /\ fetch[q] = NoFetch
    /\ \A g \in Gateways : announcing[g] = 0
    /\ arriving = "none" /\ receipt = "none" /\ sending = 0 /\ stored = 0

\* No gap of the stream leaves the inbox stale: when everything has been sent
\* and answered, an open page shows the database, whatever was missed while the
\* stream was down. Passed by, until the query is answered anew, are only the
\* changes for which the code sends no event, or none that names the thread, or
\* not at the right time:
\*  - an assignment by a rule or by the round-robin turn, and every message the
\*    worker sends: nothing is announced;
\*  - an inbound message's or a receipt's change of the open thread;
\*  - an inbound event forwarded before its row was written;
\*  - an event that was not forwarded, a broadcast that was not reached, and a
\*    route served by another gateway than the stream;
\*  - a change between the page's load and its first stream, and one that a
\*    reconnect left to an older request in flight.
InboxCatchesUp == \A q \in Queries : Settled(q) /\ q \notin passedBy => cache[q] = Server[q]

=============================================================================
