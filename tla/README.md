# A TLA+ model of HyFib

HyFib is a multi-tenant WhatsApp messaging platform: a gateway that serves the
API and runs timers (`services/api-gateway`), a worker that consumes events
(`services/notification-worker`), an adapter in front of Meta's Graph API
(`services/meta-adapter`), a webhook ingestor (`services/webhook-ingestor`), a web
application, and PostgreSQL as the only durable state (`packages/persistence`,
`infra/postgres/init`). This directory holds the TLA+ modules that model it, the TLC
configurations that check them and the proofs TLAPS checks.

    tlc -workers 2 -config MCDesk.cfg MCDesk          # model-check one run
    tlapm InboundProofs.tla                           # check one module of proofs

`PROJECT.json` lists the components, the runs, the mutated definitions each property
is known to reject, the source lines behind every definition, the findings, the
hazards and the theorems.

Contents: [inventory](#inventory), [modules](#modules), [runs](#runs),
[findings](#findings), [proofs](#proofs), [what is only model-checked](#model-checked-only),
[what is not modelled](#not-modelled), [plan](#plan).

## Inventory

Every write of the domain goes through row-level-secured PostgreSQL transactions
(`withTenant`); asynchronous steps are events, most of them enqueued in `outbox_events`
in the same transaction and published by a relay. Two deployments exist. `app-server` is one
process, gateway and worker together, on an in-memory bus whose `publish` awaits every
handler: a handler that throws fails the publish and the outbox row is retried. Otherwise
the services are processes of their own, possibly several of each, connected by RabbitMQ and
HTTP. Each module below says which of the two matters to it; most hold in both, because all
they assume is delivery at least once.

| Component | State | Operations | What is hard | What makes it correct |
|---|---|---|---|---|
| Outbox and relay (`outbox-relay.ts`, `outbox_*` SQL) | rows with status, attempts, claim time, due time | enqueue, claim a batch, publish, mark processed / failed, replay a dead letter | crashes between publish and mark, claims that expire under a live relay, poison rows | nothing lost, exclusive claims, counted attempts, settlement |
| Campaign status and starters (gateway routes, schedulers, `campaign.ts`) | `campaigns.status`, `campaign_recipients` | run, schedule, pause, resume, cancel, test send, completion sweep | concurrent operators and timers, two-transaction starts and cancels | a stopped campaign stays stopped, a running one ends |
| Fan-out and dispatch (`handleCampaignRun`, `handleDispatch`) | recipient claims, `campaign_send_log`, statistics | claim a batch, evaluate, enqueue; gate, cap, claim, send, record, report | redelivery, throws at any call, stale claims, swallowed writes | one sender per phone, no unaccounted duplicate, all recipients resolved |
| Event bus (`packages/event-bus`) | connection, consumers, reconnect timer, broker queues | connect, subscribe, publish, dispatch, reconnect | a connection lost while dialing or setting consumers up, in mid-handler | consumers come back by themselves, two chances before the dead-letter queue |
| Webhook ingestor (`webhook-ingestor`) | idempotency keys in Redis | claim, publish, release | a crash between the claim and the publish | what Meta takes for delivered is on the transport |
| Inbound processing (`handleInbound`, `handleSocialInbound`) | messages, conversations, consents, contact metadata | replay guard, opt-out, row, media job, welcome, rotation, flow, auto-reply | concurrent redelivery, partial failure around the row that makes a redelivery a replay | one row and one answer per message, STOP is never lost |
| Chatbot flows | `flows`, `flow_sessions` | create, activate, pause, start and advance a session | two messages of a conversation at once | one session speaks at a time |
| Automation and auto-reply rules | `automation_rules`, `auto_replies` | create, patch, delete, list, evaluate | two edits that are each valid | a half-edited rule does nothing |
| Outbound sends (`handleOutbound`, `handleAutomationTemplate`) | Redis claims, messages | check, enqueue, claim, send, release, record | a failure after the send, an expired claim | no repeated send, no dispatch that vanishes |
| Delivery status (`handleStatus`) | message and recipient status, counters | apply a receipt | receipts out of order or repeated | (the code promises no order) |
| Sequences | enrollments, steps | activate, enroll, due sweep, advance, stop on reply | two schedulers, a reply racing a due step | each step once, none after a stop |
| No-reply rules | `last_inbound_at`, `last_message_at`, fired stamps | scan, run, mark | the mark racing another scan; stamps moved by other writes | once per silence, and at all |
| Tasks and reminders | `tasks`, each timer's list of due ones | create, change status, list, mark, broadcast | two instances list the same task; a mark that fails | each reminder once |
| Orders and payment links | `orders` | create, confirm, pay, cancel, set the link | requests that race for one status, a provider's link crossing one set by hand | one outcome, one link |
| Media fetch (`media.ts`) | `media_assets`, message links | enqueue, resolve, download, store, record an error, link | concurrent attempts over one shared row | linked media is served, every request settles |
| Meta adapter (`meta-adapter`) | failure counter, breaker | attempts with back-off, breaker, upload deadline; two entries per send | timeouts after acceptance, one breaker for all tenants, two copies of every validation | callers are told the truth, the copies agree |
| Inbox and server-sent events (gateway routes, `SseHub`, `use-sse.ts`) | conversations, hub clients, the browser's stream, timers and query cache | routes and their broadcasts, forwarded events, reconnect, deferred resync | gaps in the stream, answers that cross changes, changes nobody announces | no gap leaves the page stale |
| Sessions, API keys, streams | `sessions`, `api_keys`, user status, open streams | log in and out, mint and revoke a key, open a stream, suspend, reactivate, reset | a revocation racing a login, a mint or a connect, its answer lost, its steps apart | what is revoked stays revoked |
| Users and roles | `role_bindings`, `users.roles`, status | create, patch status and roles | two replacements at once | the two stores agree |
| Realm keys (`packages/auth`) | key set, age, outage, retry | fetch, verify, retry in the background | outages, rotated keys | the outage ends when the realm is back |
| Channels | row, a credentials cache per process | register, rotate or clear a token, look it up | a lookup that straddles a rotation, an update that throws after its commit, the other processes | an old token is used only by those who cannot know |
| Message templates | row, Meta's template | create, submit, edit, delete, sync | Meta first, the row after it or never | row and Meta agree, or the next sync repairs it |
| Teams, settings, rotation | `teams`, `team_members`, `automation_settings` | edit, patch, pick the next member | reads before the lock on the cursor | the rotation is fair |
| Contacts, consent, tags | `contacts`, `consent_records` | create, import, consent, opt out, tag, delete | separate transactions of one request, deletion under them | an opt-out stands |
| Rate limiting and queue helpers | Redis counters | check, acquire | window edges, Redis down | at most the rate per window |
| Policy and compliance | none | evaluate | ordering of rules, hour boundaries | agreement with a reference |
| Segments, billing, reporting, AI, web UI | tables | single-statement CRUD, reads, rendering | | not modelled |

Interactions: routes and timers write domain rows and outbox rows together; the relay
claims rows and publishes; handlers call Meta through the adapter, write the database
and enqueue further events; webhooks enter through the ingestor, which publishes
inbound and status events; the gateway pushes what changed to browsers over SSE.

## Modules

| Module | Models |
|---|---|
| `Outbox` | the outbox table, its SQL functions and any number of relay loops |
| `AtLeastOnce` | what the outbox promises a producer; `Outbox` refines it, `Inbound` and `Sends` stand on it |
| `SendClaim` | what a claim taken before a send promises; `Campaign`'s send log and the Redis claim of `Sends` refine it |
| `Campaign` | one campaign: starters, operators, completion sweep, fan-out and dispatch handlers |
| `Inbound` | a customer's message from Meta's webhook through the ingestor and the transport to the end of the inbound handlers |
| `Flows`, `Rules` | the chatbot's sessions; the automation and auto-reply rules |
| `Sends` | agents' replies and automations' templates, from the request to Meta's receipts |
| `Drip`, `NoReply` | follow-up sequences; no-reply rules |
| `MediaFetch` | the bytes of media a customer sent |
| `Broker` | the RabbitMQ bus of one process |
| `GraphApi`, `Endpoints` | the adapter's calls of Meta; what its endpoints demand and send |
| `Inbox` | conversation routes, event streams and the browser's cache |
| `Access`, `Users`, `RealmKeys` | sessions, API keys and streams; users and roles; the identity provider's keys |
| `Channels`, `Templates`, `Rotation`, `Contacts` | credentials, message templates, teams and the round-robin, the CRM |
| `Orders`, `Tasks` | an order and its payment link; task reminders |
| `OutboxProofs`, `CampaignProofs`, `InboundProofs`, `EndpointsProofs` | TLAPS proofs about the module they are named after |
| `ServicesProofs` | proofs about `Broker`, `Drip`, `GraphApi`, `MediaFetch` and `RealmKeys` |
| `DeskProofs` | proofs about `Channels`, `Sends`, `Orders`, `Tasks`, `Templates`, `NoReply` and `Rules` |
| `AccountsProofs` | proofs about `Access` and `Users` |
| `ConversationsProofs` | proofs about `Contacts`, `Flows`, `Rotation` and `Inbox` |
| `MCCampaign`, `MCInbound`, `MCNoReply` | instances of one module for TLC |
| `MCPlatform` | `Outbox`, `Inbound`, `Access` in one run |
| `MCServices` | `Outbox` (with one relay), `Broker`, `Drip`, `GraphApi`, `MediaFetch`, `RealmKeys` in one run |
| `MCDesk` | `Sends`, `NoReply`, `Endpoints`, `Templates`, `Channels`, `Users`, `Rotation`, `Inbox`, `Contacts`, `Rules`, `Flows`, `Orders`, `Tasks` in one run |

In every module one action is one transaction, one external call, or one turn of the
JavaScript event loop, whichever is the smallest unit another actor can see between. What a
handler decides from elsewhere (a policy verdict, Meta's answer, a clock) is nondeterministic.
Variables commented `history` record what happened for a property and are read by no guard.
A decision the code takes at its first matching branch is a chain of `IF`s: the arms of a TLA+ `CASE`
have no order, so `CASE` is kept for conditions that exclude one another.

### Outbox

`status`, `attempts`, `due` and `stale` are the columns of `outbox_events` as the claim
predicate reads them: `due` is `next_attempt_at <= now()`, `stale` is
`claimed_at < now() - 2 minutes`. A relay holds the rows of its claimed `batch` and, between
the publish of a row and its settlement, that row in `cur`. `Claim` is the body of
`outbox_claim` (oldest first, at most `BatchSize`, pending and due or processing and
stale); `PublishOk` and `PublishFails` are the awaited publish; `MarkProcessed` and
`MarkFailed` write whatever the row's status is by then, as the SQL does, and each has a
failing form in which the write may or may not have committed. `Crash` drops what a relay
remembers. `ReplayDead` is the operator's route. The relay does not republish rows in
a fixed order within a batch: `outbox_claim` returns them in the order of the UPDATE,
which SQL leaves open.

### Campaign

A worker is one running handler. `pc` names the call its handler makes next, `at` the
outbox row it handles, `batch` and `more` what the fan-out has claimed. One action is
one call that changes shared state (each call is a transaction of its own in the code):
`RunGate`, `ClaimBatch`, `Refuse`, `FanOut` for `handleCampaignRun`; `Gate`, `Defer`,
`TryClaim`, `Suppress`, `OverQuota`, `SendAccepted`, `Record`, `PublishResult`, `GiveBack`,
`MarkFailed` for `handleDispatch`, in the code's order; `Ack` and `Nack` for the relay's
settlement. What `PublishResult` publishes is counted by a handler of its own: `results` are the
`CampaignDispatchResult` events on the transport, and `handleDispatchResult` adds one to the tally on
every delivery, so that a result may be recorded (`RecordResult`), recorded and delivered
again (`ResultComesAgain`), or given up (`ResultDeadLettered`). `Throws` and `ThrowsUnclaimed` are the exceptions, on the two sides of the
claim; `WriteSwallowed` is a `.catch(() => undefined)` that had something to catch. A start
(`/run` or the scheduler) is three steps because the audience is inserted in transactions
of its own, before the guarded status flip that commits together with the run event; cancel
is two, the status and then the retirement of pending recipients. `claimed` is
`claimed_at` against the 15-minute window. A test send shares the handler but has no
recipient row, and skips the gate and the rate cap, as in the code.

The outbox here keeps only which copies of which job exist and whether they are claimable or
held; how rows are claimed, retried and given up is the subject of `Outbox`, and
`MaxFaults` stays below the eight attempts after which a row dies. Verdicts the handler gets
from elsewhere (policy, quota, rate cap, the segment's contacts, Meta's answer) are
nondeterministic. History variables: `sends` counts send calls that reached Meta, `releases`
the claims given back, `recounted` the results that were delivered again after they had been counted,
`overrun` the fan-out messages sent since the campaign stopped. `tally` is the column of the statistics,
split by phone.

`LogClaim` reads `campaign_send_log` as `SendClaim`: the items are the phones, a handler holds
the claim from `TryClaim` until it has published its result or given the claim back, a copy is a
send Meta accepted, and a release is what excuses the next one.

Not in this module: delivery receipts (`sent` stands for sent, delivered and read), RabbitMQ
(where a failing handler is requeued once and then dead-lettered), and several campaigns at a
time (their rows are disjoint, they share only workers).

### Inbound

The composition of ingestor, transport and handlers. `meta`, `claimed` and `hook` are the
webhook: `Receive` claims the id in Redis (or answers 200 to a duplicate), `Publish` puts the
event on the transport, `Release` gives the claim back after a failed publish; each can fail,
and the process can die between them. The claim fails in the way that matters when Redis sets the key and the answer
is lost (`ClaimAnswerLost`): the request is answered 5xx and Meta's retry is taken for a duplicate. The transport is `AtLeastOnce` made concrete enough
to count: `copies` waiting, `failedRuns` that threw, a `Dead` letter at `MaxAttempts`, and
`GoesStale`, the copy of a run whose claim expired while it goes on. `run` is a handler's local
state. Its course through `Lookup`, `Revoke`, `OptOut`,
`FindConversation`, `Record`, the media job, the welcome, the rotation, the flow and the
auto-reply follows `handleInbound` call by call, and social messages take
`handleSocialInbound`'s shorter one. `RunThrows` ends a run at any awaited call, `RunSwallows`
is a `.catch` that had something to catch (`AfterSwallowed` says where the run goes on).

A row (`rows`) is the replay guard: there is no unique index on the provider's message id, so
`Lookup` and `Record` are two steps, and overlapping runs can both pass. `FirstInbound` is the
count the welcome is decided on.

### Flows and Rules

`Flows` takes every graph `validateFlowDefinition` lets through (nodes that only act are one
type) and runs messages of one conversation against it: `ContinueSession` reads the active session and
walks at most `StepCap` nodes (`AdvanceFlow`), `SaveSession` writes the cursor later, by the session's id, so
two messages interleave between the two and a late save overwrites what the other wrote.
`Rules` separates the validation of a patch against the merged rule from the write of only the
patched columns, and an event's listing of a rule from its acting on it.

### Sends

A request reads the conversation with its 24-hour window (`ReadConversation`), checks the contact
(`CheckContact`) and enqueues (`EnqueueSend`); a worker takes the claim on the dispatch id, sends, releases on failure, and creates the message
row. `waiting` and `tries` are the transport; `claim` the Redis key, which expires; `accepted`
what Meta took. The claim is awaited outside the `try`, so when it fails (`ClaimFails`: the
answer is lost, or the worker dies in the call) the key may be there with nobody to release it, and the
next delivery skips the dispatch; `stranded` records that, as it records a release that failed and a crash with the
claim. `Claim` reads the key as `SendClaim`, too: here a claim may also expire, or be left behind
by somebody who does not know they hold it. Meta's receipts (`StatusReported`) overwrite the status in whatever order.

### Drip and NoReply

`Drip` is one sequence: each scheduler's `tick` is the list its scan returned, and
`AdvanceDueEnrollment` re-reads the enrollment under `FOR UPDATE`, so what the scan saw may be
old. Replies and opt-outs come in between. `NoReply` counts time in stamped events: an inbound
message stamps `last_inbound_at` and `last_message_at` together in `touchInbound` and
`last_message_at` again when its row is created; the scan lists, the rules run, the mark is
written last.

### MediaFetch, Broker, GraphApi, Endpoints

`MediaFetch` has a job per message over one shared asset row: two attempts of resolve and
download per delivery, `MarkStored`, the error write that checks nothing, and the link. `Broker`
follows `RabbitMqEventBus` one turn at a time: `link`, the callers awaiting the channel, the
reconnect `timers` with their back-off, the consumers set up one after another, and per
subscription the broker's copy of a message with its `redelivered` flag. `GraphApi` is
`graphRequest`: the breaker is consulted once, when a call begins, and the counter is shared by
all calls of the process; an upload has a deadline. `Endpoints` treats a request as the set of
fields it fills: `Case*` is the in-process entry, `Route*` the HTTP route, each with its own
validation, answering with the fields and the token Meta is sent.

### Inbox

`conversation` and `thread` are the database: the columns the list query selects, and how
often the thread's messages changed. A route is its write and, later, its broadcast on
the gateway that served it (unless its commit's answer is lost, or the process dies before it gets there); the
worker's events are forwarded to every gateway that finds the channel and whose queue is there (`heard`). An inbound
message and a receipt of Meta's are two steps in either order, the worker's write and the gateway's forward. The
worker also changes what it tells nobody: the assignments of the rotation, of a flow and of an automation
(`AssignByRule`) and every message it sends of its own accord (`SendUnasked`). A team's assignment changes no column
the query selects. The browser's
`stream` connects, is refused, drops; `resync` and `recent` are the deferred and rate-limited
invalidation of `use-sse.ts`; `cache` and `fetch` the two queries with one request each.
`passedBy` records the queries passed by a change for which the code sends no event, or none that names the
thread, or not at the right time; the comment of `InboxCatchesUp` lists them. The browser asks again in any case when a later
event or a reconnect invalidates the query, which is when it leaves `passedBy`.

### Access, Users, RealmKeys

`Access` has the credentials of one user, one step per read or write: a login checks password
and status and then inserts its session; a mint inserts the key, looks at its creator again and
revokes what it made if they were suspended meanwhile; a stream is authorised and then added to
the hub; an administrator's request writes the status, deletes sessions, lists keys and revokes
them one by one, and ends the streams of this instance. A request refused because its user is not active does so in three
steps: it has read the status (`RefuseInactive`), it ends the user's streams (`EndRefused`), and only then it
deletes the session (`DeleteRefused`), which takes no stream with it. A logout and a key's revocation end their
streams once the write has answered (`ending`); when the answer is lost they do not. `leftOpen` records the
streams that were open when their credential went in one of these ways. `GatewayCrashes` ends requests and streams
where they are. `Users` has every authorization rule of
the user routes and the two stores of roles, `role_bindings` replaced row by row and the column.
`RealmKeys` is `createRealmKeySet`: one fetch at a time, a cooldown, a cache, last good keys for
an outage and the background retry; the age of the fetch is one of five intervals.

### Channels, Templates, Rotation, Contacts

`Channels`: a token is the number of its rotation; `getCredentials` reads the row and remembers
it after the await, an update commits and then deletes the entry of its own process's cache; one that committed and
lost its answer throws before it would (`UpdateAnswerLost`). The other processes go on with what they remember until it
expires. `Templates`: each
request reads the row, calls Meta, writes the row; answers are lost and writes fail in between;
`sync` copies Meta's list. `Rotation`: settings are read, merged and written back; a pick reads
the active members first and locks the cursor after. `Contacts`: consent, opt-out and tag
requests are separate transactions over a row that imports replace and deletions remove.

### Orders and Tasks

`Orders` is one order. `Transition` is the compare-and-swap of the status route, which also
returns the link the row had; publishing the event, asking the provider for a link and attaching it
are the calls that follow, each of which may fail or be cut off with the status already moved.
`SetPaymentLink` is the PATCH, at any time. A link set by hand while a confirmation that found none is
under way may be replaced, and the history variable `setByHand` leaves that case out.
`Tasks` has a timer per gateway instance: a tick lists what is due, then marks and broadcasts task
after task. The mark is unconditional, so two instances whose lists overlap both broadcast;
`listedAgain` records the overlap.

## Runs

| Run | Instance | Shows |
|---|---|---|
| `platform` | three modules (2 573 660 states): 2 rows, 2 relays, 2 attempts, 1 fault, 1 replay; 2 messages, 2 handlers, scripts of `MCInbound`; 1 session, 1 key, 2 administrators, 1 failure | `NoLostEvent`, `ExclusiveClaim`, `AttemptsAreTries`, `DeadLetterKept`, the refinement `ImplementsAtLeastOnce`; `RecordedStopApplied`, `DuplicatesNeedOverlap`, `NoSilentLoss`, `WelcomeOnce`, `OneBotAnswer`; `RevokedStaysRevoked` |
| `campaign` | 1 recipient, 2 workers, all faults, 1 operation, 1 delay (2 617 050 states) | the refinement `LogImplementsSendClaim`, `SendsAccounted`, `SentMeansSent`, `StatusSteps`, `SentIsKept` |
| `campaign_drains` | 2 recipients, 1 worker, batches of 1 (480 653 states) | `EventuallyDrained`, `BoundedOverrun` |
| `services` | six modules (183 753 states) | `DeadDeliveredTwice`, `EachStepOnce`, `AnswerTellsTruth`, `LinkedIsServed`; live: `EventuallySettled`, `ConsumersReturn`, `MediaSettles`, `OutageEnds` |
| `desk` | thirteen modules (929 205 states) | the refinement `DispatchImplementsSendClaim`, `NoDispatchVanishes`, `NoReplyRunsOnce`, `TwinsAgree`, `TemplatesAgree`, `StaleTokenIsExplained`, `RoleStoresAgree`, `RotationIsFair`, `InboxCatchesUp`, `OptOutStands`, `HalfEditedRulesDoNothing`, `OneSessionSpeaks`, `OneOutcome`, `RemindedOnce` |
| `campaign_pause` | 1 recipient, 1 worker, one pause, no fault | violates `EventuallyDrained` |
| `campaign_crash` | 1 recipient, 1 worker, one fan-out fault | violates `EventuallyDrained` |
| `campaign_duplicate` | 1 recipient, 1 worker, one failed call | violates `NeverDuplicateSend` |
| `inbound_assign` | two messages on the transport | violates `ManualAssignmentKept` |
| `no_reply` | 2 rules, 2 instances, clock to 5 | violates `UnansweredIsFollowedUp` |
| `access_streams` | 1 session, 1 key, 2 administrators, no failure | violates `StreamsGoWithSessions` |
| `channels_rotation` | a gateway and a worker, 2 rotations, no lost answer | violates `RotatedTokenIsVisible` |

The types of `Outbox`, `Campaign` and `Inbound` are not checked in these runs: they are proved, for every
instance (`TypeCorrect`, `InboundTypesHold`).

**Bounds of the outbox and the campaign.** Every race in the outbox is about one row and two
relays, or about the rest of a batch when one row of it fails: two rows, two relays. Two attempts
let a row fail, be retried, die, be replayed and die again. In `campaign` everything but the batch
is per phone, so one recipient and two concurrent handlers contain each race over a phone, with
two live copies of a job (`MaxCopies`) for redelivery and deferral; one fault, one operator
action and one delay at a time, at any point. `campaign_drains` needs a second recipient, so
that a batch of one is full and a continuation is needed; its single worker keeps the
liveness check small (the relay of one process handles one event at a time).

**Bounds of `Inbound`.** A race needs two handlers, and either two copies of one message or
two messages of one conversation. The scripts hold the pairs whose kinds matter to each
other (two texts for the welcome, START and STOP, media and a reaction, and START and STOP over
a social channel), already on the transport, with one thing going wrong; and single messages from
the webhook on, with two things going wrong, so that a failed publish can meet a failed
release or an overlap a throw.

**Several modules in one run.** The modules of `platform` share no state, nor do those of `services` and
those of `desk`.
A behaviour of the run picks one of them, its `focus`, runs that module's specification and
leaves the others in one initial state. The run so explores the sum of the modules' state
spaces, not their product, and by the modules' independence nothing is missed. In the state
where the frozen modules of `services` rest, none of the actions their fairness names is
enabled, so fairness constrains the focus only. `desk` declares the two concurrent actors of
every kind (workers, instances, editors, pickers, gateways, messages, clerks) as
symmetric, `platform` its relays and its administrators: they occur only in sets and functions over themselves, and the run checks
invariants and steps (a refinement without fairness is a property of steps), for which that is sound.

**Bounds of `services`, of `desk` and of `Access`.** Two of every concurrent actor, because each race in the
hazards is between two; two of whatever one operation could confuse with another
(steps, rows, sessions, keys, messages sharing an asset), three where fairness among them or
a cycle is at stake (members of a team, tokens of a channel, accounts, streams); three role changes, so that two
administrators can replace a third user's roles at once and a lone replacement can follow; one or two
faults, so that a failure can meet the handling of an earlier one (four dropped connections, since
the boot counts as one and setting up after a reconnect must be interrupted too). A tag limit
of 1 and a step cap of 3 with two nodes put both limits within reach. The breaker opens after two
exhausted calls of two attempts, so three calls can find it open, closing and closed.

**Deadlock** is not checked: a campaign that is over, an outbox with every row settled or a bus that
was closed has nothing left to do, and the bounds stop every module in the end.

**Fairness.** `startOutboxRelay` polls every second and publishes what it claims, so relays and
handlers are weakly fair; the clock (rows due, claims stale) is weakly fair; so are the
completion timer and the second half of a cancel request. Producers, operators, starts, throws
and crashes are not fair: nothing makes them happen. `WF(Relay(w))` and `WF(Handle(w))` are
about the loop as a whole, not about each outcome of a call. In `Broker` a timer that is set
fires, a dial ends one way or the other, and a subscription whose setup has begun goes on; nobody
has to publish, and nobody has to drop the connection. In `MediaFetch` each worker goes on with its
job, without a promise about what Meta answers. In `RealmKeys` the retry interval passes, a request
to the realm comes back and its result is handled; tokens keep arriving during an outage, since the
code retries only when asked to verify one. In `NoReply` each instance's timer scans, runs and marks.

### Findings

* **A pause can strand recipients** (`campaign_pause`). A dispatch consumed while the
  campaign is paused is acknowledged and leaves its recipient pending and claimed, to be
  reclaimed after 15 minutes. Resume enqueues a single run event; if it is handled inside the
  window its batch is empty, and an empty batch schedules no continuation. No event is left, so
  nobody is there to reclaim the row when the window has passed, and the campaign stays running
  with a pending recipient until an operator pauses and resumes it once more.
* **A crash of the fan-out can strand its batch** (`campaign_crash`), the same way: the run event
  is retried long before the claims it made are stale.
* **A message can be sent twice** (`campaign_duplicate`). The catch of `handleDispatch` releases
  the send-log claim whatever failed. `SendsAccounted` is what does hold: each extra send
  to a phone is paid for by one release.
* **The rotation can override a manual assignment** (`inbound_assign`). A comment says it never
  does. `handleInbound` tests the conversation it read before the message row, the media job and
  the default automations, and then assigns unconditionally: an agent assigned by hand in between is
  replaced.
* **No-reply rules do not run for a recorded message** (`no_reply`). The scan asks for
  `last_message_at <= last_inbound_at`, but recording the inbound message stamps
  `last_message_at` once more, in a later transaction, so that for every recorded message the
  condition is false. The scan can match only between the two writes.

* **A stream can outlive its session** (`access_streams`). A comment says that whatever takes a user's sessions
  away must take the streams too. A refused request ends the streams first and awaits the delete of its session after: a
  reactivation that read the user before the suspension can run in between, the user connects on the session, and the delete leaves that
  stream to its lifetime cap, without any failed call. `RevokedStaysRevoked` is what does hold, with `leftOpen` naming the case.
* **A rotated token stays in use** (`channels_rotation`). A comment says the invalidation makes it visible
  immediately, so that no five minutes of sends with a revoked token exist. The cache is a map of the process that rotates; a worker
  in another process keeps the old token for those five minutes. `StaleTokenIsExplained` says who can have an old one
  and that nobody else has.

Three more comments promise what the models contradict, with no run of their own. `recordResult` is called
idempotent, and adds on every delivery of a result: `SendsAccounted` bounds the tally by the sends and the results delivered
again (`recounted`). `updateRoles` is said to replace roles atomically in both stores, and of two replacements
that overlap the bindings keep the union: `RoleStoresAgree` excepts those (`crossed`) until the next lone one. The cancel route says
the funnel drains to zero pending, and `/run` can insert its audience after `CancelPending` has run: no property covers it.

In `campaign_drains` the faults that lead to the first three (fan-out faults, a pause, and a
swallowed suppression write, which strands a recipient too) are switched off; everything else is on.

## Proofs

All theorems are about the specification without fairness and hold for every value of the constants
that satisfies the module's named assumption (finite sets of actors where a count needs it,
positive batch sizes and attempt caps, natural-number bounds; nothing is assumed of how the bounds
relate). The order is the same everywhere: type correctness, step by step over the disjuncts of
`Next`; the strengthening, which TLC agrees with on the instances of the runs; the property
as a consequence. Lemmas state what a helper does to the state and are cited by the action proofs.

`OutboxProofs`, every safety property of the outbox:

| Theorem | Property | What makes it inductive |
|---|---|---|
| `TypeCorrect` | `TypeOK` | inductive as it stands |
| `NeverLost` | `NoLostEvent` | `Evidence`: a relay in phase `ack` holds a delivered row, a current row has been tried, a row in a batch exists |
| `DeadLettersKept` | `DeadLetterKept` | a statement about one step, from `Evidence`, `LiveClaim` and `Exhausted`: a dead row keeps an exhausted attempt count, so a late failure report leaves it dead |
| `ClaimsAreExclusive` | `ExclusiveClaim` | `LiveClaim`: a held row whose claim has not expired is `processing` and fresh, or `processed`, so neither disjunct of the claim query matches it; a relay's current row is not in its own batch as well |
| `AttemptsCounted` | `AttemptsAreTries` | the relays between publish and settlement are counted in: attempts plus open settlements never exceed tries |
| `Refinement` | `ImplementsAtLeastOnce` | `Evidence` again: it gives the guards of the abstract `Finish`, `GiveUp` and `Reopen`; every other step maps to an abstract step or a stutter |

`CampaignProofs`, every safety property of its passing runs:

| Theorem | Property | What makes it inductive |
|---|---|---|
| `TypeCorrect` | `TypeOK` | `Fits`, a part of `TypeOK`: which kind of row a handler at each step can be working on |
| `SendLogIsALock` | (`OneSender`) | inductive once the steps are sorted: most are `QuietStep`s, which open no claim and touch neither the send log nor the counters; the six that do are the cases of `LockStep` |
| `SendsAreAccounted` | `SendsAccounted` | `Books`: a handler about to send finds `sends <= releases`, one about to report finds the tally and the results on their way below `sends + recounted`; each holds because the lock makes it the only one. A result delivered again is counted on both sides |
| `SendLogRefines` | `LogImplementsSendClaim` | `OneSender` makes whoever holds a claim its only holder, `Books` gives the guards of the abstract `Send` and `GiveBack`; a quiet step by a holder leaves the claim or changes nothing (`LeavesOrStays`), and no step moves another handler (`OthersHold`) |
| `SentIsTrue` | `SentMeansSent` | `Books`, `SendsGrow` (a phone that got a message stays one that did), and `FunnelStep`: every step that changes a recipient's status is one of the shapes in `Rewritten` |
| `SentStays` | `SentIsKept` | `FunnelStep` |
| `OverrunIsBounded` | `BoundedOverrun` | `Overruns`: with `OnlyGatePasses` (no other step adds a handler past the gate), messages sent after the stop plus handlers past the gate never exceed the workers, and a running campaign counts from zero |
| `StatusMoves` | `StatusSteps` | `TypeOK` alone, one case per request that writes the status; `EnqueueFills` (a job enqueued takes its lowest free copy) is where the well-foundedness of `<` is used |

`InboundProofs`. The lemma `Course` states the order of a run's steps once: where a step can leave a
run and what it has done by then.

| Theorem | Property | What makes it inductive |
|---|---|---|
| `InboundTypesHold` | `InboundTypeOK` | `Placed`: the type together with `PlacedRun`, what a run at each step has found or created |
| `RecordedStopsApplied` | `RecordedStopApplied` | `StopsApplied`: a run of a STOP that has got as far as the conversation has made both writes, and the row comes after |
| `OneRowPerMessage` | `DuplicatesNeedOverlap` | `Guarded`: between a run's lookup and its row the message is unrecorded, unless runs of it overlapped |
| `AcknowledgedIsKept` | `NoSilentLoss` | `Kept`: a claimed message with no request holding the claim is on its way (`OnItsWay`) or excused: its key outlived a failed publish or a crash, or was set with the answer lost |
| `WelcomedAtMostOnce` | `WelcomeOnce` | `Welcomed`: in a welcomed conversation a run that has not decided yet will count another row than its own |
| `AnswersOnce` | `OneBotAnswer` | `AnswersCounted`: answers given plus runs that may still answer never exceed the rows recorded plus the flows that failed after answering; a run enters the count with its row and leaves it with its answer |

`ServicesProofs`, every safety property of the run `services`:

| Theorem | Property | What makes it inductive |
|---|---|---|
| `DeadLettersHadTwoChances` | `DeadDeliveredTwice` | `DeliveriesCounted`: a copy a handler holds was delivered, one flagged redelivered was delivered before, one that is both was delivered twice |
| `StepsEnqueuedOnce` | `EachStepOnce` | `StepsLeft`: an active enrollment has a step left, one not made yet starts from none |
| `AnswersAreTrue` | `AnswerTellsTruth` | `DoubtsCounted`: a call without an answer has made no more than its attempts in doubt, one not begun has made nothing |
| `LinkedMediaServed` | `LinkedIsServed` | `FetchersExplained`: what a fetch at each step has found or stored, and that one that began with the bytes there has nothing to fetch unless a late failure had marked the row |
| `RetriesNeverStick` | (`RetriesHaveAFetch`) | inductive with the types: the verification that waits or starts a retry asks or joins a fetch, and a fetch that ends, either way, ends the retry and every wait |

`DeskProofs`, `AccountsProofs`, `ConversationsProofs` and `EndpointsProofs` hold every property of the
run `desk`, and `RevokedStaysRevoked` of `platform`:

| Theorem | Property | What makes it inductive |
|---|---|---|
| `DeskProofs!CopiesBounded` | (`OneCopyPerDispatch`) | `ClaimIsALock`: a worker past the claim holds it, alone; `CopiesAllowed`: while it has nothing accepted, and while nobody holds the claim, every copy so far was allowed |
| `DeskProofs!DispatchClaimRefines` | `DispatchImplementsSendClaim` | the two conjuncts above: `ClaimIsALock` makes the holder the only one, `CopiesAllowed` gives the guards of the abstract `Send` and `GiveBack` |
| `DeskProofs!DispatchesAccounted` | `NoDispatchVanishes` | `ClaimsExplained`: a claim nobody holds belongs to a dispatch accepted, declined or stranded (also by a claim that failed with its key set), and that stays so when a dead letter is published again |
| `DeskProofs!OneOutcomeHolds` | `OneOutcome` | `MovesAreFinal` and `OneMover`: what was or will be announced is a move the order made, by one request; `LinksOfTheConfirmation`: only the request that confirmed the order makes a link |
| `DeskProofs!RemindersOnce` | `RemindedOnce` | `HeldOnce`: a task two instances hold, or one broadcast before and held again, was listed while held |
| `DeskProofs!StaleTokensExplained` | `StaleTokenIsExplained` | `LookupsExplained`: a lookup that will remember an old token belongs to an instance already recorded, as does a cache an update could not reach, or did not because it threw after its commit; `NothingBeforeTheRow`: nothing is cached before there is a row |
| `DeskProofs!TemplatesAgreeAlways` | `TemplatesAgree` | `LoneRequestsOnTrack`: until something overlapped or failed at most one request runs, it read the row as it still is, and once Meta has answered, the row lacks exactly what that answer will bring it |
| `DeskProofs!RulesRunOnce` | `NoReplyRunsOnce` | `ListedTogether` and `RunsExplained`: a silence whose rules ran is marked, about to be marked by the instance that ran them, or recorded as doubled; `ListedInTime`: what was listed lies in the past |
| `DeskProofs!HalfEditsAreIdle` | `HalfEditedRulesDoNothing` | inductive as it stands: only an evaluation changes what was acted on, and it acts on what is valid at that moment |
| `AccountsProofs!RevocationStands` | `RevokedStaysRevoked` | `KeysPursued`: every key shown to a suspended user is on a request's list, or will be listed; `SessionsPursued`: what a reactivation that is still current has deleted, by the phase of the status each session was born in; `StreamsPursued`: a stream without its session or key was opened too late, was left open, or is about to be ended by an administrator's request or by the request that revoked it |
| `AccountsProofs!RoleStoresAgreeAlways` | `RoleStoresAgree` | `ReplacementsApart` and `PatchesApply`: of a user whose replacements never overlapped the stores agree at every step, at most one replacement is under way, and the one about to commit deletes exactly the bindings there are |
| `ConversationsProofs!RotationIsFairAlways` | `RotationIsFair` | `ServedInTurn`: members are served in the order in which the cursor reaches them, so one whose turn comes later was not served less; `PickersCurrent`: the cursor's row is locked by one pick at a time, which saw the cursor and, unless something changed since, the members as they are |
| `ConversationsProofs!InboxCatchesUpAlways` | `InboxCatchesUp` | `InboxShape` and `Current`: an out-of-date query has, for its change, an announcement, an event or a resync on its way, a request that will answer with the present state, or is passed by; every unannounced change, and every announcement that is not reached or not heard, puts it there |
| `ConversationsProofs!OptOutsStand` | `OptOutStands` | `StoppedStands`: while an opt-out stands its row exists and says so, and no request that could lift it is under way; `RequestsFoundARow`: a request under way once found a row |
| `ConversationsProofs!OnlyTheLastSessionSpeaks` | `OneSessionSpeaks` | `SessionsOK` and `HandlingOK`: a message in hand names a session there is, so its save starts none, and it never reopens one |
| `EndpointsProofs!TwinsAgreeAlways` | `TwinsAgree` | `ServedInvariant`: a first reply is the case's and a second the route's, so that `TwinsSendTheSame`, which goes through the operations one by one, relates them |

What stands in parentheses is no property of a run. `OneSender` and `OneCopyPerDispatch` are implied by the
refinements, which are, and TLC would check the same thing twice; the theorems state them because the
refinements rest on them. `RetriesHaveAFetch` is proved only: it is the safe half of `OutageEnds`, whose run
fails on the same mistakes.

Two of these proofs changed a model. `RevokedStaysRevoked` used to take a reactivation for overtaken
only if it deletes no sessions, and was false with four requests in place of the run's two: one that
deletes them can be overtaken as well, by another reactivation, a login and a suspension. A
request now remembers which change of the status it read (`read`), and `WriteStatus` excuses the sessions
left by exactly the reactivations that were overtaken. `Endpoints`
and `Users` had overlapping arms in a `CASE` where the code takes the first match.

## Model-checked only

Liveness under fairness (`EventuallySettled`, `EventuallyDrained`, `ConsumersReturn`, `MediaSettles`,
`OutageEnds`) is out of the prover's reach and rests on TLC. Of `OutageEnds`, the theorem `RetriesNeverStick`
proves the safe half, that no retry flag is left behind by a fetch that ended. Every safety property of every passing run is proved.

## Not modelled

* Delivered and read counters: additions on every receipt. Receipts arrive repeatedly and in any
  order, and the code promises neither exact counters nor monotone statuses.
* Segments, custom fields, notes and presence: single writes.
* The rate limiter (one Lua script), the policy engine and working hours (pure decisions over
  clocks and settings): the models take their verdicts as nondeterministic.
* The customer's own webhook, catalogue carts and the lookup of a channel by phone number, which
  caches as the credentials lookup does.
* Billing, reporting, AI: stateless reads and calls. The web application beyond its event stream
  and the two conversation queries: rendering. Process wiring.

Known hazards that no property covers yet: a receipt that precedes the row of its message is
dropped; a suppression write that is swallowed leaves its recipient pending; an audience inserted after a cancel stays in the funnel; a test send moves
a draft or scheduled campaign to running, and `/run` then refuses it; a scheduled campaign whose
segment is empty never completes; the last pending recipient marked failed before its retry
completes the campaign; messages published before the durable queues are declared are confirmed
and dropped; a negative channel lookup is cached for five minutes; two administrators can demote
each other at once; two settings patches lose one of them; `STEP_CAP` ends a long chain of nodes
silently.

## Plan

Done: all modules of the list above, the abstract claim that the send log of `Campaign` and the Redis
claim of `Sends` refine, and the proof of every safety property the runs check.

What is left, in this order:

1. The ingestor's idempotency key of `Inbound` as a `SendClaim`, too, with a count of what was published
   per message.
2. Receipts against the counters, once the code says what they promise.
3. The known hazards above that break a promise of the code: the funnel of a cancelled campaign, the swallowed
   suppression write.
4. Pure functions against references: pacing, policy, working hours, rate windows.
