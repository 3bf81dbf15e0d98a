------------------------------- MODULE Inbound -------------------------------
(***************************************************************************)
(* What becomes of a message a customer sends: Meta posts it to the        *)
(* webhook until a request is answered 200, the ingestor claims its id in  *)
(* Redis and puts one event on the durable transport, and the workers run  *)
(* handleInbound (handleSocialInbound for Messenger and Instagram) on      *)
(* every copy of the event the transport delivers.                         *)
(*                                                                         *)
(* The transport is at-least-once (module AtLeastOnce, which Outbox        *)
(* implements): a copy whose run throws or whose process dies comes back   *)
(* until its attempts are spent, and a copy whose claim went stale is      *)
(* delivered again while the first run is still going.                     *)
(*                                                                         *)
(* One contact writes; messages are numbered in the order they were sent.  *)
(* Every step of a run is one database transaction or one external call.   *)
(***************************************************************************)
EXTENDS Naturals, Sequences, FiniteSets

CONSTANTS
    NumMessages,  \* messages the contact sends
    Scripts,      \* what they may be: the kind of each ("none": never sent), which
                  \* are social, which are already on the transport, and the bound
                  \* on what goes wrong from there: failed calls, crashes and copies
                  \* delivered while a run is going
    NumHandlers,  \* concurrent runs of the inbound handlers
    MaxFailedRuns   \* failed runs after which an event is dead-lettered

Messages == 1..NumMessages
Handlers == 1..NumHandlers   \* interchangeable: a copy goes to the first idle one
Kinds == {"text", "stop", "start", "media", "reaction", "none"}

ASSUME InboundAssumption ==
    /\ NumMessages \in Nat
    /\ Scripts \subseteq [kinds : [Messages -> Kinds], social : SUBSET Messages,
                    posted : SUBSET Messages, troubles : Nat]
    /\ \A s \in Scripts : \A m \in s.social : s.kinds[m] \in {"text", "stop", "start"}
    /\ MaxFailedRuns \in Nat \ {0}
    /\ NumHandlers \in Nat


VARIABLES
    kind,       \* what each message is
    social,     \* the messages that come from Messenger or Instagram
    meta,       \* Meta's side: "unsent", "sending" until a request is answered 200, then "acked"
    claimed,    \* the ingestor's idempotency keys
    hook,       \* the request holding a claim: "none", "publish" or "release"
    copies,     \* copies of the message's event waiting to be delivered
    failedRuns, \* runs that threw
    run,        \* per handler: the run it is in
    rows,       \* the inbound rows of table messages
    linked,     \* the rows whose payload has its mediaAsset
    jobs,       \* the rows a MediaFetchRequested event was enqueued for
    convs,      \* table conversations, of this contact and channel
    optedOut,   \* contacts.metadata.optedOut
    consent,    \* the contact has an unrevoked consent record
    troubles,   \* what may still go wrong
    applied,    \* history: the STOPs both of whose writes have been made
    overlapped, \* history: messages two runs worked on at the same time
    excused,    \* history: messages whose claim outlived the request that took it
    answers,    \* history: bot answers (flow or auto-reply) to each message
    flowFaults  \* history: flow failures swallowed while running a message

ingress == <<meta, claimed, hook>>
transport == <<copies, failedRuns>>
contact == <<optedOut, consent>>
tables == <<rows, linked, jobs, convs>>
inboundHistory == <<applied, overlapped, excused, answers, flowFaults>>
inboundVars == <<kind, social, ingress, transport, run, tables, contact, troubles, inboundHistory>>

NoRun == [at |-> "idle"]
NewConversation == [assigned |-> "nobody", session |-> "none", welcomes |-> 0]

Recorded(m) == \E r \in DOMAIN rows : rows[r].msg = m
Running(m) == \E h \in Handlers : run[h].at # "idle" /\ run[h].msg = m
Limit(m) == IF m \in social THEN 2 ELSE MaxFailedRuns
Dead(m) == failedRuns[m] >= Limit(m)

Trouble == troubles > 0 /\ troubles' = troubles - 1

InboundInit ==
    /\ \E s \in Scripts :
          /\ kind = s.kinds
          /\ social = s.social
          /\ troubles = s.troubles
          /\ meta = [m \in Messages |-> CASE kind[m] = "none" -> "unsent"
                                          [] m \in s.posted -> "acked"
                                          [] OTHER -> "sending"]
          /\ claimed = s.posted
          /\ copies = [m \in Messages |-> IF m \in s.posted THEN 1 ELSE 0]
    /\ hook = [m \in Messages |-> "none"]
    /\ failedRuns = [m \in Messages |-> 0]
    /\ run = [h \in Handlers |-> NoRun]
    /\ rows = <<>>
    /\ linked = {}
    /\ jobs = {}
    /\ convs = <<>>
    /\ optedOut = FALSE
    /\ consent = TRUE
    /\ applied = {}
    /\ overlapped = {}
    /\ excused = {}
    /\ answers = [m \in Messages |-> 0]
    /\ flowFaults = [m \in Messages |-> 0]

-----------------------------------------------------------------------------
(***************************************************************************)
(* Meta and the webhook ingestor.                                          *)
(***************************************************************************)
(***************************************************************************)
(* isDuplicate: the first request claims the message's key; any other is   *)
(* counted as a duplicate and answered 200.                                *)
(***************************************************************************)
Receive(m) ==
    /\ meta[m] = "sending"
    /\ IF m \in claimed
       THEN /\ meta' = [meta EXCEPT ![m] = "acked"]
            /\ excused' = excused \cup (IF hook[m] # "none" THEN {m} ELSE {})
            /\ UNCHANGED <<claimed, hook>>
       ELSE /\ claimed' = claimed \cup {m}
            /\ hook' = [hook EXCEPT ![m] = "publish"]
            /\ UNCHANGED <<meta, excused>>
    /\ UNCHANGED <<kind, social, transport, run, tables, contact, troubles,
                   applied, overlapped, answers, flowFaults>>

(***************************************************************************)
(* The SET NX takes effect and its answer is lost: isDuplicate is awaited  *)
(* outside the try, so the request is answered 5xx with the key in place,  *)
(* and Meta's next delivery is taken for a duplicate.                      *)
(***************************************************************************)
ClaimAnswerLost(m) ==
    /\ meta[m] = "sending" /\ m \notin claimed
    /\ Trouble
    /\ claimed' = claimed \cup {m}
    /\ excused' = excused \cup {m}
    /\ UNCHANGED <<kind, social, meta, hook, transport, run, tables, contact,
                   applied, overlapped, answers, flowFaults>>

Publish(m) ==
    /\ hook[m] = "publish"
    /\ copies' = [copies EXCEPT ![m] = @ + 1]
    /\ hook' = [hook EXCEPT ![m] = "none"]
    /\ meta' = [meta EXCEPT ![m] = "acked"]
    /\ UNCHANGED <<kind, social, claimed, failedRuns, run, tables, contact, troubles,
                   inboundHistory>>

(***************************************************************************)
(* A publish that fails although its event was stored is not told apart:   *)
(* Meta's retry then adds a second event, which the handlers take like the *)
(* copy GoesStale adds.                                                    *)
(***************************************************************************)
HookPublishFails(m) ==
    /\ hook[m] = "publish"
    /\ Trouble
    /\ hook' = [hook EXCEPT ![m] = "release"]
    /\ UNCHANGED <<kind, social, meta, claimed, transport, run, tables, contact, inboundHistory>>

(***************************************************************************)
(* The claim is given back before the request is answered 5xx, so that     *)
(* Meta's next delivery is not taken for a duplicate. The release is       *)
(* guarded: when it fails too, in the same outage, the key stays.           *)
(***************************************************************************)
ReleaseNothing(m) ==   \* mutant: a failed publish keeps its claim
    /\ hook[m] = "release"
    /\ hook' = [hook EXCEPT ![m] = "none"]
    /\ UNCHANGED <<kind, social, meta, claimed, transport, run, tables, contact, troubles,
                   inboundHistory>>

Release(m) ==
    /\ hook[m] = "release"
    /\ hook' = [hook EXCEPT ![m] = "none"]
    /\ claimed' = claimed \ {m}
    /\ UNCHANGED <<kind, social, meta, transport, run, tables, contact, troubles, inboundHistory>>

ReleaseFails(m) ==
    /\ hook[m] = "release"
    /\ hook' = [hook EXCEPT ![m] = "none"]
    /\ excused' = excused \cup {m}
    /\ UNCHANGED <<kind, social, meta, claimed, transport, run, tables, contact, troubles,
                   applied, overlapped, answers, flowFaults>>

-----------------------------------------------------------------------------
(***************************************************************************)
(* The transport, as the handlers see it.                                  *)
(***************************************************************************)
Deliver(h, m) ==
    /\ run[h].at = "idle"
    /\ \A g \in Handlers : g < h => run[g].at # "idle"
    /\ copies[m] > 0
    /\ copies' = [copies EXCEPT ![m] = @ - 1]
    /\ run' = [run EXCEPT ![h] = [at |-> "lookup", msg |-> m, conv |-> 0, row |-> 0,
                                  seen |-> "nobody", flow |-> "none"]]
    /\ overlapped' = overlapped \cup (IF Running(m) THEN {m} ELSE {})
    /\ UNCHANGED <<kind, social, ingress, failedRuns, tables, contact, troubles,
                   applied, excused, answers, flowFaults>>

GoesStale(m) ==
    /\ Running(m)
    /\ Trouble
    /\ copies' = [copies EXCEPT ![m] = @ + 1]
    /\ UNCHANGED <<kind, social, ingress, failedRuns, run, tables, contact, inboundHistory>>

At(h, step) == run[h].at = step
Msg(h) == run[h].msg
Kind(h) == kind[run[h].msg]
Social(h) == run[h].msg \in social
Goto(h, step) == run' = [run EXCEPT ![h].at = step]
Finish(h) == run' = [run EXCEPT ![h] = NoRun]

(***************************************************************************)
(* A step that throws: the event is redelivered, or dead-lettered at its   *)
(* last attempt.                                                           *)
(***************************************************************************)
Throws(h) ==
    /\ Trouble
    /\ failedRuns' = [failedRuns EXCEPT ![Msg(h)] = @ + 1]
    /\ copies' = [copies EXCEPT ![Msg(h)] =
                     IF failedRuns'[Msg(h)] < Limit(Msg(h)) THEN @ + 1 ELSE @]
    /\ Finish(h)

Throwing == {"lookup", "requeue", "revoke", "optOut", "findConv", "makeConv", "record",
             "media", "stopEvent", "grant", "optIn", "autoReply"}

RunThrows(h) ==
    /\ run[h].at \in Throwing
    /\ Throws(h)
    /\ UNCHANGED <<kind, social, ingress, tables, contact, inboundHistory>>

(***************************************************************************)
(* Failures the handler swallows: the default automations and the rotation *)
(* go on with the next step, a failed flow lets the keyword rules answer.  *)
(***************************************************************************)
SwallowsOptOut ==   \* mutant: a failed opt-out write does not stop the run
    [defaults |-> "rotate", rotate |-> "flow", flow |-> "autoReply", flowStart |-> "autoReply",
     flowSend |-> "autoReply", flowSave |-> "autoReply", optOut |-> "findConv"]

AfterSwallowed ==
    [defaults |-> "rotate", rotate |-> "flow", flow |-> "autoReply", flowStart |-> "autoReply",
     flowSend |-> "autoReply", flowSave |-> "autoReply"]

RunSwallows(h) ==
    /\ run[h].at \in DOMAIN AfterSwallowed
    /\ Trouble
    /\ Goto(h, AfterSwallowed[run[h].at])
    /\ flowFaults' = [flowFaults EXCEPT
                         ![Msg(h)] = IF run[h].at \in {"flowSend", "flowSave"} THEN @ + 1 ELSE @]
    /\ UNCHANGED <<kind, social, ingress, transport, tables, contact,
                   applied, overlapped, excused, answers>>

(***************************************************************************)
(* A crash of the process: the webhook requests and the runs are gone, the *)
(* Redis keys and the tables stay, the unfinished copies come back.        *)
(***************************************************************************)
ProcessCrashes ==
    /\ Trouble
    /\ excused' = excused \cup {m \in Messages : hook[m] # "none"}
    /\ hook' = [m \in Messages |-> "none"]
    /\ copies' = [m \in Messages |->
                    copies[m] +
                    Cardinality({h \in Handlers : run[h].at # "idle" /\ run[h].msg = m})]
    /\ run' = [h \in Handlers |-> NoRun]
    /\ UNCHANGED <<kind, social, meta, claimed, failedRuns, tables, contact,
                   applied, overlapped, answers, flowFaults>>

-----------------------------------------------------------------------------
(***************************************************************************)
(* The run. The replay guard looks for a row of the message; for media     *)
(* whose asset is not linked the replay enqueues the fetch once more.      *)
(***************************************************************************)
LookupBlind(h) ==   \* mutant: no replay guard
    /\ At(h, "lookup")
    /\ Goto(h, IF Kind(h) = "stop" THEN "revoke" ELSE "findConv")
    /\ UNCHANGED <<kind, social, ingress, transport, tables, contact, troubles, inboundHistory>>

Lookup(h) ==
    /\ At(h, "lookup")
    /\ \/ /\ ~Recorded(Msg(h))
          /\ Goto(h, IF Kind(h) = "stop" THEN "revoke" ELSE "findConv")
       \/ \E r \in DOMAIN rows :
             /\ rows[r].msg = Msg(h)
             /\ IF Kind(h) = "media" /\ r \notin linked
                THEN run' = [run EXCEPT ![h].at = "requeue", ![h].row = r]
                ELSE Finish(h)
    /\ UNCHANGED <<kind, social, ingress, transport, tables, contact, troubles, inboundHistory>>

Requeue(h) ==
    /\ At(h, "requeue")
    /\ jobs' = jobs \cup {run[h].row}
    /\ Finish(h)
    /\ UNCHANGED <<kind, social, ingress, transport, rows, linked, convs, contact, troubles,
                   inboundHistory>>

(***************************************************************************)
(* STOP is applied before the row is written, in two transactions.         *)
(***************************************************************************)
Revoke(h) ==
    /\ At(h, "revoke")
    /\ consent' = FALSE
    /\ Goto(h, "optOut")
    /\ UNCHANGED <<kind, social, ingress, transport, tables, optedOut, troubles, inboundHistory>>

OptOut(h) ==
    /\ At(h, "optOut")
    /\ optedOut' = TRUE
    /\ applied' = applied \cup {Msg(h)}
    /\ Goto(h, "findConv")
    /\ UNCHANGED <<kind, social, ingress, transport, tables, consent, troubles,
                   overlapped, excused, answers, flowFaults>>

(***************************************************************************)
(* conversationRepository.findOrCreate selects and then inserts, and no    *)
(* unique index stands between two runs that both found nothing. The row   *)
(* it returns is what the run later takes the assignee from.               *)
(***************************************************************************)
FindConversation(h) ==
    /\ At(h, "findConv")
    /\ \/ /\ convs = <<>>
          /\ Goto(h, "makeConv")
       \/ \E c \in DOMAIN convs :
             run' = [run EXCEPT ![h].at = "record", ![h].conv = c, ![h].seen = convs[c].assigned]
    /\ UNCHANGED <<kind, social, ingress, transport, tables, contact, troubles, inboundHistory>>

MakeConversation(h) ==
    /\ At(h, "makeConv")
    /\ convs' = Append(convs, NewConversation)
    /\ run' = [run EXCEPT ![h].at = "record", ![h].conv = Len(convs) + 1, ![h].seen = "nobody"]
    /\ UNCHANGED <<kind, social, ingress, transport, rows, linked, jobs, contact, troubles,
                   inboundHistory>>

(***************************************************************************)
(* The row of the message: from here on a redelivery is a replay. What     *)
(* follows depends on the message; a reaction triggers nothing more.       *)
(***************************************************************************)
AfterRow(h) ==
    IF Kind(h) = "media" THEN "media"
    ELSE IF Kind(h) = "stop" THEN "stopEvent"
    ELSE IF Kind(h) = "start" THEN IF Social(h) THEN "optIn" ELSE "grant"
    ELSE IF Social(h) THEN "autoReply"
    ELSE IF Kind(h) = "reaction" THEN "end"
    ELSE "defaults"

Record(h) ==
    /\ At(h, "record")
    /\ rows' = Append(rows, [msg |-> Msg(h), conv |-> run[h].conv])
    /\ run' = [run EXCEPT ![h].at = AfterRow(h), ![h].row = Len(rows) + 1]
    /\ UNCHANGED <<kind, social, ingress, transport, linked, jobs, convs, contact, troubles,
                   inboundHistory>>

EnqueueMedia(h) ==
    /\ At(h, "media")
    /\ jobs' = jobs \cup {run[h].row}
    /\ Goto(h, "defaults")
    /\ UNCHANGED <<kind, social, ingress, transport, rows, linked, convs, contact, troubles,
                   inboundHistory>>

(***************************************************************************)
(* The media pipeline (module MediaFetch) links what it stored.            *)
(***************************************************************************)
LinkMedia(r) ==
    /\ r \in jobs
    /\ r \notin linked
    /\ linked' = linked \cup {r}
    /\ UNCHANGED <<kind, social, ingress, transport, run, rows, jobs, convs, contact, troubles,
                   inboundHistory>>

(***************************************************************************)
(* A STOP ends with its compliance event, a reaction with its row.         *)
(***************************************************************************)
EndRun(h) ==
    /\ run[h].at \in {"stopEvent", "end"}
    /\ Finish(h)
    /\ UNCHANGED <<kind, social, ingress, transport, tables, contact, troubles, inboundHistory>>

(***************************************************************************)
(* START is applied after the row; a social START grants no consent.       *)
(***************************************************************************)
Grant(h) ==
    /\ At(h, "grant")
    /\ consent' = TRUE
    /\ Goto(h, "optIn")
    /\ UNCHANGED <<kind, social, ingress, transport, tables, optedOut, troubles, inboundHistory>>

OptIn(h) ==
    /\ At(h, "optIn")
    /\ optedOut' = FALSE
    /\ Goto(h, IF Social(h) THEN "autoReply" ELSE "defaults")
    /\ UNCHANGED <<kind, social, ingress, transport, tables, consent, troubles, inboundHistory>>

(***************************************************************************)
(* The welcome of runDefaultAutomations: sent when the conversation has no *)
(* inbound row but the one this run created.                               *)
(***************************************************************************)
FirstInboundByMessage(h) ==   \* mutant: rows of the same message do not count
    \A r \in DOMAIN rows : rows[r].conv = run[h].conv => rows[r].msg = Msg(h)

FirstInbound(h) ==
    \A r \in DOMAIN rows : rows[r].conv = run[h].conv => r = run[h].row

RunDefaults(h) ==
    /\ At(h, "defaults")
    /\ convs' = [convs EXCEPT ![run[h].conv].welcomes = IF FirstInbound(h) THEN @ + 1 ELSE @]
    /\ Goto(h, IF run[h].seen = "nobody" THEN "rotate" ELSE "flow")
    /\ UNCHANGED <<kind, social, ingress, transport, rows, linked, jobs, contact, troubles,
                   inboundHistory>>

(***************************************************************************)
(* The rotation assigns when the conversation the run read at its start    *)
(* had no assignee; an agent may assign it by hand meanwhile.              *)
(***************************************************************************)
Rotate(h) ==
    /\ At(h, "rotate")
    /\ convs' = [convs EXCEPT ![run[h].conv].assigned = "rotation"]
    /\ Goto(h, "flow")
    /\ UNCHANGED <<kind, social, ingress, transport, rows, linked, jobs, contact, troubles,
                   inboundHistory>>

AssignByHand(c) ==
    /\ convs[c].assigned = "nobody"
    /\ convs' = [convs EXCEPT ![c].assigned = "agent"]
    /\ UNCHANGED <<kind, social, ingress, transport, run, rows, linked, jobs, contact, troubles,
                   inboundHistory>>

(***************************************************************************)
(* The chatbot flow asks one question: its trigger starts a session and    *)
(* sends it, the next message answers it. The session is read, its action  *)
(* made and its row updated in three transactions. Only text runs here.    *)
(***************************************************************************)
EnterFlow(h) ==
    /\ At(h, "flow")
    /\ \/ /\ Kind(h) \notin {"text", "start"}
          /\ Finish(h)
       \/ /\ Kind(h) \in {"text", "start"}
          /\ convs[run[h].conv].session = "waiting"
          /\ run' = [run EXCEPT ![h].at = "flowSend", ![h].flow = "answer"]
       \/ /\ Kind(h) \in {"text", "start"}
          /\ convs[run[h].conv].session # "waiting"
          /\ Goto(h, "flowStart")
       \/ /\ Kind(h) \in {"text", "start"}     \* a paused flow, or no trigger matches
          /\ Goto(h, "autoReply")
    /\ UNCHANGED <<kind, social, ingress, transport, tables, contact, troubles, inboundHistory>>

StartSession(h) ==   \* loses to a session another run has just started
    /\ At(h, "flowStart")
    /\ IF convs[run[h].conv].session = "waiting"
       THEN /\ Goto(h, "autoReply")
            /\ UNCHANGED convs
       ELSE /\ convs' = [convs EXCEPT ![run[h].conv].session = "waiting"]
            /\ run' = [run EXCEPT ![h].at = "flowSend", ![h].flow = "question"]
    /\ UNCHANGED <<kind, social, ingress, transport, rows, linked, jobs, contact, troubles,
                   inboundHistory>>

FlowSend(h) ==
    /\ At(h, "flowSend")
    /\ answers' = [answers EXCEPT ![Msg(h)] = @ + 1]
    /\ Goto(h, "flowSave")
    /\ UNCHANGED <<kind, social, ingress, transport, tables, contact, troubles,
                   applied, overlapped, excused, flowFaults>>

FlowSaveFallsThrough(h) ==   \* mutant: a consumed message still meets the rules
    /\ At(h, "flowSave")
    /\ convs' = [convs EXCEPT ![run[h].conv].session =
                    IF run[h].flow = "question" THEN "waiting" ELSE "done"]
    /\ Goto(h, "autoReply")
    /\ UNCHANGED <<kind, social, ingress, transport, rows, linked, jobs, contact, troubles,
                   inboundHistory>>

FlowSave(h) ==
    /\ At(h, "flowSave")
    /\ convs' = [convs EXCEPT ![run[h].conv].session =
                    IF run[h].flow = "question" THEN @ ELSE "done"]
    /\ Finish(h)
    /\ UNCHANGED <<kind, social, ingress, transport, rows, linked, jobs, contact, troubles,
                   inboundHistory>>

(***************************************************************************)
(* The keyword rules; a reply is one outbox row. The new_message rules run *)
(* after this or after the flow, each failure swallowed: what they change  *)
(* (tags, tasks, templates) is not kept here, so they are no step.         *)
(***************************************************************************)
AutoReply(h) ==
    /\ At(h, "autoReply")
    /\ \E matched \in BOOLEAN :
          answers' = [answers EXCEPT ![Msg(h)] = IF matched THEN @ + 1 ELSE @]
    /\ Finish(h)
    /\ UNCHANGED <<kind, social, ingress, transport, tables, contact, troubles,
                   applied, overlapped, excused, flowFaults>>

-----------------------------------------------------------------------------
IngressNext ==
    \E m \in Messages :
        \/ Receive(m) \/ ClaimAnswerLost(m)
        \/ Publish(m)
        \/ HookPublishFails(m)
        \/ Release(m)
        \/ ReleaseFails(m)
        \/ GoesStale(m)

RunStep(h) ==
    \/ Lookup(h) \/ Requeue(h)
    \/ Revoke(h) \/ OptOut(h)
    \/ FindConversation(h) \/ MakeConversation(h)
    \/ Record(h) \/ EnqueueMedia(h) \/ EndRun(h)
    \/ Grant(h) \/ OptIn(h)
    \/ RunDefaults(h) \/ Rotate(h)
    \/ EnterFlow(h) \/ StartSession(h) \/ FlowSend(h) \/ FlowSave(h)
    \/ AutoReply(h)

InboundNext ==
    \/ IngressNext
    \/ \E h \in Handlers :
          \/ \E m \in Messages : Deliver(h, m)
          \/ RunStep(h)
          \/ RunThrows(h)
          \/ RunSwallows(h)
    \/ \E r \in DOMAIN rows : LinkMedia(r)
    \/ \E c \in DOMAIN convs : AssignByHand(c)
    \/ ProcessCrashes

-----------------------------------------------------------------------------
InboundSpec == InboundInit /\ [][InboundNext]_inboundVars

Steps == {"lookup", "requeue", "revoke", "optOut", "findConv", "makeConv", "record", "media",
          "stopEvent", "end", "grant", "optIn", "defaults", "rotate", "flow",
          "flowStart", "flowSend", "flowSave", "autoReply"}
Assignees == {"nobody", "agent", "rotation"}
Runs == {NoRun} \cup
        [at : Steps, msg : Messages, conv : Nat, row : Nat, seen : Assignees,
         flow : {"none", "question", "answer"}]

\* The types of the ingestor's, the transport's and the handlers' state.
InboundTypeOK ==
    /\ kind \in [Messages -> Kinds]
    /\ social \subseteq Messages
    /\ meta \in [Messages -> {"unsent", "sending", "acked"}]
    /\ claimed \subseteq Messages
    /\ hook \in [Messages -> {"none", "publish", "release"}]
    /\ copies \in [Messages -> Nat]
    /\ failedRuns \in [Messages -> Nat]
    /\ run \in [Handlers -> Runs]
    /\ rows \in Seq([msg : Messages, conv : Nat])
    /\ linked \subseteq DOMAIN rows
    /\ jobs \subseteq DOMAIN rows
    /\ convs \in Seq([assigned : Assignees, session : {"none", "waiting", "done"}, welcomes : Nat])
    /\ optedOut \in BOOLEAN
    /\ consent \in BOOLEAN
    /\ troubles \in Nat
    /\ applied \subseteq Messages
    /\ overlapped \subseteq Messages
    /\ excused \subseteq Messages
    /\ answers \in [Messages -> Nat]
    /\ flowFaults \in [Messages -> Nat]

\* A STOP whose row exists, the marker that makes every redelivery a replay,
\* has had both of its writes made, whichever step threw before or after.
RecordedStopApplied ==
    \A m \in Messages : kind[m] = "stop" /\ Recorded(m) => m \in applied

\* The replay guard: a message has a second row only when two of its runs
\* overlapped, so neither a retry nor a crash records it twice.
DuplicatesNeedOverlap ==
    \A r, s \in DOMAIN rows : rows[r].msg = rows[s].msg => r = s \/ rows[r].msg \in overlapped

\* A webhook that Meta takes for delivered has its event on the transport,
\* unless the claim of an unpublished message was kept: by a crash, a failed
\* release, a claim whose answer was lost, or a duplicate answered meanwhile.
NoSilentLoss ==
    \A m \in Messages :
        meta[m] = "acked" =>
            m \in excused \/ copies[m] > 0 \/ Running(m) \/ Recorded(m) \/ Dead(m)

\* A conversation is welcomed at most once, whatever the interleaving of
\* the runs: of two first messages the one recorded last sees the other.
WelcomeOnce ==
    \A c \in DOMAIN convs : convs[c].welcomes <= 1

\* The bot answers once per recorded row: a flow that consumed the message
\* keeps the keyword rules quiet unless a failure of its own was swallowed.
OneBotAnswer ==
    \A m \in Messages :
        answers[m] <= Cardinality({r \in DOMAIN rows : rows[r].msg = m}) + flowFaults[m]

\* The comment on the rotation: a manual assignment is never overridden.
ManualAssignmentKept ==
    [][\A c \in DOMAIN convs :
          convs[c].assigned = "agent" => convs'[c].assigned # "rotation"]_inboundVars

=============================================================================
