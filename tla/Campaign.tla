------------------------------ MODULE Campaign ------------------------------
(***************************************************************************)
(* One campaign: its status machine and the operators and schedulers that  *)
(* drive it (api-gateway), the fan-out of its recipients and the dispatch  *)
(* of each message (notification-worker), over the transactional outbox.   *)
(*                                                                         *)
(* Outbox.tla says how an event travels.  Here an outbox row only needs    *)
(* its identity (two handlers may hold one row after a claim went stale)   *)
(* and to be claimable or not; it is named by the job it carries and a     *)
(* copy number, and a processed row nobody holds any more is forgotten.    *)
(***************************************************************************)
EXTENDS Naturals, FiniteSets

CONSTANTS
    Recipients,   \* the contacts; each has one phone, so it names both
    Workers,      \* the bus handlers that can run at the same time
    BatchSize,    \* recipients claimed by one fan-out step (50 in the code)
    FaultKinds,   \* which of Faults below may happen
    MaxCopies,    \* bound: live outbox rows of the same job
    MaxFaults,    \* bound: faults of any kind
    MaxOps,       \* bound: pauses and test sends
    MaxDelays,    \* bound: rate-cap deferrals and recipient claims gone stale
    NoRow         \* the row of a worker that handles nothing

(* "send": a call of the dispatch handler throws; "crash": a worker dies   *)
(* in it; "lease": an outbox claim goes stale under a live handler;        *)
(* "write": a best-effort write is swallowed; "fanout": the run handler    *)
(* throws or dies; "cancel": the gateway dies between cancel's two writes; *)
(* "result": a dispatch result is delivered again, or dead-lettered.       *)
Faults == {"send", "crash", "lease", "write", "fanout", "cancel", "result"}

Starters == {"run", "scheduler"}   \* POST .../run, and the 30-second timer

RunJob == <<"run", "run">>
Dispatch(r) == <<"dispatch", r>>
TestSend(r) == <<"test", r>>
SendJobs == {"dispatch", "test"} \X Recipients
Jobs == SendJobs \cup {RunJob}
Rows == Jobs \X (1..MaxCopies)

ASSUME CampaignAssumption ==
    /\ IsFiniteSet(Recipients)
    /\ IsFiniteSet(Workers)
    /\ BatchSize \in Nat \ {0}
    /\ FaultKinds \subseteq Faults
    /\ MaxCopies \in Nat
    /\ MaxFaults \in Nat
    /\ MaxOps \in Nat
    /\ MaxDelays \in Nat
    /\ NoRow \notin Rows

VARIABLES
    cstatus,     \* campaigns.status
    rstatus,     \* campaign_recipients.status, "absent" before the insert
    claimed,     \* campaign_recipients.claimed_at: "no", "fresh", "stale" (> 15 min)
    sendLog,     \* campaign_send_log: the phones claimed for this campaign
    outbox,      \* per row: "free", "queued", "held" or "done"
    pc,          \* per worker: the next call of its handler
    at,          \* per worker: the row it handles
    batch,       \* per worker: recipients claimed and not yet refused
    more,        \* per worker: its batch was full, so a continuation follows
    start,       \* per starter: the next step of a start under way
    cancelling,  \* a cancel has flipped the status, not yet the recipients
    faults, ops, delays,   \* what the bounds count
    sends,       \* history: send calls that reached Meta, per phone (the
                 \* adapter's own retries of one call are not told apart)
    releases,    \* history: send-log claims given back, per phone
    results,     \* CampaignDispatchResult events on the transport, per phone
    tally,       \* campaign_stats.sent_count, split by phone
    recounted,   \* history: results added to the tally and then delivered again
    overrun      \* history: fan-out messages sent since the campaign stopped

domain == <<cstatus, rstatus, claimed, sendLog>>
worker == <<pc, at, batch, more>>
gateway == <<start, cancelling>>
bounds == <<faults, ops, delays>>
stats == <<results, tally, recounted>>
history == <<sends, releases, overrun, stats>>
vars == <<domain, outbox, worker, gateway, bounds, history>>

CampaignStatuses ==
    {"draft", "scheduled", "running", "paused", "completed", "cancelled"}
RecipientStatuses == {"absent", "pending", "sent", "failed", "policy_skipped"}

(* Handler positions, named for the call that comes next.                  *)
Sending == {"send", "record", "publish"}      \* claimed; a throw releases
Undoing == {"release", "qfail", "qrelease"}   \* claimed; about to give it back
SendPcs == {"gate", "claim", "suppress", "fail"} \cup Sending \cup Undoing
RunPcs == {"rungate", "fan", "eval"}
Pcs == {"idle", "ack", "nack"} \cup SendPcs \cup RunPcs

JobOf(w) == at[w][1]
Phone(w) == JobOf(w)[2]
IsFanOut(w) == JobOf(w)[1] = "dispatch"

Init ==
    /\ cstatus \in {"draft", "scheduled"}
    /\ rstatus = [r \in Recipients |-> "absent"]
    /\ claimed = [r \in Recipients |-> "no"]
    /\ sendLog = {}
    /\ outbox = [x \in Rows |-> "free"]
    /\ pc = [w \in Workers |-> "idle"]
    /\ at = [w \in Workers |-> NoRow]
    /\ batch = [w \in Workers |-> {}]
    /\ more = [w \in Workers |-> FALSE]
    /\ start = [s \in Starters |-> "idle"]
    /\ cancelling = FALSE
    /\ faults = 0 /\ ops = 0 /\ delays = 0
    /\ sends = [r \in Recipients |-> 0]
    /\ releases = [r \in Recipients |-> 0]
    /\ results = [r \in Recipients |-> 0]
    /\ tally = [r \in Recipients |-> 0]
    /\ recounted = [r \in Recipients |-> 0]
    /\ overrun = 0

Fault(kind) ==
    /\ kind \in FaultKinds
    /\ faults < MaxFaults
    /\ faults' = faults + 1
    /\ UNCHANGED <<ops, delays>>

-----------------------------------------------------------------------------
(***************************************************************************)
(* The outbox.                                                             *)
(***************************************************************************)
LowestFree(x) ==
    /\ outbox[x] = "free"
    /\ \A k \in 1..(x[2] - 1) : outbox[<<x[1], k>>] # "free"

Enqueue(J) ==
    /\ \A j \in J : \E k \in 1..MaxCopies : outbox[<<j, k>>] = "free"
    /\ outbox' = [x \in Rows |->
                    IF x[1] \in J /\ LowestFree(x) THEN "queued" ELSE outbox[x]]

Goto(w, next) == pc' = [pc EXCEPT ![w] = next]

(* The first call of the handler subscribed to each topic.                 *)
FirstCall == [run |-> "rungate", dispatch |-> "gate", test |-> "claim"]

(* A relay claims the row and the bus runs its handler.                    *)
Take(w) ==
    /\ pc[w] = "idle"
    /\ \E x \in Rows :
        /\ outbox[x] = "queued"
        /\ outbox' = [outbox EXCEPT ![x] = "held"]
        /\ at' = [at EXCEPT ![w] = x]
        /\ Goto(w, FirstCall[x[1][1]])
    /\ UNCHANGED <<domain, batch, more, gateway, bounds, history>>

Holders(x) == {w \in Workers : at[w] = x}

(* The worker lets go of its row, which gets the given status; a processed *)
(* row nobody else holds is forgotten.                                     *)
LetGo(w, status) ==
    /\ outbox' = [outbox EXCEPT ![at[w]] =
                    IF status = "done" /\ Holders(at[w]) = {w} THEN "free" ELSE status]
    /\ at' = [at EXCEPT ![w] = NoRow]
    /\ batch' = [batch EXCEPT ![w] = {}]
    /\ more' = [more EXCEPT ![w] = FALSE]
    /\ Goto(w, "idle")

(* markProcessed and markFailed, whatever the row's status is by now.      *)
Ack(w) ==
    /\ pc[w] = "ack"
    /\ LetGo(w, "done")
    /\ UNCHANGED <<domain, gateway, bounds, history>>

Nack(w) ==
    /\ pc[w] = "nack"
    /\ LetGo(w, "queued")
    /\ UNCHANGED <<domain, gateway, bounds, history>>

(* The process dies: its row keeps the status it has.                      *)
Crash(w) ==
    /\ pc[w] # "idle"
    /\ Fault(IF JobOf(w) = RunJob THEN "fanout" ELSE "crash")
    /\ LetGo(w, outbox[at[w]])
    /\ UNCHANGED <<domain, gateway, history>>

(* Two minutes later: a row whose holder died becomes claimable again, and *)
(* so does one whose handler is merely slow.                               *)
RowGoesStale(x) ==
    /\ outbox[x] = "held"
    /\ IF Holders(x) = {} THEN UNCHANGED bounds ELSE Fault("lease")
    /\ outbox' = [outbox EXCEPT ![x] = "queued"]
    /\ UNCHANGED <<domain, worker, gateway, history>>

-----------------------------------------------------------------------------
(***************************************************************************)
(* The fan-out handler, handleCampaignRun: one batch per event.            *)
(***************************************************************************)
RunGate(w) ==
    /\ pc[w] = "rungate"
    /\ Goto(w, IF cstatus = "running" THEN "fan" ELSE "ack")
    /\ UNCHANGED <<domain, outbox, at, batch, more, gateway, bounds, history>>

Claimable(r) == rstatus[r] = "pending" /\ claimed[r] \in {"no", "stale"}

(* claimPendingBatch.  An empty batch ends the run: nothing follows it.    *)
ClaimBatch(w) ==
    /\ pc[w] = "fan"
    /\ \E S \in SUBSET Recipients :
        /\ \A r \in S : Claimable(r)
        /\ Cardinality(S) <= BatchSize
        /\ Cardinality(S) < BatchSize => \A r \in Recipients : Claimable(r) => r \in S
        /\ claimed' = [r \in Recipients |-> IF r \in S THEN "fresh" ELSE claimed[r]]
        /\ batch' = [batch EXCEPT ![w] = S]
        /\ more' = [more EXCEPT ![w] = Cardinality(S) = BatchSize]
        /\ Goto(w, IF S = {} THEN "ack" ELSE "eval")
    /\ UNCHANGED <<cstatus, rstatus, sendLog, outbox, at, gateway, bounds, history>>

(* The contact is gone (failed) or the policy engine refuses it: an        *)
(* unconditional write of the recipient's status.                          *)
Refuse(w) ==
    /\ pc[w] = "eval"
    /\ \E r \in batch[w], s \in {"failed", "policy_skipped"} :
        /\ rstatus' = [rstatus EXCEPT ![r] = s]
        /\ batch' = [batch EXCEPT ![w] = @ \ {r}]
    /\ UNCHANGED <<cstatus, claimed, sendLog, outbox, pc, at, more, gateway, bounds, history>>

FanOutOnly(w) ==   \* mutant: no continuation after a full batch
    /\ pc[w] = "eval"
    /\ Enqueue({Dispatch(r) : r \in batch[w]})
    /\ batch' = [batch EXCEPT ![w] = {}]
    /\ more' = [more EXCEPT ![w] = FALSE]
    /\ Goto(w, "ack")
    /\ UNCHANGED <<domain, at, gateway, bounds, history>>

(* The approved dispatches and the continuation, in one transaction.       *)
FanOut(w) ==
    /\ pc[w] = "eval"
    /\ Enqueue({Dispatch(r) : r \in batch[w]} \cup (IF more[w] THEN {RunJob} ELSE {}))
    /\ batch' = [batch EXCEPT ![w] = {}]
    /\ more' = [more EXCEPT ![w] = FALSE]
    /\ Goto(w, "ack")
    /\ UNCHANGED <<domain, at, gateway, bounds, history>>

RunThrows(w) ==
    /\ pc[w] \in RunPcs
    /\ Fault("fanout")
    /\ Goto(w, "nack")
    /\ UNCHANGED <<domain, outbox, at, batch, more, gateway, history>>

(* Fifteen minutes after the claim.                                        *)
ClaimGoesStale(r) ==
    /\ claimed[r] = "fresh"
    /\ rstatus[r] = "pending"
    /\ delays < MaxDelays
    /\ delays' = delays + 1
    /\ claimed' = [claimed EXCEPT ![r] = "stale"]
    /\ UNCHANGED <<cstatus, rstatus, sendLog, outbox, worker, gateway, faults, ops, history>>

-----------------------------------------------------------------------------
(***************************************************************************)
(* The dispatch handler, handleDispatch: one message.  A test send skips   *)
(* the status gate and the rate cap, and writes no recipient row.          *)
(***************************************************************************)
GateOpen(w) ==   \* mutant: queued dispatches ignore a stop
    /\ pc[w] = "gate"
    /\ Goto(w, "claim")
    /\ UNCHANGED <<domain, outbox, at, batch, more, gateway, bounds, history>>

Gate(w) ==
    /\ pc[w] = "gate"
    /\ Goto(w, IF cstatus = "running" THEN "claim" ELSE "ack")
    /\ UNCHANGED <<domain, outbox, at, batch, more, gateway, bounds, history>>

(* Over the rate cap: the command is enqueued again for later.             *)
Defer(w) ==
    /\ pc[w] = "claim"
    /\ IsFanOut(w)
    /\ delays < MaxDelays
    /\ delays' = delays + 1
    /\ Enqueue({JobOf(w)})
    /\ Goto(w, "ack")
    /\ UNCHANGED <<domain, at, batch, more, gateway, faults, ops, history>>

TryClaimUnchecked(w) ==   \* mutant: the insert's conflict is not looked at
    /\ pc[w] = "claim"
    /\ sendLog' = sendLog \cup {Phone(w)}
    /\ Goto(w, "send")
    /\ UNCHANGED <<cstatus, rstatus, claimed, outbox, at, batch, more, gateway, bounds, history>>

TryClaim(w) ==
    /\ pc[w] = "claim"
    /\ sendLog' = sendLog \cup {Phone(w)}
    /\ Goto(w, CASE Phone(w) \notin sendLog -> "send"
                 [] Phone(w) \in sendLog /\ IsFanOut(w) -> "suppress"
                 [] Phone(w) \in sendLog /\ ~IsFanOut(w) -> "ack")
    /\ UNCHANGED <<cstatus, rstatus, claimed, outbox, at, batch, more, gateway, bounds, history>>

(* updateStatus of the handler's own recipient; none for a test send.      *)
SetRecipient(w, status) ==
    rstatus' = IF IsFanOut(w) THEN [rstatus EXCEPT ![Phone(w)] = status] ELSE rstatus

SuppressAnyway(w) ==   \* mutant: without onlyIfStatus
    /\ pc[w] = "suppress"
    /\ SetRecipient(w, "policy_skipped")
    /\ Goto(w, "ack")
    /\ UNCHANGED <<cstatus, claimed, sendLog, outbox, at, batch, more, gateway, bounds, history>>

(* A duplicate: marked, unless something else has settled the recipient.   *)
Suppress(w) ==
    /\ pc[w] = "suppress"
    /\ IF rstatus[Phone(w)] = "pending"
       THEN SetRecipient(w, "policy_skipped")
       ELSE UNCHANGED rstatus
    /\ Goto(w, "ack")
    /\ UNCHANGED <<cstatus, claimed, sendLog, outbox, at, batch, more, gateway, bounds, history>>

OverQuota(w) ==
    /\ pc[w] = "send"
    /\ Goto(w, "qfail")
    /\ UNCHANGED <<domain, outbox, at, batch, more, gateway, bounds, history>>

CountSend(w) ==
    /\ sends' = [sends EXCEPT ![Phone(w)] = @ + 1]
    /\ overrun' = IF IsFanOut(w) /\ cstatus # "running" THEN overrun + 1 ELSE overrun

SendAccepted(w) ==
    /\ pc[w] = "send"
    /\ CountSend(w)
    /\ Goto(w, "record")
    /\ UNCHANGED <<domain, outbox, at, batch, more, gateway, bounds, releases, stats>>

Record(w) ==
    /\ pc[w] = "record"
    /\ SetRecipient(w, "sent")
    /\ Goto(w, "publish")
    /\ UNCHANGED <<cstatus, claimed, sendLog, outbox, at, batch, more, gateway, bounds, history>>

(* The result is on the transport: CampaignDispatchResult.                 *)
Published(r) == results' = [results EXCEPT ![r] = @ + 1]

PublishResult(w) ==
    /\ pc[w] = "publish"
    /\ Published(Phone(w))
    /\ Goto(w, "ack")
    /\ UNCHANGED <<domain, outbox, at, batch, more, gateway, bounds, sends, releases, overrun,
                   tally, recounted>>

(* A call up to the claim throws: nothing is undone and the row is retried,*)
(* even if tryClaim's insert had committed.                                *)
ThrowsUnclaimed(w) ==
    /\ pc[w] \in {"gate", "claim"}
    /\ Fault("send")
    /\ UNCHANGED sendLog \/ (pc[w] = "claim" /\ sendLog' = sendLog \cup {Phone(w)})
    /\ Goto(w, "nack")
    /\ UNCHANGED <<cstatus, rstatus, claimed, outbox, at, batch, more, gateway, history>>

ThrowsUnnoticed(w) ==   \* mutant: a refused send is taken for an accepted one
    /\ pc[w] = "send"
    /\ Fault("send")
    /\ Goto(w, "record")
    /\ UNCHANGED <<domain, outbox, at, batch, more, gateway, history>>

ThrowsAndResends(w) ==   \* mutant: the send is repeated under the same claim
    /\ pc[w] \in Sending
    /\ Fault("send")
    /\ UNCHANGED <<sends, overrun>> \/ (pc[w] = "send" /\ CountSend(w))
    /\ Goto(w, "send")
    /\ UNCHANGED <<domain, outbox, at, batch, more, gateway, releases, stats>>

(* A call after the claim throws: the claim is released, the recipient     *)
(* marked failed.  The send itself may have reached Meta all the same, and *)
(* the result the transport.                                               *)
Throws(w) ==
    /\ pc[w] \in Sending
    /\ Fault("send")
    /\ UNCHANGED <<sends, overrun>> \/ (pc[w] = "send" /\ CountSend(w))
    /\ UNCHANGED results \/ (pc[w] = "publish" /\ Published(Phone(w)))
    /\ Goto(w, "release")
    /\ UNCHANGED <<domain, outbox, at, batch, more, gateway, releases, tally, recounted>>

(* The best-effort writes after a quota stop or a throw, in their order.   *)
Following == [qfail |-> "qrelease", qrelease |-> "ack",
              release |-> "fail", fail |-> "nack", suppress |-> "ack"]

GiveBack(w) ==
    /\ pc[w] \in {"release", "qrelease"}
    /\ sendLog' = sendLog \ {Phone(w)}
    /\ releases' = [releases EXCEPT ![Phone(w)] = @ + 1]
    /\ Goto(w, Following[pc[w]])
    /\ UNCHANGED <<cstatus, rstatus, claimed, outbox, at, batch, more, gateway, bounds,
                   sends, overrun, stats>>

MarkFailed(w) ==
    /\ pc[w] \in {"fail", "qfail"}
    /\ SetRecipient(w, "failed")
    /\ Goto(w, Following[pc[w]])
    /\ UNCHANGED <<cstatus, claimed, sendLog, outbox, at, batch, more, gateway, bounds, history>>

WriteSwallowed(w) ==
    /\ pc[w] \in {"suppress", "fail"} \cup Undoing
    /\ Fault("write")
    /\ Goto(w, Following[pc[w]])
    /\ UNCHANGED <<domain, outbox, at, batch, more, gateway, history>>

-----------------------------------------------------------------------------
(***************************************************************************)
(* The consumer of the results, handleDispatchResult: recordResult adds to *)
(* the statistics on every delivery.  A handler that commits and throws, or*)
(* whose connection drops before the ack, gets the same result again; a    *)
(* result refused twice is dead-lettered.                                  *)
(***************************************************************************)
Count(r) == tally' = [tally EXCEPT ![r] = @ + 1]

ResultOnly == UNCHANGED <<domain, outbox, worker, gateway, sends, releases, overrun>>

RecordResult(r) ==
    /\ results[r] > 0
    /\ results' = [results EXCEPT ![r] = @ - 1]
    /\ Count(r)
    /\ UNCHANGED <<bounds, recounted>> /\ ResultOnly

ResultComesAgain(r) ==
    /\ results[r] > 0
    /\ Fault("result")
    /\ Count(r)
    /\ recounted' = [recounted EXCEPT ![r] = @ + 1]
    /\ UNCHANGED results /\ ResultOnly

ResultDeadLettered(r) ==
    /\ results[r] > 0
    /\ Fault("result")
    /\ results' = [results EXCEPT ![r] = @ - 1]
    /\ UNCHANGED <<tally, recounted>> /\ ResultOnly

Consume(r) == RecordResult(r) \/ ResultComesAgain(r) \/ ResultDeadLettered(r)

-----------------------------------------------------------------------------
(***************************************************************************)
(* Starting: /run and the scheduler read the status, insert the audience   *)
(* in transactions of its own, then flip the status and enqueue the run    *)
(* event together.                                                         *)
(***************************************************************************)
StartsFrom(s) == IF s = "run" THEN {"draft", "paused"} ELSE {"scheduled"}

SetStatus(status) ==
    /\ cstatus' = status
    /\ overrun' = IF status = "running" THEN 0 ELSE overrun
    /\ UNCHANGED <<sends, releases, stats>>

StartReads(s) ==
    /\ start[s] = "idle"
    /\ cstatus \in StartsFrom(s)
    /\ start' = [start EXCEPT ![s] = "insert"]
    /\ UNCHANGED <<domain, outbox, worker, cancelling, bounds, history>>

(* The audience of /run is never empty; existing rows are left as they are.*)
StartInserts(s) ==
    /\ start[s] = "insert"
    /\ \E A \in SUBSET Recipients :
        /\ s = "run" => A # {}
        /\ rstatus' = [r \in Recipients |->
                        IF r \in A /\ rstatus[r] = "absent" THEN "pending" ELSE rstatus[r]]
    /\ start' = [start EXCEPT ![s] = "flip"]
    /\ UNCHANGED <<cstatus, claimed, sendLog, outbox, worker, cancelling, bounds, history>>

StartFlips(s) ==
    /\ start[s] = "flip"
    /\ start' = [start EXCEPT ![s] = "idle"]
    /\ IF cstatus \in StartsFrom(s)
       THEN SetStatus("running") /\ Enqueue({RunJob})
       ELSE UNCHANGED <<cstatus, outbox, history>>
    /\ UNCHANGED <<rstatus, claimed, sendLog, worker, cancelling, bounds>>

(* No audience, no channel, an error or a restart: the start ends here.    *)
StartStops(s) ==
    /\ start[s] # "idle"
    /\ start' = [start EXCEPT ![s] = "idle"]
    /\ UNCHANGED <<domain, outbox, worker, cancelling, bounds, history>>

-----------------------------------------------------------------------------
(***************************************************************************)
(* Operators, and the completion sweep.                                    *)
(***************************************************************************)
Pause ==
    /\ cstatus \in {"running", "scheduled"}
    /\ ops < MaxOps
    /\ ops' = ops + 1
    /\ SetStatus("paused")
    /\ UNCHANGED <<rstatus, claimed, sendLog, outbox, worker, gateway, faults, delays>>

Resume ==
    /\ cstatus = "paused"
    /\ SetStatus("running")
    /\ Enqueue({RunJob})
    /\ UNCHANGED <<rstatus, claimed, sendLog, worker, gateway, bounds>>

Cancel ==
    /\ cstatus \in {"draft", "scheduled", "running", "paused"}
    /\ SetStatus("cancelled")
    /\ cancelling' = TRUE
    /\ UNCHANGED <<rstatus, claimed, sendLog, outbox, worker, start, bounds>>

CancelPending ==
    /\ cancelling
    /\ cancelling' = FALSE
    /\ rstatus' = [r \in Recipients |->
                    IF rstatus[r] = "pending" THEN "policy_skipped" ELSE rstatus[r]]
    /\ UNCHANGED <<cstatus, claimed, sendLog, outbox, worker, start, bounds, history>>

CancelDies ==
    /\ cancelling
    /\ Fault("cancel")
    /\ cancelling' = FALSE
    /\ UNCHANGED <<domain, outbox, worker, start, history>>

TestRevives(r) ==   \* mutant: the status update of a test send is unguarded
    /\ ops < MaxOps
    /\ ops' = ops + 1
    /\ SetStatus("running")
    /\ Enqueue({TestSend(r)})
    /\ UNCHANGED <<rstatus, claimed, sendLog, worker, gateway, faults, delays>>

(* POST .../dispatch: one message to one number, whatever the status; it   *)
(* also starts a campaign that has not started.                            *)
Test(r) ==
    /\ ops < MaxOps
    /\ ops' = ops + 1
    /\ SetStatus(IF cstatus \in {"draft", "scheduled"} THEN "running" ELSE cstatus)
    /\ Enqueue({TestSend(r)})
    /\ UNCHANGED <<rstatus, claimed, sendLog, worker, gateway, faults, delays>>

(* complete_drained_campaigns.                                             *)
Complete ==
    /\ cstatus = "running"
    /\ \E r \in Recipients : rstatus[r] # "absent"
    /\ \A r \in Recipients : rstatus[r] # "pending"
    /\ SetStatus("completed")
    /\ UNCHANGED <<rstatus, claimed, sendLog, outbox, worker, gateway, bounds>>
-----------------------------------------------------------------------------
Handle(w) ==
    \/ Take(w)
    \/ RunGate(w) \/ ClaimBatch(w) \/ Refuse(w) \/ FanOut(w)
    \/ Gate(w) \/ Defer(w) \/ TryClaim(w) \/ Suppress(w) \/ OverQuota(w)
    \/ SendAccepted(w) \/ Record(w) \/ PublishResult(w)
    \/ GiveBack(w) \/ MarkFailed(w)
    \/ Ack(w) \/ Nack(w)

Disturb(w) ==
    Crash(w) \/ RunThrows(w) \/ ThrowsUnclaimed(w) \/ Throws(w) \/ WriteSwallowed(w)

Starter(s) == StartReads(s) \/ StartInserts(s) \/ StartFlips(s) \/ StartStops(s)

Operator == Pause \/ Resume \/ Cancel \/ (\E r \in Recipients : Test(r))

Next ==
    \/ \E w \in Workers : Handle(w) \/ Disturb(w)
    \/ \E x \in Rows : RowGoesStale(x)
    \/ \E r \in Recipients : ClaimGoesStale(r) \/ Consume(r)
    \/ \E s \in Starters : Starter(s)
    \/ Operator
    \/ CancelPending \/ CancelDies
    \/ Complete

Spec == Init /\ [][Next]_vars

(***************************************************************************)
(* The relays keep polling, so every worker goes on while its handler has  *)
(* a step; the clock moves on; the completion timer keeps firing; a cancel *)
(* request runs to its end.  Nobody has to start, pause or resume.         *)
(***************************************************************************)
Fairness ==
    /\ \A w \in Workers : WF_vars(Handle(w))
    /\ \A x \in Rows : WF_vars(RowGoesStale(x) /\ Holders(x) = {})
    /\ \A r \in Recipients : WF_vars(ClaimGoesStale(r))
    /\ WF_vars(Complete)
    /\ WF_vars(CancelPending)

FairSpec == Spec /\ Fairness

-----------------------------------------------------------------------------
Fits(w) ==
    /\ pc[w] = "idle" <=> at[w] = NoRow
    /\ pc[w] \in SendPcs => JobOf(w) \in SendJobs
    /\ pc[w] \in RunPcs => JobOf(w) = RunJob
    /\ pc[w] \in {"gate", "suppress"} => IsFanOut(w)

(* Every variable has its type, and a worker's position fits its row.      *)
TypeOK ==
    /\ cstatus \in CampaignStatuses
    /\ rstatus \in [Recipients -> RecipientStatuses]
    /\ claimed \in [Recipients -> {"no", "fresh", "stale"}]
    /\ sendLog \subseteq Recipients
    /\ outbox \in [Rows -> {"free", "queued", "held", "done"}]
    /\ pc \in [Workers -> Pcs]
    /\ at \in [Workers -> Rows \cup {NoRow}]
    /\ batch \in [Workers -> SUBSET Recipients]
    /\ more \in [Workers -> BOOLEAN]
    /\ start \in [Starters -> {"idle", "insert", "flip"}]
    /\ cancelling \in BOOLEAN
    /\ faults \in Nat /\ ops \in Nat /\ delays \in Nat
    /\ sends \in [Recipients -> Nat]
    /\ releases \in [Recipients -> Nat]
    /\ results \in [Recipients -> Nat]
    /\ tally \in [Recipients -> Nat]
    /\ recounted \in [Recipients -> Nat]
    /\ overrun \in Nat
    /\ \A w \in Workers : Fits(w)

Claims(w, r) == pc[w] \in Sending \cup Undoing /\ Phone(w) = r

(* The send log is a lock: however often an event is redelivered, at most  *)
(* one handler at a time is between its claim of a phone and the release.  *)
OneSender ==
    \A r \in Recipients :
        /\ \A w \in Workers : Claims(w, r) => r \in sendLog
        /\ \A v, w \in Workers : Claims(v, r) /\ Claims(w, r) => v = w

(* Every send after the first to the same phone was paid for by a claim    *)
(* given back, and every result beyond the sends, in the statistics or on  *)
(* its way there, is one that was counted and then delivered again.        *)
SendsAccounted ==
    \A r \in Recipients :
        /\ sends[r] <= releases[r] + (IF r \in sendLog THEN 1 ELSE 0)
        /\ tally[r] + results[r] <= sends[r] + recounted[r]

(* A recipient the funnel reports as sent was really sent a message.       *)
SentMeansSent == \A r \in Recipients : rstatus[r] = "sent" => sends[r] > 0

(* After a pause, cancel or completion at most one fan-out message per     *)
(* concurrent handler still leaves: the one it had already let through.    *)
BoundedOverrun ==
    cstatus # "running" => overrun <= Cardinality(Workers)

(* A campaign that ended stays ended, whatever request was under way, and  *)
(* none leaves a pause without a run event committed with its new status.  *)
StatusSteps ==
    [][/\ cstatus \in {"completed", "cancelled"} => cstatus' = cstatus
       /\ cstatus = "paused" /\ cstatus' = "running" =>
            \E k \in 1..MaxCopies :
                outbox[<<RunJob, k>>] = "free" /\ outbox'[<<RunJob, k>>] = "queued"]_vars

(* A recipient marked sent is only moved back by a dispatch to it that     *)
(* failed, or by a fan-out step that had claimed it before: a duplicate, a *)
(* cancel or a second start leaves it alone.                               *)
SentIsKept ==
    [][\A r \in Recipients :
        rstatus[r] = "sent" /\ rstatus'[r] # "sent" =>
            \E w \in Workers :
                \/ pc[w] \in {"fail", "qfail"} /\ Phone(w) = r
                \/ r \in batch[w] /\ r \notin batch'[w]]_vars

(* A campaign that runs with recipients does not run for ever: dispatches, *)
(* continuations and retries drain it until the sweep can complete it.     *)
EventuallyDrained ==
    (cstatus = "running" /\ \E r \in Recipients : rstatus[r] # "absent")
        ~> cstatus # "running"

(* The send log is the exactly-once guard: no phone is sent a campaign's   *)
(* message twice.                                                          *)
NeverDuplicateSend == \A r \in Recipients : sends[r] <= 1

-----------------------------------------------------------------------------
(***************************************************************************)
(* campaign_send_log as SendClaim: a handler holds the claim of its phone  *)
(* until it has published the result or given the claim back.              *)
(***************************************************************************)
LogClaim == INSTANCE SendClaim WITH
    Items <- Recipients,
    Actors <- Workers,
    taken <- sendLog,
    holders <- [r \in Recipients |-> {w \in Workers : Claims(w, r)}],
    copies <- sends,
    excused <- releases

(* The send log keeps SendClaim's promise, whatever is redelivered,        *)
(* thrown, swallowed or crashes.                                           *)
LogImplementsSendClaim == LogClaim!Spec
=============================================================================
