------------------------------- MODULE Outbox -------------------------------
(***************************************************************************)
(* The transactional outbox: the table outbox_events, the SQL functions    *)
(* that claim and settle its rows, and the relays (one polling loop per    *)
(* gateway process) that publish them on the event bus.                    *)
(*                                                                         *)
(* Time is abstracted to what the claim predicate reads of it: a pending   *)
(* row is "due" once next_attempt_at has passed, a processing row is       *)
(* "stale" once its claim is older than two minutes.                       *)
(***************************************************************************)
EXTENDS Naturals, FiniteSets

CONSTANTS
    NumRows,      \* how many rows are ever enqueued
    Relays,       \* the gateway processes, each running one relay loop
    BatchSize,    \* the limit of one claim (50 in the code)
    MaxAttempts,  \* failed attempts after which a row is dead (8 in the code)
    MaxFaults,    \* bound: process crashes and failed database calls
    MaxReplays,   \* bound: dead letters an operator replays
    NoRow         \* the row of a relay that is not between two calls

ASSUME OutboxAssumption ==
    /\ NumRows \in Nat
    /\ BatchSize \in Nat \ {0}
    /\ MaxAttempts \in Nat \ {0}
    /\ MaxFaults \in Nat
    /\ MaxReplays \in Nat
    /\ IsFiniteSet(Relays)
    /\ NoRow \notin 1..NumRows

(***************************************************************************)
(* Rows are numbered in the order of created_at.                           *)
(***************************************************************************)
Rows == 1..NumRows

VARIABLES
    status,     \* outbox_events.status, "absent" before the insert commits
    attempts,   \* outbox_events.attempts
    due,        \* next_attempt_at <= now()
    stale,      \* claimed_at < now() - 2 minutes
    batch,      \* per relay: the claimed rows it has not published yet
    cur,        \* per relay: the row between its publish and its settlement
    phase,      \* per relay: "free", "ack" (markProcessed) or "nack" (markFailed)
    faults, replays,            \* what the bounds count
    delivered,  \* history: some publish of the row reached every handler
    tries,      \* history: publishes of the row
    expired     \* history: a claim of the row went stale while a relay held it

rowVars == <<status, attempts, due, stale>>
relayVars == <<batch, cur, phase>>
history == <<delivered, tries, expired>>
vars == <<rowVars, relayVars, faults, replays, history>>

Statuses == {"absent", "pending", "processing", "processed", "dead"}

Held(w) == batch[w] \cup ({cur[w]} \ {NoRow})

Idle(w) == batch[w] = {} /\ phase[w] = "free"

Init ==
    /\ status = [r \in Rows |-> "absent"]
    /\ attempts = [r \in Rows |-> 0]
    /\ due = [r \in Rows |-> FALSE]
    /\ stale = [r \in Rows |-> FALSE]
    /\ batch = [w \in Relays |-> {}]
    /\ cur = [w \in Relays |-> NoRow]
    /\ phase = [w \in Relays |-> "free"]
    /\ faults = 0
    /\ replays = 0
    /\ delivered = [r \in Rows |-> FALSE]
    /\ tries = [r \in Rows |-> 0]
    /\ expired = [r \in Rows |-> FALSE]

-----------------------------------------------------------------------------
(***************************************************************************)
(* Producers: a domain change and its row commit in one transaction, the   *)
(* row immediately due or scheduled for later (nextAttemptAt).             *)
(***************************************************************************)
Enqueue(r) ==
    /\ status[r] = "absent"
    /\ \A s \in Rows : s < r => status[s] # "absent"
    /\ status' = [status EXCEPT ![r] = "pending"]
    /\ \E now \in BOOLEAN : due' = [due EXCEPT ![r] = now]
    /\ UNCHANGED <<attempts, stale, relayVars, faults, replays, history>>

(***************************************************************************)
(* The clock, as far as the claim predicate sees it.                       *)
(***************************************************************************)
BecomeDue(r) ==
    /\ status[r] = "pending"
    /\ ~due[r]
    /\ due' = [due EXCEPT ![r] = TRUE]
    /\ UNCHANGED <<status, attempts, stale, relayVars, faults, replays, history>>

BecomeStale(r) ==
    /\ status[r] = "processing"
    /\ ~stale[r]
    /\ stale' = [stale EXCEPT ![r] = TRUE]
    /\ expired' = [expired EXCEPT ![r] = @ \/ \E w \in Relays : r \in Held(w)]
    /\ UNCHANGED <<status, attempts, due, relayVars, faults, replays, delivered, tries>>

-----------------------------------------------------------------------------
(***************************************************************************)
(* The relay loop. A tick that finds the previous one still running does   *)
(* nothing, so a relay claims only when it is idle.                        *)
(***************************************************************************)
ClaimableOnce(r) ==   \* mutant: a dead relay's claim is never reclaimed
    status[r] = "pending" /\ due[r]

ClaimableWithoutExpiry(r) ==   \* mutant: the two-minute test is missing
    \/ status[r] = "pending" /\ due[r]
    \/ status[r] = "processing"

ClaimableUnlessProcessed(r) ==   \* mutant: dead rows are not left out
    status[r] \in {"pending", "dead"} \/ (status[r] = "processing" /\ stale[r])

Claimable(r) ==
    \/ status[r] = "pending" /\ due[r]
    \/ status[r] = "processing" /\ stale[r]

(* The oldest claimable rows, at most BatchSize of them.                   *)
OldestFirst(S) ==
    LET E == {r \in Rows : Claimable(r)}
    IN  /\ S \subseteq E
        /\ Cardinality(S) <= BatchSize
        /\ Cardinality(S) < BatchSize => S = E
        /\ \A s \in S, t \in E \ S : s < t

ClaimSettles(w) ==   \* mutant: the claim settles the row, the publish follows
    /\ Idle(w)
    /\ \E S \in SUBSET Rows :
        /\ S # {}
        /\ OldestFirst(S)
        /\ status' = [r \in Rows |-> IF r \in S THEN "processed" ELSE status[r]]
        /\ batch' = [batch EXCEPT ![w] = S]
    /\ UNCHANGED <<attempts, due, stale, cur, phase, faults, replays, history>>

ClaimCountsAttempt(w) ==   \* mutant: the claim already counts an attempt
    /\ Idle(w)
    /\ \E S \in SUBSET Rows :
        /\ S # {}
        /\ OldestFirst(S)
        /\ status' = [r \in Rows |-> IF r \in S THEN "processing" ELSE status[r]]
        /\ attempts' = [r \in Rows |-> IF r \in S THEN attempts[r] + 1 ELSE attempts[r]]
        /\ stale' = [r \in Rows |-> stale[r] /\ r \notin S]
        /\ batch' = [batch EXCEPT ![w] = S]
    /\ UNCHANGED <<due, cur, phase, faults, replays, history>>

Claim(w) ==
    /\ Idle(w)
    /\ \E S \in SUBSET Rows :
        /\ S # {}
        /\ OldestFirst(S)
        /\ status' = [r \in Rows |-> IF r \in S THEN "processing" ELSE status[r]]
        /\ stale' = [r \in Rows |-> stale[r] /\ r \notin S]
        /\ batch' = [batch EXCEPT ![w] = S]
    /\ UNCHANGED <<attempts, due, cur, phase, faults, replays, history>>

(* The bus accepted the row and every handler completed.                   *)
PublishOk(w) ==
    /\ phase[w] = "free"
    /\ \E r \in batch[w] :
        /\ batch' = [batch EXCEPT ![w] = @ \ {r}]
        /\ cur' = [cur EXCEPT ![w] = r]
        /\ delivered' = [delivered EXCEPT ![r] = TRUE]
        /\ tries' = [tries EXCEPT ![r] = @ + 1]
    /\ phase' = [phase EXCEPT ![w] = "ack"]
    /\ UNCHANGED <<rowVars, faults, replays, expired>>

PublishFailsUnnoticed(w) ==   \* mutant: the rejected publish is not awaited
    /\ phase[w] = "free"
    /\ \E r \in batch[w] :
        /\ batch' = [batch EXCEPT ![w] = @ \ {r}]
        /\ cur' = [cur EXCEPT ![w] = r]
        /\ tries' = [tries EXCEPT ![r] = @ + 1]
    /\ phase' = [phase EXCEPT ![w] = "ack"]
    /\ UNCHANGED <<rowVars, faults, replays, delivered, expired>>

(* A handler threw, or a broker's confirm was lost after it delivered.     *)
PublishFails(w) ==
    /\ phase[w] = "free"
    /\ \E r \in batch[w] :
        /\ batch' = [batch EXCEPT ![w] = @ \ {r}]
        /\ cur' = [cur EXCEPT ![w] = r]
        /\ \E reached \in BOOLEAN :
              delivered' = [delivered EXCEPT ![r] = @ \/ reached]
        /\ tries' = [tries EXCEPT ![r] = @ + 1]
    /\ phase' = [phase EXCEPT ![w] = "nack"]
    /\ UNCHANGED <<rowVars, faults, replays, expired>>

NextRow(w) ==
    /\ cur' = [cur EXCEPT ![w] = NoRow]
    /\ phase' = [phase EXCEPT ![w] = "free"]
    /\ UNCHANGED batch

(* outbox_mark_processed: whatever the row's status is by now.             *)
SetProcessed(r) ==
    /\ status' = [status EXCEPT ![r] = "processed"]
    /\ UNCHANGED <<attempts, due, stale>>

(* outbox_mark_failed: whatever the row's status is by now.                *)
SetFailed(r) ==
    /\ attempts' = [attempts EXCEPT ![r] = @ + 1]
    /\ status' = [status EXCEPT
                    ![r] = IF attempts[r] + 1 >= MaxAttempts THEN "dead" ELSE "pending"]
    /\ due' = [due EXCEPT ![r] = FALSE]
    /\ UNCHANGED stale

MarkProcessed(w) ==
    /\ phase[w] = "ack"
    /\ SetProcessed(cur[w])
    /\ NextRow(w)
    /\ UNCHANGED <<faults, replays, history>>

(* The call threw, before or after its statement committed.                *)
MarkProcessedFails(w) ==
    /\ phase[w] = "ack"
    /\ faults < MaxFaults
    /\ faults' = faults + 1
    /\ SetProcessed(cur[w]) \/ UNCHANGED rowVars
    /\ phase' = [phase EXCEPT ![w] = "nack"]
    /\ UNCHANGED <<batch, cur, replays, history>>

MarkFailed(w) ==
    /\ phase[w] = "nack"
    /\ SetFailed(cur[w])
    /\ NextRow(w)
    /\ UNCHANGED <<faults, replays, history>>

(* The error is logged and the batch goes on: the row waits to be stale.   *)
MarkFailedFails(w) ==
    /\ phase[w] = "nack"
    /\ faults < MaxFaults
    /\ faults' = faults + 1
    /\ SetFailed(cur[w]) \/ UNCHANGED rowVars
    /\ NextRow(w)
    /\ UNCHANGED <<replays, history>>

(* The process dies (also: its claim committed and the answer was lost).   *)
Crash(w) ==
    /\ ~Idle(w)
    /\ faults < MaxFaults
    /\ faults' = faults + 1
    /\ batch' = [batch EXCEPT ![w] = {}]
    /\ cur' = [cur EXCEPT ![w] = NoRow]
    /\ phase' = [phase EXCEPT ![w] = "free"]
    /\ UNCHANGED <<rowVars, replays, history>>

(* An operator replays a dead letter.                                      *)
ReplayDead(r) ==
    /\ status[r] = "dead"
    /\ replays < MaxReplays
    /\ replays' = replays + 1
    /\ status' = [status EXCEPT ![r] = "pending"]
    /\ attempts' = [attempts EXCEPT ![r] = 0]
    /\ due' = [due EXCEPT ![r] = TRUE]
    /\ UNCHANGED <<stale, relayVars, faults, history>>

-----------------------------------------------------------------------------
Environment ==
    \/ \E r \in Rows : Enqueue(r)
    \/ \E r \in Rows : ReplayDead(r)
    \/ \E w \in Relays : Crash(w)

Clock ==
    \/ \E r \in Rows : BecomeDue(r)
    \/ \E r \in Rows : BecomeStale(r)

Relay(w) ==
    \/ Claim(w)
    \/ PublishOk(w)
    \/ PublishFails(w)
    \/ MarkProcessed(w)
    \/ MarkProcessedFails(w)
    \/ MarkFailed(w)
    \/ MarkFailedFails(w)

Next == Environment \/ Clock \/ \E w \in Relays : Relay(w)

Spec == Init /\ [][Next]_vars

(***************************************************************************)
(* The polling timer keeps every relay running and the clock moves on;     *)
(* nothing makes a producer, an operator or a crash happen.                *)
(***************************************************************************)
Fairness ==
    /\ \A w \in Relays : WF_vars(Relay(w))
    /\ \A r \in Rows : WF_vars(BecomeDue(r)) /\ WF_vars(BecomeStale(r))

FairSpec == Spec /\ Fairness

-----------------------------------------------------------------------------
(* Every variable has its type, and a relay between a publish and its      *)
(* settlement knows the row it settles.                                    *)
TypeOK ==
    /\ status \in [Rows -> Statuses]
    /\ attempts \in [Rows -> Nat]
    /\ due \in [Rows -> BOOLEAN]
    /\ stale \in [Rows -> BOOLEAN]
    /\ batch \in [Relays -> SUBSET Rows]
    /\ cur \in [Relays -> Rows \cup {NoRow}]
    /\ phase \in [Relays -> {"free", "ack", "nack"}]
    /\ faults \in Nat
    /\ replays \in Nat
    /\ delivered \in [Rows -> BOOLEAN]
    /\ tries \in [Rows -> Nat]
    /\ expired \in [Rows -> BOOLEAN]
    /\ \A w \in Relays : phase[w] = "free" <=> cur[w] = NoRow

(* At least once: a row is only ever settled as processed after a publish  *)
(* of it reached its handlers, whatever crashed, failed or overlapped.     *)
NoLostEvent == \A r \in Rows : status[r] = "processed" => delivered[r]

(* Two relays never hold the same row unless a claim of that row went      *)
(* stale while it was still held (a batch that ran past two minutes).      *)
ExclusiveClaim ==
    \A r \in Rows, v, w \in Relays :
        v # w /\ r \in Held(v) /\ r \in Held(w) => expired[r]

(* The attempt cap counts publishes: every recorded failure is backed by   *)
(* a publish of its own, so a dead row was really tried MaxAttempts times. *)
AttemptsAreTries ==
    \A r \in Rows :
        attempts[r] + Cardinality({w \in Relays : cur[w] = r}) <= tries[r]

(* A dead letter stays dead until an operator replays it, or a relay whose *)
(* claim had expired reports that it did deliver the row after all.        *)
DeadLetterKept ==
    [][\A r \in Rows :
        status[r] = "dead" /\ status'[r] # "dead" =>
            \/ replays' = replays + 1
            \/ status'[r] = "processed" /\ delivered[r] /\ expired[r]]_vars

(* Every row in the queue is eventually settled, processed or dead, once   *)
(* crashes and database errors stop.                                       *)
EventuallySettled ==
    \A r \in Rows : status[r] = "pending" ~> status[r] \in {"processed", "dead"}

(***************************************************************************)
(* What a producer sees of a row, and the promise it relies on.            *)
(***************************************************************************)
FateOf(r) ==
    CASE status[r] = "absent" -> "absent"
      [] status[r] \in {"pending", "processing"} -> "open"
      [] status[r] = "processed" -> "done"
      [] status[r] = "dead" -> "dead"

Promise == INSTANCE AtLeastOnce WITH
    Events <- Rows,
    fate <- [r \in Rows |-> FateOf(r)],
    tried <- [r \in Rows |-> tries[r] > 0],
    reached <- delivered

(* The outbox implements at-least-once delivery: seen through the mapping, *)
(* every step of relays, clock, faults and operators is a step of the      *)
(* abstract specification or leaves it unchanged.                          *)
ImplementsAtLeastOnce == Promise!Spec
=============================================================================
