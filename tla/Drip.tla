------------------------------ MODULE Drip ------------------------------------
(***************************************************************************)
(* A drip sequence: contacts are enrolled from a segment, and the          *)
(* scheduler of each gateway instance advances the enrollments that are    *)
(* due, one transaction each, until the last step, a reply or an opt-out.  *)
(***************************************************************************)
EXTENDS Naturals, FiniteSets

CONSTANTS
    Contacts,         \* the contacts of the segment
    LastStep,         \* number of steps of the sequence
    Schedulers,       \* gateway instances
    StopOnReply,      \* sequences.stop_on_reply
    MaxTickFailures   \* bound: failed transactions and crashes of a tick

ASSUME DripAssumption ==
    /\ LastStep \in Nat \ {0}
    /\ StopOnReply \in BOOLEAN
    /\ MaxTickFailures \in Nat

Steps == 1..LastStep

VARIABLES
    seqStatus,    \* "draft", "active" or "paused"
    enrollment,   \* per contact: "none", "active", "completed" or "stopped"
    step,         \* per contact: current_step, the steps already enqueued
    stepDue,      \* per contact: next_step_at has passed
    out,          \* per contact: opted out
    enqueued,     \* per contact and step: dispatches put in the outbox
    tick,         \* per scheduler: the due enrollments its scan listed
    tickFailures

dripVars == <<seqStatus, enrollment, step, stepDue, out, enqueued, tick, tickFailures>>

DripInit ==
    /\ seqStatus = "draft"
    /\ enrollment = [c \in Contacts |-> "none"]
    /\ step = [c \in Contacts |-> 0]
    /\ stepDue = [c \in Contacts |-> FALSE]
    /\ out = [c \in Contacts |-> FALSE]
    /\ enqueued = [c \in Contacts |-> [n \in Steps |-> 0]]
    /\ tick = [i \in Schedulers |-> {}]
    /\ tickFailures = 0

-----------------------------------------------------------------------------
(***************************************************************************)
(* The routes: activate, pause, and enroll, which takes the contacts that  *)
(* have not opted out and ignores those enrolled before, in any status.    *)
(***************************************************************************)
Activate ==
    /\ seqStatus # "active"
    /\ seqStatus' = "active"
    /\ UNCHANGED <<enrollment, step, stepDue, out, enqueued, tick, tickFailures>>

PauseSequence ==
    /\ seqStatus = "active"
    /\ seqStatus' = "paused"
    /\ UNCHANGED <<enrollment, step, stepDue, out, enqueued, tick, tickFailures>>

Enrollable == {c \in Contacts : ~out[c] /\ enrollment[c] = "none"}

Enroll(cs) ==
    /\ enrollment' = [c \in Contacts |-> IF c \in cs \cap Enrollable THEN "active"
                                         ELSE enrollment[c]]
    /\ UNCHANGED <<seqStatus, step, stepDue, out, enqueued, tick, tickFailures>>

(***************************************************************************)
(* The inbound path: a reply stops the contact's active enrollments in     *)
(* stop-on-reply sequences; STOP opts the contact out.                     *)
(***************************************************************************)
ReplyArrives(c) ==
    /\ StopOnReply
    /\ enrollment[c] = "active"
    /\ enrollment' = [enrollment EXCEPT ![c] = "stopped"]
    /\ stepDue' = [stepDue EXCEPT ![c] = FALSE]
    /\ UNCHANGED <<seqStatus, step, out, enqueued, tick, tickFailures>>

OptsOut(c) ==
    /\ ~out[c]
    /\ out' = [out EXCEPT ![c] = TRUE]
    /\ UNCHANGED <<seqStatus, enrollment, step, stepDue, enqueued, tick, tickFailures>>

DelayPasses(c) ==
    /\ enrollment[c] = "active"
    /\ ~stepDue[c]
    /\ stepDue' = [stepDue EXCEPT ![c] = TRUE]
    /\ UNCHANGED <<seqStatus, enrollment, step, out, enqueued, tick, tickFailures>>

-----------------------------------------------------------------------------
\* due_sequence_enrollments: what every tick starts from.
DueEnrollments == {c \in Contacts : seqStatus = "active" /\ enrollment[c] = "active" /\ stepDue[c]}

ScanDue(i) ==
    /\ tick[i] = {}
    /\ DueEnrollments # {}
    /\ tick' = [tick EXCEPT ![i] = DueEnrollments]
    /\ UNCHANGED <<seqStatus, enrollment, step, stepDue, out, enqueued, tickFailures>>

Takes(i, c) == c \in tick[i] /\ tick' = [tick EXCEPT ![i] = @ \ {c}]

AdvanceAsScanned(i, c) ==   \* mutant: the transaction trusts the scan
    /\ Takes(i, c)
    /\ LET n == IF step[c] < LastStep THEN step[c] + 1 ELSE LastStep
       IN  enqueued' = [enqueued EXCEPT ![c][n] = @ + 1]
    /\ step' = [step EXCEPT ![c] = IF @ < LastStep THEN @ + 1 ELSE @]
    /\ enrollment' = [enrollment EXCEPT ![c] = IF step'[c] = LastStep THEN "completed" ELSE @]
    /\ stepDue' = [stepDue EXCEPT ![c] = FALSE]
    /\ UNCHANGED <<seqStatus, out, tickFailures>>

(***************************************************************************)
(* advanceDueEnrollment: one transaction that locks the row, skips what is *)
(* no longer due, stops an opted-out contact, and otherwise enqueues the   *)
(* step's dispatch and moves the cursor, completing after the last step.   *)
(***************************************************************************)
AdvanceDueEnrollment(i, c) ==
    /\ Takes(i, c)
    /\ \/ /\ c \notin DueEnrollments
          /\ UNCHANGED <<enrollment, step, stepDue, enqueued>>
       \/ /\ c \in DueEnrollments
          /\ out[c]
          /\ enrollment' = [enrollment EXCEPT ![c] = "stopped"]
          /\ UNCHANGED <<step, stepDue, enqueued>>
       \/ /\ c \in DueEnrollments
          /\ ~out[c]
          /\ step' = [step EXCEPT ![c] = @ + 1]
          /\ enqueued' = [enqueued EXCEPT ![c][step[c] + 1] = @ + 1]
          /\ enrollment' = [enrollment EXCEPT ![c] =
                               IF step[c] + 1 = LastStep THEN "completed" ELSE @]
          /\ stepDue' = [stepDue EXCEPT ![c] = FALSE]
    /\ UNCHANGED <<seqStatus, out, tickFailures>>

\* A transaction that throws ends the whole tick, and so does a crash.
TickFails(i) ==
    /\ tick[i] # {}
    /\ tickFailures < MaxTickFailures
    /\ tickFailures' = tickFailures + 1
    /\ tick' = [tick EXCEPT ![i] = {}]
    /\ UNCHANGED <<seqStatus, enrollment, step, stepDue, out, enqueued>>

DripNext ==
    \/ Activate \/ PauseSequence
    \/ \E cs \in SUBSET Contacts : Enroll(cs)
    \/ \E c \in Contacts : ReplyArrives(c) \/ OptsOut(c) \/ DelayPasses(c)
    \/ \E i \in Schedulers :
          \/ ScanDue(i) \/ TickFails(i)
          \/ \E c \in Contacts : AdvanceDueEnrollment(i, c)

DripSpec == DripInit /\ [][DripNext]_dripVars

-----------------------------------------------------------------------------
DripTypeOK ==
    /\ seqStatus \in {"draft", "active", "paused"}
    /\ enrollment \in [Contacts -> {"none", "active", "completed", "stopped"}]
    /\ step \in [Contacts -> 0..LastStep]
    /\ stepDue \in [Contacts -> BOOLEAN]
    /\ out \in [Contacts -> BOOLEAN]
    /\ enqueued \in [Contacts -> [Steps -> Nat]]
    /\ tick \in [Schedulers -> SUBSET Contacts]
    /\ tickFailures \in Nat

\* However many schedulers list an enrollment, and whatever crashes between
\* them, each step is enqueued exactly once, in order, and a completed
\* enrollment was sent every step.
EachStepOnce ==
    \A c \in Contacts :
        /\ \A n \in Steps : enqueued[c][n] = IF n <= step[c] THEN 1 ELSE 0
        /\ enrollment[c] = "completed" => step[c] = LastStep

=============================================================================
