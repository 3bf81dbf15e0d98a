------------------------------- MODULE NoReply -------------------------------
(***************************************************************************)
(* The no-reply rules of an open conversation nobody answered: a timer of  *)
(* every gateway instance scans, runs the rules and marks what it scanned. *)
(*                                                                         *)
(* Time is the count of the events that are stamped.                       *)
(***************************************************************************)
EXTENDS Naturals, FiniteSets

CONSTANTS
    NoReplyRules,       \* enabled no_reply rules of the tenant
    Delay,       \* per rule: conditions.delayMinutes
    TimerHosts,  \* gateway instances
    MaxClock,    \* bound: stamped events
    MaxHostCrashes   \* bound: ticks that fail or crash

ASSUME NoReplyAssumption ==
    /\ Delay \in [NoReplyRules -> Nat]
    /\ MaxClock \in Nat
    /\ MaxHostCrashes \in Nat

VARIABLES
    clock,
    convOpen,      \* conversations.state = 'open'
    lastInbound,   \* last_inbound_at (0: never)
    lastMessage,   \* last_message_at
    firedAt,       \* no_reply_fired_at
    host,          \* per instance: its no-reply tick, with the inbound it listed
    fired,         \* history: <<rule, inbound, idle time>> of every rule that ran
    doubled,       \* history: inbounds two ticks listed, or whose mark was lost
    recording,     \* a run of handleInbound is between its two writes
    answered,      \* history: an agent answered since the last inbound message
    hostCrashes

noReplyVars == <<clock, convOpen, lastInbound, lastMessage, firedAt, host, fired, doubled,
                 recording, answered, hostCrashes>>

Asleep == [at |-> "asleep", inbound |-> 0]

NoReplyInit ==
    /\ clock = 0
    /\ convOpen = TRUE
    /\ lastInbound = 0
    /\ lastMessage = 0
    /\ firedAt = 0
    /\ host = [i \in TimerHosts |-> Asleep]
    /\ fired = {}
    /\ doubled = {}
    /\ recording = FALSE
    /\ answered = FALSE
    /\ hostCrashes = 0

Stamp == clock < MaxClock /\ clock' = clock + 1
Awake == {i \in TimerHosts : host[i].at # "asleep"}

-----------------------------------------------------------------------------
(***************************************************************************)
(* handleInbound in two transactions, each with its own now(): the         *)
(* conversation is stamped first, the message's row moves last_message_at  *)
(* after it. When the second fails both come again.                        *)
(***************************************************************************)
TouchInbound ==
    /\ Stamp
    /\ lastInbound' = clock'
    /\ lastMessage' = clock'
    /\ recording' = TRUE
    /\ answered' = FALSE
    /\ UNCHANGED <<convOpen, firedAt, host, fired, doubled, hostCrashes>>

CreateInboundRow ==
    /\ recording
    /\ Stamp
    /\ lastMessage' = clock'
    /\ recording' = FALSE
    /\ UNCHANGED <<convOpen, lastInbound, answered, firedAt, host, fired, doubled, hostCrashes>>

AgentAnswers ==
    /\ lastInbound > 0
    /\ Stamp
    /\ lastMessage' = clock'
    /\ answered' = TRUE
    /\ UNCHANGED <<convOpen, recording, lastInbound, firedAt, host, fired, doubled, hostCrashes>>

TimePasses ==
    /\ Stamp
    /\ UNCHANGED <<convOpen, lastInbound, lastMessage, firedAt, host, fired, doubled, hostCrashes,
                   recording, answered>>

SetConversationOpen(open) ==
    /\ convOpen # open
    /\ convOpen' = open
    /\ UNCHANGED <<clock, lastInbound, lastMessage, firedAt, host, fired, doubled, hostCrashes,
                   recording, answered>>

AwaitsReplyIgnoringMark ==   \* mutant: the scan forgets that the rules ran
    convOpen /\ lastInbound > 0 /\ lastMessage <= lastInbound

\* due_no_reply_conversations.
AwaitsReply ==
    /\ convOpen
    /\ lastInbound > 0
    /\ lastMessage <= lastInbound
    /\ firedAt = 0 \/ firedAt < lastInbound

ScanNoReply(i) ==
    /\ host[i].at = "asleep"
    /\ AwaitsReply
    /\ host' = [host EXCEPT ![i] = [at |-> "rules", inbound |-> lastInbound]]
    /\ doubled' = IF \E j \in Awake : host[j].inbound = lastInbound
                  THEN doubled \cup {lastInbound} ELSE doubled
    /\ UNCHANGED <<clock, convOpen, lastInbound, lastMessage, firedAt, fired, hostCrashes,
                   recording, answered>>

\* One rule that is due runs them all: evaluateAutomationRules knows no delay.
RunNoReplyRules(i) ==
    /\ host[i].at = "rules"
    /\ LET idle == clock - host[i].inbound
       IN  IF \E r \in NoReplyRules : idle >= Delay[r]
           THEN /\ fired' = fired \cup {<<r, host[i].inbound, idle>> : r \in NoReplyRules}
                /\ host' = [host EXCEPT ![i].at = "mark"]
           ELSE /\ host' = [host EXCEPT ![i] = Asleep]
                /\ UNCHANGED fired
    /\ UNCHANGED <<clock, convOpen, lastInbound, lastMessage, firedAt, doubled, hostCrashes,
                   recording, answered>>

MarkFired(i) ==
    /\ host[i].at = "mark"
    /\ Stamp
    /\ firedAt' = clock'
    /\ host' = [host EXCEPT ![i] = Asleep]
    /\ UNCHANGED <<convOpen, lastInbound, lastMessage, fired, doubled, hostCrashes, recording,
                   answered>>

NoReplyTickFails(i) ==
    /\ host[i].at # "asleep"
    /\ hostCrashes < MaxHostCrashes
    /\ hostCrashes' = hostCrashes + 1
    /\ doubled' = doubled \cup {host[i].inbound}
    /\ host' = [host EXCEPT ![i] = Asleep]
    /\ UNCHANGED <<clock, convOpen, lastInbound, lastMessage, firedAt, fired, recording,
                   answered>>

NoReplyNext ==
    \/ TouchInbound \/ CreateInboundRow \/ AgentAnswers \/ TimePasses
    \/ \E open \in BOOLEAN : SetConversationOpen(open)
    \/ \E i \in TimerHosts :
          \/ ScanNoReply(i) \/ RunNoReplyRules(i) \/ MarkFired(i) \/ NoReplyTickFails(i)

\* The interval timers run; customers, agents and the clock may do as they like.
NoReplyFairness ==
    \A i \in TimerHosts :
        /\ WF_noReplyVars(ScanNoReply(i))
        /\ WF_noReplyVars(RunNoReplyRules(i))
        /\ WF_noReplyVars(MarkFired(i))

NoReplySpec == NoReplyInit /\ [][NoReplyNext]_noReplyVars /\ NoReplyFairness

-----------------------------------------------------------------------------
NoReplyTypeOK ==
    /\ {clock, lastInbound, lastMessage, firedAt, hostCrashes} \subseteq Nat
    /\ convOpen \in BOOLEAN
    /\ host \in [TimerHosts -> [at : {"asleep", "rules", "mark"}, inbound : Nat]]
    /\ fired \subseteq NoReplyRules \X Nat \X Nat
    /\ doubled \subseteq Nat
    /\ {recording, answered} \subseteq BOOLEAN

\* The rules run once for an unanswered message: a second time only when two
\* instances had listed it together, or a tick failed before its mark.
NoReplyRunsOnce ==
    \A r \in NoReplyRules : \A f, g \in fired :
        f[1] = r /\ g[1] = r /\ f[2] = g[2] /\ f # g => f[2] \in doubled

Unanswered == convOpen /\ lastInbound > 0 /\ ~recording /\ ~answered
Overdue == \E r \in NoReplyRules : clock >= lastInbound + Delay[r]

\* Liveness: an open conversation whose last activity was an inbound message
\* older than a rule's delay has its rules run, unless an agent answers, the
\* conversation closes or the customer writes again.
UnansweredIsFollowedUp ==
    \A n \in 1..MaxClock :
        (Unanswered /\ Overdue /\ lastInbound = n) ~>
            (~Unanswered \/ lastInbound # n \/ \E f \in fired : f[2] = n)

=============================================================================
