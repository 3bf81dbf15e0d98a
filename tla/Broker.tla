------------------------------- MODULE Broker -------------------------------
(***************************************************************************)
(* The RabbitMQ event bus of one process: how it connects, reconnects and  *)
(* sets its consumers up again, and what becomes of a delivery whose       *)
(* handler fails or whose connection drops.                                *)
(*                                                                         *)
(* JavaScript runs a callback to its end before a timer fires, so one      *)
(* action is what happens in one turn: a dropped connection emits its      *)
(* close event and rejects whatever awaited it in the same turn.           *)
(***************************************************************************)
EXTENDS Naturals, FiniteSets

CONSTANTS
    Queues,        \* durable queues this process subscribes
    Taps,          \* ephemeral queues it subscribes (best-effort fan-out)
    BusMessages,   \* messages published
    MaxDrops,      \* bound: boots, and connections lost or refused
    MaxThrows      \* bound: failures of handlers

ASSUME BrokerAssumption ==
    /\ Queues \cap Taps = {}
    /\ IsFiniteSet(Queues \cup Taps)
    /\ MaxDrops \in Nat
    /\ MaxThrows \in Nat

Subscriptions == Queues \cup Taps
MaxDelay == 30     \* maxReconnectDelayMs, in seconds

VARIABLES
    link,        \* "none", "dialing" or "open": the one connection
    consuming,   \* subscriptions with a consumer on the open connection
    awaiting,    \* callers of ensureChannel that schedule a reconnect if it fails
    timers,      \* pending reconnect timers
    delay,       \* reconnectDelayMs, in seconds
    closed,      \* this.closed
    copy,        \* per subscription and message: where the broker's copy is
    redelivered, \* the copy's redelivered flag
    deliveries,  \* history: how often the copy was delivered
    drops, throws   \* what the bounds count

brokerVars == <<link, consuming, awaiting, timers, delay, closed,
                copy, redelivered, deliveries, drops, throws>>

Each(x) == [s \in Subscriptions |-> [m \in BusMessages |-> x]]

\* The process is not up.
BrokerInit ==
    /\ link = "none"
    /\ consuming = {}
    /\ awaiting = 0
    /\ timers = 0
    /\ delay = 1
    /\ closed = TRUE
    /\ copy = Each("none")
    /\ redelivered = Each(FALSE)
    /\ deliveries = Each(0)
    /\ drops = 0
    /\ throws = 0

-----------------------------------------------------------------------------
(***************************************************************************)
(* scheduleReconnect, called n times in one turn: a timer each time, the   *)
(* delay doubled each time up to the cap. A closed bus schedules nothing.  *)
(***************************************************************************)
Schedule(n) ==
    IF closed THEN UNCHANGED <<timers, delay>>
    ELSE /\ timers' = timers + n
         /\ delay' = IF delay * 2^n > MaxDelay THEN MaxDelay ELSE delay * 2^n

\* What the broker does to the copies when the connection that held them goes:
\* a durable queue takes them back, an exclusive one is deleted with them.
Back(s, at) == IF s \in Queues THEN (IF at = "held" THEN "ready" ELSE at)
               ELSE (IF at \in {"held", "ready"} THEN "dropped" ELSE at)

ConnectionGoes ==
    /\ link' = "none"
    /\ consuming' = {}
    /\ copy' = [s \in Subscriptions |-> [m \in BusMessages |-> Back(s, copy[s][m])]]
    /\ redelivered' = [s \in Subscriptions |-> [m \in BusMessages |->
                          redelivered[s][m] \/ copy[s][m] = "held"]]

Dialed ==
    /\ link = "dialing"
    /\ link' = "open"
    /\ delay' = 1
    /\ UNCHANGED <<consuming, awaiting, timers, closed, copy, redelivered, deliveries, drops,
                   throws>>

DialFails ==
    /\ link = "dialing"
    /\ drops < MaxDrops
    /\ drops' = drops + 1
    /\ link' = "none"
    /\ Schedule(awaiting)
    /\ awaiting' = 0
    /\ UNCHANGED <<consuming, closed, copy, redelivered, deliveries, throws>>

\* setupConsumer, for one subscription after the other; the last one resolves
\* the promise of connect.
SetUp(s) ==
    /\ link = "open"
    /\ s \notin consuming
    /\ consuming' = consuming \cup {s}
    /\ awaiting' = IF consuming' = Subscriptions THEN 0 ELSE awaiting
    /\ UNCHANGED <<link, timers, delay, closed, copy, redelivered, deliveries, drops, throws>>

DropForgotten ==   \* mutant: the close event leaves reconnecting to the next publish
    /\ link = "open"
    /\ drops < MaxDrops
    /\ drops' = drops + 1
    /\ ConnectionGoes
    /\ awaiting' = 0
    /\ UNCHANGED <<timers, delay, closed, deliveries, throws>>

\* The close event schedules one reconnect, and every caller whose connect was
\* still setting consumers up schedules another.
Drop ==
    /\ link = "open"
    /\ drops < MaxDrops
    /\ drops' = drops + 1
    /\ ConnectionGoes
    /\ Schedule(1 + awaiting)
    /\ awaiting' = 0
    /\ UNCHANGED <<closed, deliveries, throws>>

TimerFires ==
    /\ timers > 0
    /\ timers' = timers - 1
    /\ link' = IF ~closed /\ link = "none" THEN "dialing" ELSE link
    /\ awaiting' = IF ~closed /\ link # "open" THEN awaiting + 1 ELSE awaiting
    /\ UNCHANGED <<consuming, delay, closed, copy, redelivered, deliveries, drops, throws>>

\* The process exits (shutdown closes the bus, a crash does not get to) and boots:
\* every subscription is registered and awaits the same first dial.
Close ==
    /\ ~closed
    /\ closed' = TRUE
    /\ IF link = "open" THEN ConnectionGoes /\ awaiting' = 0
       ELSE UNCHANGED <<link, consuming, copy, redelivered, awaiting>>
    /\ UNCHANGED <<timers, delay, deliveries, drops, throws>>

Boot ==
    /\ drops < MaxDrops
    /\ drops' = drops + 1
    /\ closed' = FALSE
    /\ consuming' = {}
    /\ copy' = [s \in Subscriptions |-> [m \in BusMessages |-> Back(s, copy[s][m])]]
    /\ redelivered' = [s \in Subscriptions |-> [m \in BusMessages |->
                          redelivered[s][m] \/ copy[s][m] = "held"]]
    /\ link' = "dialing"
    /\ awaiting' = Cardinality(Subscriptions)
    /\ timers' = 0
    /\ delay' = 1
    /\ UNCHANGED <<deliveries, throws>>

-----------------------------------------------------------------------------
(***************************************************************************)
(* publish: on the open channel, or after starting a connection, which it  *)
(* does not schedule again when the dial fails. The broker routes the      *)
(* message to every durable queue and to the ephemeral ones that exist.    *)
(***************************************************************************)
PublishDials ==
    /\ link = "none"
    /\ ~closed
    /\ link' = "dialing"
    /\ UNCHANGED <<consuming, awaiting, timers, delay, closed, copy, redelivered, deliveries,
                   drops, throws>>

PublishMessage(m) ==
    /\ link = "open"
    /\ \A s \in Subscriptions : copy[s][m] = "none"
    /\ copy' = [s \in Subscriptions |-> [copy[s] EXCEPT ![m] =
                   IF s \in Queues \cup consuming THEN "ready" ELSE "dropped"]]
    /\ UNCHANGED <<link, consuming, awaiting, timers, delay, closed, redelivered, deliveries,
                   drops, throws>>

HandOver(s, m) ==
    /\ s \in consuming
    /\ copy[s][m] = "ready"
    /\ copy' = [copy EXCEPT ![s][m] = "held"]
    /\ deliveries' = [deliveries EXCEPT ![s][m] = @ + 1]
    /\ UNCHANGED <<link, consuming, awaiting, timers, delay, closed, redelivered, drops, throws>>

Ack(s, m) ==
    /\ copy[s][m] = "held"
    /\ copy' = [copy EXCEPT ![s][m] = "acked"]
    /\ UNCHANGED <<link, consuming, awaiting, timers, delay, closed, redelivered, deliveries,
                   drops, throws>>

NackDropsFirst(s, m) ==   \* mutant: requeues what was redelivered and not the rest
    /\ copy[s][m] = "held"
    /\ throws < MaxThrows
    /\ throws' = throws + 1
    /\ copy' = [copy EXCEPT ![s][m] = IF redelivered[s][m] THEN "ready" ELSE "dead"]
    /\ redelivered' = [redelivered EXCEPT ![s][m] = TRUE]
    /\ UNCHANGED <<link, consuming, awaiting, timers, delay, closed, deliveries, drops>>

\* dispatch's catch: an ephemeral delivery is acked all the same; a durable one
\* goes back once and to the dead letter queue when it was redelivered already.
HandlerThrows(s, m) ==
    /\ copy[s][m] = "held"
    /\ throws < MaxThrows
    /\ throws' = throws + 1
    /\ copy' = [copy EXCEPT ![s][m] =
                  CASE s \in Taps -> "acked"
                    [] s \in Queues /\ ~redelivered[s][m] -> "ready"
                    [] OTHER -> "dead"]
    /\ redelivered' = [redelivered EXCEPT ![s][m] = copy'[s][m] = "ready" \/ @]
    /\ UNCHANGED <<link, consuming, awaiting, timers, delay, closed, deliveries, drops>>

BrokerNext ==
    \/ Dialed \/ DialFails \/ Drop \/ TimerFires \/ Close \/ Boot \/ PublishDials
    \/ \E s \in Subscriptions : SetUp(s)
    \/ \E m \in BusMessages : PublishMessage(m)
    \/ \E s \in Subscriptions, m \in BusMessages :
          HandOver(s, m) \/ Ack(s, m) \/ HandlerThrows(s, m)

\* A timer fires, a dial ends and a consumer is set up unless the connection
\* goes first; nobody has to publish, drop or close.
BrokerFairness ==
    /\ WF_brokerVars(TimerFires)
    /\ WF_brokerVars(Dialed \/ DialFails)
    /\ \A s \in Subscriptions : WF_brokerVars(SetUp(s))

BrokerSpec == BrokerInit /\ [][BrokerNext]_brokerVars /\ BrokerFairness

-----------------------------------------------------------------------------
BrokerTypeOK ==
    /\ link \in {"none", "dialing", "open"}
    /\ consuming \subseteq Subscriptions
    /\ awaiting \in Nat
    /\ timers \in Nat
    /\ delay \in 1..MaxDelay
    /\ closed \in BOOLEAN
    /\ copy \in [Subscriptions -> [BusMessages ->
                   {"none", "ready", "held", "acked", "dead", "dropped"}]]
    /\ redelivered \in [Subscriptions -> [BusMessages -> BOOLEAN]]
    /\ deliveries \in [Subscriptions -> [BusMessages -> Nat]]
    /\ drops \in Nat
    /\ throws \in Nat

\* Nothing is dead-lettered on its first delivery, whether its second chance
\* was spent on a failed handler, a dropped connection or a crash.
DeadDeliveredTwice ==
    \A s \in Subscriptions, m \in BusMessages :
        copy[s][m] = "dead" => s \in Queues /\ deliveries[s][m] >= 2

\* Liveness: once connections stop dropping, every subscription has its
\* consumer again for good, without anybody publishing, unless the bus closed.
ConsumersReturn == <>[](closed \/ consuming = Subscriptions)

=============================================================================
