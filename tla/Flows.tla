-------------------------------- MODULE Flows ---------------------------------
(***************************************************************************)
(* The chatbot engine on one conversation: a flow's graph, validated when  *)
(* it is created, and the session it advances, one inbound message after   *)
(* another or two at once.                                                 *)
(*                                                                         *)
(* Nodes that only act (message, add_tag, assign_team) differ in what they *)
(* do, not in how the cursor moves.                                        *)
(***************************************************************************)
EXTENDS Naturals, Sequences

CONSTANTS
    LastNode,        \* nodes are numbered, the first is the start
    StepCap,         \* STEP_CAP, 10 in the engine
    FlowMessages,    \* inbound messages handled at once
    MaxSessions      \* bound: sessions the flow starts

ASSUME FlowsAssumption == LastNode \in Nat \ {0} /\ StepCap \in Nat \ {0} /\ MaxSessions \in Nat

Nodes == 1..LastNode
NoNode == 0
Replies == {"yes", "other", "media"}   \* matches a branch, matches none, has no text

\* The graphs validateFlowDefinition lets through, and one branch per question.
Definitions ==
    [Nodes -> [type : {"act"}, next : Nodes \cup {NoNode}, fallback : {NoNode}]
              \cup [type : {"question"}, next : Nodes, fallback : Nodes \cup {NoNode}]
              \cup [type : {"end"}, next : {NoNode}, fallback : {NoNode}]]

VARIABLES
    definition,   \* the flow's graph
    flowStatus,   \* "draft", "active" or "paused"
    sessions,     \* the sessions in the order they started: [node, status]
    handling      \* per message: [session, waitsAt] once advanced, before the save

flowsVars == <<definition, flowStatus, sessions, handling>>

NotHandling == [session |-> 0, waitsAt |-> NoNode]

FlowsInit ==
    /\ definition \in Definitions
    /\ flowStatus = "draft"
    /\ sessions = <<>>
    /\ handling = [m \in FlowMessages |-> NotHandling]

-----------------------------------------------------------------------------
(***************************************************************************)
(* advanceFlow, a node at a time: at most StepCap of them, then the flow   *)
(* is over wherever the cursor stands.                                     *)
(***************************************************************************)
Visit(at) ==
    LET node == definition[at.node] IN
    IF at.over \/ at.node = NoNode THEN [at EXCEPT !.over = TRUE]
    ELSE CASE node.type = "end" -> [at EXCEPT !.over = TRUE]
           [] node.type = "act" -> [at EXCEPT !.node = node.next]
           [] node.type = "question" /\ at.reply = "media" ->
                  [at EXCEPT !.over = TRUE, !.waits = TRUE]
           [] OTHER ->
                  LET target == IF at.reply = "yes" THEN node.next ELSE node.fallback IN
                  IF target = NoNode THEN [at EXCEPT !.over = TRUE, !.waits = TRUE]
                  ELSE [at EXCEPT !.node = target, !.reply = "media"]

\* The node to wait at, or NoNode when the session is over.
AdvanceFlow(node, reply) ==
    LET walk[n \in 0..StepCap] ==
            IF n = 0 THEN [node |-> node, reply |-> reply, over |-> FALSE, waits |-> FALSE]
            ELSE Visit(walk[n - 1])
    IN IF walk[StepCap].waits THEN walk[StepCap].node ELSE NoNode

Activate(status) ==
    /\ flowStatus # status
    /\ status = "paused" => flowStatus = "active"
    /\ flowStatus' = status
    /\ UNCHANGED <<definition, sessions, handling>>

ActiveSessions == {s \in 1..Len(sessions) : sessions[s].status = "active"}

\* A message of a conversation with a session: the session's node and the reply
\* are read, and what they lead to is saved later.
ContinueSession(m, reply) ==
    /\ flowStatus = "active"
    /\ handling[m] = NotHandling
    /\ \E s \in ActiveSessions :
          handling' = [handling EXCEPT ![m] =
                [session |-> s, waitsAt |-> AdvanceFlow(sessions[s].node, reply)]]
    /\ UNCHANGED <<definition, flowStatus, sessions>>

\* The trigger keyword without an active session: the index lets one be inserted,
\* at the start node, and the trigger itself is no reply.
StartFlow(m) ==
    /\ flowStatus = "active"
    /\ handling[m] = NotHandling
    /\ ActiveSessions = {}
    /\ Len(sessions) < MaxSessions
    /\ sessions' = Append(sessions, [node |-> 1, status |-> "active"])
    /\ handling' = [handling EXCEPT ![m] =
          [session |-> Len(sessions) + 1, waitsAt |-> AdvanceFlow(1, "media")]]
    /\ UNCHANGED <<definition, flowStatus>>

SaveReopens(m) ==   \* mutant: saving a wait writes the status too
    /\ handling[m] # NotHandling
    /\ sessions' = [sessions EXCEPT ![handling[m].session] =
          [node |-> handling[m].waitsAt,
           status |-> IF handling[m].waitsAt = NoNode THEN "completed" ELSE "active"]]
    /\ handling' = [handling EXCEPT ![m] = NotHandling]
    /\ UNCHANGED <<definition, flowStatus>>

\* updateSession: the node of a wait, or the completion, each leaving the other column.
SaveSession(m) ==
    /\ handling[m] # NotHandling
    /\ sessions' = [sessions EXCEPT ![handling[m].session] =
          IF handling[m].waitsAt = NoNode THEN [@ EXCEPT !.status = "completed"]
          ELSE [@ EXCEPT !.node = handling[m].waitsAt]]
    /\ handling' = [handling EXCEPT ![m] = NotHandling]
    /\ UNCHANGED <<definition, flowStatus>>

\* A send fails or the worker stops before the save: the session stays where it was.
SaveLost(m) ==
    /\ handling[m] # NotHandling
    /\ handling' = [handling EXCEPT ![m] = NotHandling]
    /\ UNCHANGED <<definition, flowStatus, sessions>>

FlowsNext ==
    \/ Activate("active") \/ Activate("paused")
    \/ \E m \in FlowMessages :
          \/ \E reply \in Replies : ContinueSession(m, reply)
          \/ StartFlow(m) \/ SaveSession(m) \/ SaveLost(m)

FlowsSpec == FlowsInit /\ [][FlowsNext]_flowsVars

-----------------------------------------------------------------------------
\* One bot speaks at a time: however two messages of a conversation overlap, and
\* whichever saves last, at most one session of it is active, and the sessions
\* before the last have ended for good.
OneSessionSpeaks == ActiveSessions \subseteq {Len(sessions)}

=============================================================================
