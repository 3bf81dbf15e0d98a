------------------------------ MODULE MCPlatform ------------------------------
(***************************************************************************)
(* What everything else stands on: the outbox, a customer's message from   *)
(* the webhook to the end of its handlers, and the credentials of a user,  *)
(* three modules that share no state. As in MCDesk a behaviour runs one of *)
(* them, the focus, and the others stay in one initial state.              *)
(*                                                                         *)
(* Two relays, two rows and two attempts are the smallest instance of the  *)
(* outbox in which a claim expires under a live relay, a batch is partly   *)
(* published when the process dies, and a row dies, is replayed and dies   *)
(* again.                                                                  *)
(***************************************************************************)
EXTENDS MCInbound, Outbox, Access, TLC

VARIABLE focus

platformVars == <<focus, vars, inboundVars, accessVars>>

\* Two relays, or two administrators, are interchangeable.
TwoOfAKind == Permutations(Relays)

MCPlatformInit ==
    /\ focus \in {"outbox", "inbound", "access"}
    /\ Init /\ AccessInit
    /\ InboundInit /\ (focus # "inbound" => social = {} /\ troubles = 1 /\ kind[1] = "start")

MCPlatformNext ==
    /\ UNCHANGED focus
    /\ IF focus = "outbox" THEN Next ELSE UNCHANGED vars
    /\ IF focus = "inbound" THEN InboundNext ELSE UNCHANGED inboundVars
    /\ IF focus = "access" THEN AccessNext ELSE UNCHANGED accessVars

MCPlatformSpec == MCPlatformInit /\ [][MCPlatformNext]_platformVars

==============================================================================
