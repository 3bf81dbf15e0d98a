------------------------------ MODULE MCInbound ------------------------------
(***************************************************************************)
(* Pairs of messages whose kinds matter to each other, already on the      *)
(* transport, with one thing going wrong; single messages, from the        *)
(* webhook on, with two.                                                   *)
(***************************************************************************)
EXTENDS Inbound

Pair(kinds, s) == [kinds |-> kinds, social |-> s, posted |-> {1, 2}, troubles |-> 1]
Single(k) == [kinds |-> <<k, "none">>, social |-> {}, posted |-> {}, troubles |-> 2]

MCScripts ==
    {Pair(<<"text", "text">>, {}), Pair(<<"start", "stop">>, {}),
     Pair(<<"media", "reaction">>, {}), Pair(<<"start", "stop">>, {1, 2})}
    \cup {Single(k) : k \in {"media", "text", "stop"}}

==============================================================================
