------------------------------ MODULE MCNoReply ------------------------------
(***************************************************************************)
(* The no-reply timers of two gateway instances on one conversation, with  *)
(* two rules of different delays and one tick that may fail.               *)
(***************************************************************************)
EXTENDS NoReply

MCDelay == [r \in NoReplyRules |-> r]

==============================================================================
