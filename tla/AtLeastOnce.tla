---------------------------- MODULE AtLeastOnce ----------------------------
(***************************************************************************)
(* What the outbox promises to the code that enqueues events: an accepted  *)
(* event is retried until an attempt has reached its handlers or is given  *)
(* up after an attempt, never forgotten and never settled untried.  It may *)
(* be attempted again after it was settled: delivery is at least once.     *)
(***************************************************************************)
CONSTANT Events

VARIABLES
    fate,     \* "absent", "open", "done" or "dead"
    tried,    \* some attempt was made
    reached   \* some attempt reached every handler

abstractVars == <<fate, tried, reached>>

Init ==
    /\ fate = [e \in Events |-> "absent"]
    /\ tried = [e \in Events |-> FALSE]
    /\ reached = [e \in Events |-> FALSE]

SetFate(e, f) ==
    /\ fate' = [fate EXCEPT ![e] = f]
    /\ UNCHANGED <<tried, reached>>

Accept(e) == fate[e] = "absent" /\ SetFate(e, "open")

Attempt(e) ==
    /\ fate[e] # "absent"
    /\ tried' = [tried EXCEPT ![e] = TRUE]
    /\ reached' \in {reached, [reached EXCEPT ![e] = TRUE]}
    /\ UNCHANGED fate

Finish(e) == reached[e] /\ SetFate(e, "done")

GiveUp(e) == tried[e] /\ SetFate(e, "dead")

Reopen(e) == tried[e] /\ SetFate(e, "open")

Next ==
    \E e \in Events : Accept(e) \/ Attempt(e) \/ Finish(e) \/ GiveUp(e) \/ Reopen(e)

Spec == Init /\ [][Next]_abstractVars
=============================================================================
