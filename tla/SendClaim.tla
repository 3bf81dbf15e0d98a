------------------------------ MODULE SendClaim ------------------------------
(***************************************************************************)
(* What a claim taken before a send promises, whether it is a row of       *)
(* campaign_send_log (Campaign) or a key in Redis (Sends).  One actor at a *)
(* time holds the claim of an item; it may send while no copy is out that  *)
(* is not excused, and it either leaves the claim behind, so that nobody   *)
(* sends again, or gives it back.  A claim given back after a copy, and    *)
(* one that expires, excuses one more copy.                                *)
(***************************************************************************)
EXTENDS Naturals

CONSTANTS Items, Actors

VARIABLES
    taken,     \* the items whose claim exists
    holders,   \* per item: who is between taking its claim and letting go of it
    copies,    \* per item: copies Meta accepted
    excused    \* per item: copies beyond the first that are accounted for

claimVars == <<taken, holders, copies, excused>>

Init ==
    /\ taken = {}
    /\ holders = [i \in Items |-> {}]
    /\ copies = [i \in Items |-> 0]
    /\ excused = [i \in Items |-> 0]

Excuse(i) == excused' = [excused EXCEPT ![i] = @ + 1]

Take(i, a) ==
    /\ i \notin taken
    /\ taken' = taken \cup {i}
    /\ holders' = [holders EXCEPT ![i] = {a}]
    /\ UNCHANGED <<copies, excused>>

\* The claim was taken and the answer lost: nobody knows that they hold it.
TakenUnknown(i) ==
    /\ i \notin taken
    /\ taken' = taken \cup {i}
    /\ UNCHANGED <<holders, copies, excused>>

\* One copy for each claim, and a further one only if it is excused.
Send(i, a) ==
    /\ holders[i] = {a}
    /\ copies' = [copies EXCEPT ![i] = @ + 1]
    /\ (copies[i] <= excused[i] /\ UNCHANGED excused) \/ Excuse(i)
    /\ UNCHANGED <<taken, holders>>

Leave(i, a) ==
    /\ holders[i] = {a}
    /\ holders' = [holders EXCEPT ![i] = {}]
    /\ UNCHANGED <<taken, copies, excused>>

GiveBack(i, a) ==
    /\ holders[i] = {a}
    /\ holders' = [holders EXCEPT ![i] = {}]
    /\ taken' = taken \ {i}
    /\ (copies[i] <= excused[i] /\ UNCHANGED excused) \/ Excuse(i)
    /\ UNCHANGED copies

Expire(i) ==
    /\ i \in taken /\ holders[i] = {}
    /\ taken' = taken \ {i}
    /\ Excuse(i)
    /\ UNCHANGED <<holders, copies>>

Next ==
    \E i \in Items :
        \/ TakenUnknown(i) \/ Expire(i)
        \/ \E a \in Actors : Take(i, a) \/ Send(i, a) \/ Leave(i, a) \/ GiveBack(i, a)

Spec == Init /\ [][Next]_claimVars
=============================================================================
