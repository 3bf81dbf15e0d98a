---------------------------- MODULE OutboxProofs ----------------------------
(***************************************************************************)
(* Proofs about the outbox, for any number of rows and relays, any batch   *)
(* size, attempt cap and number of faults.                                 *)
(***************************************************************************)
EXTENDS Outbox, FiniteSetTheorems, TLAPS

(***************************************************************************)
(* Evidence: what a relay about to settle a row knows of it, and what the  *)
(* row's status says was done.  NoLostEvent alone is not inductive: that a *)
(* relay in phase "ack" holds a delivered row must be carried along.       *)
(***************************************************************************)
Evidence ==
    /\ NoLostEvent
    /\ \A w \in Relays : phase[w] = "ack" => delivered[cur[w]]
    /\ \A w \in Relays : cur[w] # NoRow => tries[cur[w]] > 0
    /\ \A r \in Rows : status[r] = "dead" => tries[r] > 0
    /\ \A w \in Relays : \A r \in Held(w) : status[r] # "absent"

(***************************************************************************)
(* A claim that has not expired is visible in the row: nobody can take the *)
(* row away, because it is neither pending nor stale.                      *)
(***************************************************************************)
LiveClaim ==
    /\ ExclusiveClaim
    /\ \A w \in Relays : cur[w] \notin batch[w]
    /\ \A w \in Relays : \A r \in Held(w) :
         ~expired[r] => \/ status[r] = "processing" /\ ~stale[r]
                        \/ status[r] = "processed"

-----------------------------------------------------------------------------
(* A relay that is settling knows the row it settles, and the two SQL      *)
(* settlement functions keep the row well formed.                          *)
LEMMA SettlingRow ==
  ASSUME TypeOK, NEW w \in Relays, phase[w] # "free"
  PROVE  cur[w] \in Rows /\ cur[w] # NoRow
BY OutboxAssumption DEF TypeOK, Rows

LEMMA SettledType ==
  ASSUME TypeOK, NEW r \in Rows, SetProcessed(r) \/ SetFailed(r) \/ UNCHANGED rowVars
  PROVE  /\ status' \in [Rows -> Statuses]
         /\ attempts' \in [Rows -> Nat]
         /\ due' \in [Rows -> BOOLEAN]
         /\ stale' \in [Rows -> BOOLEAN]
<1>1. CASE SetProcessed(r)
  BY <1>1 DEF TypeOK, SetProcessed, Statuses
<1>2. CASE SetFailed(r)
  <2>1. attempts' \in [Rows -> Nat] /\ due' \in [Rows -> BOOLEAN] /\ stale' \in [Rows -> BOOLEAN]
    BY <1>2 DEF TypeOK, SetFailed
  <2>2. status' \in [Rows -> Statuses]
    BY <1>2 DEF TypeOK, SetFailed, Statuses
  <2> QED
    BY <2>1, <2>2
<1>3. CASE UNCHANGED rowVars
  BY <1>3 DEF TypeOK, rowVars
<1> QED
  BY <1>1, <1>2, <1>3

-----------------------------------------------------------------------------
(* Every variable keeps its type under every step of the outbox.           *)
THEOREM TypeCorrect == Spec => []TypeOK
<1>1. Init => TypeOK
  BY OutboxAssumption DEF Init, TypeOK, Statuses
<1>2. TypeOK /\ [Next]_vars => TypeOK'
  <2> SUFFICES ASSUME TypeOK, [Next]_vars PROVE TypeOK'
    OBVIOUS
  <2>0. \A w \in Relays : phase[w] # "free" => cur[w] \in Rows /\ cur[w] # NoRow
    BY SettlingRow
  <2>T. \A r \in Rows : SetProcessed(r) \/ SetFailed(r) \/ UNCHANGED rowVars =>
          /\ status' \in [Rows -> Statuses] /\ attempts' \in [Rows -> Nat]
          /\ due' \in [Rows -> BOOLEAN] /\ stale' \in [Rows -> BOOLEAN]
    BY SettledType
  <2> USE OutboxAssumption DEF TypeOK, Statuses, Rows
  <2>1. ASSUME NEW r \in Rows, Enqueue(r) PROVE TypeOK'
    BY <2>1 DEF Enqueue, relayVars, history
  <2>2. ASSUME NEW r \in Rows, ReplayDead(r) PROVE TypeOK'
    BY <2>2 DEF ReplayDead, relayVars, history
  <2>3. ASSUME NEW w \in Relays, Crash(w) PROVE TypeOK'
    BY <2>3 DEF Crash, rowVars, history
  <2>4. ASSUME NEW r \in Rows, BecomeDue(r) PROVE TypeOK'
    BY <2>4 DEF BecomeDue, relayVars, history
  <2>5. ASSUME NEW r \in Rows, BecomeStale(r) PROVE TypeOK'
    BY <2>5 DEF BecomeStale, relayVars
  <2>6. ASSUME NEW w \in Relays, Claim(w) PROVE TypeOK'
    BY <2>6 DEF Claim, history
  <2>7. ASSUME NEW w \in Relays, PublishOk(w) PROVE TypeOK'
    BY <2>7 DEF PublishOk, rowVars
  <2>8. ASSUME NEW w \in Relays, PublishFails(w) PROVE TypeOK'
    BY <2>8 DEF PublishFails, rowVars
  <2>9. ASSUME NEW w \in Relays, MarkProcessed(w) PROVE TypeOK'
    BY <2>9, <2>0, <2>T DEF MarkProcessed, NextRow, history
  <2>10. ASSUME NEW w \in Relays, MarkProcessedFails(w) PROVE TypeOK'
    <3>1. SetProcessed(cur[w]) \/ UNCHANGED rowVars
      BY <2>10 DEF MarkProcessedFails
    <3>2. /\ status' \in [Rows -> Statuses] /\ attempts' \in [Rows -> Nat]
          /\ due' \in [Rows -> BOOLEAN] /\ stale' \in [Rows -> BOOLEAN]
      BY <2>10, <2>0, <2>T, <3>1 DEF MarkProcessedFails
    <3> QED
      BY <2>10, <2>0, <3>2 DEF MarkProcessedFails, history
  <2>11. ASSUME NEW w \in Relays, MarkFailed(w) PROVE TypeOK'
    BY <2>11, <2>0, <2>T DEF MarkFailed, NextRow, history
  <2>12. ASSUME NEW w \in Relays, MarkFailedFails(w) PROVE TypeOK'
    BY <2>12, <2>0, <2>T DEF MarkFailedFails, NextRow, history
  <2>13. CASE UNCHANGED vars
    BY <2>13 DEF vars, rowVars, relayVars, history
  <2> QED
    BY <2>1, <2>2, <2>3, <2>4, <2>5, <2>6, <2>7, <2>8, <2>9, <2>10, <2>11,
       <2>12, <2>13 DEF Next, Environment, Clock, Relay
<1> QED
  BY <1>1, <1>2, PTL DEF Spec

-----------------------------------------------------------------------------
(* The evidence a relay carries survives every step.                       *)
LEMMA EvidenceStep == TypeOK /\ Evidence /\ [Next]_vars => Evidence'
<1> SUFFICES ASSUME TypeOK, Evidence, [Next]_vars PROVE Evidence'
  OBVIOUS
<1> USE OutboxAssumption DEF TypeOK, Evidence, NoLostEvent, Held, Rows
<1>1. ASSUME NEW r \in Rows, Enqueue(r) PROVE Evidence'
  BY <1>1 DEF Enqueue, relayVars, history
<1>2. ASSUME NEW r \in Rows, ReplayDead(r) PROVE Evidence'
  BY <1>2 DEF ReplayDead, relayVars, history
<1>3. ASSUME NEW w \in Relays, Crash(w) PROVE Evidence'
  BY <1>3 DEF Crash, rowVars, history
<1>4. ASSUME NEW r \in Rows, BecomeDue(r) PROVE Evidence'
  BY <1>4 DEF BecomeDue, relayVars, history
<1>5. ASSUME NEW r \in Rows, BecomeStale(r) PROVE Evidence'
  BY <1>5 DEF BecomeStale, relayVars
<1>6. ASSUME NEW w \in Relays, Claim(w) PROVE Evidence'
  BY <1>6 DEF Claim, OldestFirst, Claimable, history
<1>7. ASSUME NEW w \in Relays, PublishOk(w) PROVE Evidence'
  BY <1>7 DEF PublishOk, rowVars
<1>8. ASSUME NEW w \in Relays, PublishFails(w) PROVE Evidence'
  BY <1>8 DEF PublishFails, rowVars
<1>9. ASSUME NEW w \in Relays, MarkProcessed(w) PROVE Evidence'
  BY <1>9 DEF MarkProcessed, SetProcessed, NextRow, history
<1>10. ASSUME NEW w \in Relays, MarkProcessedFails(w) PROVE Evidence'
  BY <1>10 DEF MarkProcessedFails, SetProcessed, rowVars, history
<1>11. ASSUME NEW w \in Relays, MarkFailed(w) PROVE Evidence'
  BY <1>11 DEF MarkFailed, SetFailed, NextRow, history
<1>12. ASSUME NEW w \in Relays, MarkFailedFails(w) PROVE Evidence'
  <2>1. CASE SetFailed(cur[w])
    BY <1>12, <2>1 DEF MarkFailedFails, SetFailed, NextRow, history
  <2>2. CASE UNCHANGED rowVars
    BY <1>12, <2>2 DEF MarkFailedFails, NextRow, rowVars, history
  <2> QED
    BY <1>12, <2>1, <2>2 DEF MarkFailedFails
<1>13. CASE UNCHANGED vars
  BY <1>13 DEF vars, rowVars, relayVars, history
<1> QED
  BY <1>1, <1>2, <1>3, <1>4, <1>5, <1>6, <1>7, <1>8, <1>9, <1>10, <1>11,
     <1>12, <1>13 DEF Next, Environment, Clock, Relay

(* At least once: no row is settled as processed without a publish of it   *)
(* having reached its handlers.                                            *)
THEOREM NeverLost == Spec => []NoLostEvent
<1>1. Init => Evidence
  BY DEF Init, Evidence, NoLostEvent, Held
<1>2. Evidence => NoLostEvent
  BY DEF Evidence
<1> QED
  BY <1>1, <1>2, TypeCorrect, EvidenceStep, PTL DEF Spec

-----------------------------------------------------------------------------
(* An unexpired claim stays exclusive under every step.                    *)
LEMMA LiveClaimStep == TypeOK /\ Evidence /\ LiveClaim /\ [Next]_vars => LiveClaim'
<1> SUFFICES ASSUME TypeOK, Evidence, LiveClaim, [Next]_vars PROVE LiveClaim'
  OBVIOUS
<1> USE OutboxAssumption DEF TypeOK, LiveClaim, ExclusiveClaim, Held, Rows
<1>1. ASSUME NEW r \in Rows, Enqueue(r) PROVE LiveClaim'
  BY <1>1 DEF Enqueue, relayVars, history, Evidence
<1>2. ASSUME NEW r \in Rows, ReplayDead(r) PROVE LiveClaim'
  BY <1>2 DEF ReplayDead, relayVars, history
<1>3. ASSUME NEW w \in Relays, Crash(w) PROVE LiveClaim'
  BY <1>3 DEF Crash, rowVars, history
<1>4. ASSUME NEW r \in Rows, BecomeDue(r) PROVE LiveClaim'
  BY <1>4 DEF BecomeDue, relayVars, history
<1>5. ASSUME NEW r \in Rows, BecomeStale(r) PROVE LiveClaim'
  <2>1. UNCHANGED <<status, batch, cur>>
    BY <1>5 DEF BecomeStale, relayVars
  <2>2. \A s \in Rows : expired[s] => expired'[s]
    BY <1>5 DEF BecomeStale
  <2>3. \A v \in Relays : r \in Held(v) => expired'[r]
    BY <1>5 DEF BecomeStale
  <2>4. \A s \in Rows \ {r} : stale'[s] = stale[s]
    BY <1>5 DEF BecomeStale
  <2> QED
    BY <2>1, <2>2, <2>3, <2>4
<1>6. ASSUME NEW w \in Relays, Claim(w) PROVE LiveClaim'
  <2>1. PICK S \in SUBSET Rows :
          /\ \A r \in S : Claimable(r)
          /\ status' = [r \in Rows |-> IF r \in S THEN "processing" ELSE status[r]]
          /\ stale' = [r \in Rows |-> stale[r] /\ r \notin S]
          /\ batch' = [batch EXCEPT ![w] = S]
    BY <1>6 DEF Claim, OldestFirst
  <2>2. cur' = cur /\ expired' = expired /\ cur[w] = NoRow /\ batch[w] = {}
    BY <1>6 DEF Claim, Idle, history
  <2>3. \A v \in Relays : \A r \in S : r \in Held(v) => expired[r]
    BY <2>1 DEF Claimable
  <2>4. /\ Held(w)' = S
        /\ \A v \in Relays \ {w} : Held(v)' = Held(v)
    BY <2>1, <2>2
  <2>5. ExclusiveClaim'
    BY <2>2, <2>3, <2>4
  <2>6. \A v \in Relays : cur'[v] \notin batch'[v]
    BY <2>1, <2>2
  <2>7. \A v \in Relays : \A r \in Held(v)' :
          ~expired'[r] => \/ status'[r] = "processing" /\ ~stale'[r]
                          \/ status'[r] = "processed"
    BY <2>1, <2>2, <2>3, <2>4
  <2> QED
    BY <2>5, <2>6, <2>7
<1>7. ASSUME NEW w \in Relays, PublishOk(w) PROVE LiveClaim'
  BY <1>7 DEF PublishOk, rowVars
<1>8. ASSUME NEW w \in Relays, PublishFails(w) PROVE LiveClaim'
  BY <1>8 DEF PublishFails, rowVars
<1>9. ASSUME NEW w \in Relays, MarkProcessed(w) PROVE LiveClaim'
  BY <1>9 DEF MarkProcessed, SetProcessed, NextRow, history
<1>10. ASSUME NEW w \in Relays, MarkProcessedFails(w) PROVE LiveClaim'
  BY <1>10 DEF MarkProcessedFails, SetProcessed, rowVars, history
<1>11. ASSUME NEW w \in Relays, MarkFailed(w) PROVE LiveClaim'
  BY <1>11 DEF MarkFailed, SetFailed, NextRow, history
<1>12. ASSUME NEW w \in Relays, MarkFailedFails(w) PROVE LiveClaim'
  <2>1. CASE SetFailed(cur[w])
    BY <1>12, <2>1 DEF MarkFailedFails, SetFailed, NextRow, history
  <2>2. CASE UNCHANGED rowVars
    BY <1>12, <2>2 DEF MarkFailedFails, NextRow, rowVars, history
  <2> QED
    BY <1>12, <2>1, <2>2 DEF MarkFailedFails
<1>13. CASE UNCHANGED vars
  BY <1>13 DEF vars, rowVars, relayVars, history
<1> QED
  BY <1>1, <1>2, <1>3, <1>4, <1>5, <1>6, <1>7, <1>8, <1>9, <1>10, <1>11,
     <1>12, <1>13 DEF Next, Environment, Clock, Relay

(* Two relays hold the same row only after its claim expired.              *)
THEOREM ClaimsAreExclusive == Spec => []ExclusiveClaim
<1>1. Init => Evidence /\ LiveClaim
  BY OutboxAssumption DEF Init, Evidence, LiveClaim, NoLostEvent, ExclusiveClaim, Held
<1>2. LiveClaim => ExclusiveClaim
  BY DEF LiveClaim
<1> QED
  BY <1>1, <1>2, TypeCorrect, EvidenceStep, LiveClaimStep, PTL DEF Spec

-----------------------------------------------------------------------------
(* Refinement: Held rows, statuses and tries map every step to the promise *)
(* of AtLeastOnce.  Both sides are read through what a step does to the    *)
(* fate of each row.                                                       *)
LEMMA FateType == TypeOK => \A r \in Rows : FateOf(r) \in {"absent", "open", "done", "dead"}
BY DEF TypeOK, Statuses, FateOf

(* A step that settles or reopens one row r changes the fate of r only.    *)
LEMMA OneFate ==
  ASSUME TypeOK, NEW r \in Rows, NEW x \in Statuses,
         status' = [status EXCEPT ![r] = x],
         UNCHANGED <<tries, delivered>>,
         NEW f, f = CASE x = "absent" -> "absent"
                      [] x \in {"pending", "processing"} -> "open"
                      [] x = "processed" -> "done"
                      [] x = "dead" -> "dead"
  PROVE  Promise!SetFate(r, f)
<1>1. FateOf(r)' = f
  BY DEF TypeOK, FateOf
<1>2. \A s \in Rows \ {r} : FateOf(s)' = FateOf(s)
  BY DEF TypeOK, FateOf
<1>3. [s \in Rows |-> FateOf(s)]' = [[s \in Rows |-> FateOf(s)] EXCEPT ![r] = f]
  BY <1>1, <1>2
<1> QED
  BY <1>3 DEF Promise!SetFate

(* The outbox delivers at least once, whatever crashes, fails or overlaps. *)
THEOREM Refinement == Spec => ImplementsAtLeastOnce
<1>1. Init => Promise!Init
  <2> SUFFICES ASSUME Init PROVE Promise!Init
    OBVIOUS
  <2>1. [r \in Rows |-> FateOf(r)] = [r \in Rows |-> "absent"]
    BY DEF Init, FateOf
  <2>2. \A r \in Rows : (tries[r] > 0) = FALSE
    BY DEF Init
  <2>3. [r \in Rows |-> tries[r] > 0] = [r \in Rows |-> FALSE]
    BY <2>2, Zenon
  <2> QED
    BY <2>1, <2>3 DEF Init, Promise!Init
<1>2. TypeOK /\ Evidence /\ [Next]_vars => [Promise!Next]_(Promise!abstractVars)
  <2> SUFFICES ASSUME TypeOK, Evidence, [Next]_vars
               PROVE  [Promise!Next]_(Promise!abstractVars)
    OBVIOUS
  <2>0. \A w \in Relays : phase[w] # "free" => cur[w] \in Rows /\ cur[w] # NoRow
    BY SettlingRow
  <2>S. ASSUME UNCHANGED <<status, tries, delivered>> PROVE UNCHANGED Promise!abstractVars
    BY <2>S DEF Promise!abstractVars, FateOf
  <2>A. ASSUME NEW r \in Rows, status[r] # "absent", UNCHANGED status,
               tries' = [tries EXCEPT ![r] = @ + 1],
               delivered' = delivered \/ delivered' = [delivered EXCEPT ![r] = TRUE]
        PROVE  Promise!Attempt(r)
    <3>1. [s \in Rows |-> FateOf(s)]' = [s \in Rows |-> FateOf(s)]
      BY <2>A DEF FateOf
    <3>2. [s \in Rows |-> tries[s] > 0]' = [[s \in Rows |-> tries[s] > 0] EXCEPT ![r] = TRUE]
      <4>1. \A s \in Rows \ {r} : tries'[s] = tries[s]
        BY <2>A DEF TypeOK
      <4>2. (tries'[r] > 0) = TRUE
        BY <2>A DEF TypeOK
      <4>3. [s \in Rows |-> tries'[s] > 0] = [[s \in Rows |-> tries[s] > 0] EXCEPT ![r] = TRUE]
        BY <4>1, <4>2, ZenonT(30)
      <4> QED
        BY <4>3
    <3>3. [s \in Rows |-> FateOf(s)][r] # "absent"
      BY <2>A DEF FateOf, TypeOK, Statuses
    <3> QED
      BY <2>A, <3>1, <3>2, <3>3 DEF Promise!Attempt
  <2>P. ASSUME NEW r \in Rows, SetProcessed(r), delivered[r], UNCHANGED <<tries, delivered>>
        PROVE  Promise!Finish(r)
    BY <2>P, OneFate DEF SetProcessed, Promise!Finish, Statuses
  <2>F. ASSUME NEW r \in Rows, SetFailed(r), tries[r] > 0, UNCHANGED <<tries, delivered>>
        PROVE  Promise!GiveUp(r) \/ Promise!Reopen(r)
    <3>1. CASE attempts[r] + 1 >= MaxAttempts
      BY <2>F, <3>1, OneFate DEF SetFailed, Promise!GiveUp, Statuses
    <3>2. CASE ~(attempts[r] + 1 >= MaxAttempts)
      BY <2>F, <3>2, OneFate DEF SetFailed, Promise!Reopen, Statuses
    <3> QED
      BY <3>1, <3>2
  <2>1. ASSUME NEW r \in Rows, Enqueue(r) PROVE Promise!Accept(r)
    BY <2>1, OneFate DEF Enqueue, Promise!Accept, FateOf, history, Statuses
  <2>2. ASSUME NEW r \in Rows, ReplayDead(r) PROVE Promise!Reopen(r)
    BY <2>2, OneFate DEF ReplayDead, Promise!Reopen, Evidence, history, Statuses
  <2>3. ASSUME NEW w \in Relays, Crash(w) PROVE UNCHANGED Promise!abstractVars
    BY <2>3, <2>S DEF Crash, rowVars, history
  <2>4. ASSUME NEW r \in Rows, BecomeDue(r) PROVE UNCHANGED Promise!abstractVars
    BY <2>4, <2>S DEF BecomeDue, history
  <2>5. ASSUME NEW r \in Rows, BecomeStale(r) PROVE UNCHANGED Promise!abstractVars
    BY <2>5, <2>S DEF BecomeStale
  <2>6. ASSUME NEW w \in Relays, Claim(w) PROVE UNCHANGED Promise!abstractVars
    <3>1. PICK S \in SUBSET Rows :
            /\ \A r \in S : Claimable(r)
            /\ status' = [r \in Rows |-> IF r \in S THEN "processing" ELSE status[r]]
      BY <2>6 DEF Claim, OldestFirst
    <3>2. \A r \in Rows : FateOf(r)' = FateOf(r)
      BY <3>1 DEF TypeOK, FateOf, Claimable
    <3> QED
      BY <2>6, <3>2 DEF Claim, history, Promise!abstractVars
  <2>7. ASSUME NEW w \in Relays, PublishOk(w) \/ PublishFails(w)
        PROVE  \E r \in Rows : Promise!Attempt(r)
    <3>1. PICK r \in batch[w] :
            /\ tries' = [tries EXCEPT ![r] = @ + 1]
            /\ delivered' = delivered \/ delivered' = [delivered EXCEPT ![r] = TRUE]
      BY <2>7 DEF PublishOk, PublishFails, TypeOK
    <3>2. UNCHANGED status
      BY <2>7 DEF PublishOk, PublishFails, rowVars
    <3>3. r \in Rows /\ status[r] # "absent"
      BY DEF TypeOK, Evidence, Held
    <3> QED
      BY <3>1, <3>2, <3>3, <2>A
  <2>8. ASSUME NEW w \in Relays, MarkProcessed(w) PROVE \E r \in Rows : Promise!Finish(r)
    BY <2>8, <2>0, <2>P DEF MarkProcessed, history, Evidence
  <2>9. ASSUME NEW w \in Relays, MarkProcessedFails(w)
        PROVE  (\E r \in Rows : Promise!Finish(r)) \/ UNCHANGED Promise!abstractVars
    <3>1. CASE SetProcessed(cur[w])
      BY <2>9, <3>1, <2>0, <2>P DEF MarkProcessedFails, history, Evidence
    <3>2. CASE UNCHANGED rowVars
      BY <2>9, <3>2, <2>S DEF MarkProcessedFails, rowVars, history
    <3> QED
      BY <2>9, <3>1, <3>2 DEF MarkProcessedFails
  <2>10. ASSUME NEW w \in Relays, MarkFailed(w)
         PROVE  \E r \in Rows : Promise!GiveUp(r) \/ Promise!Reopen(r)
    BY <2>10, <2>0, <2>F DEF MarkFailed, history, Evidence
  <2>11. ASSUME NEW w \in Relays, MarkFailedFails(w)
         PROVE  \/ \E r \in Rows : Promise!GiveUp(r) \/ Promise!Reopen(r)
                \/ UNCHANGED Promise!abstractVars
    <3>1. CASE SetFailed(cur[w])
      BY <2>11, <3>1, <2>0, <2>F DEF MarkFailedFails, history, Evidence
    <3>2. CASE UNCHANGED rowVars
      BY <2>11, <3>2, <2>S DEF MarkFailedFails, rowVars, history
    <3> QED
      BY <2>11, <3>1, <3>2 DEF MarkFailedFails
  <2>12. CASE UNCHANGED vars
    BY <2>12, <2>S DEF vars, rowVars, history
  <2> QED
    BY <2>1, <2>2, <2>3, <2>4, <2>5, <2>6, <2>7, <2>8, <2>9, <2>10, <2>11, <2>12
       DEF Next, Environment, Clock, Relay, Promise!Next
<1>3. Init => Evidence
  BY DEF Init, Evidence, NoLostEvent, Held
<1> QED
  BY <1>1, <1>2, <1>3, TypeCorrect, EvidenceStep, PTL
     DEF Spec, ImplementsAtLeastOnce, Promise!Spec

-----------------------------------------------------------------------------
(* A dead row keeps its exhausted attempt count, so a late failure report  *)
(* leaves it dead.                                                         *)
Exhausted == \A r \in Rows : status[r] = "dead" => attempts[r] >= MaxAttempts

LEMMA ExhaustedStep == TypeOK /\ Exhausted /\ [Next]_vars => Exhausted'
<1> SUFFICES ASSUME TypeOK, Exhausted, [Next]_vars PROVE Exhausted'
  OBVIOUS
<1>0. \A w \in Relays : phase[w] # "free" => cur[w] \in Rows
  BY SettlingRow
<1> USE OutboxAssumption DEF TypeOK, Exhausted
<1>1. ASSUME UNCHANGED <<status, attempts>> PROVE Exhausted'
  BY <1>1
<1>2. ASSUME NEW r \in Rows, SetProcessed(r) \/ SetFailed(r) \/ UNCHANGED rowVars
      PROVE  Exhausted'
  <2>1. CASE SetProcessed(r)
    BY <2>1 DEF SetProcessed
  <2>2. CASE SetFailed(r)
    BY <2>2 DEF SetFailed
  <2>3. CASE UNCHANGED rowVars
    BY <2>3 DEF rowVars
  <2> QED
    BY <1>2, <2>1, <2>2, <2>3
<1>3. ASSUME NEW r \in Rows, Enqueue(r) \/ ReplayDead(r) PROVE Exhausted'
  BY <1>3 DEF Enqueue, ReplayDead
<1>4. ASSUME NEW w \in Relays, Claim(w) PROVE Exhausted'
  BY <1>4 DEF Claim
<1>5. ASSUME NEW w \in Relays, MarkProcessed(w) \/ MarkFailed(w) PROVE Exhausted'
  BY <1>5, <1>0, <1>2 DEF MarkProcessed, MarkFailed
<1>6. ASSUME NEW w \in Relays, MarkProcessedFails(w) \/ MarkFailedFails(w) PROVE Exhausted'
  <2>1. CASE UNCHANGED rowVars
    BY <2>1, <1>1 DEF rowVars
  <2>2. CASE SetProcessed(cur[w]) \/ SetFailed(cur[w])
    BY <1>6, <2>2, <1>0, <1>2 DEF MarkProcessedFails, MarkFailedFails
  <2> QED
    BY <1>6, <2>1, <2>2 DEF MarkProcessedFails, MarkFailedFails
<1>7. CASE \/ \E w \in Relays : Crash(w) \/ PublishOk(w) \/ PublishFails(w)
           \/ Clock
           \/ UNCHANGED vars
  BY <1>7, <1>1 DEF Crash, PublishOk, PublishFails, Clock, BecomeDue, BecomeStale,
                    vars, rowVars
<1> QED
  BY <1>3, <1>4, <1>5, <1>6, <1>7 DEF Next, Environment, Relay

(* A dead letter is only reopened by an operator, or settled by a relay    *)
(* whose expired claim did deliver it.                                     *)
THEOREM DeadLettersKept == Spec => DeadLetterKept
<1>1. TypeOK /\ Evidence /\ LiveClaim /\ Exhausted /\ [Next]_vars =>
        [\A r \in Rows :
          status[r] = "dead" /\ status'[r] # "dead" =>
            \/ replays' = replays + 1
            \/ status'[r] = "processed" /\ delivered[r] /\ expired[r]]_vars
  <2> SUFFICES ASSUME TypeOK, Evidence, LiveClaim, Exhausted, Next,
                      NEW r \in Rows, status[r] = "dead", status'[r] # "dead"
               PROVE  \/ replays' = replays + 1
                      \/ status'[r] = "processed" /\ delivered[r] /\ expired[r]
    OBVIOUS
  <2>0. \A w \in Relays : phase[w] # "free" => cur[w] \in Rows /\ cur[w] # NoRow
    BY SettlingRow
  <2>1. ASSUME NEW s \in Rows, Enqueue(s) PROVE FALSE
    BY <2>1 DEF Enqueue, TypeOK
  <2>2. ASSUME NEW s \in Rows, ReplayDead(s) PROVE replays' = replays + 1
    BY <2>2 DEF ReplayDead
  <2>3. ASSUME NEW w \in Relays, Claim(w) PROVE FALSE
    BY <2>3 DEF Claim, OldestFirst, Claimable
  <2>4. ASSUME NEW w \in Relays, phase[w] = "ack", SetProcessed(cur[w])
        PROVE  status'[r] = "processed" /\ delivered[r] /\ expired[r]
    <3>1. r = cur[w] /\ status'[r] = "processed"
      BY <2>4, <2>0 DEF SetProcessed, TypeOK
    <3>2. r \in Held(w)
      BY <3>1, <2>4, <2>0 DEF Held
    <3> QED
      BY <2>4, <3>1, <3>2 DEF Evidence, LiveClaim, TypeOK
  <2>5. ASSUME NEW w \in Relays, phase[w] = "nack", SetFailed(cur[w]) PROVE FALSE
    BY <2>5, <2>0, OutboxAssumption DEF SetFailed, TypeOK, Exhausted
  <2>6. status' # status
    OBVIOUS
  <2>7. ~ \E w \in Relays : Crash(w) \/ PublishOk(w) \/ PublishFails(w)
    BY <2>6 DEF Crash, PublishOk, PublishFails, rowVars
  <2>8. ~ Clock
    BY <2>6 DEF Clock, BecomeDue, BecomeStale
  <2>9. ASSUME NEW w \in Relays, MarkProcessed(w) \/ MarkProcessedFails(w)
        PROVE  status'[r] = "processed" /\ delivered[r] /\ expired[r]
    BY <2>9, <2>4, <2>6 DEF MarkProcessed, MarkProcessedFails, rowVars
  <2>10. ASSUME NEW w \in Relays, MarkFailed(w) \/ MarkFailedFails(w) PROVE FALSE
    BY <2>10, <2>5, <2>6 DEF MarkFailed, MarkFailedFails, rowVars
  <2> QED
    BY <2>1, <2>2, <2>3, <2>7, <2>8, <2>9, <2>10 DEF Next, Environment, Relay
<1>2. Init => Evidence /\ LiveClaim /\ Exhausted
  BY OutboxAssumption DEF Init, Evidence, LiveClaim, NoLostEvent, ExclusiveClaim, Held, Exhausted
<1> QED
  BY <1>1, <1>2, TypeCorrect, EvidenceStep, LiveClaimStep, ExhaustedStep, PTL
     DEF Spec, DeadLetterKept

-----------------------------------------------------------------------------
(***************************************************************************)
(* The attempt cap counts publishes.  A relay that settles row r carries   *)
(* one publish not yet counted in attempts[r].                             *)
(***************************************************************************)
Settling(r) == {w \in Relays : cur[w] = r}

LEMMA SettlingCount ==
  ASSUME NEW w \in Relays
  PROVE  \A r \in Rows :
           /\ IsFiniteSet(Settling(r)) /\ Cardinality(Settling(r)) \in Nat
           /\ IsFiniteSet(Settling(r) \ {w})
           /\ Cardinality(Settling(r) \ {w}) \in Nat
           /\ Cardinality(Settling(r)) =
                IF cur[w] = r THEN Cardinality(Settling(r) \ {w}) + 1
                              ELSE Cardinality(Settling(r) \ {w})
<1> SUFFICES ASSUME NEW r \in Rows
             PROVE  /\ IsFiniteSet(Settling(r)) /\ Cardinality(Settling(r)) \in Nat
                    /\ IsFiniteSet(Settling(r) \ {w})
                    /\ Cardinality(Settling(r) \ {w}) \in Nat
                    /\ Cardinality(Settling(r)) =
                         IF cur[w] = r THEN Cardinality(Settling(r) \ {w}) + 1
                                       ELSE Cardinality(Settling(r) \ {w})
  OBVIOUS
<1>1. Settling(r) \in SUBSET Relays /\ Settling(r) \ {w} \in SUBSET Relays
  BY DEF Settling
<1>2. IsFiniteSet(Settling(r)) /\ IsFiniteSet(Settling(r) \ {w})
  BY <1>1, FS_Subset, OutboxAssumption
<1>3. Cardinality(Settling(r)) \in Nat /\ Cardinality(Settling(r) \ {w}) \in Nat
  BY <1>2, FS_CardinalityType
<1>4. Cardinality(Settling(r) \ {w}) =
        IF w \in Settling(r) THEN Cardinality(Settling(r)) - 1 ELSE Cardinality(Settling(r))
  BY <1>2, FS_RemoveElement
<1> QED
  BY <1>2, <1>3, <1>4 DEF Settling

(* A step of one relay moves only that relay between the settling sets.    *)
LEMMA SettlingMove ==
  ASSUME TypeOK, NEW w \in Relays, NEW x, cur' = [cur EXCEPT ![w] = x]
  PROVE  \A r \in Rows :
           Cardinality(Settling(r)') = IF x = r THEN Cardinality(Settling(r) \ {w}) + 1
                                                ELSE Cardinality(Settling(r) \ {w})
<1> SUFFICES ASSUME NEW r \in Rows
             PROVE  Cardinality(Settling(r)') = IF x = r THEN Cardinality(Settling(r) \ {w}) + 1
                                                ELSE Cardinality(Settling(r) \ {w})
  OBVIOUS
<1>1. CASE x = r
  <2>1. Settling(r)' = (Settling(r) \ {w}) \cup {w}
    BY <1>1 DEF Settling, TypeOK
  <2>2. Cardinality((Settling(r) \ {w}) \cup {w}) = Cardinality(Settling(r) \ {w}) + 1
    BY SettlingCount, FS_AddElement
  <2> QED
    BY <1>1, <2>1, <2>2
<1>2. CASE x # r
  <2>1. Settling(r)' = Settling(r) \ {w}
    BY <1>2 DEF Settling, TypeOK
  <2> QED
    BY <1>2, <2>1
<1> QED
  BY <1>1, <1>2

(* Every recorded failure of a row is backed by a publish of its own.      *)
THEOREM AttemptsCounted == Spec => []AttemptsAreTries
<1> DEFINE Counted == \A r \in Rows : attempts[r] + Cardinality(Settling(r)) <= tries[r]
<1>0. AttemptsAreTries <=> Counted
  BY DEF AttemptsAreTries, Settling
<1>1. Init => Counted
  <2> SUFFICES ASSUME Init, NEW r \in Rows PROVE attempts[r] + Cardinality(Settling(r)) <= tries[r]
    OBVIOUS
  <2>1. Settling(r) = {}
    BY OutboxAssumption DEF Init, Settling, Rows
  <2> QED
    BY <2>1, FS_EmptySet DEF Init
<1>2. TypeOK /\ Counted /\ [Next]_vars => Counted'
  <2> SUFFICES ASSUME TypeOK, Counted, [Next]_vars PROVE Counted'
    OBVIOUS
  <2>0. \A w \in Relays : phase[w] # "free" => cur[w] \in Rows /\ cur[w] # NoRow
    BY SettlingRow
  <2>N. \A r \in Rows : NoRow # r
    BY OutboxAssumption DEF Rows
  <2>S. ASSUME UNCHANGED <<cur, tries>>, \A r \in Rows : attempts'[r] \in {attempts[r], 0}
        PROVE  Counted'
    <3> SUFFICES ASSUME NEW r \in Rows
                 PROVE  attempts'[r] + Cardinality(Settling(r)') <= tries'[r]
      OBVIOUS
    <3>1. Settling(r)' = Settling(r)
      BY <2>S DEF Settling
    <3>2. Cardinality(Settling(r)) \in Nat
      BY FS_Subset, FS_CardinalityType, OutboxAssumption DEF Settling
    <3>3. attempts[r] \in Nat /\ tries[r] \in Nat /\ tries'[r] = tries[r]
      BY <2>S DEF TypeOK
    <3>4. attempts'[r] \in {attempts[r], 0}
      BY <2>S
    <3>5. attempts[r] + Cardinality(Settling(r)) <= tries[r]
      OBVIOUS
    <3> HIDE DEF Counted
    <3> QED
      BY <3>1, <3>2, <3>3, <3>4, <3>5
  <2>D. ASSUME NEW w \in Relays, cur[w] \in Rows, cur' = [cur EXCEPT ![w] = NoRow],
               UNCHANGED tries,
               attempts' = attempts \/ attempts' = [attempts EXCEPT ![cur[w]] = @ + 1]
        PROVE  Counted'
    <3> SUFFICES ASSUME NEW r \in Rows
                 PROVE  attempts'[r] + Cardinality(Settling(r)') <= tries'[r]
      OBVIOUS
    <3>1. Cardinality(Settling(r)') = Cardinality(Settling(r) \ {w})
      <4>1. cur' = [cur EXCEPT ![w] = NoRow]
        BY <2>D
      <4>2. Cardinality(Settling(r)') = IF NoRow = r THEN Cardinality(Settling(r) \ {w}) + 1
                                                     ELSE Cardinality(Settling(r) \ {w})
        <5> HIDE DEF Counted
        <5> QED
          BY <4>1, SettlingMove
      <4> QED
        BY <4>2, <2>N
    <3>2. /\ Cardinality(Settling(r) \ {w}) \in Nat
          /\ Cardinality(Settling(r)) = IF cur[w] = r THEN Cardinality(Settling(r) \ {w}) + 1
                                                     ELSE Cardinality(Settling(r) \ {w})
      BY SettlingCount
    <3>3. attempts'[r] \in {attempts[r], IF cur[w] = r THEN attempts[r] + 1 ELSE attempts[r]}
      BY <2>D DEF TypeOK
    <3>4. attempts[r] \in Nat /\ tries[r] \in Nat /\ tries'[r] = tries[r]
      BY <2>D DEF TypeOK
    <3>5. attempts[r] + Cardinality(Settling(r)) <= tries[r]
      OBVIOUS
    <3> HIDE DEF Counted
    <3> QED
      BY <3>1, <3>2, <3>3, <3>4, <3>5
  <2>1. ASSUME NEW w \in Relays, PublishOk(w) \/ PublishFails(w) PROVE Counted'
    <3>1. PICK r \in batch[w] : cur' = [cur EXCEPT ![w] = r] /\ tries' = [tries EXCEPT ![r] = @ + 1]
      BY <2>1 DEF PublishOk, PublishFails
    <3>2. r \in Rows /\ attempts' = attempts /\ cur[w] = NoRow
      BY <2>1 DEF PublishOk, PublishFails, rowVars, TypeOK
    <3> SUFFICES ASSUME NEW s \in Rows
                 PROVE  attempts'[s] + Cardinality(Settling(s)') <= tries'[s]
      OBVIOUS
    <3>3. Cardinality(Settling(s)') = IF r = s THEN Cardinality(Settling(s) \ {w}) + 1
                                               ELSE Cardinality(Settling(s) \ {w})
      BY <3>1, SettlingMove
    <3>4. /\ Cardinality(Settling(s) \ {w}) \in Nat
          /\ Cardinality(Settling(s)) = Cardinality(Settling(s) \ {w})
      BY <3>2, <2>N, SettlingCount
    <3>5. /\ attempts[s] \in Nat /\ tries[s] \in Nat /\ attempts'[s] = attempts[s]
          /\ tries'[s] = IF r = s THEN tries[s] + 1 ELSE tries[s]
      BY <3>1, <3>2 DEF TypeOK
    <3>6. attempts[s] + Cardinality(Settling(s)) <= tries[s]
      OBVIOUS
    <3> HIDE DEF Counted
    <3> QED
      BY <3>3, <3>4, <3>5, <3>6
  <2>2. ASSUME NEW w \in Relays, MarkProcessed(w) PROVE Counted'
    BY <2>2, <2>0, <2>D DEF MarkProcessed, SetProcessed, NextRow, history
  <2>3. ASSUME NEW w \in Relays, MarkFailed(w) PROVE Counted'
    BY <2>3, <2>0, <2>D DEF MarkFailed, SetFailed, NextRow, history
  <2>4. ASSUME NEW w \in Relays, MarkFailedFails(w) PROVE Counted'
    BY <2>4, <2>0, <2>D DEF MarkFailedFails, SetFailed, NextRow, rowVars, history
  <2>5. ASSUME NEW w \in Relays, MarkProcessedFails(w) PROVE Counted'
    BY <2>5, <2>S DEF MarkProcessedFails, SetProcessed, rowVars, history
  <2>6. ASSUME NEW w \in Relays, Crash(w) PROVE Counted'
    <3>1. CASE cur[w] \in Rows
      BY <2>6, <3>1, <2>D DEF Crash, rowVars, history
    <3>2. CASE cur[w] = NoRow
      BY <2>6, <3>2, <2>S DEF Crash, rowVars, history, TypeOK
    <3> QED
      BY <3>1, <3>2 DEF TypeOK
  <2>7. ASSUME NEW r \in Rows, ReplayDead(r) PROVE Counted'
    BY <2>7, <2>S DEF ReplayDead, relayVars, history, TypeOK
  <2>8. CASE \/ \E r \in Rows : Enqueue(r)
             \/ Clock
             \/ \E w \in Relays : Claim(w)
             \/ UNCHANGED vars
    BY <2>8, <2>S DEF Enqueue, Clock, BecomeDue, BecomeStale, Claim, vars, rowVars,
                      relayVars, history
  <2> QED
    BY <2>1, <2>2, <2>3, <2>4, <2>5, <2>6, <2>7, <2>8 DEF Next, Environment, Relay
<1> QED
  BY <1>0, <1>1, <1>2, TypeCorrect, PTL DEF Spec
=============================================================================
