--------------------------- MODULE CampaignProofs ---------------------------
(***************************************************************************)
(* Proofs about the campaign, for any audience, any number of concurrent   *)
(* handlers, any batch size and any number of faults and operations.       *)
(***************************************************************************)
EXTENDS Campaign, FiniteSetTheorems, WellFoundedInduction, TLAPS

OutboxStatuses == {"free", "queued", "held", "done"}

-----------------------------------------------------------------------------
(* The jobs of the two handlers are told apart by their names.             *)
LEMMA JobFacts ==
  /\ RunJob \in Jobs
  /\ \A x \in Rows : x[1] \in Jobs /\ x # NoRow
  /\ \A j \in SendJobs :
       /\ j \in Jobs
       /\ j # RunJob
       /\ j[1] \in {"dispatch", "test"}
       /\ j[2] \in Recipients
<1>1. \A j \in SendJobs : j[1] \in {"dispatch", "test"} /\ j[2] \in Recipients
  BY DEF SendJobs
<1>2. RunJob[1] = "run"
  BY DEF RunJob
<1>3. \A x \in Rows : x[1] \in Jobs /\ x # NoRow
  BY CampaignAssumption DEF Rows
<1> QED
  BY <1>1, <1>2, <1>3 DEF Jobs

(* A worker that is not idle handles a row, and a send job has a phone.    *)
LEMMA Handled ==
  ASSUME TypeOK, NEW w \in Workers, pc[w] # "idle"
  PROVE  /\ at[w] \in Rows
         /\ JobOf(w) \in Jobs
         /\ pc[w] \in SendPcs => Phone(w) \in Recipients
<1>1. at[w] \in Rows
  BY DEF TypeOK, Fits
<1>2. JobOf(w) \in Jobs
  BY <1>1, JobFacts DEF JobOf
<1>3. pc[w] \in SendPcs => Phone(w) \in Recipients
  BY JobFacts DEF TypeOK, Fits, Phone
<1> QED
  BY <1>1, <1>2, <1>3

(* A worker that goes on with the next call of its handler.                *)
LEMMA GotoFits ==
  ASSUME TypeOK, NEW w \in Workers, NEW next \in Pcs \ {"idle"},
         pc[w] # "idle", Goto(w, next), UNCHANGED at,
         next \in SendPcs => JobOf(w) \in SendJobs,
         next \in RunPcs => JobOf(w) = RunJob,
         next \in {"gate", "suppress"} => IsFanOut(w)
  PROVE  /\ pc' \in [Workers -> Pcs]
         /\ \A v \in Workers : Fits(v)'
<1>1. pc' \in [Workers -> Pcs]
  BY DEF TypeOK, Goto
<1>2. ASSUME NEW v \in Workers PROVE Fits(v)'
  <2>1. JobOf(v)' = JobOf(v) /\ IsFanOut(v)' = IsFanOut(v)
    BY DEF JobOf, IsFanOut
  <2>2. CASE v = w
    <3>1. pc'[v] = next
      BY <2>2 DEF TypeOK, Goto
    <3> QED
      BY <2>1, <2>2, <3>1 DEF TypeOK, Fits
  <2>3. CASE v # w
    <3>1. pc'[v] = pc[v]
      BY <2>3 DEF TypeOK, Goto
    <3> QED
      BY <2>1, <2>3, <3>1 DEF TypeOK, Fits
  <2> QED
    BY <2>2, <2>3
<1> QED
  BY <1>1, <1>2

(* A worker that lets go of its row is idle and holds nothing.             *)
LEMMA LetGoFits ==
  ASSUME TypeOK, NEW w \in Workers, pc[w] # "idle",
         NEW status \in OutboxStatuses, LetGo(w, status)
  PROVE  /\ outbox' \in [Rows -> OutboxStatuses]
         /\ pc' \in [Workers -> Pcs]
         /\ at' \in [Workers -> Rows \cup {NoRow}]
         /\ batch' \in [Workers -> SUBSET Recipients]
         /\ more' \in [Workers -> BOOLEAN]
         /\ \A v \in Workers : Fits(v)'
<1>1. outbox' \in [Rows -> OutboxStatuses]
  <2>1. (IF status = "done" /\ Holders(at[w]) = {w} THEN "free" ELSE status) \in OutboxStatuses
    BY DEF OutboxStatuses
  <2>2. outbox \in [Rows -> OutboxStatuses]
    BY DEF TypeOK, OutboxStatuses
  <2> QED
    BY <2>1, <2>2 DEF LetGo
<1>2. /\ pc' \in [Workers -> Pcs]
      /\ at' \in [Workers -> Rows \cup {NoRow}]
      /\ batch' \in [Workers -> SUBSET Recipients]
      /\ more' \in [Workers -> BOOLEAN]
  BY DEF TypeOK, LetGo, Goto, Pcs
<1>3. ASSUME NEW v \in Workers PROVE Fits(v)'
  <2>1. CASE v = w
    <3>1. pc'[v] = "idle" /\ at'[v] = NoRow
      BY <2>1 DEF TypeOK, LetGo, Goto
    <3>2. "idle" \notin SendPcs \cup RunPcs \cup {"gate", "suppress"}
      BY DEF SendPcs, RunPcs, Sending, Undoing
    <3> QED
      BY <3>1, <3>2 DEF Fits
  <2>2. CASE v # w
    <3>1. pc'[v] = pc[v] /\ at'[v] = at[v]
      BY <2>2 DEF TypeOK, LetGo, Goto
    <3> QED
      BY <3>1 DEF TypeOK, Fits, JobOf, IsFanOut
  <2> QED
    BY <2>1, <2>2
<1> QED
  BY <1>1, <1>2, <1>3

LEMMA EnqueueType ==
  ASSUME TypeOK, NEW J, Enqueue(J)
  PROVE  outbox' \in [Rows -> OutboxStatuses]
BY DEF TypeOK, Enqueue, OutboxStatuses

LEMMA SetRecipientType ==
  ASSUME TypeOK, NEW w \in Workers, NEW status \in RecipientStatuses,
         SetRecipient(w, status)
  PROVE  rstatus' \in [Recipients -> RecipientStatuses]
BY DEF TypeOK, SetRecipient

-----------------------------------------------------------------------------
(* Every variable keeps its type under every step of the campaign.         *)
LEMMA InitType == Init => TypeOK
<1> SUFFICES ASSUME Init PROVE TypeOK
  OBVIOUS
<1>1. \A w \in Workers : Fits(w)
  BY DEF Init, Fits, SendPcs, RunPcs, Sending, Undoing
<1> QED
  BY <1>1 DEF Init, TypeOK, CampaignStatuses, RecipientStatuses, Pcs

LEMMA HandleType ==
  ASSUME TypeOK, NEW w \in Workers, Handle(w)
  PROVE  TypeOK'
<1>1. CASE Take(w)
  <2>1. PICK x \in Rows :
            /\ outbox[x] = "queued"
            /\ outbox' = [outbox EXCEPT ![x] = "held"]
            /\ at' = [at EXCEPT ![w] = x]
            /\ Goto(w, FirstCall[x[1][1]])
    BY <1>1 DEF Take
  <2> DEFINE first == FirstCall[x[1][1]]
  <2>2. x[1] \in SendJobs \/ x[1] = RunJob
    BY JobFacts DEF Jobs
  <2>3. /\ x[1] = RunJob => x[1][1] = "run"
        /\ x[1] \in SendJobs => x[1][1] \in {"dispatch", "test"} /\ x[1] # RunJob
    BY JobFacts DEF RunJob
  <2>4. \/ x[1] = RunJob /\ first = "rungate"
        \/ x[1] \in SendJobs /\ x[1][1] = "dispatch" /\ first = "gate"
        \/ x[1] \in SendJobs /\ x[1][1] = "test" /\ first = "claim"
    BY <2>2, <2>3 DEF FirstCall
  <2>5. first \in Pcs \ {"idle"}
    BY <2>4 DEF Pcs, SendPcs, RunPcs, Sending, Undoing
  <2>6. /\ first \in SendPcs => x[1] \in SendJobs
        /\ first \in RunPcs => x[1] = RunJob
        /\ first \in {"gate", "suppress"} => x[1][1] = "dispatch"
    BY <2>4 DEF SendPcs, RunPcs, Sending, Undoing
  <2>7. ASSUME NEW v \in Workers PROVE Fits(v)'
    <3>1. CASE v = w
      <4>1. pc'[v] = first /\ at'[v] = x /\ JobOf(v)' = x[1]
        BY <2>1, <3>1 DEF TypeOK, Goto, JobOf
      <4> QED
        BY <2>5, <2>6, <4>1, JobFacts DEF Fits, IsFanOut
    <3>2. CASE v # w
      <4>1. pc'[v] = pc[v] /\ at'[v] = at[v]
        BY <2>1, <3>2 DEF TypeOK, Goto
      <4> QED
        BY <4>1 DEF TypeOK, Fits, JobOf, IsFanOut
    <3> QED
      BY <3>1, <3>2
  <2>8. /\ pc' \in [Workers -> Pcs]
        /\ at' \in [Workers -> Rows \cup {NoRow}]
        /\ outbox' \in [Rows -> {"free", "queued", "held", "done"}]
    BY <2>1, <2>5 DEF TypeOK, Goto
  <2> HIDE DEF first
  <2> QED
    BY <1>1, <2>7, <2>8 DEF Take, TypeOK, domain, worker, gateway, bounds, history, stats
<1>2. CASE RunGate(w)
  <2>1. PICK next \in {"fan", "ack"} : Goto(w, next)
    BY <1>2 DEF RunGate
  <2>2. pc' \in [Workers -> Pcs] /\ \A v \in Workers : Fits(v)'
    BY <1>2, <2>1, GotoFits DEF RunGate, TypeOK, Fits, Pcs, SendPcs, RunPcs, Sending, Undoing
  <2> QED
    BY <1>2, <2>2 DEF RunGate, TypeOK, domain, worker, gateway, bounds, history, stats
<1>3. CASE ClaimBatch(w)
  <2>1. PICK S \in SUBSET Recipients :
            /\ claimed' = [r \in Recipients |-> IF r \in S THEN "fresh" ELSE claimed[r]]
            /\ batch' = [batch EXCEPT ![w] = S]
            /\ more' = [more EXCEPT ![w] = Cardinality(S) = BatchSize]
            /\ Goto(w, IF S = {} THEN "ack" ELSE "eval")
    BY <1>3 DEF ClaimBatch
  <2>2. PICK next \in {"ack", "eval"} : Goto(w, next)
    BY <2>1
  <2>3. pc' \in [Workers -> Pcs] /\ \A v \in Workers : Fits(v)'
    BY <1>3, <2>2, GotoFits DEF ClaimBatch, TypeOK, Fits, Pcs, SendPcs, RunPcs, Sending, Undoing
  <2>4. /\ claimed' \in [Recipients -> {"no", "fresh", "stale"}]
        /\ batch' \in [Workers -> SUBSET Recipients]
        /\ more' \in [Workers -> BOOLEAN]
    BY <2>1 DEF TypeOK
  <2> QED
    BY <1>3, <2>3, <2>4 DEF ClaimBatch, TypeOK, domain, worker, gateway, bounds, history, stats
<1>4. CASE Refuse(w)
  <2>1. PICK r \in batch[w], s \in {"failed", "policy_skipped"} :
            /\ rstatus' = [rstatus EXCEPT ![r] = s]
            /\ batch' = [batch EXCEPT ![w] = @ \ {r}]
    BY <1>4 DEF Refuse
  <2>2. /\ rstatus' \in [Recipients -> RecipientStatuses]
        /\ batch' \in [Workers -> SUBSET Recipients]
    BY <2>1 DEF TypeOK, RecipientStatuses
  <2>3. \A v \in Workers : Fits(v)'
    BY <1>4 DEF Refuse, TypeOK, Fits, JobOf, IsFanOut
  <2> QED
    BY <1>4, <2>2, <2>3 DEF Refuse, TypeOK, domain, worker, gateway, bounds, history, stats
<1>5. CASE FanOut(w)
  <2>1. pc' \in [Workers -> Pcs] /\ \A v \in Workers : Fits(v)'
    BY <1>5, GotoFits DEF FanOut, Pcs, SendPcs, RunPcs, Sending, Undoing
  <2>2. outbox' \in [Rows -> OutboxStatuses]
    BY <1>5, EnqueueType DEF FanOut
  <2>3. batch' \in [Workers -> SUBSET Recipients] /\ more' \in [Workers -> BOOLEAN]
    BY <1>5 DEF FanOut, TypeOK
  <2> QED
    BY <1>5, <2>1, <2>2, <2>3 DEF FanOut, TypeOK, OutboxStatuses, domain, worker, gateway, bounds, history, stats
<1>6. CASE Gate(w)
  <2>1. PICK next \in {"claim", "ack"} : Goto(w, next)
    BY <1>6 DEF Gate
  <2>2. pc' \in [Workers -> Pcs] /\ \A v \in Workers : Fits(v)'
    BY <1>6, <2>1, GotoFits DEF Gate, TypeOK, Fits, Pcs, SendPcs, RunPcs, Sending, Undoing
  <2> QED
    BY <1>6, <2>2 DEF Gate, TypeOK, domain, worker, gateway, bounds, history, stats
<1>7. CASE Defer(w)
  <2>1. pc' \in [Workers -> Pcs] /\ \A v \in Workers : Fits(v)'
    BY <1>7, GotoFits DEF Defer, Pcs, SendPcs, RunPcs, Sending, Undoing
  <2>2. outbox' \in [Rows -> OutboxStatuses]
    BY <1>7, EnqueueType DEF Defer
  <2> QED
    BY <1>7, <2>1, <2>2 DEF Defer, TypeOK, OutboxStatuses, domain, worker, gateway, bounds, history, stats
<1>8. CASE TryClaim(w)
  <2>1. Phone(w) \in Recipients /\ JobOf(w) \in SendJobs
    BY <1>8, Handled DEF TryClaim, TypeOK, Fits, Pcs, SendPcs, RunPcs, Sending, Undoing
  <2>2. PICK next \in {"send", "suppress", "ack"} :
            Goto(w, next) /\ (next = "suppress" => IsFanOut(w))
    BY <1>8 DEF TryClaim
  <2>3. pc' \in [Workers -> Pcs] /\ \A v \in Workers : Fits(v)'
    BY <1>8, <2>1, <2>2, GotoFits DEF TryClaim, Pcs, SendPcs, RunPcs, Sending, Undoing
  <2> QED
    BY <1>8, <2>1, <2>3 DEF TryClaim, TypeOK, domain, worker, gateway, bounds, history, stats
<1>9. CASE Suppress(w)
  <2>1. PICK next \in {"ack"} : Goto(w, next)
    BY <1>9 DEF Suppress, Following
  <2>2. pc' \in [Workers -> Pcs] /\ \A v \in Workers : Fits(v)'
    BY <1>9, <2>1, GotoFits DEF Suppress, TypeOK, Fits, Pcs, SendPcs, RunPcs, Sending, Undoing
  <2>3. rstatus' \in [Recipients -> RecipientStatuses]
    BY <1>9, SetRecipientType DEF Suppress, RecipientStatuses, TypeOK
  <2> QED
    BY <1>9, <2>2, <2>3 DEF Suppress, TypeOK, domain, worker, gateway, bounds, history, stats
<1>10. CASE OverQuota(w)
  <2>1. PICK next \in {"qfail"} : Goto(w, next)
    BY <1>10 DEF OverQuota
  <2>2. pc' \in [Workers -> Pcs] /\ \A v \in Workers : Fits(v)'
    BY <1>10, <2>1, GotoFits DEF OverQuota, TypeOK, Fits, Pcs, SendPcs, RunPcs, Sending, Undoing
  <2> QED
    BY <1>10, <2>2 DEF OverQuota, TypeOK, domain, worker, gateway, bounds, history, stats
<1>11. CASE SendAccepted(w)
  <2>1. PICK next \in {"record"} : Goto(w, next)
    BY <1>11 DEF SendAccepted
  <2>2. pc' \in [Workers -> Pcs] /\ \A v \in Workers : Fits(v)'
    BY <1>11, <2>1, GotoFits DEF SendAccepted, TypeOK, Fits, Pcs, SendPcs, RunPcs, Sending, Undoing
  <2>3. sends' \in [Recipients -> Nat] /\ overrun' \in Nat
    BY <1>11, Handled DEF SendAccepted, CountSend, TypeOK, SendPcs, Sending, Undoing
  <2> QED
    BY <1>11, <2>2, <2>3 DEF SendAccepted, TypeOK, domain, worker, gateway, bounds, history, stats
<1>12. CASE Record(w)
  <2>1. PICK next \in {"publish"} : Goto(w, next)
    BY <1>12 DEF Record, Following
  <2>2. pc' \in [Workers -> Pcs] /\ \A v \in Workers : Fits(v)'
    BY <1>12, <2>1, GotoFits DEF Record, TypeOK, Fits, Pcs, SendPcs, RunPcs, Sending, Undoing
  <2>3. rstatus' \in [Recipients -> RecipientStatuses]
    BY <1>12, SetRecipientType DEF Record, RecipientStatuses, TypeOK
  <2> QED
    BY <1>12, <2>2, <2>3 DEF Record, TypeOK, domain, worker, gateway, bounds, history, stats
<1>13. CASE PublishResult(w)
  <2>1. pc' \in [Workers -> Pcs] /\ \A v \in Workers : Fits(v)'
    BY <1>13, GotoFits DEF PublishResult, TypeOK, Fits, Pcs, SendPcs, RunPcs, Sending, Undoing
  <2>2. results' \in [Recipients -> Nat]
    BY <1>13, Handled DEF PublishResult, Published, TypeOK, SendPcs, Sending, Undoing
  <2> QED
    BY <1>13, <2>1, <2>2 DEF PublishResult, TypeOK, domain, worker, gateway, bounds, history, stats
<1>14. CASE GiveBack(w)
  <2>1. PICK next \in {"fail", "ack"} : Goto(w, next)
    BY <1>14 DEF GiveBack, Following
  <2>2. pc' \in [Workers -> Pcs] /\ \A v \in Workers : Fits(v)'
    BY <1>14, <2>1, GotoFits DEF GiveBack, TypeOK, Fits, Pcs, SendPcs, RunPcs, Sending, Undoing
  <2>3. sendLog' \subseteq Recipients /\ releases' \in [Recipients -> Nat]
    BY <1>14, Handled DEF GiveBack, TypeOK, SendPcs, Sending, Undoing
  <2> QED
    BY <1>14, <2>2, <2>3 DEF GiveBack, TypeOK, domain, worker, gateway, bounds, history, stats
<1>15. CASE MarkFailed(w)
  <2>1. PICK next \in {"nack", "qrelease"} : Goto(w, next)
    BY <1>15 DEF MarkFailed, Following
  <2>2. pc' \in [Workers -> Pcs] /\ \A v \in Workers : Fits(v)'
    BY <1>15, <2>1, GotoFits DEF MarkFailed, TypeOK, Fits, Pcs, SendPcs, RunPcs, Sending, Undoing
  <2>3. rstatus' \in [Recipients -> RecipientStatuses]
    BY <1>15, SetRecipientType DEF MarkFailed, RecipientStatuses, TypeOK
  <2> QED
    BY <1>15, <2>2, <2>3 DEF MarkFailed, TypeOK, domain, worker, gateway, bounds, history, stats
<1>16. CASE Ack(w)
  BY <1>16, LetGoFits DEF Ack, OutboxStatuses, TypeOK, domain, gateway, bounds, history, stats
<1>17. CASE Nack(w)
  BY <1>17, LetGoFits DEF Nack, OutboxStatuses, TypeOK, domain, gateway, bounds, history, stats
<1> QED
  BY <1>1, <1>2, <1>3, <1>4, <1>5, <1>6, <1>7, <1>8, <1>9, <1>10, <1>11, <1>12, <1>13, <1>14, <1>15, <1>16, <1>17 DEF Handle

LEMMA DisturbType ==
  ASSUME TypeOK, NEW w \in Workers, Disturb(w)
  PROVE  TypeOK'
<1>1. CASE Crash(w)
  <2>1. outbox[at[w]] \in OutboxStatuses
    BY <1>1, Handled DEF Crash, TypeOK, OutboxStatuses
  <2> QED
    BY <1>1, <2>1, LetGoFits DEF Crash, Fault, OutboxStatuses, TypeOK, domain, gateway, history, stats
<1>2. CASE RunThrows(w)
  <2>1. pc' \in [Workers -> Pcs] /\ \A v \in Workers : Fits(v)'
    BY <1>2, GotoFits DEF RunThrows, Pcs, SendPcs, RunPcs, Sending, Undoing
  <2> QED
    BY <1>2, <2>1 DEF RunThrows, Fault, TypeOK, domain, worker, gateway, bounds, history, stats
<1>3. CASE ThrowsUnclaimed(w)
  <2>1. pc' \in [Workers -> Pcs] /\ \A v \in Workers : Fits(v)'
    BY <1>3, GotoFits DEF ThrowsUnclaimed, Pcs, SendPcs, RunPcs, Sending, Undoing
  <2>2. sendLog' \subseteq Recipients
    BY <1>3, Handled DEF ThrowsUnclaimed, TypeOK, SendPcs
  <2> QED
    BY <1>3, <2>1, <2>2 DEF ThrowsUnclaimed, Fault, TypeOK, domain, worker, gateway, bounds, history, stats
<1>4. CASE Throws(w)
  <2>1. pc' \in [Workers -> Pcs] /\ \A v \in Workers : Fits(v)'
    BY <1>4, GotoFits DEF Throws, TypeOK, Fits, Pcs, SendPcs, RunPcs, Sending, Undoing
  <2>2. sends' \in [Recipients -> Nat] /\ overrun' \in Nat
    BY <1>4, Handled DEF Throws, CountSend, TypeOK, SendPcs, Sending
  <2>3. results' \in [Recipients -> Nat]
    BY <1>4, Handled DEF Throws, Published, TypeOK, SendPcs, Sending
  <2> QED
    BY <1>4, <2>1, <2>2, <2>3 DEF Throws, Fault, TypeOK, domain, worker, gateway, bounds, history, stats
<1>5. CASE WriteSwallowed(w)
  <2>1. PICK next \in {"fail", "ack", "nack", "qrelease"} :
            Goto(w, next) /\ (next \in {"fail", "qrelease"} => pc[w] \in Undoing)
    BY <1>5 DEF WriteSwallowed, Following, Undoing
  <2>2. JobOf(w) \in SendJobs /\ pc[w] # "idle"
    BY <1>5 DEF WriteSwallowed, TypeOK, Fits, Pcs, SendPcs, RunPcs, Sending, Undoing
  <2>3. pc' \in [Workers -> Pcs] /\ \A v \in Workers : Fits(v)'
    BY <1>5, <2>1, <2>2, GotoFits DEF WriteSwallowed, Pcs, SendPcs, RunPcs, Sending, Undoing
  <2> QED
    BY <1>5, <2>3 DEF WriteSwallowed, Fault, TypeOK, domain, worker, gateway, bounds, history, stats
<1> QED
  BY <1>1, <1>2, <1>3, <1>4, <1>5 DEF Disturb

(* What the gateway does leaves the workers alone.                         *)
LEMMA SameFits ==
  ASSUME TypeOK, UNCHANGED <<pc, at>>
  PROVE  \A v \in Workers : Fits(v)'
BY DEF TypeOK, Fits, JobOf, IsFanOut

LEMMA GatewayType ==
  ASSUME TypeOK,
         \/ \E x \in Rows : RowGoesStale(x)
         \/ \E r \in Recipients : ClaimGoesStale(r)
         \/ \E s \in Starters : Starter(s)
         \/ Operator \/ CancelPending \/ CancelDies \/ Complete
  PROVE  TypeOK'
<1>1. ASSUME NEW x \in Rows, RowGoesStale(x) PROVE TypeOK'
  <2>1. faults' \in Nat /\ ops' = ops /\ delays' = delays
    BY <1>1 DEF RowGoesStale, Fault, bounds, TypeOK
  <2>2. outbox' \in [Rows -> {"free", "queued", "held", "done"}]
    BY <1>1 DEF RowGoesStale, TypeOK
  <2> QED
    BY <1>1, <2>1, <2>2, SameFits DEF RowGoesStale, TypeOK, domain, worker, gateway, history, stats
<1>2. ASSUME NEW r \in Recipients, ClaimGoesStale(r) PROVE TypeOK'
  <2>1. claimed' \in [Recipients -> {"no", "fresh", "stale"}] /\ delays' \in Nat
    BY <1>2 DEF ClaimGoesStale, TypeOK
  <2> QED
    BY <1>2, <2>1, SameFits DEF ClaimGoesStale, TypeOK, worker, gateway, history, stats
<1>3. ASSUME NEW s \in Starters, Starter(s) PROVE TypeOK'
  <2>1. CASE StartReads(s)
    BY <2>1, SameFits DEF StartReads, TypeOK, domain, worker, gateway, bounds, history, stats
  <2>2. CASE StartInserts(s)
    <3>1. rstatus' \in [Recipients -> RecipientStatuses]
      BY <2>2 DEF StartInserts, TypeOK, RecipientStatuses
    <3> QED
      BY <2>2, <3>1, SameFits DEF StartInserts, TypeOK, worker, bounds, history, stats
  <2>3. CASE StartFlips(s)
    <3>1. start' \in [Starters -> {"idle", "insert", "flip"}]
      BY <2>3 DEF StartFlips, TypeOK
    <3>2. /\ cstatus' \in CampaignStatuses
          /\ outbox' \in [Rows -> OutboxStatuses]
          /\ overrun' \in Nat
          /\ UNCHANGED <<sends, releases, results, tally, recounted>>
      <4>1. CASE cstatus \in StartsFrom(s)
        BY <2>3, <4>1, EnqueueType DEF StartFlips, SetStatus, stats, TypeOK, CampaignStatuses
      <4>2. CASE cstatus \notin StartsFrom(s)
        BY <2>3, <4>2 DEF StartFlips, TypeOK, history, stats, OutboxStatuses
      <4> QED
        BY <4>1, <4>2
    <3> QED
      BY <2>3, <3>1, <3>2, SameFits DEF StartFlips, TypeOK, OutboxStatuses, worker, bounds
  <2>4. CASE StartStops(s)
    BY <2>4, SameFits DEF StartStops, TypeOK, domain, worker, gateway, bounds, history, stats
  <2> QED
    BY <1>3, <2>1, <2>2, <2>3, <2>4 DEF Starter
<1>4. CASE Operator
  <2>1. CASE Pause
    BY <2>1, SameFits DEF Pause, SetStatus, stats, TypeOK, CampaignStatuses, worker, gateway
  <2>2. CASE Resume
    <3>1. outbox' \in [Rows -> OutboxStatuses]
      BY <2>2, EnqueueType DEF Resume
    <3> QED
      BY <2>2, <3>1, SameFits DEF Resume, SetStatus, stats, TypeOK, CampaignStatuses, OutboxStatuses,
                                  worker, gateway, bounds
  <2>3. CASE Cancel
    BY <2>3, SameFits DEF Cancel, SetStatus, stats, TypeOK, CampaignStatuses, worker, bounds
  <2>4. ASSUME NEW r \in Recipients, Test(r) PROVE TypeOK'
    <3>1. outbox' \in [Rows -> OutboxStatuses]
      BY <2>4, EnqueueType DEF Test
    <3> QED
      BY <2>4, <3>1, SameFits DEF Test, SetStatus, stats, TypeOK, CampaignStatuses, OutboxStatuses,
                                  worker, gateway
  <2> QED
    BY <1>4, <2>1, <2>2, <2>3, <2>4 DEF Operator
<1>5. CASE CancelPending
  <2>1. rstatus' \in [Recipients -> RecipientStatuses]
    BY <1>5 DEF CancelPending, TypeOK, RecipientStatuses
  <2> QED
    BY <1>5, <2>1, SameFits DEF CancelPending, TypeOK, worker, bounds, history, stats
<1>6. CASE CancelDies
  <2>1. faults' \in Nat
    BY <1>6 DEF CancelDies, Fault, TypeOK
  <2>2. ops' = ops /\ delays' = delays /\ cancelling' = FALSE
    BY <1>6 DEF CancelDies, Fault
  <2> QED
    BY <1>6, <2>1, <2>2, SameFits DEF CancelDies, TypeOK, domain, worker, history, stats
<1>7. CASE Complete
  BY <1>7, SameFits DEF Complete, SetStatus, stats, TypeOK, CampaignStatuses, worker, gateway, bounds
<1> QED
  BY <1>1, <1>2, <1>3, <1>4, <1>5, <1>6, <1>7

LEMMA ConsumeType ==
  ASSUME TypeOK, NEW r \in Recipients, Consume(r)
  PROVE  TypeOK'
<1>1. /\ results' \in [Recipients -> Nat]
      /\ tally' \in [Recipients -> Nat]
      /\ recounted' \in [Recipients -> Nat]
  BY DEF Consume, RecordResult, ResultComesAgain, ResultDeadLettered, Count, TypeOK
<1>2. faults' \in Nat /\ ops' = ops /\ delays' = delays
  BY DEF Consume, RecordResult, ResultComesAgain, ResultDeadLettered, Fault, bounds, TypeOK
<1>3. ResultOnly
  BY DEF Consume, RecordResult, ResultComesAgain, ResultDeadLettered
<1> QED
  BY <1>1, <1>2, <1>3, SameFits DEF ResultOnly, TypeOK, domain, worker, gateway

LEMMA TypeStep ==
  ASSUME TypeOK, [Next]_vars
  PROVE  TypeOK'
<1>1. CASE UNCHANGED vars
  BY <1>1, SameFits DEF vars, domain, worker, gateway, bounds, history, stats, TypeOK
<1>2. CASE Next
  BY <1>2, HandleType, DisturbType, GatewayType, ConsumeType DEF Next
<1> QED
  BY <1>1, <1>2

(* Every variable of the campaign keeps its type, whatever is redelivered, *)
(* thrown or stopped, and a handler's position always fits its event.      *)
THEOREM TypeCorrect == Spec => []TypeOK
BY InitType, TypeStep, PTL DEF Spec

-----------------------------------------------------------------------------
(***************************************************************************)
(* The send log as a lock, and the books kept under it.  SendsAccounted is *)
(* not inductive alone: a handler about to send must know that the phone's *)
(* last send was paid for, one about to report that its send is not in the *)
(* statistics yet; both are safe because it holds the phone's claim alone. *)
(***************************************************************************)
Books ==
    /\ SendsAccounted
    /\ \A w \in Workers : \A r \in Recipients :
         /\ pc[w] = "send" /\ Phone(w) = r => sends[r] <= releases[r]
         /\ pc[w] \in {"record", "publish"} /\ Phone(w) = r =>
              /\ sends[r] > 0
              /\ tally[r] + results[r] < sends[r] + recounted[r]

(* What a worker may do without opening or using a claim of its own.       *)
QuietMove(v) ==
    \/ pc'[v] = pc[v] /\ at'[v] = at[v]
    \/ pc'[v] \notin Sending \cup Undoing
    \/ /\ at'[v] = at[v]
       /\ \/ pc[v] \in Sending \cup Undoing /\ pc'[v] \in Undoing
          \/ pc[v] = "record" /\ pc'[v] = "publish"

QuietStep ==
    /\ UNCHANGED <<sendLog, sends, releases, stats>>
    /\ \A v \in Workers : QuietMove(v)

(* A call of one handler moves that handler only.                          *)
LEMMA OnlyMover ==
  ASSUME TypeOK, NEW w \in Workers, NEW next, Goto(w, next), UNCHANGED at
  PROVE  /\ pc'[w] = next
         /\ \A v \in Workers : v # w => pc'[v] = pc[v]
         /\ \A v \in Workers : Phone(v)' = Phone(v) /\ IsFanOut(v)' = IsFanOut(v)
BY DEF TypeOK, Goto, Phone, JobOf, IsFanOut

LEMMA OnlyLetter ==
  ASSUME TypeOK, NEW w \in Workers, NEW status, LetGo(w, status)
  PROVE  /\ pc'[w] = "idle"
         /\ \A v \in Workers : v # w => /\ pc'[v] = pc[v] /\ at'[v] = at[v]
                                        /\ Phone(v)' = Phone(v)
                                        /\ IsFanOut(v)' = IsFanOut(v)
BY DEF TypeOK, LetGo, Goto, Phone, JobOf, IsFanOut

LEMMA QuietKeeps ==
  ASSUME TypeOK, TypeOK', OneSender, Books, QuietStep
  PROVE  OneSender' /\ Books'
<1>1. \A v \in Workers, r \in Recipients : Claims(v, r)' => Claims(v, r)
  BY DEF QuietStep, QuietMove, Claims, Phone, JobOf, Sending, Undoing
<1>2. OneSender'
  BY <1>1 DEF OneSender, QuietStep
<1>3. SendsAccounted'
  BY DEF Books, SendsAccounted, QuietStep, stats
<1>4. ASSUME NEW w \in Workers, NEW r \in Recipients
      PROVE  /\ pc'[w] = "send" /\ Phone(w)' = r => pc[w] = "send" /\ Phone(w) = r
             /\ pc'[w] \in {"record", "publish"} /\ Phone(w)' = r =>
                  pc[w] \in {"record", "publish"} /\ Phone(w) = r
  BY DEF QuietStep, QuietMove, Phone, JobOf, Sending, Undoing
<1>5. Books'
  BY <1>3, <1>4 DEF Books, QuietStep, stats
<1> QED
  BY <1>2, <1>5

(* Every step but the claim, the send, its report and the release.         *)
LEMMA QuietHandle ==
  ASSUME TypeOK, NEW w \in Workers,
         \/ Take(w) \/ RunGate(w) \/ ClaimBatch(w) \/ Refuse(w) \/ FanOut(w)
         \/ Gate(w) \/ Defer(w) \/ Suppress(w) \/ OverQuota(w) \/ Record(w)
         \/ MarkFailed(w) \/ Ack(w) \/ Nack(w)
         \/ Crash(w) \/ RunThrows(w) \/ WriteSwallowed(w)
  PROVE  QuietStep
<1>1. CASE Take(w)
  <2>1. PICK x \in Rows : at' = [at EXCEPT ![w] = x] /\ Goto(w, FirstCall[x[1][1]])
    BY <1>1 DEF Take
  <2>2. x[1][1] \in {"run", "dispatch", "test"}
    BY JobFacts DEF Jobs, RunJob
  <2>3. pc'[w] \in {"rungate", "gate", "claim"}
    BY <2>1, <2>2 DEF TypeOK, Goto, FirstCall
  <2>4. \A v \in Workers : v # w => pc'[v] = pc[v] /\ at'[v] = at[v]
    BY <2>1 DEF TypeOK, Goto
  <2> QED
    BY <1>1, <2>3, <2>4 DEF Take, QuietStep, QuietMove, domain, history, stats, Sending, Undoing
<1>2. CASE RunGate(w)
  <2>1. PICK next \in {"fan", "ack"} : Goto(w, next)
    BY <1>2 DEF RunGate
  <2> QED
    BY <1>2, <2>1, OnlyMover DEF RunGate, QuietStep, QuietMove, domain, history, stats, Sending, Undoing
<1>3. CASE ClaimBatch(w)
  <2>1. PICK next \in {"ack", "eval"} : Goto(w, next)
    BY <1>3 DEF ClaimBatch
  <2> QED
    BY <1>3, <2>1, OnlyMover DEF ClaimBatch, QuietStep, QuietMove, domain, history, stats, Sending, Undoing
<1>4. CASE Refuse(w)
  BY <1>4 DEF Refuse, QuietStep, QuietMove, history, stats
<1>5. CASE FanOut(w)
  <2>1. PICK next \in {"ack"} : Goto(w, next)
    BY <1>5 DEF FanOut
  <2> QED
    BY <1>5, <2>1, OnlyMover DEF FanOut, QuietStep, QuietMove, domain, history, stats, Sending, Undoing
<1>6. CASE Gate(w)
  <2>1. PICK next \in {"claim", "ack"} : Goto(w, next)
    BY <1>6 DEF Gate
  <2> QED
    BY <1>6, <2>1, OnlyMover DEF Gate, QuietStep, QuietMove, domain, history, stats, Sending, Undoing
<1>7. CASE Defer(w)
  <2>1. PICK next \in {"ack"} : Goto(w, next)
    BY <1>7 DEF Defer
  <2> QED
    BY <1>7, <2>1, OnlyMover DEF Defer, QuietStep, QuietMove, domain, history, stats, Sending, Undoing
<1>8. CASE Suppress(w)
  <2>1. PICK next \in {"ack"} : Goto(w, next)
    BY <1>8 DEF Suppress
  <2> QED
    BY <1>8, <2>1, OnlyMover DEF Suppress, QuietStep, QuietMove, domain, history, stats, Sending, Undoing
<1>9. CASE OverQuota(w)
  <2>1. PICK next \in {"qfail"} : Goto(w, next)
    BY <1>9 DEF OverQuota
  <2> QED
    BY <1>9, <2>1, OnlyMover DEF OverQuota, QuietStep, QuietMove, domain, history, stats, Sending, Undoing
<1>10. CASE Record(w)
  <2>1. PICK next \in {"publish"} : Goto(w, next)
    BY <1>10 DEF Record
  <2> QED
    BY <1>10, <2>1, OnlyMover DEF Record, QuietStep, QuietMove, domain, history, stats, Sending, Undoing
<1>11. CASE MarkFailed(w)
  <2>1. PICK next \in {"nack", "qrelease"} :
            Goto(w, next) /\ (next = "qrelease" => pc[w] = "qfail")
    BY <1>11 DEF MarkFailed, Following
  <2> QED
    BY <1>11, <2>1, OnlyMover DEF MarkFailed, QuietStep, QuietMove, domain, history, stats, Sending, Undoing
<1>12. CASE Ack(w)
  BY <1>12, OnlyLetter DEF Ack, QuietStep, QuietMove, domain, history, stats, Sending, Undoing
<1>13. CASE Nack(w)
  BY <1>13, OnlyLetter DEF Nack, QuietStep, QuietMove, domain, history, stats, Sending, Undoing
<1>14. CASE Crash(w)
  BY <1>14, OnlyLetter DEF Crash, QuietStep, QuietMove, domain, history, stats, Sending, Undoing
<1>15. CASE RunThrows(w)
  <2>1. PICK next \in {"nack"} : Goto(w, next)
    BY <1>15 DEF RunThrows
  <2> QED
    BY <1>15, <2>1, OnlyMover DEF RunThrows, QuietStep, QuietMove, domain, history, stats, Sending, Undoing
<1>16. CASE WriteSwallowed(w)
  <2>1. PICK next \in {"fail", "ack", "nack", "qrelease"} :
            Goto(w, next) /\ (next = "qrelease" => pc[w] = "qfail")
    BY <1>16 DEF WriteSwallowed, Following, Undoing
  <2> QED
    BY <1>16, <2>1, OnlyMover DEF WriteSwallowed, QuietStep, QuietMove, domain, history, stats, Sending, Undoing
<1> QED
  BY <1>1, <1>2, <1>3, <1>4, <1>5, <1>6, <1>7, <1>8, <1>9, <1>10, <1>11, <1>12, <1>13, <1>14, <1>15, <1>16

(* The gateway's requests and timers touch neither handlers nor the send   *)
(* log nor its counters.                                                   *)
LEMMA GatewayStays ==
  ASSUME TypeOK,
         \/ \E x \in Rows : RowGoesStale(x)
         \/ \E r \in Recipients : ClaimGoesStale(r)
         \/ \E s \in Starters : Starter(s)
         \/ Operator \/ CancelPending \/ CancelDies \/ Complete
  PROVE  UNCHANGED <<pc, at, sendLog, sends, releases, stats>>
<1>1. CASE \E s \in Starters : Starter(s)
  BY <1>1 DEF Starter, StartReads, StartInserts, StartFlips, StartStops, SetStatus,
              domain, worker, history, stats
<1>2. CASE Operator
  BY <1>2 DEF Operator, Pause, Resume, Cancel, Test, SetStatus, domain, worker, history, stats
<1>3. CASE CancelPending \/ CancelDies \/ Complete
  BY <1>3 DEF CancelPending, CancelDies, Complete, SetStatus, domain, worker, history, stats
<1>4. CASE (\E x \in Rows : RowGoesStale(x)) \/ (\E r \in Recipients : ClaimGoesStale(r))
  BY <1>4 DEF RowGoesStale, ClaimGoesStale, domain, worker, history, stats
<1> QED
  BY <1>1, <1>2, <1>3, <1>4

LEMMA QuietGateway ==
  ASSUME TypeOK,
         \/ \E x \in Rows : RowGoesStale(x)
         \/ \E r \in Recipients : ClaimGoesStale(r)
         \/ \E s \in Starters : Starter(s)
         \/ Operator \/ CancelPending \/ CancelDies \/ Complete
  PROVE  QuietStep
BY GatewayStays DEF QuietStep, QuietMove

(* The steps that open a claim, use it, report it or give it back.         *)
LEMMA LockStep ==
  ASSUME TypeOK, TypeOK', OneSender, Books, NEW w \in Workers,
         \/ TryClaim(w) \/ ThrowsUnclaimed(w) \/ SendAccepted(w)
         \/ Throws(w) \/ PublishResult(w) \/ GiveBack(w)
  PROVE  OneSender' /\ Books'
<1> DEFINE p == Phone(w)
<1>0. pc[w] \in SendPcs /\ p \in Recipients
  BY Handled DEF TryClaim, ThrowsUnclaimed, SendAccepted, Throws, PublishResult, GiveBack,
                 SendPcs, RunPcs, Sending, Undoing, TypeOK, Fits
<1>1. \A v \in Workers : v # w =>
        /\ pc'[v] = pc[v]
        /\ Phone(v)' = Phone(v)
  BY OnlyMover DEF TryClaim, ThrowsUnclaimed, SendAccepted, Throws, PublishResult, GiveBack
<1>2. Phone(w)' = p
  BY OnlyMover DEF TryClaim, ThrowsUnclaimed, SendAccepted, Throws, PublishResult, GiveBack
<1>3. ASSUME NEW v \in Workers, Claims(w, p), Claims(v, p) PROVE v = w
  BY <1>0, <1>3 DEF OneSender
<1>4. /\ sends \in [Recipients -> Nat] /\ releases \in [Recipients -> Nat]
      /\ results \in [Recipients -> Nat] /\ tally \in [Recipients -> Nat]
      /\ recounted \in [Recipients -> Nat]
  BY DEF TypeOK
<1> HIDE DEF p
<1>5. CASE TryClaim(w)
  <2>1. /\ sendLog' = sendLog \cup {p}
        /\ pc'[w] \in {"send", "suppress", "ack"}
        /\ pc'[w] = "send" => p \notin sendLog
        /\ UNCHANGED <<sends, releases, results, tally, recounted>>
    BY <1>5, OnlyMover DEF TryClaim, history, stats, p
  <2>2. \A v \in Workers : \A r \in Recipients :
          Claims(v, r)' => Claims(v, r) \/ (v = w /\ r = p /\ p \notin sendLog)
    BY <1>1, <1>2, <2>1 DEF Claims, Sending, Undoing
  <2>3. OneSender'
    BY <2>1, <2>2 DEF OneSender
  <2>4. SendsAccounted'
    BY <1>4, <2>1 DEF Books, SendsAccounted
  <2>5. p \notin sendLog => sends[p] <= releases[p]
    BY <1>0, <1>4 DEF Books, SendsAccounted
  <2> QED
    BY <1>1, <1>2, <2>1, <2>3, <2>4, <2>5 DEF Books
<1>6. CASE ThrowsUnclaimed(w)
  <2>1. /\ sendLog \subseteq sendLog'
        /\ pc'[w] = "nack"
        /\ UNCHANGED <<sends, releases, results, tally, recounted>>
    BY <1>6, OnlyMover DEF ThrowsUnclaimed, history, stats
  <2>2. \A v \in Workers : \A r \in Recipients : Claims(v, r)' => Claims(v, r)
    BY <1>1, <1>2, <2>1 DEF Claims, Sending, Undoing
  <2>3. OneSender'
    BY <2>1, <2>2 DEF OneSender
  <2>4. SendsAccounted'
    BY <1>4, <2>1 DEF Books, SendsAccounted
  <2> QED
    BY <1>1, <1>2, <2>1, <2>3, <2>4 DEF Books
<1>7. CASE SendAccepted(w) \/ Throws(w)
  <2>1. /\ pc[w] \in Sending
        /\ pc'[w] \in {"record", "release"}
        /\ \/ UNCHANGED sends /\ pc'[w] = "release"
           \/ pc[w] = "send" /\ sends' = [sends EXCEPT ![p] = @ + 1]
        /\ \/ UNCHANGED results
           \/ /\ pc[w] = "publish" /\ pc'[w] = "release"
              /\ results' = [results EXCEPT ![p] = @ + 1]
        /\ UNCHANGED <<sendLog, releases, tally, recounted>>
    BY <1>7, OnlyMover DEF SendAccepted, Throws, CountSend, Published, domain, history, stats,
                            Sending, p
  <2>2. Claims(w, p) /\ p \in sendLog
    BY <1>0, <2>1 DEF Claims, OneSender, p
  <2>3. \A v \in Workers : \A r \in Recipients : Claims(v, r)' => Claims(v, r)
    BY <1>1, <1>2, <2>1, <2>2 DEF Claims, Sending, Undoing
  <2>4. OneSender'
    BY <2>1, <2>3 DEF OneSender
  <2>5. /\ pc[w] = "send" => sends[p] <= releases[p]
        /\ tally[p] + results[p] <= sends[p] + recounted[p]
        /\ pc[w] = "publish" => sends[p] > 0 /\ tally[p] + results[p] < sends[p] + recounted[p]
    BY <1>0 DEF Books, SendsAccounted, p
  <2>6. SendsAccounted'
    BY <1>0, <1>4, <2>1, <2>2, <2>5 DEF Books, SendsAccounted
  <2>7. \A v \in Workers : v # w /\ pc[v] \in Sending => Phone(v) # p
    BY <1>3, <2>2 DEF Claims
  <2>8. ASSUME NEW v \in Workers, NEW r \in Recipients
        PROVE  /\ pc'[v] = "send" /\ Phone(v)' = r => sends'[r] <= releases'[r]
               /\ pc'[v] \in {"record", "publish"} /\ Phone(v)' = r =>
                    /\ sends'[r] > 0
                    /\ tally'[r] + results'[r] < sends'[r] + recounted'[r]
    <3>1. CASE v = w
      BY <1>0, <1>2, <1>4, <2>1, <2>5, <3>1
    <3>2. CASE v # w
      BY <1>1, <1>4, <2>1, <2>7, <3>2 DEF Books, Sending
    <3> QED
      BY <3>1, <3>2
  <2> QED
    BY <2>4, <2>6, <2>8 DEF Books
<1>8. CASE PublishResult(w)
  <2>1. /\ pc[w] = "publish" /\ pc'[w] = "ack"
        /\ results' = [results EXCEPT ![p] = @ + 1]
        /\ UNCHANGED <<sendLog, sends, releases, tally, recounted>>
    BY <1>8, OnlyMover DEF PublishResult, Published, domain, p
  <2>2. Claims(w, p) /\ sends[p] > 0 /\ tally[p] + results[p] < sends[p] + recounted[p]
    BY <1>0, <2>1 DEF Claims, Sending, Books, p
  <2>3. \A v \in Workers : \A r \in Recipients : Claims(v, r)' => Claims(v, r)
    BY <1>1, <1>2, <2>1 DEF Claims, Sending, Undoing
  <2>4. OneSender'
    BY <2>1, <2>3 DEF OneSender
  <2>5. SendsAccounted'
    BY <1>0, <1>4, <2>1, <2>2 DEF Books, SendsAccounted
  <2>6. \A v \in Workers : v # w /\ pc[v] \in Sending => Phone(v) # p
    BY <1>3, <2>2 DEF Claims
  <2>7. ASSUME NEW v \in Workers, NEW r \in Recipients
        PROVE  /\ pc'[v] = "send" /\ Phone(v)' = r => sends'[r] <= releases'[r]
               /\ pc'[v] \in {"record", "publish"} /\ Phone(v)' = r =>
                    /\ sends'[r] > 0
                    /\ tally'[r] + results'[r] < sends'[r] + recounted'[r]
    BY <1>1, <1>4, <2>1, <2>6 DEF Books, Sending
  <2> QED
    BY <2>4, <2>5, <2>7 DEF Books
<1>9. CASE GiveBack(w)
  <2>1. /\ pc[w] \in Undoing /\ pc'[w] \in {"fail", "ack"}
        /\ sendLog' = sendLog \ {p}
        /\ releases' = [releases EXCEPT ![p] = @ + 1]
        /\ UNCHANGED <<sends, results, tally, recounted>>
    BY <1>9, OnlyMover DEF GiveBack, Following, Undoing, stats, p
  <2>2. Claims(w, p)
    BY <2>1 DEF Claims, p
  <2>3. \A v \in Workers : \A r \in Recipients : Claims(v, r)' => Claims(v, r) /\ r # p
    <3>1. ASSUME NEW v \in Workers, NEW r \in Recipients, Claims(v, r)'
          PROVE  v # w /\ Claims(v, r)
      BY <1>1, <1>2, <2>1, <3>1 DEF Claims, Sending, Undoing
    <3> QED
      BY <1>3, <2>2, <3>1
  <2>4. OneSender'
    BY <2>1, <2>3 DEF OneSender
  <2>5. SendsAccounted'
    BY <1>0, <1>4, <2>1 DEF Books, SendsAccounted
  <2>6. ASSUME NEW v \in Workers, NEW r \in Recipients
        PROVE  /\ pc'[v] = "send" /\ Phone(v)' = r => sends'[r] <= releases'[r]
               /\ pc'[v] \in {"record", "publish"} /\ Phone(v)' = r =>
                    /\ sends'[r] > 0
                    /\ tally'[r] + results'[r] < sends'[r] + recounted'[r]
    BY <1>0, <1>1, <1>4, <2>1 DEF Books
  <2> QED
    BY <2>4, <2>5, <2>6 DEF Books
<1> QED
  BY <1>5, <1>6, <1>7, <1>8, <1>9

(* What the consumer of the results does leaves the claims alone, and      *)
(* counts a result twice only where recounted says so.                     *)
LEMMA ConsumeStays ==
  ASSUME NEW r \in Recipients, Consume(r)
  PROVE  UNCHANGED <<cstatus, rstatus, pc, at, sendLog, sends, releases, overrun>>
BY DEF Consume, RecordResult, ResultComesAgain, ResultDeadLettered, ResultOnly, domain, worker

LEMMA ConsumeKeeps ==
  ASSUME TypeOK, OneSender, Books, NEW q \in Recipients, Consume(q)
  PROVE  OneSender' /\ Books'
<1>1. UNCHANGED <<pc, at, sendLog, sends, releases>>
  BY ConsumeStays
<1>2. \A v \in Workers : Phone(v)' = Phone(v) /\ pc'[v] = pc[v]
  BY <1>1 DEF Phone, JobOf
<1>3. OneSender'
  BY <1>1, <1>2 DEF OneSender, Claims
<1>4. ASSUME NEW r \in Recipients
      PROVE  /\ tally[r] \in Nat /\ results[r] \in Nat /\ recounted[r] \in Nat /\ sends[r] \in Nat
             /\ tally'[r] \in Nat /\ results'[r] \in Nat /\ recounted'[r] \in Nat
             /\ tally'[r] + results'[r] + recounted[r] <= tally[r] + results[r] + recounted'[r]
  <2>1. TypeOK'
    BY ConsumeType
  <2>2. /\ tally[r] \in Nat /\ results[r] \in Nat /\ recounted[r] \in Nat /\ sends[r] \in Nat
        /\ tally'[r] \in Nat /\ results'[r] \in Nat /\ recounted'[r] \in Nat
    BY <2>1 DEF TypeOK
  <2>3. CASE RecordResult(q)
    BY <2>2, <2>3 DEF RecordResult, Count, TypeOK
  <2>4. CASE ResultComesAgain(q)
    BY <2>2, <2>4 DEF ResultComesAgain, Count, TypeOK
  <2>5. CASE ResultDeadLettered(q)
    BY <2>2, <2>5 DEF ResultDeadLettered, TypeOK
  <2> QED
    BY <2>2, <2>3, <2>4, <2>5 DEF Consume
<1>5. SendsAccounted'
  BY <1>1, <1>4 DEF Books, SendsAccounted
<1>6. Books'
  BY <1>1, <1>2, <1>4, <1>5 DEF Books
<1> QED
  BY <1>3, <1>6

LEMMA LockInit == Init => OneSender /\ Books
<1> SUFFICES ASSUME Init PROVE OneSender /\ Books
  OBVIOUS
<1>1. \A w \in Workers : pc[w] = "idle"
  BY DEF Init
<1>2. OneSender
  BY <1>1 DEF OneSender, Claims, Sending, Undoing
<1>3. SendsAccounted
  BY DEF Init, SendsAccounted
<1> QED
  BY <1>1, <1>2, <1>3 DEF Books

LEMMA LockNext ==
  ASSUME TypeOK, TypeOK', OneSender, Books, [Next]_vars
  PROVE  OneSender' /\ Books'
<1>1. CASE UNCHANGED vars
  BY <1>1, QuietKeeps DEF QuietStep, QuietMove, vars, domain, worker, history, stats
<1>2. ASSUME NEW w \in Workers, Handle(w) \/ Disturb(w) PROVE OneSender' /\ Books'
  BY <1>2, QuietHandle, QuietKeeps, LockStep DEF Handle, Disturb
<1>3. CASE Next
  BY <1>2, <1>3, QuietGateway, QuietKeeps, ConsumeKeeps DEF Next
<1> QED
  BY <1>1, <1>3

(* However often its event is redelivered, whatever throws or crashes, at  *)
(* most one handler is between claiming a phone and giving it back, and    *)
(* the phone is in the log meanwhile.                                      *)
THEOREM SendLogIsALock == Spec => []OneSender
BY InitType, LockInit, TypeStep, LockNext, PTL DEF Spec

(* Sends beyond the first are bounded by the claims given back, and the    *)
(* statistics by the sends.                                                *)
THEOREM SendsAreAccounted == Spec => []SendsAccounted
<1>1. TypeOK /\ OneSender /\ Books => SendsAccounted
  BY DEF Books
<1> QED
  BY <1>1, InitType, LockInit, TypeStep, LockNext, PTL DEF Spec

-----------------------------------------------------------------------------
(***************************************************************************)
(* The send log as SendClaim.                                              *)
(***************************************************************************)
Alone(w) == \A v \in Workers : v # w => pc'[v] = pc[v] /\ at'[v] = at[v]

(* A handler's call moves no other handler.                                *)
LEMMA HandlersMoveAlone ==
  ASSUME TypeOK, NEW w \in Workers, Handle(w) \/ Disturb(w)
  PROVE  Alone(w)
<1>1. ASSUME NEW next, Goto(w, next), UNCHANGED at PROVE Alone(w)
  BY <1>1 DEF TypeOK, Goto, Alone
<1>2. ASSUME NEW status, LetGo(w, status) PROVE Alone(w)
  BY <1>2 DEF TypeOK, LetGo, Goto, Alone
<1>3. CASE Take(w)
  BY <1>3 DEF TypeOK, Take, Goto, Alone
<1>4. CASE Refuse(w)
  BY <1>4 DEF Refuse, Alone
<1>5. CASE Ack(w) \/ Nack(w) \/ Crash(w)
  BY <1>2, <1>5 DEF Ack, Nack, Crash
<1>6. CASE ClaimBatch(w)
  BY <1>1, <1>6 DEF ClaimBatch
<1>7. CASE RunGate(w) \/ FanOut(w) \/ Gate(w) \/ Defer(w) \/ TryClaim(w) \/ Suppress(w)
  BY <1>1, <1>7 DEF RunGate, FanOut, Gate, Defer, TryClaim, Suppress
<1>8. CASE OverQuota(w) \/ SendAccepted(w) \/ Record(w) \/ PublishResult(w) \/ GiveBack(w)
           \/ MarkFailed(w)
  BY <1>1, <1>8 DEF OverQuota, SendAccepted, Record, PublishResult, GiveBack, MarkFailed
<1>9. CASE RunThrows(w) \/ ThrowsUnclaimed(w) \/ Throws(w) \/ WriteSwallowed(w)
  BY <1>1, <1>9 DEF RunThrows, ThrowsUnclaimed, Throws, WriteSwallowed
<1> QED
  BY <1>3, <1>4, <1>5, <1>6, <1>7, <1>8, <1>9 DEF Handle, Disturb

LogHolders == [r \in Recipients |-> {w \in Workers : Claims(w, r)}]

(* The others' claims are what they were.                                  *)
LEMMA OthersHold ==
  ASSUME NEW w \in Workers, Alone(w), NEW v \in Workers, v # w, NEW r \in Recipients
  PROVE  Claims(v, r)' <=> Claims(v, r)
BY DEF Alone, Claims, Phone, JobOf

(* A handler that claims a phone is the only one.                          *)
LEMMA SoleSender ==
  ASSUME OneSender, NEW w \in Workers, NEW r \in Recipients, Claims(w, r)
  PROVE  {v \in Workers : Claims(v, r)} = {w} /\ r \in sendLog
BY DEF OneSender

(* A handler that still claims what it claimed changes no holder.          *)
LEMMA LogHoldersStay ==
  ASSUME NEW w \in Workers, Alone(w), \A r \in Recipients : Claims(w, r)' <=> Claims(w, r)
  PROVE  LogHolders' = LogHolders
<1>1. ASSUME NEW r \in Recipients
      PROVE  {v \in Workers : Claims(v, r)}' = {v \in Workers : Claims(v, r)}
  <2>1. \A v \in Workers : Claims(v, r)' <=> Claims(v, r)
    BY OthersHold
  <2> QED
    BY <2>1
<1> QED
  BY <1>1 DEF LogHolders

(* A handler that no longer claims its phone has let go of it.             *)
LEMMA LogHolderGone ==
  ASSUME OneSender, NEW w \in Workers, Alone(w), NEW p \in Recipients, Claims(w, p),
         \A r \in Recipients : ~Claims(w, r)'
  PROVE  LogHolders' = [LogHolders EXCEPT ![p] = {}]
<1>1. ASSUME NEW r \in Recipients
      PROVE  {v \in Workers : Claims(v, r)}' =
               IF r = p THEN {} ELSE {v \in Workers : Claims(v, r)}
  <2>1. \A v \in Workers : v # w => (Claims(v, r)' <=> Claims(v, r))
    BY OthersHold
  <2>2. \A v \in Workers : v # w => ~Claims(v, p)
    BY DEF OneSender
  <2>3. r # p => ~Claims(w, r)
    BY DEF Claims
  <2> QED
    BY <2>1, <2>2, <2>3
<1> QED
  BY <1>1 DEF LogHolders

(* A call that opens no claim and touches neither the log nor the counters *)
(* leaves the claim its handler holds, or nothing happens to the claims.   *)
LEMMA LeavesOrStays ==
  ASSUME TypeOK, OneSender, NEW w \in Workers, Alone(w),
         \A r \in Recipients : Claims(w, r)' => Claims(w, r),
         UNCHANGED <<sendLog, sends, releases>>
  PROVE  LogClaim!Next \/ UNCHANGED LogClaim!claimVars
<1>1. CASE \A r \in Recipients : Claims(w, r)' <=> Claims(w, r)
  BY <1>1, LogHoldersStay DEF LogClaim!claimVars, LogHolders
<1>2. ASSUME NEW p \in Recipients, Claims(w, p), ~Claims(w, p)' PROVE LogClaim!Next
  <2>1. \A r \in Recipients : ~Claims(w, r)'
    BY <1>2 DEF Claims
  <2>2. LogHolders' = [LogHolders EXCEPT ![p] = {}] /\ LogHolders[p] = {w}
    BY <1>2, <2>1, LogHolderGone, SoleSender DEF LogHolders
  <2>3. LogClaim!Leave(p, w)
    BY <2>2 DEF LogClaim!Leave, LogHolders
  <2> QED
    BY <2>3 DEF LogClaim!Next
<1> QED
  BY <1>1, <1>2

(* The six calls LockStep sorts out, as steps of SendClaim.                *)
LEMMA LogStep ==
  ASSUME TypeOK, OneSender, Books, NEW w \in Workers,
         \/ TryClaim(w) \/ ThrowsUnclaimed(w) \/ SendAccepted(w)
         \/ Throws(w) \/ PublishResult(w) \/ GiveBack(w)
  PROVE  LogClaim!Next \/ UNCHANGED LogClaim!claimVars
<1> DEFINE p == Phone(w)
<1>0. pc[w] \in SendPcs /\ p \in Recipients
  BY Handled DEF TryClaim, ThrowsUnclaimed, SendAccepted, Throws, PublishResult, GiveBack,
                 SendPcs, RunPcs, Sending, Undoing, TypeOK, Fits
<1>1. Alone(w)
  BY HandlersMoveAlone DEF Handle, Disturb
<1>2. Phone(w)' = p
  BY OnlyMover DEF TryClaim, ThrowsUnclaimed, SendAccepted, Throws, PublishResult, GiveBack
<1> HIDE DEF p
<1>3. \A r \in Recipients :
        /\ Claims(w, r) <=> pc[w] \in Sending \cup Undoing /\ r = p
        /\ Claims(w, r)' <=> pc'[w] \in Sending \cup Undoing /\ r = p
  BY <1>2 DEF Claims, p
<1>4. CASE TryClaim(w)
  <2>1. /\ pc[w] = "claim"
        /\ sendLog' = sendLog \cup {p}
        /\ UNCHANGED <<sends, releases>>
    BY <1>4 DEF TryClaim, history, stats, p
  <2>2. CASE p \in sendLog
    <3>1. PICK next \in {"suppress", "ack"} : Goto(w, next)
      BY <1>4, <2>2 DEF TryClaim, p
    <3>2. pc'[w] \notin Sending \cup Undoing
      BY <3>1 DEF Goto, TypeOK, Sending, Undoing
    <3>3. \A r \in Recipients : Claims(w, r)' => Claims(w, r)
      BY <1>3, <3>2
    <3>4. sendLog' = sendLog
      BY <2>1, <2>2
    <3> QED
      BY <1>1, <2>1, <3>3, <3>4, LeavesOrStays
  <2>3. CASE p \notin sendLog
    <3>1. Goto(w, "send")
      BY <1>4, <2>3 DEF TryClaim, p
    <3>2. pc'[w] \in Sending
      BY <3>1 DEF Goto, TypeOK, Sending
    <3>3. ASSUME NEW r \in Recipients
          PROVE  {v \in Workers : Claims(v, r)}' =
                   IF r = p THEN {w} ELSE {v \in Workers : Claims(v, r)}
      <4>1. \A v \in Workers : v # w => (Claims(v, r)' <=> Claims(v, r))
        BY <1>1, OthersHold
      <4>2. \A v \in Workers : ~Claims(v, p)
        BY <1>0, <2>3 DEF OneSender
      <4>3. Claims(w, r)' <=> r = p
        BY <1>3, <3>2
      <4>4. ~Claims(w, r)
        BY <1>3, <2>1 DEF Sending, Undoing
      <4> QED
        BY <4>1, <4>2, <4>3, <4>4
    <3>4. LogHolders' = [LogHolders EXCEPT ![p] = {w}]
      BY <3>3 DEF LogHolders
    <3>5. LogClaim!Take(p, w)
      BY <2>1, <2>3, <3>4 DEF LogClaim!Take, LogHolders
    <3> QED
      BY <1>0, <3>5 DEF LogClaim!Next
  <2> QED
    BY <2>2, <2>3
<1>5. CASE ThrowsUnclaimed(w)
  <2>1. /\ pc[w] \in {"gate", "claim"} /\ Goto(w, "nack")
        /\ sendLog' = sendLog \/ sendLog' = sendLog \cup {p}
        /\ UNCHANGED <<sends, releases>>
    BY <1>5 DEF ThrowsUnclaimed, history, stats, p
  <2>2. pc'[w] \notin Sending \cup Undoing /\ pc[w] \notin Sending \cup Undoing
    BY <2>1 DEF Goto, TypeOK, Sending, Undoing
  <2>3. LogHolders' = LogHolders
    BY <1>1, <1>3, <2>2, LogHoldersStay
  <2>4. CASE sendLog' = sendLog
    BY <2>1, <2>3, <2>4 DEF LogClaim!claimVars, LogHolders
  <2>5. CASE p \notin sendLog /\ sendLog' = sendLog \cup {p}
    <3>1. LogClaim!TakenUnknown(p)
      BY <2>1, <2>3, <2>5 DEF LogClaim!TakenUnknown, LogHolders
    <3> QED
      BY <1>0, <3>1 DEF LogClaim!Next
  <2> QED
    BY <2>1, <2>4, <2>5
<1>6. CASE SendAccepted(w) \/ Throws(w)
  <2>1. /\ pc[w] \in Sending
        /\ \E next \in {"record", "release"} : Goto(w, next)
        /\ \/ UNCHANGED sends
           \/ pc[w] = "send" /\ sends' = [sends EXCEPT ![p] = @ + 1]
        /\ UNCHANGED <<sendLog, releases>>
    BY <1>6 DEF SendAccepted, Throws, CountSend, domain, history, stats, Sending, p
  <2>2. pc'[w] \in Sending \cup Undoing
    BY <2>1 DEF Goto, TypeOK, Sending, Undoing
  <2>3. LogHolders' = LogHolders
    BY <1>1, <1>3, <2>1, <2>2, LogHoldersStay
  <2>4. CASE UNCHANGED sends
    BY <2>1, <2>3, <2>4 DEF LogClaim!claimVars, LogHolders
  <2>5. CASE pc[w] = "send" /\ sends' = [sends EXCEPT ![p] = @ + 1]
    <3>1. sends[p] <= releases[p]
      BY <1>0, <2>5 DEF Books, p
    <3>2. LogHolders[p] = {w}
      BY <1>0, <1>3, <2>1, SoleSender DEF LogHolders
    <3>3. LogClaim!Send(p, w)
      BY <2>1, <2>3, <2>5, <3>1, <3>2 DEF LogClaim!Send, LogHolders
    <3> QED
      BY <1>0, <3>3 DEF LogClaim!Next
  <2> QED
    BY <2>1, <2>4, <2>5
<1>7. CASE PublishResult(w)
  <2>1. /\ pc[w] = "publish" /\ Goto(w, "ack")
        /\ UNCHANGED <<sendLog, sends, releases>>
    BY <1>7 DEF PublishResult, domain
  <2>2. pc'[w] \notin Sending \cup Undoing
    BY <2>1 DEF Goto, TypeOK, Sending, Undoing
  <2> QED
    BY <1>1, <1>3, <2>1, <2>2, LeavesOrStays
<1>8. CASE GiveBack(w)
  <2>1. /\ pc[w] \in Undoing /\ \E next \in {"fail", "ack"} : Goto(w, next)
        /\ sendLog' = sendLog \ {p}
        /\ releases' = [releases EXCEPT ![p] = @ + 1]
        /\ UNCHANGED sends
    BY <1>8 DEF GiveBack, Following, Undoing, p
  <2>2. pc'[w] \notin Sending \cup Undoing
    BY <2>1 DEF Goto, TypeOK, Sending, Undoing
  <2>3. Claims(w, p)
    BY <1>0, <1>3, <2>1
  <2>4. LogHolders' = [LogHolders EXCEPT ![p] = {}]
    BY <1>0, <1>1, <1>3, <2>2, <2>3, LogHolderGone
  <2>5. LogHolders[p] = {w}
    BY <1>0, <2>3, SoleSender DEF LogHolders
  <2>6. LogClaim!GiveBack(p, w)
    BY <2>1, <2>4, <2>5 DEF LogClaim!GiveBack, LogClaim!Excuse, LogHolders
  <2> QED
    BY <1>0, <2>6 DEF LogClaim!Next
<1> QED
  BY <1>4, <1>5, <1>6, <1>7, <1>8

(* Every step is one of SendClaim's, or leaves the claims alone.           *)
LEMMA LogClaimStep ==
  ASSUME TypeOK, OneSender, Books, [Next]_vars
  PROVE  [LogClaim!Next]_(LogClaim!claimVars)
<1>1. ASSUME UNCHANGED <<pc, at, sendLog, sends, releases>> PROVE UNCHANGED LogClaim!claimVars
  <2>1. \A w \in Workers, r \in Recipients : Claims(w, r)' <=> Claims(w, r)
    BY <1>1 DEF Claims, Phone, JobOf
  <2>2. \A r \in Recipients : {w \in Workers : Claims(w, r)}' = {w \in Workers : Claims(w, r)}
    BY <2>1
  <2> QED
    BY <1>1, <2>2 DEF LogClaim!claimVars
<1>2. CASE UNCHANGED vars
  BY <1>1, <1>2 DEF vars, domain, worker, history, stats
<1>3. CASE \/ \E x \in Rows : RowGoesStale(x)
           \/ \E r \in Recipients : ClaimGoesStale(r)
           \/ \E s \in Starters : Starter(s)
           \/ Operator \/ CancelPending \/ CancelDies \/ Complete
  BY <1>1, <1>3, GatewayStays
<1>5. ASSUME NEW r \in Recipients, Consume(r) PROVE UNCHANGED LogClaim!claimVars
  BY <1>1, <1>5, ConsumeStays
<1>4. ASSUME NEW w \in Workers, Handle(w) \/ Disturb(w)
      PROVE  LogClaim!Next \/ UNCHANGED LogClaim!claimVars
  <2>1. CASE \/ TryClaim(w) \/ ThrowsUnclaimed(w) \/ SendAccepted(w)
             \/ Throws(w) \/ PublishResult(w) \/ GiveBack(w)
    BY <2>1, LogStep
  <2>2. CASE QuietStep
    <3>1. \A r \in Recipients : Claims(w, r)' => Claims(w, r)
      BY <2>2 DEF QuietStep, QuietMove, Claims, Phone, JobOf, Sending, Undoing
    <3>2. UNCHANGED <<sendLog, sends, releases>>
      BY <2>2 DEF QuietStep
    <3> QED
      BY <1>4, <3>1, <3>2, HandlersMoveAlone, LeavesOrStays
  <2> QED
    BY <1>4, <2>1, <2>2, QuietHandle DEF Handle, Disturb
<1> QED
  BY <1>2, <1>3, <1>4, <1>5 DEF Next

(***************************************************************************)
(* The send log keeps the promise of SendClaim: one handler at a time      *)
(* holds a phone, Meta gets one copy for each claim given back and one     *)
(* more, and only the holder gives the claim back or leaves it behind.     *)
(***************************************************************************)
THEOREM SendLogRefines == Spec => LogImplementsSendClaim
<1>1. Init => LogClaim!Init
  <2> SUFFICES ASSUME Init PROVE LogClaim!Init
    OBVIOUS
  <2>1. \A r \in Recipients : {w \in Workers : Claims(w, r)} = {}
    BY DEF Init, Claims, Sending, Undoing
  <2> QED
    BY <2>1 DEF Init, LogClaim!Init
<1>2. TypeOK /\ OneSender /\ Books /\ [Next]_vars => [LogClaim!Next]_(LogClaim!claimVars)
  BY LogClaimStep
<1> QED
  BY <1>1, <1>2, InitType, LockInit, TypeStep, LockNext, PTL
     DEF Spec, LogImplementsSendClaim, LogClaim!Spec

-----------------------------------------------------------------------------
(***************************************************************************)
(* The recipients' funnel.                                                 *)
(***************************************************************************)
(* Who writes a recipient's status, and what.                              *)
Rewritten(r) ==
    \/ \E w \in Workers :
         \/ r \in batch[w] /\ r \notin batch'[w] /\ rstatus'[r] # "sent"
         \/ pc[w] \in {"fail", "qfail"} /\ Phone(w) = r /\ rstatus'[r] # "sent"
         \/ pc[w] = "record" /\ Phone(w) = r /\ rstatus'[r] = "sent"
    \/ rstatus[r] \in {"absent", "pending"} /\ rstatus'[r] # "sent"

LEMMA FunnelStep ==
  ASSUME TypeOK, [Next]_vars, NEW r \in Recipients, rstatus'[r] # rstatus[r]
  PROVE  Rewritten(r)
<1>1. CASE UNCHANGED vars
  BY <1>1 DEF vars, domain
<1>2. ASSUME NEW w \in Workers, Handle(w) PROVE Rewritten(r)
  <2>1. CASE Refuse(w)
    <3>1. PICK q \in batch[w], s \in {"failed", "policy_skipped"} :
              /\ rstatus' = [rstatus EXCEPT ![q] = s]
              /\ batch' = [batch EXCEPT ![w] = @ \ {q}]
      BY <2>1 DEF Refuse
    <3>2. q = r
      BY <3>1 DEF TypeOK
    <3> QED
      BY <3>1, <3>2 DEF TypeOK, Rewritten
  <2>2. CASE Suppress(w)
    <3>1. rstatus[Phone(w)] = "pending" /\ SetRecipient(w, "policy_skipped")
      BY <2>2 DEF Suppress
    <3>2. Phone(w) = r /\ rstatus'[r] = "policy_skipped"
      BY <3>1 DEF SetRecipient, TypeOK
    <3> QED
      BY <3>1, <3>2 DEF Rewritten
  <2>3. CASE Record(w)
    <3>1. Phone(w) = r /\ rstatus'[r] = "sent"
      BY <2>3 DEF Record, SetRecipient, TypeOK
    <3> QED
      BY <2>3, <3>1 DEF Record, Rewritten
  <2>4. CASE MarkFailed(w)
    <3>1. Phone(w) = r /\ rstatus'[r] = "failed"
      BY <2>4 DEF MarkFailed, SetRecipient, TypeOK
    <3> QED
      BY <2>4, <3>1 DEF MarkFailed, Rewritten
  <2>5. CASE \/ Take(w) \/ RunGate(w) \/ ClaimBatch(w) \/ FanOut(w) \/ Gate(w) \/ Defer(w)
             \/ TryClaim(w) \/ OverQuota(w) \/ SendAccepted(w) \/ PublishResult(w)
             \/ GiveBack(w) \/ Ack(w) \/ Nack(w)
    BY <2>5 DEF Take, RunGate, ClaimBatch, FanOut, Gate, Defer, TryClaim, OverQuota,
                SendAccepted, PublishResult, GiveBack, Ack, Nack, domain
  <2> QED
    BY <1>2, <2>1, <2>2, <2>3, <2>4, <2>5 DEF Handle
<1>3. ASSUME NEW w \in Workers, Disturb(w) PROVE Rewritten(r)
  BY <1>3 DEF Disturb, Crash, RunThrows, ThrowsUnclaimed, Throws, WriteSwallowed, domain
<1>4. ASSUME NEW s \in Starters, Starter(s) PROVE Rewritten(r)
  <2>1. CASE StartInserts(s)
    BY <2>1 DEF StartInserts, Rewritten
  <2>2. CASE StartReads(s) \/ StartFlips(s) \/ StartStops(s)
    BY <2>2 DEF StartReads, StartFlips, StartStops, domain
  <2> QED
    BY <1>4, <2>1, <2>2 DEF Starter
<1>5. CASE CancelPending
  BY <1>5 DEF CancelPending, Rewritten
<1>6. CASE \/ \E x \in Rows : RowGoesStale(x)
           \/ \E q \in Recipients : ClaimGoesStale(q)
           \/ Operator \/ CancelDies \/ Complete
  BY <1>6 DEF RowGoesStale, ClaimGoesStale, Operator, Pause, Resume, Cancel, Test,
              CancelDies, Complete, domain
<1> QED
  BY <1>1, <1>2, <1>3, <1>4, <1>5, <1>6, ConsumeStays DEF Next

LEMMA SendsGrow ==
  ASSUME TypeOK, [Next]_vars, NEW r \in Recipients, sends[r] > 0
  PROVE  sends'[r] > 0
<1>1. CASE UNCHANGED sends
  BY <1>1
<1>2. ASSUME NEW w \in Workers, SendAccepted(w) \/ Throws(w) PROVE sends'[r] > 0
  BY <1>2 DEF SendAccepted, Throws, CountSend, TypeOK
<1>3. ASSUME NEW w \in Workers,
             TryClaim(w) \/ ThrowsUnclaimed(w) \/ PublishResult(w) \/ GiveBack(w)
      PROVE  UNCHANGED sends
  BY <1>3 DEF TryClaim, ThrowsUnclaimed, PublishResult, GiveBack, history, stats
<1>4. ASSUME NEW w \in Workers, Handle(w) \/ Disturb(w) PROVE sends'[r] > 0
  BY <1>1, <1>2, <1>3, <1>4, QuietHandle DEF Handle, Disturb, QuietStep
<1>5. CASE UNCHANGED vars
  BY <1>1, <1>5 DEF vars, history, stats
<1>6. CASE Next
  BY <1>1, <1>4, <1>6, QuietGateway, ConsumeStays DEF Next, QuietStep
<1> QED
  BY <1>5, <1>6

(* A recipient reported as sent was sent a message, whatever was retried.  *)
THEOREM SentIsTrue == Spec => []SentMeansSent
<1>1. Init => SentMeansSent
  BY DEF Init, SentMeansSent
<1>2. ASSUME TypeOK, Books, SentMeansSent, [Next]_vars PROVE SentMeansSent'
  <2>1. ASSUME NEW r \in Recipients, rstatus'[r] = "sent" PROVE sends'[r] > 0
    <3>1. CASE rstatus[r] = "sent"
      BY <1>2, <3>1, SendsGrow DEF SentMeansSent
    <3>2. CASE rstatus[r] # "sent"
      <4>1. PICK w \in Workers : pc[w] = "record" /\ Phone(w) = r
        BY <1>2, <2>1, <3>2, FunnelStep DEF Rewritten
      <4>2. sends[r] > 0
        BY <1>2, <4>1 DEF Books
      <4> QED
        BY <1>2, <4>2, SendsGrow
    <3> QED
      BY <3>1, <3>2
  <2> QED
    BY <2>1 DEF SentMeansSent
<1> QED
  BY <1>1, <1>2, InitType, LockInit, TypeStep, LockNext, PTL DEF Spec

(* Only the handler's own failure, or a fan-out step that had claimed the  *)
(* recipient earlier, moves a recipient back from sent.                    *)
THEOREM SentStays == Spec => SentIsKept
<1>1. TypeOK /\ [Next]_vars =>
        [\A r \in Recipients :
            rstatus[r] = "sent" /\ rstatus'[r] # "sent" =>
                \E w \in Workers :
                    \/ pc[w] \in {"fail", "qfail"} /\ Phone(w) = r
                    \/ r \in batch[w] /\ r \notin batch'[w]]_vars
  BY FunnelStep DEF Rewritten
<1> QED
  BY <1>1, TypeCorrect, PTL DEF Spec, SentIsKept

-----------------------------------------------------------------------------
(***************************************************************************)
(* Stopping a campaign.  BoundedOverrun counts messages already sent; what *)
(* is inductive also counts the handlers that have passed the gate and may *)
(* still send, and knows that a running campaign starts counting at zero.  *)
(***************************************************************************)
Passed == {w \in Workers : pc[w] \in {"claim", "send"} /\ IsFanOut(w)}

Overruns ==
    /\ cstatus = "running" => overrun = 0
    /\ overrun + Cardinality(Passed) <= Cardinality(Workers)

LEMMA PassedFinite ==
  /\ IsFiniteSet(Passed) /\ Cardinality(Passed) \in Nat
  /\ Cardinality(Workers) \in Nat
  /\ \A S \in SUBSET Workers : IsFiniteSet(S) /\ Cardinality(S) <= Cardinality(Workers)
  /\ \A S \in SUBSET Passed : IsFiniteSet(S) /\ Cardinality(S) \in Nat /\ Cardinality(S) <= Cardinality(Passed)
<1>1. IsFiniteSet(Workers) /\ Passed \subseteq Workers
  BY CampaignAssumption DEF Passed
<1>2. \A S \in SUBSET Workers : IsFiniteSet(S) /\ Cardinality(S) <= Cardinality(Workers)
  BY <1>1, FS_Subset
<1>3. IsFiniteSet(Passed)
  BY <1>1, <1>2
<1>4. \A S \in SUBSET Passed : IsFiniteSet(S) /\ Cardinality(S) <= Cardinality(Passed)
  BY <1>3, FS_Subset
<1> QED
  BY <1>1, <1>2, <1>3, <1>4, FS_CardinalityType

(* Nobody but the gate lets a fan-out message pass.                        *)
LEMMA OnlyGatePasses ==
  ASSUME TypeOK, NEW w \in Workers, Handle(w) \/ Disturb(w), ~Gate(w)
  PROVE  Passed' \subseteq Passed
<1>1. CASE Take(w)
  <2>1. PICK x \in Rows : at' = [at EXCEPT ![w] = x] /\ Goto(w, FirstCall[x[1][1]])
    BY <1>1 DEF Take
  <2>2. x[1][1] \in {"run", "dispatch", "test"}
    BY JobFacts DEF Jobs, RunJob
  <2>3. pc'[w] \in {"claim", "send"} => x[1][1] = "test"
    BY <2>1, <2>2 DEF TypeOK, Goto, FirstCall
  <2>4. IsFanOut(w)' => x[1][1] = "dispatch"
    BY <2>1 DEF TypeOK, IsFanOut, JobOf
  <2>5. \A v \in Workers : v # w => pc'[v] = pc[v] /\ IsFanOut(v)' = IsFanOut(v)
    BY <2>1 DEF TypeOK, Goto, IsFanOut, JobOf
  <2> QED
    BY <2>3, <2>4, <2>5 DEF Passed
<1>2. CASE Ack(w) \/ Nack(w) \/ Crash(w)
  BY <1>2, OnlyLetter DEF Ack, Nack, Crash, Passed
<1>3. CASE Refuse(w)
  BY <1>3 DEF Refuse, Passed, IsFanOut, JobOf
<1>4. CASE TryClaim(w)
  BY <1>4, OnlyMover DEF TryClaim, Passed
<1>5. ASSUME NEW next, Goto(w, next), UNCHANGED at, next \notin {"claim", "send"}
      PROVE  Passed' \subseteq Passed
  BY <1>5, OnlyMover DEF Passed
<1>6. CASE \/ RunGate(w) \/ ClaimBatch(w) \/ FanOut(w) \/ Defer(w) \/ Suppress(w)
           \/ OverQuota(w) \/ SendAccepted(w) \/ Record(w) \/ PublishResult(w)
           \/ RunThrows(w) \/ ThrowsUnclaimed(w) \/ Throws(w)
  BY <1>5, <1>6 DEF RunGate, ClaimBatch, FanOut, Defer, Suppress, OverQuota, SendAccepted,
                    Record, PublishResult, RunThrows, ThrowsUnclaimed, Throws
<1>7. CASE GiveBack(w) \/ MarkFailed(w) \/ WriteSwallowed(w)
  <2>1. pc[w] \in {"suppress", "fail", "release", "qfail", "qrelease"}
    BY <1>7 DEF GiveBack, MarkFailed, WriteSwallowed, Undoing
  <2>2. Following[pc[w]] \notin {"claim", "send"}
    BY <2>1 DEF Following
  <2> QED
    BY <1>5, <1>7, <2>2 DEF GiveBack, MarkFailed, WriteSwallowed
<1> QED
  BY <1>1, <1>2, <1>3, <1>4, <1>6, <1>7 DEF Handle, Disturb

LEMMA OverrunStep ==
  ASSUME TypeOK, TypeOK', Overruns, [Next]_vars
  PROVE  Overruns'
<1>0. /\ overrun \in Nat /\ overrun' \in Nat
      /\ Cardinality(Passed) \in Nat /\ Cardinality(Workers) \in Nat
  BY PassedFinite DEF TypeOK
(* Fewer handlers past the gate, and the count kept or started again.      *)
<1>1. ASSUME Passed' \subseteq Passed,
             overrun' \in {0, overrun},
             cstatus' = "running" => overrun' = 0
      PROVE  Overruns'
  <2>1. Cardinality(Passed') \in Nat /\ Cardinality(Passed') <= Cardinality(Passed)
    BY <1>1, PassedFinite
  <2> QED
    BY <1>0, <1>1, <2>1 DEF Overruns
<1>2. ASSUME NEW w \in Workers, Gate(w) PROVE Overruns'
  <2>1. UNCHANGED <<cstatus, overrun>>
    BY <1>2 DEF Gate, domain, history, stats
  <2>2. CASE cstatus = "running"
    <3>1. Passed' \subseteq Workers
      BY DEF Passed
    <3>2. Cardinality(Passed') <= Cardinality(Workers) /\ Cardinality(Passed') \in Nat
      BY <3>1, PassedFinite, FS_CardinalityType
    <3> QED
      BY <1>0, <2>1, <2>2, <3>2 DEF Overruns
  <2>3. CASE cstatus # "running"
    <3>1. Goto(w, "ack") /\ UNCHANGED at
      BY <1>2, <2>3 DEF Gate
    <3>2. Passed' \subseteq Passed
      BY <3>1, OnlyMover DEF Passed
    <3> QED
      BY <1>1, <2>1, <2>3, <3>2
  <2> QED
    BY <2>2, <2>3
<1>3. ASSUME NEW w \in Workers, SendAccepted(w) \/ Throws(w) PROVE Overruns'
  <2>1. cstatus' = cstatus /\ Passed' \subseteq Passed
    BY <1>3, OnlyGatePasses DEF SendAccepted, Throws, Gate, Handle, Disturb, domain, Sending
  <2>2. CASE overrun' = overrun
    BY <1>1, <2>1, <2>2 DEF Overruns
  <2>3. CASE overrun' # overrun
    <3>1. /\ pc[w] = "send" /\ IsFanOut(w) /\ cstatus # "running"
          /\ overrun' = overrun + 1
      BY <1>3, <2>3 DEF SendAccepted, Throws, CountSend
    <3>2. w \in Passed
      BY <3>1 DEF Passed
    <3>3. pc'[w] \in {"record", "release"}
      BY <1>3, OnlyMover DEF SendAccepted, Throws
    <3>4. Passed' \subseteq Passed \ {w}
      BY <2>1, <3>3 DEF Passed
    <3>5. /\ IsFiniteSet(Passed \ {w})
          /\ Cardinality(Passed \ {w}) = Cardinality(Passed) - 1
      BY <3>2, PassedFinite, FS_RemoveElement
    <3>6. Cardinality(Passed') <= Cardinality(Passed) - 1 /\ Cardinality(Passed') \in Nat
      BY <3>4, <3>5, FS_Subset, FS_CardinalityType
    <3> QED
      BY <1>0, <2>1, <3>1, <3>6 DEF Overruns
  <2> QED
    BY <2>2, <2>3
<1>4. ASSUME NEW w \in Workers, Handle(w) \/ Disturb(w) PROVE Overruns'
  <2>1. CASE Gate(w)
    BY <1>2, <2>1
  <2>2. CASE SendAccepted(w) \/ Throws(w)
    BY <1>3, <2>2
  <2>3. CASE ~Gate(w) /\ ~SendAccepted(w) /\ ~Throws(w)
    <3>1. UNCHANGED <<cstatus, overrun>>
      BY <1>4, <2>3 DEF Handle, Disturb, Take, RunGate, ClaimBatch, Refuse, FanOut, Defer,
           TryClaim, Suppress, OverQuota, Record, PublishResult, GiveBack, MarkFailed, Ack,
           Nack, Crash, RunThrows, ThrowsUnclaimed, WriteSwallowed, domain, history, stats
    <3> QED
      BY <1>1, <1>4, <2>3, <3>1, OnlyGatePasses DEF Overruns
  <2> QED
    BY <2>1, <2>2, <2>3
<1>5. ASSUME UNCHANGED <<pc, at>> PROVE Passed' = Passed
  BY <1>5 DEF Passed, IsFanOut, JobOf
<1>6. ASSUME UNCHANGED <<pc, at, cstatus, overrun>> PROVE Overruns'
  BY <1>1, <1>5, <1>6 DEF Overruns
<1>7. ASSUME NEW status, SetStatus(status), UNCHANGED <<pc, at>> PROVE Overruns'
  BY <1>1, <1>5, <1>7 DEF SetStatus
<1>8. CASE UNCHANGED vars
  BY <1>6, <1>8 DEF vars, domain, worker, history, stats
<1>9. ASSUME NEW s \in Starters, Starter(s) PROVE Overruns'
  BY <1>6, <1>7, <1>9 DEF Starter, StartReads, StartInserts, StartFlips, StartStops,
                          domain, worker, history, stats
<1>10. CASE Operator
  BY <1>7, <1>10 DEF Operator, Pause, Resume, Cancel, Test, worker
<1>11. CASE Complete
  BY <1>7, <1>11 DEF Complete, worker
<1>12. CASE \/ \E x \in Rows : RowGoesStale(x)
            \/ \E r \in Recipients : ClaimGoesStale(r)
            \/ CancelPending \/ CancelDies
  BY <1>6, <1>12 DEF RowGoesStale, ClaimGoesStale, CancelPending, CancelDies,
                     domain, worker, history, stats
<1>13. CASE \E r \in Recipients : Consume(r)
  BY <1>6, <1>13, ConsumeStays
<1> QED
  BY <1>4, <1>8, <1>9, <1>10, <1>11, <1>12, <1>13 DEF Next

(* A stopped campaign sends at most one more message per handler.          *)
THEOREM OverrunIsBounded == Spec => []BoundedOverrun
<1>1. Init => Overruns
  <2> SUFFICES ASSUME Init PROVE Overruns
    OBVIOUS
  <2>1. Passed = {} /\ overrun = 0
    BY DEF Init, Passed
  <2>2. Cardinality({}) = 0
    BY FS_EmptySet
  <2> QED
    BY <2>1, <2>2, PassedFinite DEF Overruns
<1>2. TypeOK /\ Overruns => BoundedOverrun
  BY PassedFinite DEF TypeOK, Overruns, BoundedOverrun
<1> QED
  BY <1>1, <1>2, InitType, TypeStep, OverrunStep, PTL DEF Spec

-----------------------------------------------------------------------------
(* An enqueued job takes its lowest free copy.                             *)
LEMMA EnqueueFills ==
  ASSUME TypeOK, NEW j \in Jobs, Enqueue({j})
  PROVE  \E k \in 1..MaxCopies : outbox[<<j, k>>] = "free" /\ outbox'[<<j, k>>] = "queued"
<1> DEFINE T == {k \in 1..MaxCopies : outbox[<<j, k>>] = "free"}
<1>1. T # {} /\ T \subseteq Nat
  BY CampaignAssumption DEF Enqueue
<1>2. PICK k \in T : \A i \in T : ~(<<i, k>> \in OpToRel(<, Nat))
  BY <1>1, NatLessThanWellFounded, WFMin
<1>3. \A i \in 1..(k - 1) : outbox[<<j, i>>] # "free"
  <2> SUFFICES ASSUME NEW i \in 1..(k - 1), i \in T PROVE FALSE
    BY CampaignAssumption
  <2>1. i \in Nat /\ k \in Nat /\ i < k
    BY <1>1
  <2> QED
    BY <1>2, <2>1 DEF OpToRel
<1>4. <<j, k>> \in Rows /\ LowestFree(<<j, k>>)
  BY <1>2, <1>3 DEF Rows, LowestFree
<1> QED
  BY <1>2, <1>4 DEF Enqueue

(* Whatever request was under way: an ended campaign stays ended, and one  *)
(* leaves a pause only together with a run event for the worker.           *)
THEOREM StatusMoves == Spec => StatusSteps
<1> DEFINE A == /\ cstatus \in {"completed", "cancelled"} => cstatus' = cstatus
                /\ cstatus = "paused" /\ cstatus' = "running" =>
                     \E k \in 1..MaxCopies :
                         outbox[<<RunJob, k>>] = "free" /\ outbox'[<<RunJob, k>>] = "queued"
<1>1. ASSUME TypeOK, [Next]_vars PROVE [A]_vars
  <2>1. CASE UNCHANGED cstatus
    BY <2>1
  <2>2. ASSUME NEW s \in Starters, StartFlips(s) PROVE A
    <3>1. CASE cstatus \in StartsFrom(s)
      BY <1>1, <2>2, <3>1, EnqueueFills, JobFacts DEF StartFlips, StartsFrom
    <3>2. CASE cstatus \notin StartsFrom(s)
      BY <2>2, <3>2 DEF StartFlips
    <3> QED
      BY <3>1, <3>2
  <2>3. CASE Resume
    BY <1>1, <2>3, EnqueueFills, JobFacts DEF Resume
  <2>4. CASE Pause \/ Cancel \/ Complete \/ (\E r \in Recipients : Test(r))
    BY <2>4 DEF Pause, Cancel, Complete, Test, SetStatus
  <2>5. ASSUME NEW w \in Workers, Handle(w) \/ Disturb(w) PROVE UNCHANGED cstatus
    BY <2>5 DEF Handle, Disturb, Take, RunGate, ClaimBatch, Refuse, FanOut, Gate, Defer,
         TryClaim, Suppress, OverQuota, SendAccepted, Record, PublishResult, GiveBack,
         MarkFailed, Ack, Nack, Crash, RunThrows, ThrowsUnclaimed, Throws, WriteSwallowed, domain
  <2>6. ASSUME \/ \E x \in Rows : RowGoesStale(x)
               \/ \E r \in Recipients : ClaimGoesStale(r)
               \/ \E s \in Starters : StartReads(s) \/ StartInserts(s) \/ StartStops(s)
               \/ CancelPending \/ CancelDies \/ UNCHANGED vars
        PROVE UNCHANGED cstatus
    BY <2>6 DEF RowGoesStale, ClaimGoesStale, StartReads, StartInserts, StartStops,
                CancelPending, CancelDies, vars, domain
  <2> HIDE DEF A
  <2> QED
    BY <1>1, <2>1, <2>2, <2>3, <2>4, <2>5, <2>6, ConsumeStays DEF Next, Starter, Operator
<1> QED
  BY <1>1, TypeCorrect, PTL DEF Spec, StatusSteps
=============================================================================
