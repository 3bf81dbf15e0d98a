----------------------------- MODULE DeskProofs -----------------------------
(***************************************************************************)
(* Proofs about seven components of the agents' desk that share no state:  *)
(* sends outside campaigns, orders, task reminders, the channels'          *)
(* credentials, message templates, no-reply rules and automation rules,    *)
(* each for any number of its actors and any bounds.                       *)
(***************************************************************************)
EXTENDS Channels, Sends, Orders, Tasks, Templates, NoReply, Rules, TLAPS

(***************************************************************************)
(* Sends. A worker between winning the claim and giving up or recording    *)
(* what it sent holds the claim of its dispatch, alone; until its message  *)
(* is accepted, and while nobody holds a claim, every copy made so far was *)
(* allowed.                                                                *)
(***************************************************************************)
ClaimIsALock ==
    /\ \A w \in Workers : Holds(w) => claim[worker[w].d]
    /\ \A v, w \in Workers : v # w /\ Holds(v) /\ Holds(w) => worker[v].d # worker[w].d

CopiesAllowed ==
    /\ \A d \in Dispatches : ~claim[d] => accepted[d] <= allowedCopies[d]
    /\ \A w \in Workers :
          worker[w].at \in Trying => accepted[worker[w].d] <= allowedCopies[worker[w].d]
    /\ OneCopyPerDispatch

(***************************************************************************)
(* A claim without a holder is explained for good, also after a dead       *)
(* letter is published again; a queued dispatch is on its way or over.     *)
(***************************************************************************)
Explained(d) == accepted[d] > 0 \/ fate[d] = "declined" \/ d \in stranded

ClaimsExplained ==
    /\ \A d \in Dispatches :
          claim[d] => Explained(d) \/ \E w \in Workers : Holds(w) /\ worker[w].d = d
    /\ \A w \in Workers : worker[w].at = "row" => accepted[worker[w].d] > 0
    /\ NoDispatchVanishes

SendsInv == SendsTypeOK /\ ClaimIsALock /\ CopiesAllowed /\ ClaimsExplained

(* What the type of a worker says of one that is not free.                 *)
LEMMA WorkerFacts ==
  ASSUME SendsTypeOK, NEW w \in Workers, worker[w].at # "free"
  PROVE  worker[w].d \in Dispatches /\ worker[w].at \in {"claim"} \cup Holding
<1>1. worker[w] \in {Free} \cup [at : {"claim"} \cup Holding, d : Dispatches]
  BY DEF SendsTypeOK, Holding, Trying
<1>2. worker[w] # Free
  BY DEF Free
<1> QED
  BY <1>1, <1>2

(* Initially nothing is asked, claimed or sent.                            *)
LEMMA SendsInitially == SendsInit => SendsInv
<1> SUFFICES ASSUME SendsInit PROVE SendsInv
  OBVIOUS
<1> USE DEF SendsInit, Zero, Free
<1>1. SendsTypeOK
  BY DEF SendsTypeOK, Reports
<1>2. ClaimIsALock
  BY DEF ClaimIsALock, Holds, Holding, Trying
<1>3. CopiesAllowed
  BY DEF CopiesAllowed, OneCopyPerDispatch, Trying
<1>4. ClaimsExplained
  BY DEF ClaimsExplained, NoDispatchVanishes
<1> QED
  BY <1>1, <1>2, <1>3, <1>4 DEF SendsInv

(* Every step keeps the types.                                             *)
LEMMA SendsTypes ==
  ASSUME SendsTypeOK, [SendsNext]_sendsVars
  PROVE  SendsTypeOK'
<1> USE SendsAssumption DEF SendsTypeOK, Contact, Requests, Outcome, History, Mishap, Free
<1>1. ASSUME ContactStops \/ WindowCloses PROVE SendsTypeOK'
  BY <1>1 DEF ContactStops, WindowCloses
<1>2. ASSUME NEW d \in AgentReplies, ReadConversation(d) \/ CheckContact(d) PROVE SendsTypeOK'
  BY <1>2 DEF ReadConversation, CheckContact, Dispatches
<1>3. ASSUME NEW d \in Dispatches, EnqueueSend(d) \/ RepublishSend(d) \/ ClaimExpires(d)
      PROVE  SendsTypeOK'
  <2>1. CASE EnqueueSend(d)
    BY <2>1 DEF EnqueueSend
  <2>2. CASE RepublishSend(d)
    BY <2>2 DEF RepublishSend
  <2>3. CASE ClaimExpires(d)
    BY <2>3 DEF ClaimExpires
  <2> QED
    BY <1>3, <2>1, <2>2, <2>3
<1>4. ASSUME NEW d \in Dispatches, NEW report \in Reports, StatusReported(d, report)
      PROVE  SendsTypeOK'
  BY <1>4 DEF StatusReported
<1>5. ASSUME NEW d \in Dispatches, NEW w \in Workers, BeginDelivery(w, d) PROVE SendsTypeOK'
  BY <1>5 DEF BeginDelivery
<1>6. ASSUME NEW w \in Workers,
             \/ TakeClaim(w) \/ ClaimFails(w)
             \/ ReadContact(w) \/ ReadConsent(w) \/ ReadPolicy(w)
             \/ SendAccepted(w) \/ SendFails(w) \/ AnswerLost(w) \/ PostedAgain(w)
             \/ UndoSend(w) \/ CreateRow(w) \/ CreateRowFails(w) \/ WorkerCrashes(w)
      PROVE  SendsTypeOK'
  <2>0. worker[w].at # "free"
    BY <1>6 DEF TakeClaim, ClaimFails, ReadContact, ReadConsent, ReadPolicy, SendAccepted,
                SendFails, AnswerLost, PostedAgain, UndoSend, CreateRow, CreateRowFails,
                WorkerCrashes, Is, Holds, Holding, Trying
  <2>1. worker[w].d \in Dispatches
    BY <2>0, WorkerFacts
  <2>3. CASE TakeClaim(w)
    BY <2>1, <2>3 DEF TakeClaim, Go, Of
  <2>4. CASE ReadContact(w) \/ ReadConsent(w) \/ ReadPolicy(w)
    BY <2>1, <2>4 DEF ReadContact, ReadConsent, ReadPolicy, Declines, Go, Of
  <2>5. CASE SendAccepted(w) \/ SendFails(w) \/ AnswerLost(w) \/ PostedAgain(w)
    BY <2>1, <2>5 DEF SendAccepted, SendFails, AnswerLost, PostedAgain, Go, Of
  <2>6. CASE UndoSend(w)
    <3>1. /\ worker' \in [Workers -> {Free} \cup
                             [at : {"claim", "contact", "consent", "policy", "send", "undo", "row"},
                              d : Dispatches]]
          /\ waiting' \in [Dispatches -> Nat]
          /\ fate' \in [Dispatches -> {"open", "declined", "dead"}]
      BY <2>1, <2>6 DEF UndoSend, ThrownAgain, Of
    <3>2. /\ claim' = [claim EXCEPT ![worker[w].d] = FALSE] \/ claim' = claim
          /\ stranded' = stranded \/ stranded' = stranded \cup {worker[w].d}
          /\ mishaps' = mishaps \/ mishaps' = mishaps + 1
      BY <2>6 DEF UndoSend, Of
    <3>3. claim' \in [Dispatches -> BOOLEAN] /\ stranded' \subseteq Dispatches
      BY <2>1, <3>2
    <3>4. mishaps' \in Nat
      BY <3>2
    <3>5. UNCHANGED <<Contact, Requests, tries, accepted, rows, shown, allowedCopies, republished>>
      BY <2>6 DEF UndoSend
    <3> QED
      BY <3>1, <3>3, <3>4, <3>5
  <2>7. CASE CreateRow(w)
    BY <2>1, <2>7 DEF CreateRow, Of, Reports
  <2>8. CASE CreateRowFails(w) \/ WorkerCrashes(w)
    BY <2>1, <2>8 DEF CreateRowFails, WorkerCrashes, ThrownAgain, Of
  <2>9. CASE ClaimFails(w)
    <3>1. /\ worker' \in [Workers -> {Free} \cup
                             [at : {"claim", "contact", "consent", "policy", "send", "undo", "row"},
                              d : Dispatches]]
          /\ waiting' \in [Dispatches -> Nat]
          /\ fate' \in [Dispatches -> {"open", "declined", "dead"}]
      BY <2>1, <2>9 DEF ClaimFails, ThrownAgain, Of
    <3>2. /\ claim' = [claim EXCEPT ![worker[w].d] = TRUE] \/ claim' = claim
          /\ stranded' = stranded \/ stranded' = stranded \cup {worker[w].d}
          /\ mishaps' = mishaps + 1
      BY <2>9 DEF ClaimFails, Of
    <3>3. claim' \in [Dispatches -> BOOLEAN] /\ stranded' \subseteq Dispatches
      BY <2>1, <3>2
    <3>4. UNCHANGED <<Contact, Requests, tries, accepted, rows, shown, allowedCopies, republished>>
      BY <2>9 DEF ClaimFails
    <3> QED
      BY <3>1, <3>2, <3>3, <3>4
  <2> QED
    BY <1>6, <2>3, <2>4, <2>5, <2>6, <2>7, <2>8, <2>9
<1>7. CASE UNCHANGED sendsVars
  BY <1>7 DEF sendsVars
<1> QED
  BY <1>1, <1>2, <1>3, <1>4, <1>5, <1>6, <1>7 DEF SendsNext

(* Every step keeps the claims, the copies and what explains a claim.      *)
LEMMA SendsStep == SendsInv /\ [SendsNext]_sendsVars => SendsInv'
<1> SUFFICES ASSUME SendsInv, [SendsNext]_sendsVars PROVE SendsInv'
  OBVIOUS
<1> DEFINE Others == ClaimIsALock /\ CopiesAllowed /\ ClaimsExplained
<1>0. SendsTypeOK /\ SendsTypeOK' /\ Others
  BY SendsTypes DEF SendsInv
<1> SUFFICES Others'
  BY <1>0 DEF SendsInv
<1> USE SendsAssumption
    DEF SendsTypeOK, ClaimIsALock, CopiesAllowed, ClaimsExplained, OneCopyPerDispatch,
        NoDispatchVanishes, Explained, Over, Handled, Holds, Holding, Trying, Is, Of,
        Contact, Requests, Outcome, History, Mishap, Free
<1>1. ASSUME ContactStops \/ WindowCloses PROVE Others'
  BY <1>0, <1>1 DEF ContactStops, WindowCloses
<1>2. ASSUME NEW d \in AgentReplies, ReadConversation(d) \/ CheckContact(d) PROVE Others'
  BY <1>0, <1>2 DEF ReadConversation, CheckContact, Dispatches
<1>3. ASSUME NEW d \in Dispatches, EnqueueSend(d) PROVE Others'
  BY <1>0, <1>3 DEF EnqueueSend
<1>4. ASSUME NEW d \in Dispatches, RepublishSend(d) PROVE Others'
  BY <1>0, <1>4 DEF RepublishSend
<1>5. ASSUME NEW d \in Dispatches, ClaimExpires(d) PROVE Others'
  BY <1>0, <1>5 DEF ClaimExpires
<1>6. ASSUME NEW d \in Dispatches, NEW report \in Reports, StatusReported(d, report)
      PROVE  Others'
  BY <1>0, <1>6 DEF StatusReported
<1>7. ASSUME NEW d \in Dispatches, NEW w \in Workers, BeginDelivery(w, d) PROVE Others'
  BY <1>0, <1>7 DEF BeginDelivery
<1>8. ASSUME NEW w \in Workers, TakeClaim(w) PROVE Others'
  <2>1. worker[w].d \in Dispatches
    BY <1>0, <1>8, WorkerFacts DEF TakeClaim
  <2>2. CASE claim[worker[w].d]
    <3>1. claim' = claim
      BY <1>0, <1>8, <2>1, <2>2 DEF TakeClaim
    <3>2. ClaimIsALock'
      BY <1>0, <1>8, <2>1, <2>2, <3>1 DEF TakeClaim
    <3>3. CopiesAllowed'
      BY <1>0, <1>8, <2>1, <2>2, <3>1 DEF TakeClaim
    <3>4. /\ UNCHANGED <<sendRequest, waiting, accepted, fate, allowedCopies, stranded>>
          /\ worker' = [worker EXCEPT ![w] = Free]
          /\ worker[w].at = "claim"
      BY <1>8, <2>2 DEF TakeClaim
    <3>5. \A d \in Dispatches :
             claim'[d] => Explained(d)' \/ \E v \in Workers : Holds(v)' /\ worker'[v].d = d
      BY <1>0, <3>1, <3>4
    <3>6. \A v \in Workers : worker'[v].at = "row" => accepted'[worker'[v].d] > 0
      BY <1>0, <3>4
    <3>7. NoDispatchVanishes'
      BY <1>0, <2>1, <2>2, <3>1, <3>4
    <3> QED
      BY <3>2, <3>3, <3>5, <3>6, <3>7
  <2>3. CASE ~claim[worker[w].d]
    <3>1. PICK step \in {"send", "contact"} : Go(w, step)
      BY <1>8, <2>3 DEF TakeClaim
    <3>2. claim' = [claim EXCEPT ![worker[w].d] = TRUE]
      BY <1>8 DEF TakeClaim
    <3>3. /\ UNCHANGED <<sendRequest, waiting, accepted, fate, allowedCopies, stranded>>
          /\ worker[w].at = "claim"
      BY <1>8 DEF TakeClaim
    <3>4. ClaimIsALock'
      BY <1>0, <2>1, <2>3, <3>1, <3>2, <3>3 DEF Go
    <3>5. CopiesAllowed'
      BY <1>0, <2>1, <2>3, <3>1, <3>2, <3>3 DEF Go
    <3>6. ClaimsExplained'
      BY <1>0, <2>1, <2>3, <3>1, <3>2, <3>3 DEF Go
    <3> QED
      BY <3>4, <3>5, <3>6
  <2> QED
    BY <2>2, <2>3
<1>9. ASSUME NEW w \in Workers, ReadContact(w) \/ ReadConsent(w) \/ ReadPolicy(w)
      PROVE  Others'
  <2>1. /\ worker[w].d \in Dispatches
        /\ worker[w].at \in {"contact", "consent", "policy"}
        /\ UNCHANGED <<sendRequest, waiting, claim, accepted, allowedCopies, stranded>>
    BY <1>0, <1>9, WorkerFacts DEF ReadContact, ReadConsent, ReadPolicy
  <2>2. Declines(w) \/ \E step \in {"consent", "policy", "send"} : Go(w, step) /\ fate' = fate
    BY <1>9 DEF ReadContact, ReadConsent, ReadPolicy
  <2>3. CASE Declines(w)
    BY <1>0, <2>1, <2>3 DEF Declines
  <2>4. ASSUME NEW step \in {"consent", "policy", "send"}, Go(w, step), fate' = fate
        PROVE  Others'
    BY <1>0, <2>1, <2>4 DEF Go
  <2> QED
    BY <2>2, <2>3, <2>4
<1>10. ASSUME NEW w \in Workers, SendAccepted(w) PROVE Others'
  BY <1>0, <1>10, WorkerFacts DEF SendAccepted, Go
<1>11. ASSUME NEW w \in Workers, SendFails(w) PROVE Others'
  BY <1>0, <1>11, WorkerFacts DEF SendFails, Go
<1>12. ASSUME NEW w \in Workers, AnswerLost(w) \/ PostedAgain(w) PROVE Others'
  <2>1. CASE AnswerLost(w)
    BY <1>0, <2>1, WorkerFacts DEF AnswerLost, Go
  <2>2. CASE PostedAgain(w)
    BY <1>0, <2>2, WorkerFacts DEF PostedAgain
  <2> QED
    BY <1>12, <2>1, <2>2
<1>13. ASSUME NEW w \in Workers, UndoSend(w) PROVE Others'
  BY <1>0, <1>13, WorkerFacts DEF UndoSend, ThrownAgain
<1>14. ASSUME NEW w \in Workers, CreateRow(w) PROVE Others'
  BY <1>0, <1>14, WorkerFacts DEF CreateRow
<1>15. ASSUME NEW w \in Workers, CreateRowFails(w) PROVE Others'
  BY <1>0, <1>15, WorkerFacts DEF CreateRowFails, ThrownAgain
<1>16. ASSUME NEW w \in Workers, WorkerCrashes(w) PROVE Others'
  BY <1>0, <1>16, WorkerFacts DEF WorkerCrashes, ThrownAgain
<1>17. ASSUME NEW w \in Workers, ClaimFails(w) PROVE Others'
  <2>1. /\ worker[w].d \in Dispatches
        /\ worker[w].at = "claim"
        /\ worker' = [worker EXCEPT ![w] = Free]
        /\ UNCHANGED <<sendRequest, accepted, allowedCopies>>
    BY <1>0, <1>17, WorkerFacts DEF ClaimFails, ThrownAgain
  <2>2. CASE UNCHANGED <<claim, stranded>>
    BY <1>0, <1>17, <2>1, <2>2 DEF ClaimFails, ThrownAgain
  <2>3. CASE /\ ~claim[worker[w].d]
             /\ claim' = [claim EXCEPT ![worker[w].d] = TRUE]
             /\ stranded' = stranded \cup {worker[w].d}
    <3>1. ClaimIsALock'
      BY <1>0, <2>1, <2>3
    <3>2. CopiesAllowed'
      BY <1>0, <2>1, <2>3
    <3>3. ClaimsExplained'
      BY <1>0, <1>17, <2>1, <2>3 DEF ClaimFails, ThrownAgain
    <3> QED
      BY <3>1, <3>2, <3>3
  <2> QED
    BY <1>17, <2>2, <2>3 DEF ClaimFails
<1>18. CASE UNCHANGED sendsVars
  BY <1>0, <1>18 DEF sendsVars
<1> QED
  BY <1>1, <1>2, <1>3, <1>4, <1>5, <1>6, <1>7, <1>8, <1>9, <1>10, <1>11, <1>12, <1>13, <1>14,
     <1>15, <1>16, <1>17, <1>18 DEF SendsNext

(* However deliveries repeat, overlap and fail, no copy is made beyond     *)
(* those a lost answer or an expired claim allows (the claim taken and     *)
(* released by handleOutbound and handleAutomationTemplate).               *)
THEOREM CopiesBounded == SendsSpec => []OneCopyPerDispatch
<1>1. SendsInv => OneCopyPerDispatch
  BY DEF SendsInv, CopiesAllowed
<1> QED
  BY <1>1, SendsInitially, SendsStep, PTL DEF SendsSpec

(* What an agent or an automation queued ends accepted, declined or dead,  *)
(* unless a crash, a failed row, a failed release or a claim whose answer  *)
(* was lost left its key behind (the same handlers).                       *)
THEOREM DispatchesAccounted == SendsSpec => []NoDispatchVanishes
<1>1. SendsInv => NoDispatchVanishes
  BY DEF SendsInv, ClaimsExplained
<1> QED
  BY <1>1, SendsInitially, SendsStep, PTL DEF SendsSpec

-----------------------------------------------------------------------------
(* Who holds a claim is unchanged when nobody takes one or lets it go.     *)
LEMMA HoldersStay ==
  ASSUME \A w \in Workers : (Holds(w)' <=> Holds(w)) /\ (Holds(w) => worker'[w].d = worker[w].d)
  PROVE  [d \in Dispatches |-> HoldersOf(d)]' = [d \in Dispatches |-> HoldersOf(d)]
<1>1. ASSUME NEW d \in Dispatches PROVE HoldersOf(d)' = HoldersOf(d)
  BY DEF HoldersOf, Of
<1> QED
  BY <1>1

(* The claim of a dispatch somebody holds has no other holder.             *)
LEMMA SoleHolder ==
  ASSUME SendsTypeOK, ClaimIsALock, NEW w \in Workers, Holds(w)
  PROVE  /\ worker[w].d \in Dispatches
         /\ claim[worker[w].d]
         /\ HoldersOf(worker[w].d) = {w}
<1>1. worker[w].d \in Dispatches
  BY WorkerFacts DEF Holds, Holding, Trying
<1> QED
  BY <1>1 DEF ClaimIsALock, HoldersOf, Of

(* A holder that is free again has let go of its claim, and of no other.   *)
LEMMA HolderGone ==
  ASSUME SendsTypeOK, ClaimIsALock, NEW w \in Workers, Holds(w),
         worker' = [worker EXCEPT ![w] = Free]
  PROVE  [d \in Dispatches |-> HoldersOf(d)]' =
           [[d \in Dispatches |-> HoldersOf(d)] EXCEPT ![worker[w].d] = {}]
<1>1. ~Holds(w)' /\ \A v \in Workers : v # w => worker'[v] = worker[v]
  BY DEF SendsTypeOK, Holds, Holding, Trying, Free
<1>2. HoldersOf(worker[w].d) = {w} /\ worker[w].d \in Dispatches
  BY SoleHolder
<1>3. ASSUME NEW d \in Dispatches
      PROVE  HoldersOf(d)' = IF d = worker[w].d THEN {} ELSE HoldersOf(d)
  <2>1. \A v \in Workers : v # w => (Holds(v)' <=> Holds(v)) /\ Of(v)' = Of(v)
    BY <1>1 DEF Holds, Of
  <2>2. HoldersOf(d)' = HoldersOf(d) \ {w}
    BY <1>1, <2>1 DEF HoldersOf
  <2>3. d # worker[w].d => w \notin HoldersOf(d)
    BY DEF HoldersOf, Of
  <2> QED
    BY <1>2, <2>2, <2>3
<1> QED
  BY <1>3

(* A worker that goes on with another step of its attempt still holds it.  *)
LEMMA HolderGoesOn ==
  ASSUME SendsTypeOK, NEW w \in Workers, Holds(w), NEW step \in Holding, Go(w, step)
  PROVE  [d \in Dispatches |-> HoldersOf(d)]' = [d \in Dispatches |-> HoldersOf(d)]
<1>1. \A v \in Workers : v # w => worker'[v] = worker[v]
  BY DEF SendsTypeOK, Go
<1>2. worker'[w] = [at |-> step, d |-> worker[w].d]
  BY DEF SendsTypeOK, Go, Of
<1> QED
  BY <1>1, <1>2, HoldersStay DEF Holds

(* Every step is one of SendClaim's, or leaves the claims alone.           *)
LEMMA SendsClaimStep ==
  ASSUME SendsInv, SendsInv', [SendsNext]_sendsVars
  PROVE  [Claim!Next]_(Claim!claimVars)
<1> DEFINE taken == {d \in Dispatches : claim[d]}
           holders == [d \in Dispatches |-> HoldersOf(d)]
<1>0. SendsTypeOK /\ ClaimIsALock /\ CopiesAllowed /\ SendsTypeOK'
  BY DEF SendsInv
<1> USE <1>0
<1>A. /\ claim \in [Dispatches -> BOOLEAN]
      /\ accepted \in [Dispatches -> Nat]
      /\ allowedCopies \in [Dispatches -> Nat]
  BY DEF SendsTypeOK
<1>B. ASSUME NEW w \in Workers, worker[w].at # "free" PROVE worker[w].d \in Dispatches
  BY <1>B, WorkerFacts
<1>C. ASSUME UNCHANGED <<claim, accepted, allowedCopies>>, holders' = holders
      PROVE  UNCHANGED Claim!claimVars
  BY <1>C DEF Claim!claimVars
<1>D. ASSUME NEW w \in Workers, Holds(w), worker' = [worker EXCEPT ![w] = Free],
             UNCHANGED <<claim, accepted, allowedCopies>>
      PROVE  Claim!Next
  <2>1. Claim!Leave(worker[w].d, w)
    BY <1>D, SoleHolder, HolderGone DEF Claim!Leave
  <2> QED
    BY <1>D, <2>1, SoleHolder DEF Claim!Next
<1>E. ASSUME UNCHANGED <<claim, accepted, allowedCopies, worker>> PROVE UNCHANGED Claim!claimVars
  BY <1>C, <1>E, HoldersStay DEF Holds
<1>1. CASE \/ ContactStops \/ WindowCloses
           \/ \E d \in AgentReplies : ReadConversation(d) \/ CheckContact(d)
           \/ \E d \in Dispatches :
                 \/ EnqueueSend(d) \/ RepublishSend(d)
                 \/ \E report \in Reports : StatusReported(d, report)
  BY <1>1, <1>E DEF ContactStops, WindowCloses, ReadConversation, CheckContact, EnqueueSend,
       RepublishSend, StatusReported, Outcome, History
<1>2. ASSUME NEW d \in Dispatches, ClaimExpires(d) PROVE Claim!Next
  <2>1. claim' = [claim EXCEPT ![d] = FALSE] /\ claim[d] /\ ~Handled(d)
        /\ allowedCopies' = [allowedCopies EXCEPT ![d] = @ + 1]
        /\ UNCHANGED <<worker, accepted>>
    BY <1>2 DEF ClaimExpires, Outcome
  <2>2. holders' = holders
    BY <2>1, HoldersStay DEF Holds
  <2>3. HoldersOf(d) = {}
    BY <2>1 DEF HoldersOf, Holds, Holding, Trying, Handled, Is
  <2>4. taken' = taken \ {d}
    BY <1>A, <2>1
  <2>5. Claim!Expire(d)
    BY <2>1, <2>2, <2>3, <2>4 DEF Claim!Expire, Claim!Excuse
  <2> QED
    BY <2>5 DEF Claim!Next
<1>3. ASSUME NEW d \in Dispatches, NEW w \in Workers, BeginDelivery(w, d)
      PROVE  UNCHANGED Claim!claimVars
  <2>1. /\ worker[w].at = "free" /\ worker' = [worker EXCEPT ![w] = [at |-> "claim", d |-> d]]
        /\ UNCHANGED <<claim, accepted, allowedCopies>>
    BY <1>3 DEF BeginDelivery, Is, Outcome, History
  <2>2. worker'[w].at = "claim" /\ \A v \in Workers : v # w => worker'[v] = worker[v]
    BY <2>1 DEF SendsTypeOK
  <2>3. holders' = holders
    BY <2>1, <2>2, HoldersStay DEF Holds, Holding, Trying
  <2> QED
    BY <1>C, <2>1, <2>3
<1>4. ASSUME NEW w \in Workers, TakeClaim(w) PROVE Claim!Next \/ UNCHANGED Claim!claimVars
  <2>1. /\ worker[w].at = "claim" /\ worker[w].d \in Dispatches /\ ~Holds(w)
        /\ claim' = [claim EXCEPT ![worker[w].d] = TRUE]
        /\ UNCHANGED <<accepted, allowedCopies>>
    BY <1>4, <1>B DEF TakeClaim, Is, Of, Outcome, History, Holds, Holding, Trying
  <2>2. CASE claim[worker[w].d]
    <3>1. worker' = [worker EXCEPT ![w] = Free] /\ claim' = claim
      BY <1>4, <1>A, <2>1, <2>2 DEF TakeClaim, Of
    <3>2. ~Holds(w)' /\ \A v \in Workers : v # w => worker'[v] = worker[v]
      BY <3>1 DEF SendsTypeOK, Holds, Holding, Trying, Free
    <3>3. holders' = holders
      BY <2>1, <3>2, HoldersStay DEF Holds
    <3> QED
      BY <1>C, <2>1, <3>1, <3>3
  <2>3. CASE ~claim[worker[w].d]
    <3>1. PICK step \in {"send", "contact"} : Go(w, step)
      BY <1>4, <2>3 DEF TakeClaim, Of
    <3>2. /\ worker'[w] = [at |-> step, d |-> worker[w].d]
          /\ \A v \in Workers : v # w => worker'[v] = worker[v]
      BY <3>1 DEF SendsTypeOK, Go, Of
    <3>3. ASSUME NEW d \in Dispatches
          PROVE  HoldersOf(d)' = IF d = worker[w].d THEN {w} ELSE HoldersOf(d)
      <4>1. \A v \in Workers : v # w => (Holds(v)' <=> Holds(v)) /\ Of(v)' = Of(v)
        BY <3>2 DEF Holds, Of
      <4>2. Holds(w)' /\ Of(w)' = worker[w].d
        BY <3>2 DEF Holds, Holding, Trying, Of
      <4>3. \A v \in Workers : Holds(v) => Of(v) # worker[w].d
        BY <2>3 DEF ClaimIsALock, Of
      <4> QED
        BY <2>1, <4>1, <4>2, <4>3 DEF HoldersOf
    <3>4. holders' = [holders EXCEPT ![worker[w].d] = {w}]
      BY <3>3
    <3>5. taken' = taken \cup {worker[w].d}
      BY <1>A, <2>1
    <3>6. Claim!Take(worker[w].d, w)
      BY <2>1, <2>3, <3>4, <3>5 DEF Claim!Take
    <3> QED
      BY <2>1, <3>6 DEF Claim!Next
  <2> QED
    BY <2>2, <2>3
<1>5. ASSUME NEW w \in Workers, ReadContact(w) \/ ReadConsent(w) \/ ReadPolicy(w)
      PROVE  Claim!Next \/ UNCHANGED Claim!claimVars
  <2>1. Holds(w) /\ UNCHANGED <<claim, accepted, allowedCopies>>
    BY <1>5 DEF ReadContact, ReadConsent, ReadPolicy, Is, History, Holds, Holding, Trying
  <2>2. Declines(w) \/ \E step \in {"consent", "policy", "send"} : Go(w, step)
    BY <1>5 DEF ReadContact, ReadConsent, ReadPolicy
  <2>3. CASE Declines(w)
    BY <1>D, <2>1, <2>3 DEF Declines
  <2>4. ASSUME NEW step \in {"consent", "policy", "send"}, Go(w, step)
        PROVE  UNCHANGED Claim!claimVars
    <3>1. step \in Holding
      BY DEF Holding, Trying
    <3> QED
      BY <1>C, <2>1, <2>4, <3>1, HolderGoesOn
  <2> QED
    BY <2>2, <2>3, <2>4
<1>6. ASSUME NEW w \in Workers, SendAccepted(w) \/ AnswerLost(w) \/ PostedAgain(w) PROVE Claim!Next
  <2>1. /\ worker[w].at = "send" /\ Holds(w) /\ UNCHANGED claim
        /\ accepted' = [accepted EXCEPT ![worker[w].d] = @ + 1]
    BY <1>6 DEF SendAccepted, AnswerLost, PostedAgain, Is, Of, Holds, Holding, Trying
  <2>2. (\E step \in {"row", "undo"} : Go(w, step)) \/ UNCHANGED worker
    BY <1>6 DEF SendAccepted, AnswerLost, PostedAgain
  <2>3. holders' = holders
    <3>1. ASSUME NEW step \in {"row", "undo"}, Go(w, step) PROVE holders' = holders
      <4>1. step \in Holding
        BY DEF Holding, Trying
      <4> QED
        BY <2>1, <3>1, <4>1, HolderGoesOn
    <3>2. ASSUME UNCHANGED worker PROVE holders' = holders
      BY <3>2, HoldersStay DEF Holds
    <3> QED
      BY <2>2, <3>1, <3>2
  <2>4. accepted[worker[w].d] <= allowedCopies[worker[w].d]
    BY <2>1 DEF CopiesAllowed, Trying
  <2>5. \/ UNCHANGED allowedCopies
        \/ allowedCopies' = [allowedCopies EXCEPT ![worker[w].d] = @ + 1]
    BY <1>6 DEF SendAccepted, AnswerLost, PostedAgain, Of, History
  <2>6. Claim!Send(worker[w].d, w)
    BY <2>1, <2>3, <2>4, <2>5, SoleHolder DEF Claim!Send, Claim!Excuse
  <2> QED
    BY <2>1, <2>6, SoleHolder DEF Claim!Next
<1>7. ASSUME NEW w \in Workers, SendFails(w) PROVE UNCHANGED Claim!claimVars
  <2>1. Holds(w) /\ Go(w, "undo") /\ UNCHANGED <<claim, accepted, allowedCopies>>
    BY <1>7 DEF SendFails, Outcome, Holds, Holding, Trying
  <2>2. "undo" \in Holding
    BY DEF Holding, Trying
  <2> QED
    BY <1>C, <2>1, <2>2, HolderGoesOn
<1>8. ASSUME NEW w \in Workers, UndoSend(w) PROVE Claim!Next
  <2>1. /\ worker[w].at = "undo" /\ Holds(w) /\ worker' = [worker EXCEPT ![w] = Free]
        /\ UNCHANGED <<accepted, allowedCopies>>
    BY <1>8 DEF UndoSend, ThrownAgain, Is, Holds, Holding, Trying
  <2>2. claim' = claim \/ claim' = [claim EXCEPT ![worker[w].d] = FALSE]
    BY <1>8 DEF UndoSend, Of
  <2>3. CASE claim' = claim
    BY <1>D, <2>1, <2>3
  <2>4. CASE claim' = [claim EXCEPT ![worker[w].d] = FALSE]
    <3>1. taken' = taken \ {worker[w].d}
      BY <1>A, <2>1, <2>4, SoleHolder
    <3>2. accepted[worker[w].d] <= allowedCopies[worker[w].d]
      BY <2>1 DEF CopiesAllowed, Trying
    <3>3. Claim!GiveBack(worker[w].d, w)
      BY <2>1, <3>1, <3>2, SoleHolder, HolderGone DEF Claim!GiveBack
    <3> QED
      BY <2>1, <3>3, SoleHolder DEF Claim!Next
  <2> QED
    BY <2>2, <2>3, <2>4
<1>9. ASSUME NEW w \in Workers, CreateRow(w) \/ CreateRowFails(w) PROVE Claim!Next
  <2>1. /\ Holds(w) /\ worker' = [worker EXCEPT ![w] = Free]
        /\ UNCHANGED <<claim, accepted, allowedCopies>>
    BY <1>9 DEF CreateRow, CreateRowFails, ThrownAgain, Is, History, Holds, Holding
  <2> QED
    BY <1>D, <2>1
<1>10. ASSUME NEW w \in Workers, WorkerCrashes(w) PROVE Claim!Next
  BY <1>10, <1>D DEF WorkerCrashes, ThrownAgain
<1>11. ASSUME NEW w \in Workers, ClaimFails(w) PROVE Claim!Next \/ UNCHANGED Claim!claimVars
  <2>1. /\ worker[w].at = "claim" /\ worker[w].d \in Dispatches /\ ~Holds(w)
        /\ worker' = [worker EXCEPT ![w] = Free]
        /\ UNCHANGED <<accepted, allowedCopies>>
    BY <1>11, <1>B DEF ClaimFails, ThrownAgain, Is, Of, Holds, Holding, Trying
  <2>2. ~Holds(w)' /\ \A v \in Workers : v # w => worker'[v] = worker[v]
    BY <2>1 DEF SendsTypeOK, Holds, Holding, Trying, Free
  <2>3. holders' = holders
    BY <2>1, <2>2, HoldersStay DEF Holds
  <2>4. CASE UNCHANGED claim
    BY <1>C, <2>1, <2>3, <2>4
  <2>5. CASE ~claim[worker[w].d] /\ claim' = [claim EXCEPT ![worker[w].d] = TRUE]
    <3>1. PICK d \in Dispatches : d = worker[w].d
      BY <2>1
    <3>2. taken' = taken \cup {d} /\ d \notin taken
      BY <1>A, <2>5, <3>1
    <3>3. Claim!TakenUnknown(d)
      BY <2>1, <2>3, <3>2 DEF Claim!TakenUnknown
    <3>4. Claim!Next
      BY <3>3 DEF Claim!Next
    <3> QED
      BY <3>4
  <2> QED
    BY <1>11, <2>4, <2>5 DEF ClaimFails, Of
<1>12. CASE UNCHANGED sendsVars
  BY <1>12, <1>E DEF sendsVars
<1> QED
  BY <1>1, <1>2, <1>3, <1>4, <1>5, <1>6, <1>7, <1>8, <1>9, <1>10, <1>11, <1>12 DEF SendsNext

(***************************************************************************)
(* The Redis claim on a dispatchId keeps the promise of SendClaim: one     *)
(* worker holds it, Meta gets one copy for each claim and each excuse, and *)
(* only its holder gives it back or leaves it behind.                      *)
(***************************************************************************)
THEOREM DispatchClaimRefines == SendsSpec => DispatchImplementsSendClaim
<1>1. SendsInit => Claim!Init
  <2> SUFFICES ASSUME SendsInit PROVE Claim!Init
    OBVIOUS
  <2>1. \A d \in Dispatches : HoldersOf(d) = {}
    BY DEF SendsInit, HoldersOf, Holds, Holding, Trying, Free
  <2>2. {d \in Dispatches : claim[d]} = {}
    BY DEF SendsInit
  <2> QED
    BY <2>1, <2>2 DEF SendsInit, Claim!Init, Zero
<1>2. SendsInv /\ SendsInv' /\ [SendsNext]_sendsVars => [Claim!Next]_(Claim!claimVars)
  BY SendsClaimStep
<1> QED
  BY <1>1, <1>2, SendsInitially, SendsStep, PTL DEF SendsSpec, DispatchImplementsSendClaim, Claim!Spec

-----------------------------------------------------------------------------
(***************************************************************************)
(* Orders. What has been announced, or is about to be, is a move the order *)
(* made and cannot make again; a link is made only by the request that     *)
(* confirmed the order, after it found none.                               *)
(***************************************************************************)
OrdersTypeOK ==
    /\ order \in {"none", "created"} \cup Targets
    /\ paymentLink \in {"none", "provider", "manual"}
    /\ statusRequest \in [Clerks -> [at : {"idle", "publish", "create", "attach"},
                                     target : {"none"} \cup Targets,
                                     link : {"none", "provider", "manual"}]]
    /\ \A c \in Clerks : (statusRequest[c].at = "idle") = (statusRequest[c].target = "none")
    /\ announced \in [Targets -> Nat]
    /\ linksMade \in Nat
    /\ setByHand \in BOOLEAN

Moved(s) == announced[s] > 0 \/ \E c \in Clerks : statusRequest[c].target = s

MovesAreFinal ==
    /\ Moved("confirmed") => order \in Targets
    /\ Moved("paid") => order = "paid"
    /\ Moved("cancelled") => order = "cancelled"

OneMover ==
    /\ \A b, c \in Clerks :
          b # c /\ statusRequest[b].target # "none" =>
              statusRequest[b].target # statusRequest[c].target
    /\ \A c \in Clerks :
          statusRequest[c].at = "publish" => announced[statusRequest[c].target] = 0

LinksOfTheConfirmation ==
    /\ \A c \in Clerks : statusRequest[c].at \in {"create", "attach"} =>
          statusRequest[c].target = "confirmed" /\ statusRequest[c].link = "none"
    /\ \A c \in Clerks : statusRequest[c].target = "confirmed" /\ statusRequest[c].at # "attach" =>
          linksMade = 0
    /\ linksMade > 0 => order \in Targets

HandSetLinkStands == setByHand => paymentLink = "manual" /\ ~Confirming

OrdersInv ==
    /\ OrdersTypeOK
    /\ MovesAreFinal
    /\ OneMover
    /\ LinksOfTheConfirmation
    /\ HandSetLinkStands
    /\ OneOutcome

(* No order has been created.                                              *)
LEMMA OrdersInitially == OrdersInit => OrdersInv
<1> SUFFICES ASSUME OrdersInit PROVE OrdersInv
  OBVIOUS
<1> USE DEF OrdersInit, NoStatusRequest, Targets
<1>1. OrdersTypeOK
  BY DEF OrdersTypeOK
<1>2. MovesAreFinal /\ OneMover
  BY DEF MovesAreFinal, OneMover, Moved
<1>3. LinksOfTheConfirmation /\ HandSetLinkStands /\ OneOutcome
  BY DEF LinksOfTheConfirmation, HandSetLinkStands, OneOutcome
<1> QED
  BY <1>1, <1>2, <1>3 DEF OrdersInv

(* Every request, and every edit of the link, keeps the invariant.         *)
LEMMA OrdersStep == OrdersInv /\ [OrdersNext]_ordersVars => OrdersInv'
<1> SUFFICES ASSUME OrdersInv, [OrdersNext]_ordersVars PROVE OrdersInv'
  OBVIOUS
<1> USE DEF OrdersInv, OrdersTypeOK, MovesAreFinal, OneMover, LinksOfTheConfirmation,
            HandSetLinkStands, OneOutcome, Moved, Confirming, NoStatusRequest, Targets
<1>1. CASE CreateOrder
  BY <1>1 DEF CreateOrder
<1>2. ASSUME NEW c \in Clerks, NEW target \in Targets, Transition(c, target) PROVE OrdersInv'
  BY <1>2 DEF Transition, MovesTo, AllowedFrom
<1>3. ASSUME NEW c \in Clerks, PublishOrderEvent(c) PROVE OrdersInv'
  BY <1>3 DEF PublishOrderEvent, ContinueRequest, EndStatusRequest
<1>4. ASSUME NEW c \in Clerks, PublishOrderEventFails(c) PROVE OrdersInv'
  BY <1>4 DEF PublishOrderEventFails, OrderFault, EndStatusRequest
<1>5. ASSUME NEW c \in Clerks, CreatePaymentLink(c) PROVE OrdersInv'
  BY <1>5 DEF CreatePaymentLink, ContinueRequest
<1>6. ASSUME NEW c \in Clerks, CreatePaymentLinkFails(c) PROVE OrdersInv'
  BY <1>6 DEF CreatePaymentLinkFails, OrderFault, EndStatusRequest
<1>7. ASSUME NEW c \in Clerks, AttachPaymentLink(c) PROVE OrdersInv'
  BY <1>7 DEF AttachPaymentLink, OrderFault, EndStatusRequest
<1>8. ASSUME NEW l \in {"manual", "none"}, SetPaymentLink(l) PROVE OrdersInv'
  BY <1>8 DEF SetPaymentLink
<1>9. CASE UNCHANGED ordersVars
  BY <1>9 DEF ordersVars
<1> QED
  BY <1>1, <1>2, <1>3, <1>4, <1>5, <1>6, <1>7, <1>8, <1>9 DEF OrdersNext

(* A customer is told one outcome and asked to pay once, for any number of *)
(* racing requests (the transition of POST /orders/:id/status).            *)
THEOREM OneOutcomeHolds == OrdersSpec => []OneOutcome
<1>1. OrdersInv => OneOutcome
  BY DEF OrdersInv
<1> QED
  BY <1>1, OrdersInitially, OrdersStep, PTL DEF OrdersSpec

-----------------------------------------------------------------------------
(***************************************************************************)
(* Task reminders. Two instances hold a task, or one holds a task that was *)
(* broadcast already, only when it was listed while another held it.       *)
(***************************************************************************)
TasksTypeOK ==
    /\ remindedAt \subseteq DeskTasks
    /\ dueList \in [ReminderHosts -> SUBSET DeskTasks]
    /\ toBroadcast \in [ReminderHosts -> SUBSET DeskTasks]
    /\ reminders \in [DeskTasks -> Nat]
    /\ listedAgain \subseteq DeskTasks

HeldOnce ==
    /\ \A i \in ReminderHosts : toBroadcast[i] \subseteq remindedAt
    /\ \A i \in ReminderHosts : toBroadcast[i] \cap dueList[i] = {}
    /\ \A i, j \in ReminderHosts : i # j => Listed(i) \cap Listed(j) \subseteq listedAgain
    /\ \A i \in ReminderHosts : \A t \in Listed(i) : reminders[t] > 0 => t \in listedAgain

TasksInv == TasksTypeOK /\ HeldOnce /\ RemindedOnce

(* No task exists and nothing is listed.                                   *)
LEMMA TasksInitially == TasksInit => TasksInv
  BY DEF TasksInit, TasksInv, TasksTypeOK, HeldOnce, RemindedOnce, Listed

(* Every edit of a task and every step of a tick keeps the invariant.      *)
LEMMA TasksStep == TasksInv /\ [TasksNext]_tasksVars => TasksInv'
<1> SUFFICES ASSUME TasksInv, [TasksNext]_tasksVars PROVE TasksInv'
  OBVIOUS
<1> USE DEF TasksInv, TasksTypeOK, HeldOnce, RemindedOnce, Listed
<1>1. ASSUME NEW t \in DeskTasks, CreateTask(t) \/ ReminderComesDue(t) PROVE TasksInv'
  BY <1>1 DEF CreateTask, ReminderComesDue
<1>2. ASSUME NEW t \in DeskTasks, NEW status \in TaskStatuses, UpdateTaskStatus(t, status)
      PROVE  TasksInv'
  BY <1>2 DEF UpdateTaskStatus
<1>3. ASSUME NEW i \in ReminderHosts, ListDueReminders(i) PROVE TasksInv'
  BY <1>3 DEF ListDueReminders, AwaitsReminder
<1>4. ASSUME NEW i \in ReminderHosts, NEW t \in DeskTasks, MarkReminded(i, t) PROVE TasksInv'
  BY <1>4 DEF MarkReminded
<1>5. ASSUME NEW i \in ReminderHosts, BroadcastReminder(i) PROVE TasksInv'
  BY <1>5 DEF BroadcastReminder
<1>6. ASSUME NEW i \in ReminderHosts, ReminderTickFails(i) PROVE TasksInv'
  BY <1>6 DEF ReminderTickFails
<1>7. CASE UNCHANGED tasksVars
  BY <1>7 DEF tasksVars
<1> QED
  BY <1>1, <1>2, <1>3, <1>4, <1>5, <1>6, <1>7 DEF TasksNext

(* A task is reminded of again only after two instances had it listed at   *)
(* once (the gateway's reminder timer and taskRepository.markReminded).    *)
THEOREM RemindersOnce == TasksSpec => []RemindedOnce
<1>1. TasksInv => RemindedOnce
  BY DEF TasksInv
<1> QED
  BY <1>1, TasksInitially, TasksStep, PTL DEF TasksSpec

-----------------------------------------------------------------------------
(***************************************************************************)
(* Channel credentials. A token that a lookup under way will put back is   *)
(* as suspect as one in a cache already; before the channel exists there   *)
(* is neither.                                                             *)
(***************************************************************************)
LookupsExplained ==
    \A i \in Instances : \A t \in lookups[i] : t # token => i \in mayBeStale

NothingBeforeTheRow ==
    token = Absent =>
        /\ rotating = {}
        /\ \A i \in Instances : creds[i] = Absent /\ lookups[i] = {}

ChannelsInv ==
    /\ ChannelsTypeOK
    /\ LookupsExplained
    /\ NothingBeforeTheRow
    /\ StaleTokenIsExplained

(* The initial state has no row and nothing remembered.                    *)
LEMMA ChannelsInitially == ChannelsInit => ChannelsInv
  BY DEF ChannelsInit, ChannelsInv, ChannelsTypeOK, LookupsExplained, NothingBeforeTheRow,
         StaleTokenIsExplained, Absent

(* Every operation on the row or on a cache keeps the invariant.           *)
LEMMA ChannelsStep == ChannelsInv /\ [ChannelsNext]_channelsVars => ChannelsInv'
<1> SUFFICES ASSUME ChannelsInv, [ChannelsNext]_channelsVars PROVE ChannelsInv'
  OBVIOUS
<1> USE DEF ChannelsInv, ChannelsTypeOK, LookupsExplained, NothingBeforeTheRow,
            StaleTokenIsExplained, Absent
<1>1. CASE CreateChannel
  BY <1>1 DEF CreateChannel
<1>2. ASSUME NEW i \in Instances, ReadCredentials(i) PROVE ChannelsInv'
  BY <1>2 DEF ReadCredentials
<1>3. ASSUME NEW i \in Instances, RememberCredentials(i) PROVE ChannelsInv'
  BY <1>3 DEF RememberCredentials
<1>4. ASSUME NEW i \in Instances, UpdateToken(i) PROVE ChannelsInv'
  BY <1>4, ChannelsAssumption DEF UpdateToken
<1>5. CASE UpdateAnswerLost
  BY <1>5, ChannelsAssumption DEF UpdateAnswerLost
<1>6. ASSUME NEW i \in Instances, ForgetCredentials(i) PROVE ChannelsInv'
  BY <1>6 DEF ForgetCredentials, Caught
<1>7. ASSUME NEW i \in Instances, CredentialsExpire(i) PROVE ChannelsInv'
  BY <1>7 DEF CredentialsExpire, Caught
<1>8. CASE UNCHANGED channelsVars
  BY <1>8 DEF channelsVars
<1> QED
  BY <1>1, <1>2, <1>3, <1>4, <1>5, <1>6, <1>7, <1>8 DEF ChannelsNext

(* Whoever sends with a replaced token is another process within its five  *)
(* minutes, a process about to forget it, one whose lookup straddled the   *)
(* rotation, or one whose update threw after its commit                    *)
(* (channelRepository.getCredentials and the channel PATCH).               *)
THEOREM StaleTokensExplained == ChannelsSpec => []StaleTokenIsExplained
<1>1. ChannelsInv => StaleTokenIsExplained
  BY DEF ChannelsInv
<1> QED
  BY <1>1, ChannelsInitially, ChannelsStep, PTL DEF ChannelsSpec

-----------------------------------------------------------------------------
(***************************************************************************)
(* Message templates. The records of a row and of a request.               *)
(***************************************************************************)
TemplateRows ==
    [id : Nat, link : Nat, status : {"none", "pending", "approved", "rejected"},
     body : Bodies \cup {"none"}]
TemplateRequests ==
    [kind : {"none", "submit", "edit", "delete", "sync"}, at : {"idle", "meta", "row"},
     seen : TemplateRows, body : Bodies \cup {"none"}]

(***************************************************************************)
(* Types; a request that is idle is no request, any other has a kind.      *)
(***************************************************************************)
TemplatesTypeOK ==
    /\ template \in TemplateRows
    /\ remote \in TemplateRows
    /\ made \in Nat
    /\ templateRequest \in [TemplateEditors -> TemplateRequests]
    /\ \A e \in TemplateEditors :
          IF templateRequest[e].at = "idle" THEN templateRequest[e] = NoTemplateRequest
          ELSE templateRequest[e].kind # "none"

(***************************************************************************)
(* A request under way, and what the row and Meta's template agree on.     *)
(***************************************************************************)
Running(e) == templateRequest[e].at # "idle"
Agreed == template.link # 0 => remote.id = template.link /\ remote.body = template.body

(***************************************************************************)
(* What a request that runs alone has found out: it read the row as it     *)
(* still is, and once Meta has answered, the row lacks exactly what the    *)
(* answer will bring it.                                                   *)
(***************************************************************************)
OnTrack(e) ==
    LET request == templateRequest[e] IN
    /\ request.kind # "sync" => template # NoTemplate /\ template.id = request.seen.id
    /\ request.at = "meta" =>
          /\ Agreed
          /\ request.kind # "sync" => request.seen = template
          /\ request.kind = "submit" => request.body = template.body
    /\ request.at = "row" =>
          CASE request.kind = "submit" ->
                  remote.id = request.seen.link /\ remote.body = template.body
            [] request.kind = "edit" ->
                  /\ template.link = request.seen.link
                  /\ request.seen.link # 0 =>
                        remote.id = request.seen.link /\ remote.body = request.body
            [] request.kind = "sync" -> Agreed
            [] OTHER -> TRUE

(***************************************************************************)
(* Until two requests overlapped or a write failed (mayDiffer), at most    *)
(* one runs; it is on track, and between requests row and template agree.  *)
(***************************************************************************)
LoneRequestsOnTrack ==
    ~mayDiffer =>
        /\ \A e, f \in TemplateEditors : Running(e) /\ Running(f) => e = f
        /\ (\A e \in TemplateEditors : ~Running(e)) => Agreed
        /\ \A e \in TemplateEditors : Running(e) => OnTrack(e)

TemplatesInv == TemplatesTypeOK /\ LoneRequestsOnTrack

(* There is no template at first.                                          *)
LEMMA TemplatesInitially == TemplatesInit => TemplatesInv
<1> SUFFICES ASSUME TemplatesInit PROVE TemplatesInv
  OBVIOUS
<1>1. TemplatesTypeOK
  BY DEF TemplatesInit, TemplatesTypeOK, TemplateRequests, TemplateRows, NoTemplateRequest, NoTemplate
<1>2. LoneRequestsOnTrack
  BY DEF TemplatesInit, LoneRequestsOnTrack, Running, Agreed, NoTemplateRequest, NoTemplate
<1> QED
  BY <1>1, <1>2 DEF TemplatesInv

(* The requests under way are those the model counts as busy.              *)
LEMMA BusyRuns ==
  ASSUME TemplatesTypeOK
  PROVE  Busy = {e \in TemplateEditors : Running(e)}
  BY DEF TemplatesTypeOK, Busy, Running, NoTemplateRequest

(* A request that is done is none.                                         *)
LEMMA DoneEnds ==
  ASSUME TemplatesTypeOK, NEW e \in TemplateEditors, Done(e)
  PROVE  /\ templateRequest' \in [TemplateEditors -> TemplateRequests]
         /\ templateRequest'[e] = NoTemplateRequest
         /\ \A f \in TemplateEditors \ {e} : templateRequest'[f] = templateRequest[f]
         /\ ~Running(e)'
<1>1. NoTemplateRequest \in TemplateRequests /\ NoTemplateRequest.at = "idle"
  BY DEF NoTemplateRequest, TemplateRequests, TemplateRows, NoTemplate
<1> QED
  BY <1>1 DEF Done, TemplatesTypeOK, Running

(* A request that begins alone is on track; one that begins beside another *)
(* sets mayDiffer.                                                         *)
LEMMA TemplateBegins ==
  ASSUME TemplatesInv, NEW e \in TemplateEditors,
         NEW k \in {"submit", "edit", "delete", "sync"}, NEW at \in {"meta", "row"},
         NEW b \in Bodies \cup {"none"}, BeginTemplate(e, k, at, b),
         k = "submit" => b = template.body /\ at = "meta",
         k = "edit" /\ at = "row" => template.link = 0,
         k = "sync" => at = "meta"
  PROVE  TemplatesInv'
<1> DEFINE request == [kind |-> k, at |-> at, seen |-> template, body |-> b]
<1>a. TemplatesTypeOK /\ LoneRequestsOnTrack
  BY DEF TemplatesInv
<1>1. /\ templateRequest' = [templateRequest EXCEPT ![e] = request]
      /\ template # NoTemplate \/ k = "sync"
      /\ mayDiffer' = (mayDiffer \/ Busy # {})
      /\ UNCHANGED <<template, remote, made>>
  BY DEF BeginTemplate
<1>2. /\ request \in TemplateRequests
      /\ request.kind = k /\ request.at = at /\ request.seen = template /\ request.body = b
  BY <1>a DEF TemplatesTypeOK, TemplateRequests
<1> HIDE DEF request
<1>3. /\ templateRequest'[e] = request
      /\ \A f \in TemplateEditors \ {e} : templateRequest'[f] = templateRequest[f]
      /\ templateRequest' \in [TemplateEditors -> TemplateRequests]
  BY <1>a, <1>1, <1>2 DEF TemplatesTypeOK
<1>4. TemplatesTypeOK'
  BY <1>a, <1>1, <1>2, <1>3 DEF TemplatesTypeOK
<1>5. LoneRequestsOnTrack'
  <2> SUFFICES ASSUME ~mayDiffer' PROVE LoneRequestsOnTrack'
    BY DEF LoneRequestsOnTrack
  <2>1. ~mayDiffer /\ \A f \in TemplateEditors : ~Running(f)
    BY <1>a, <1>1, BusyRuns
  <2>2. Agreed /\ Agreed'
    BY <1>a, <1>1, <2>1 DEF LoneRequestsOnTrack, Agreed
  <2>3. \A f \in TemplateEditors : Running(f)' <=> f = e
    BY <1>2, <1>3, <2>1 DEF Running
  <2>4. OnTrack(e)'
    BY <1>1, <1>2, <1>3, <2>2 DEF OnTrack
  <2> QED
    BY <2>2, <2>3, <2>4 DEF LoneRequestsOnTrack
<1> QED
  BY <1>4, <1>5 DEF TemplatesInv

(* A request that ends leaves row and template agreed, or has said that    *)
(* they may differ.                                                        *)
LEMMA TemplateEnds ==
  ASSUME TemplatesInv, NEW e \in TemplateEditors, Running(e), Done(e),
         template' \in TemplateRows, remote' \in TemplateRows, made' \in Nat,
         mayDiffer' \/ (Agreed' /\ (mayDiffer => Busy = {e}))
  PROVE  TemplatesInv'
<1>a. TemplatesTypeOK /\ LoneRequestsOnTrack
  BY DEF TemplatesInv
<1>1. TemplatesTypeOK'
  BY <1>a, DoneEnds DEF TemplatesTypeOK, NoTemplateRequest
<1>2. LoneRequestsOnTrack'
  <2> SUFFICES ASSUME ~mayDiffer' PROVE LoneRequestsOnTrack'
    BY DEF LoneRequestsOnTrack
  <2>1. \A f \in TemplateEditors : Running(f) => f = e
    BY <1>a, BusyRuns DEF LoneRequestsOnTrack
  <2>2. \A f \in TemplateEditors : ~Running(f)'
    BY <1>a, <2>1, DoneEnds DEF Running
  <2> QED
    BY <2>2 DEF LoneRequestsOnTrack
<1> QED
  BY <1>1, <1>2 DEF TemplatesInv

(* One case per request and step.                                          *)
LEMMA TemplatesStep == TemplatesInv /\ [TemplatesNext]_templatesVars => TemplatesInv'
<1> SUFFICES ASSUME TemplatesInv, [TemplatesNext]_templatesVars PROVE TemplatesInv'
  OBVIOUS
<1>a. TemplatesTypeOK /\ LoneRequestsOnTrack
  BY DEF TemplatesInv
<1>1. ASSUME NEW b \in Bodies, CreateTemplate(b) PROVE TemplatesInv'
  <2> DEFINE row == [id |-> made', link |-> 0, status |-> "pending", body |-> b]
  <2>1. /\ template = NoTemplate /\ template' = row /\ made' = made + 1
        /\ UNCHANGED <<remote, templateRequest, mayDiffer>>
    BY <1>1 DEF CreateTemplate
  <2>2. made' \in Nat /\ row \in TemplateRows /\ row.link = 0
    BY <1>a, <2>1 DEF TemplatesTypeOK, TemplateRows
  <2> HIDE DEF row
  <2>3. TemplatesTypeOK'
    BY <1>a, <2>1, <2>2 DEF TemplatesTypeOK
  <2>4. Agreed'
    BY <2>1, <2>2 DEF Agreed
  <2>5. \A e \in TemplateEditors : Running(e)' <=> Running(e)
    BY <2>1 DEF Running
  <2>6. \A e \in TemplateEditors : Running(e) /\ OnTrack(e) => OnTrack(e)'
    <3> SUFFICES ASSUME NEW e \in TemplateEditors, Running(e), OnTrack(e) PROVE OnTrack(e)'
      OBVIOUS
    <3>1. templateRequest[e].kind = "sync"
      BY <2>1 DEF OnTrack
    <3> QED
      BY <2>1, <2>4, <3>1 DEF OnTrack
  <2>7. LoneRequestsOnTrack'
    BY <1>a, <2>1, <2>4, <2>5, <2>6 DEF LoneRequestsOnTrack
  <2> QED
    BY <2>3, <2>7 DEF TemplatesInv
<1>2. ASSUME NEW e \in TemplateEditors, BeginSubmit(e) PROVE TemplatesInv'
  <2>1. template.body \in Bodies \cup {"none"}
    BY <1>a DEF TemplatesTypeOK, TemplateRows
  <2>2. BeginTemplate(e, "submit", "meta", template.body)
    BY <1>2 DEF BeginSubmit
  <2> QED
    BY <2>1, <2>2, TemplateBegins
<1>3. ASSUME NEW e \in TemplateEditors, NEW b \in Bodies, BeginEdit(e, b) PROVE TemplatesInv'
  <2>1. CASE template.link = 0
    <3>1. BeginTemplate(e, "edit", "row", b)
      BY <1>3, <2>1 DEF BeginEdit
    <3> QED
      BY <2>1, <3>1, TemplateBegins
  <2>2. CASE template.link # 0
    <3>1. BeginTemplate(e, "edit", "meta", b)
      BY <1>3, <2>2 DEF BeginEdit
    <3> QED
      BY <3>1, TemplateBegins
  <2> QED
    BY <2>1, <2>2
<1>4. ASSUME NEW e \in TemplateEditors, BeginDelete(e) PROVE TemplatesInv'
  <2>1. CASE template.link = 0
    <3>1. BeginTemplate(e, "delete", "row", "none")
      BY <1>4, <2>1 DEF BeginDelete
    <3> QED
      BY <3>1, TemplateBegins
  <2>2. CASE template.link # 0
    <3>1. BeginTemplate(e, "delete", "meta", "none")
      BY <1>4, <2>2 DEF BeginDelete
    <3> QED
      BY <3>1, TemplateBegins
  <2> QED
    BY <2>1, <2>2
<1>5. ASSUME NEW e \in TemplateEditors, BeginSync(e) PROVE TemplatesInv'
  <2>1. BeginTemplate(e, "sync", "meta", "none")
    BY <1>5 DEF BeginSync
  <2> QED
    BY <2>1, TemplateBegins
<1>6. ASSUME NEW e \in TemplateEditors, CallMeta(e)
      PROVE  /\ Running(e) /\ templateRequest[e].at = "meta"
             /\ made' \in Nat /\ remote' \in TemplateRows /\ template' = template
             /\ templateRequest[e].kind = "sync" => remote' = remote
             /\ templateRequest[e].kind = "submit" =>
                   /\ made' = made + 1 /\ remote'.id = made'
                   /\ remote'.body = templateRequest[e].body
             /\ templateRequest[e].kind = "edit" =>
                   /\ remote'.id = templateRequest[e].seen.link
                   /\ remote'.body = templateRequest[e].body
  <2> DEFINE asked == templateRequest[e]
  <2>1. /\ asked.at = "meta" /\ MetaTakes(e) /\ remote' = AtMeta(e) /\ template' = template
        /\ made' = IF asked.kind = "submit" THEN made + 1 ELSE made
    BY <1>6 DEF CallMeta
  <2>2. asked \in TemplateRequests /\ asked.kind # "none" /\ Running(e)
    BY <1>a, <2>1 DEF TemplatesTypeOK, Running
  <2>3. made' \in Nat
    BY <1>a, <2>1 DEF TemplatesTypeOK
  <2>4. CASE asked.kind = "submit"
    BY <1>a, <2>1, <2>2, <2>4 DEF AtMeta, TemplatesTypeOK, TemplateRows, TemplateRequests
  <2>5. CASE asked.kind = "edit"
    BY <1>a, <2>1, <2>2, <2>3, <2>5
       DEF MetaTakes, AtMeta, TemplatesTypeOK, TemplateRows, TemplateRequests
  <2>6. CASE asked.kind = "delete"
    BY <2>1, <2>2, <2>3, <2>6 DEF AtMeta, NoTemplate, TemplateRows
  <2>7. CASE asked.kind = "sync"
    BY <1>a, <2>1, <2>2, <2>3, <2>7 DEF AtMeta, TemplatesTypeOK
  <2> QED
    BY <2>2, <2>4, <2>5, <2>6, <2>7 DEF TemplateRequests
<1>7. ASSUME NEW e \in TemplateEditors, MetaAnswers(e) PROVE TemplatesInv'
  <2> DEFINE asked == templateRequest[e]
             told == templateRequest'[e]
  <2>1. CallMeta(e) /\ mayDiffer' = mayDiffer
    BY <1>7 DEF MetaAnswers
  <2>2. /\ templateRequest' \in [TemplateEditors -> TemplateRequests]
        /\ told.at = "row" /\ told.kind = asked.kind /\ told.body = asked.body
        /\ told.seen.id = asked.seen.id \/ asked.kind = "sync"
        /\ asked.kind = "submit" => told.seen.link = made'
        /\ asked.kind \in {"edit", "delete"} => told.seen = asked.seen
        /\ \A f \in TemplateEditors \ {e} : templateRequest'[f] = templateRequest[f]
    <3> DEFINE seen == CASE asked.kind = "sync" -> remote
                         [] asked.kind = "submit" -> [asked.seen EXCEPT !.link = made']
                         [] OTHER -> asked.seen
    <3>1. asked \in TemplateRequests /\ remote \in TemplateRows /\ made' \in Nat
      BY <1>a, <1>6, <2>1 DEF TemplatesTypeOK
    <3>2. /\ seen \in TemplateRows
          /\ seen.id = asked.seen.id \/ asked.kind = "sync"
          /\ asked.kind = "submit" => seen.link = made'
          /\ asked.kind \in {"edit", "delete"} => seen = asked.seen
      BY <3>1 DEF TemplateRequests, TemplateRows
    <3>3. templateRequest' = [templateRequest EXCEPT ![e].at = "row", ![e].seen = seen]
      BY <1>7 DEF MetaAnswers
    <3> HIDE DEF seen
    <3>4. \A r \in TemplateRequests : [r EXCEPT !.at = "row", !.seen = seen] \in TemplateRequests
      BY <3>2 DEF TemplateRequests
    <3>5. templateRequest' = [templateRequest EXCEPT ![e] = [asked EXCEPT !.at = "row", !.seen = seen]]
      BY <3>3
    <3>6. /\ templateRequest' \in [TemplateEditors -> TemplateRequests]
          /\ told = [asked EXCEPT !.at = "row", !.seen = seen]
          /\ \A f \in TemplateEditors \ {e} : templateRequest'[f] = templateRequest[f]
      BY <1>a, <3>1, <3>4, <3>5 DEF TemplatesTypeOK
    <3> QED
      BY <3>1, <3>2, <3>6 DEF TemplateRequests
  <2>3. TemplatesTypeOK'
    BY <1>a, <1>6, <2>1, <2>2 DEF TemplatesTypeOK
  <2>4. LoneRequestsOnTrack'
    <3> SUFFICES ASSUME ~mayDiffer' PROVE LoneRequestsOnTrack'
      BY DEF LoneRequestsOnTrack
    <3>1. OnTrack(e) /\ \A f \in TemplateEditors : Running(f) => f = e
      BY <1>a, <1>6, <2>1 DEF LoneRequestsOnTrack
    <3>2. \A f \in TemplateEditors : Running(f)' <=> f = e
      BY <2>2, <3>1 DEF Running
    <3>3. OnTrack(e)'
      BY <1>6, <2>1, <2>2, <3>1 DEF OnTrack, Agreed
    <3> QED
      BY <3>2, <3>3 DEF LoneRequestsOnTrack
  <2> QED
    BY <2>3, <2>4 DEF TemplatesInv
<1>8. ASSUME NEW e \in TemplateEditors, AnswerIsLost(e) PROVE TemplatesInv'
  <2>1. /\ CallMeta(e) /\ Done(e)
        /\ mayDiffer' = (mayDiffer \/ templateRequest[e].kind # "sync")
    BY <1>8 DEF AnswerIsLost
  <2>2. template' \in TemplateRows
    BY <1>a, <1>6, <2>1 DEF TemplatesTypeOK
  <2>3. ~mayDiffer' => Agreed'
    BY <1>a, <1>6, <2>1 DEF LoneRequestsOnTrack, OnTrack, Agreed
  <2> QED
    BY <1>6, <2>1, <2>2, <2>3, TemplateEnds
<1>9. ASSUME NEW e \in TemplateEditors, MetaRefuses(e) PROVE TemplatesInv'
  <2>1. /\ Running(e) /\ Done(e) /\ templateRequest[e].at = "meta"
        /\ UNCHANGED <<template, remote, made, mayDiffer>>
    BY <1>9 DEF MetaRefuses, Running
  <2>2. template' \in TemplateRows /\ remote' \in TemplateRows /\ made' \in Nat
    BY <1>a, <2>1 DEF TemplatesTypeOK
  <2>3. ~mayDiffer' => Agreed'
    BY <1>a, <2>1 DEF LoneRequestsOnTrack, OnTrack, Agreed
  <2> QED
    BY <2>1, <2>2, <2>3, TemplateEnds
<1>10. ASSUME NEW e \in TemplateEditors, WriteRow(e) PROVE TemplatesInv'
  <2> DEFINE request == templateRequest[e]
  <2>1. /\ Running(e) /\ Done(e) /\ request.at = "row"
        /\ UNCHANGED <<remote, made>>
        /\ MarkSubmitted(e) \/ UpdateTemplate(e) \/ DeleteTemplate(e) \/ UpsertFromMeta(e)
    BY <1>10 DEF WriteRow, Running
  <2>2. remote' \in TemplateRows /\ made' \in Nat
    BY <1>a, <2>1 DEF TemplatesTypeOK
  <2>3. request \in TemplateRequests /\ template \in TemplateRows
    BY <1>a DEF TemplatesTypeOK
  <2>4. ~mayDiffer => OnTrack(e)
    BY <1>a, <2>1 DEF LoneRequestsOnTrack
  <2>5. template' \in TemplateRows /\ (~mayDiffer' => Agreed' /\ (mayDiffer => Busy = {e}))
    <3>1. CASE MarkSubmitted(e)
      BY <2>1, <2>3, <2>4, <3>1
         DEF MarkSubmitted, Same, OnTrack, Agreed, TemplateRows, TemplateRequests
    <3>2. CASE UpdateTemplate(e)
      BY <2>1, <2>3, <2>4, <3>2
         DEF UpdateTemplate, Same, OnTrack, Agreed, TemplateRows, TemplateRequests
    <3>3. CASE DeleteTemplate(e)
      BY <2>1, <2>3, <2>4, <3>3
         DEF DeleteTemplate, Same, OnTrack, Agreed, TemplateRows, NoTemplate
    <3>4. CASE UpsertFromMeta(e)
      BY <1>a, <2>1, <2>3, <3>4
         DEF UpsertFromMeta, Agreed, TemplatesTypeOK, TemplateRows, TemplateRequests, NoTemplate
    <3> QED
      BY <2>1, <3>1, <3>2, <3>3, <3>4
  <2> QED
    BY <2>1, <2>2, <2>5, TemplateEnds
<1>11. ASSUME NEW e \in TemplateEditors, RowWriteFails(e) PROVE TemplatesInv'
  <2>1. /\ Running(e) /\ Done(e) /\ mayDiffer' /\ UNCHANGED <<template, remote, made>>
    BY <1>11 DEF RowWriteFails, Running
  <2>2. template' \in TemplateRows /\ remote' \in TemplateRows /\ made' \in Nat
    BY <1>a, <2>1 DEF TemplatesTypeOK
  <2> QED
    BY <2>1, <2>2, TemplateEnds
<1>12. ASSUME NEW verdict \in {"approved", "rejected"}, MetaReviews(verdict) PROVE TemplatesInv'
  <2>1. /\ remote' \in TemplateRows /\ remote'.id = remote.id /\ remote'.body = remote.body
        /\ UNCHANGED <<template, templateRequest, made, mayDiffer>>
    BY <1>12, <1>a DEF MetaReviews, TemplatesTypeOK, TemplateRows
  <2>2. TemplatesTypeOK'
    BY <1>a, <2>1 DEF TemplatesTypeOK
  <2>3. LoneRequestsOnTrack'
    BY <1>a, <2>1 DEF LoneRequestsOnTrack, Running, OnTrack, Agreed
  <2> QED
    BY <2>2, <2>3 DEF TemplatesInv
<1>13. CASE ReferenceTemplate \/ UNCHANGED templatesVars
  <2>1. UNCHANGED <<template, remote, templateRequest, made, mayDiffer>>
    BY <1>13 DEF ReferenceTemplate, templatesVars
  <2>2. TemplatesTypeOK'
    BY <1>a, <2>1 DEF TemplatesTypeOK
  <2>3. LoneRequestsOnTrack'
    BY <1>a, <2>1 DEF LoneRequestsOnTrack, Running, OnTrack, Agreed
  <2> QED
    BY <2>2, <2>3 DEF TemplatesInv
<1> QED
  BY <1>1, <1>2, <1>3, <1>4, <1>5, <1>7, <1>8, <1>9, <1>10, <1>11, <1>12, <1>13 DEF TemplatesNext

(* The row of a template and Meta's copy of it agree whenever no request   *)
(* is under way, unless requests overlapped, an answer was lost or a write *)
(* failed; the next sync then repairs the row (createTemplate to           *)
(* syncTemplates).                                                         *)
THEOREM TemplatesAgreeAlways == TemplatesSpec => []TemplatesAgree
<1>1. TemplatesInv => TemplatesAgree
  BY BusyRuns DEF TemplatesInv, TemplatesAgree, LoneRequestsOnTrack, Agreed
<1> QED
  BY <1>1, TemplatesInitially, TemplatesStep, PTL DEF TemplatesSpec

-----------------------------------------------------------------------------
(***************************************************************************)
(* No-reply rules. The rules have run for the silence that began at n.     *)
(***************************************************************************)
Ran(n) == \E f \in fired : f[2] = n

(***************************************************************************)
(* What an instance listed it listed in the past: stamps are never ahead   *)
(* of the clock.                                                           *)
(***************************************************************************)
ListedInTime ==
    /\ lastInbound <= clock
    /\ firedAt <= clock
    /\ \A i \in Awake : 0 < host[i].inbound /\ host[i].inbound <= lastInbound

(***************************************************************************)
(* Two instances that listed one silence are recorded as having doubled    *)
(* it.                                                                     *)
(***************************************************************************)
ListedTogether ==
    \A i, j \in Awake :
        i # j /\ host[i].inbound = host[j].inbound => host[i].inbound \in doubled

(***************************************************************************)
(* A silence whose rules have run is marked, or the instance that ran them *)
(* is about to mark it, or it was doubled; and an instance about to run    *)
(* rules that have run doubles them.                                       *)
(***************************************************************************)
RunsExplained ==
    /\ \A i \in TimerHosts :
          host[i].at = "rules" /\ Ran(host[i].inbound) => host[i].inbound \in doubled
    /\ \A n \in Nat :
          Ran(n) /\ n \notin doubled =>
              n <= firedAt \/ \E i \in TimerHosts : host[i].at = "mark" /\ host[i].inbound = n

NoReplyInv ==
    NoReplyTypeOK /\ ListedInTime /\ ListedTogether /\ RunsExplained /\ NoReplyRunsOnce

(* No rule has run at first.                                               *)
LEMMA NoReplyInitially == NoReplyInit => NoReplyInv
<1> SUFFICES ASSUME NoReplyInit PROVE NoReplyInv
  OBVIOUS
<1> USE DEF NoReplyInit, Asleep
<1>1. NoReplyTypeOK
  <2>1. convOpen \in BOOLEAN /\ recording \in BOOLEAN /\ answered \in BOOLEAN
    OBVIOUS
  <2>2. host \in [TimerHosts -> [at : {"asleep", "rules", "mark"}, inbound : Nat]]
    OBVIOUS
  <2> QED
    BY <2>1, <2>2 DEF NoReplyTypeOK
<1>2. ListedInTime /\ ListedTogether
  BY DEF ListedInTime, ListedTogether, Awake
<1>3. RunsExplained /\ NoReplyRunsOnce
  BY DEF RunsExplained, NoReplyRunsOnce, Ran
<1> QED
  BY <1>1, <1>2, <1>3 DEF NoReplyInv

(* Types, step by step.                                                    *)
LEMMA NoReplyTypes ==
  ASSUME NoReplyTypeOK, ListedInTime, [NoReplyNext]_noReplyVars
  PROVE  NoReplyTypeOK'
<1> USE NoReplyAssumption DEF NoReplyTypeOK, Stamp, Asleep
<1>1. CASE TouchInbound \/ CreateInboundRow \/ AgentAnswers \/ TimePasses
  <2>1. convOpen' \in BOOLEAN /\ {recording, answered}' \subseteq BOOLEAN
    BY <1>1 DEF TouchInbound, CreateInboundRow, AgentAnswers, TimePasses
  <2>2. {clock, lastInbound, lastMessage, firedAt, hostCrashes}' \subseteq Nat
    BY <1>1 DEF TouchInbound, CreateInboundRow, AgentAnswers, TimePasses
  <2>3. UNCHANGED <<host, fired, doubled>>
    BY <1>1 DEF TouchInbound, CreateInboundRow, AgentAnswers, TimePasses
  <2> QED
    BY <2>1, <2>2, <2>3
<1>2. ASSUME NEW open \in BOOLEAN, SetConversationOpen(open) PROVE NoReplyTypeOK'
  BY <1>2 DEF SetConversationOpen
<1>3. ASSUME NEW i \in TimerHosts, ScanNoReply(i) PROVE NoReplyTypeOK'
  BY <1>3 DEF ScanNoReply
<1>4. ASSUME NEW i \in TimerHosts, RunNoReplyRules(i) PROVE NoReplyTypeOK'
  <2>1. host[i].at = "rules" /\ clock - host[i].inbound \in Nat /\ host[i].inbound \in Nat
    BY <1>4 DEF RunNoReplyRules, ListedInTime, Awake
  <2>2. fired' \subseteq NoReplyRules \X Nat \X Nat
    BY <1>4, <2>1 DEF RunNoReplyRules
  <2>3. host' \in [TimerHosts -> [at : {"asleep", "rules", "mark"}, inbound : Nat]]
    BY <1>4 DEF RunNoReplyRules
  <2> QED
    BY <1>4, <2>2, <2>3 DEF RunNoReplyRules
<1>5. ASSUME NEW i \in TimerHosts, MarkFired(i) PROVE NoReplyTypeOK'
  BY <1>5 DEF MarkFired
<1>7. ASSUME NEW i \in TimerHosts, NoReplyTickFails(i) PROVE NoReplyTypeOK'
  <2>1. host[i].inbound \in Nat
    OBVIOUS
  <2>2. doubled' \subseteq Nat
    BY <1>7, <2>1 DEF NoReplyTickFails
  <2>4. hostCrashes' \in Nat
    BY <1>7 DEF NoReplyTickFails
  <2>3. host' \in [TimerHosts -> [at : {"asleep", "rules", "mark"}, inbound : Nat]]
    BY <1>7 DEF NoReplyTickFails
  <2> QED
    BY <1>7, <2>2, <2>3, <2>4 DEF NoReplyTickFails
<1>6. CASE UNCHANGED noReplyVars
  BY <1>6 DEF noReplyVars
<1> QED
  BY <1>1, <1>2, <1>3, <1>4, <1>5, <1>6, <1>7 DEF NoReplyNext

(* One case per step of an instance. The scan is where a second instance   *)
(* can list the silence; running the rules is where it would count.        *)
LEMMA NoReplyStep == NoReplyInv /\ [NoReplyNext]_noReplyVars => NoReplyInv'
<1> SUFFICES ASSUME NoReplyInv, [NoReplyNext]_noReplyVars PROVE NoReplyInv'
  OBVIOUS
<1> USE NoReplyAssumption DEF NoReplyInv
<1>a. NoReplyTypeOK'
  BY NoReplyTypes
<1>1. CASE TouchInbound \/ CreateInboundRow \/ AgentAnswers \/ TimePasses
           \/ \E open \in BOOLEAN : SetConversationOpen(open)
  <2>1. /\ UNCHANGED <<host, fired, doubled, firedAt>>
        /\ clock' \in Nat /\ clock <= clock'
        /\ lastInbound' \in Nat /\ lastInbound <= lastInbound' /\ lastInbound' <= clock'
    BY <1>1 DEF TouchInbound, CreateInboundRow, AgentAnswers, TimePasses, SetConversationOpen,
                Stamp, NoReplyTypeOK, ListedInTime
  <2>2. ListedInTime'
    BY <2>1 DEF ListedInTime, NoReplyTypeOK, Awake
  <2>3. ListedTogether' /\ RunsExplained' /\ NoReplyRunsOnce'
    BY <2>1 DEF ListedTogether, Awake, RunsExplained, Ran, NoReplyRunsOnce
  <2> QED
    BY <1>a, <2>2, <2>3
<1>2. ASSUME NEW i \in TimerHosts, ScanNoReply(i) PROVE NoReplyInv'
  <2> DEFINE n == lastInbound
  <2>1. /\ n \in Nat /\ n > 0 /\ (firedAt = 0 \/ firedAt < n)
        /\ UNCHANGED <<clock, lastInbound, firedAt, fired>>
        /\ doubled \subseteq doubled'
        /\ host[i].at = "asleep"
        /\ host'[i].at = "rules" /\ host'[i].inbound = n
        /\ \A j \in TimerHosts : j # i => host'[j] = host[j]
        /\ (\E j \in Awake : host[j].inbound = n) => n \in doubled'
    BY <1>2 DEF ScanNoReply, AwaitsReply, NoReplyTypeOK
  <2>2. ListedInTime' /\ ListedTogether'
    BY <2>1 DEF ListedInTime, ListedTogether, Awake, NoReplyTypeOK
  <2>3. Ran(n) => n \in doubled'
    <3> SUFFICES ASSUME Ran(n), n \notin doubled PROVE n \in doubled'
      BY <2>1
    <3>1. PICK j \in TimerHosts : host[j].at = "mark" /\ host[j].inbound = n
      BY <2>1 DEF RunsExplained, NoReplyTypeOK
    <3> QED
      BY <2>1, <3>1 DEF Awake
  <2>4. RunsExplained' /\ NoReplyRunsOnce'
    BY <2>1, <2>3 DEF RunsExplained, NoReplyRunsOnce, Ran
  <2> QED
    BY <1>a, <2>2, <2>4
<1>3. ASSUME NEW i \in TimerHosts, RunNoReplyRules(i) PROVE NoReplyInv'
  <2> DEFINE n == host[i].inbound
             idle == clock - n
  <2>1. /\ host[i].at = "rules" /\ n \in Nat
        /\ UNCHANGED <<clock, lastInbound, firedAt, doubled>>
        /\ \A j \in TimerHosts : j # i => host'[j] = host[j]
    BY <1>3 DEF RunNoReplyRules, NoReplyTypeOK
  <2>2. CASE host'[i].at = "asleep" /\ UNCHANGED fired
    <3>1. ListedInTime' /\ ListedTogether'
      BY <2>1, <2>2 DEF ListedInTime, ListedTogether, Awake, NoReplyTypeOK
    <3>2. RunsExplained' /\ NoReplyRunsOnce'
      BY <2>1, <2>2 DEF RunsExplained, NoReplyRunsOnce, Ran
    <3> QED
      BY <1>a, <3>1, <3>2
  <2>3. CASE /\ host'[i].at = "mark" /\ host'[i].inbound = n
             /\ fired' = fired \cup {<<r, n, idle>> : r \in NoReplyRules}
    <3>1. ListedInTime' /\ ListedTogether'
      BY <2>1, <2>3 DEF ListedInTime, ListedTogether, Awake, NoReplyTypeOK
    <3>2. \A f \in fired' \ fired : f[2] = n /\ f = <<f[1], n, idle>>
      BY <2>3
    <3>3. \A m : m # n => (Ran(m)' <=> Ran(m))
      BY <2>3, <3>2 DEF Ran
    <3>4. Ran(n) => n \in doubled
      BY <2>1 DEF RunsExplained
    <3>5. RunsExplained'
      <4>1. (\A j \in TimerHosts :
               host[j].at = "rules" /\ Ran(host[j].inbound) => host[j].inbound \in doubled)'
        <5> SUFFICES ASSUME NEW j \in TimerHosts, host'[j].at = "rules",
                            Ran(host[j].inbound)'
                     PROVE  host[j].inbound \in doubled
          BY <2>1, <2>3
        <5>1. j # i /\ host'[j] = host[j]
          BY <2>1, <2>3
        <5>2. CASE host[j].inbound = n
          BY <2>1, <5>1, <5>2 DEF ListedTogether, Awake
        <5>3. CASE host[j].inbound # n
          <6>1. Ran(host[j].inbound)
            BY <2>3, <3>2, <5>1, <5>3 DEF Ran
          <6> QED
            BY <5>1, <6>1 DEF RunsExplained
        <5> QED
          BY <5>2, <5>3
      <4>2. \A m \in Nat :
              Ran(m)' /\ m \notin doubled' =>
                  \/ m <= firedAt'
                  \/ \E j \in TimerHosts : host'[j].at = "mark" /\ host'[j].inbound = m
        <5> SUFFICES ASSUME NEW m \in Nat, Ran(m)', m \notin doubled, ~(m <= firedAt)
                     PROVE  \E j \in TimerHosts : host'[j].at = "mark" /\ host'[j].inbound = m
          BY <2>1
        <5>1. CASE m = n
          BY <2>3, <5>1
        <5>2. CASE m # n
          BY <2>1, <3>3, <5>2 DEF RunsExplained
        <5> QED
          BY <5>1, <5>2
      <4> QED
        BY <4>1, <4>2 DEF RunsExplained
    <3>6. NoReplyRunsOnce'
      <4> SUFFICES ASSUME NEW f \in fired', NEW g \in fired',
                          f[1] = g[1], f[2] = g[2], f # g, f[2] \notin doubled
                   PROVE  FALSE
        BY <2>1 DEF NoReplyRunsOnce
      <4>1. ~(f \in fired /\ g \in fired)
        BY DEF NoReplyRunsOnce, NoReplyTypeOK
      <4>2. f[2] = n
        BY <3>2, <4>1
      <4>3. f \notin fired /\ g \notin fired
        BY <3>4, <4>2 DEF Ran
      <4> QED
        BY <3>2, <4>3
    <3> QED
      BY <1>a, <3>1, <3>5, <3>6
  <2>4. \/ host' = [host EXCEPT ![i] = Asleep] /\ UNCHANGED fired
        \/ /\ host' = [host EXCEPT ![i].at = "mark"]
           /\ fired' = fired \cup {<<r, n, idle>> : r \in NoReplyRules}
    BY <1>3 DEF RunNoReplyRules
  <2> QED
    BY <2>2, <2>3, <2>4 DEF NoReplyTypeOK, Asleep
<1>4. ASSUME NEW i \in TimerHosts, MarkFired(i) PROVE NoReplyInv'
  <2>1. /\ clock \in Nat /\ clock' = clock + 1 /\ firedAt' = clock'
        /\ UNCHANGED <<lastInbound, fired, doubled>>
        /\ host[i].at = "mark"
        /\ host'[i].at = "asleep"
        /\ \A j \in TimerHosts : j # i => host'[j] = host[j]
    BY <1>4 DEF MarkFired, Stamp, NoReplyTypeOK, Asleep
  <2>2. ListedInTime' /\ ListedTogether'
    BY <2>1 DEF ListedInTime, ListedTogether, Awake, NoReplyTypeOK
  <2>3. \A m \in Nat : m <= firedAt \/ m = host[i].inbound => m <= firedAt'
    BY <2>1 DEF ListedInTime, Awake, NoReplyTypeOK
  <2>4. RunsExplained' /\ NoReplyRunsOnce'
    BY <2>1, <2>3 DEF RunsExplained, NoReplyRunsOnce, Ran
  <2> QED
    BY <1>a, <2>2, <2>4
<1>5. ASSUME NEW i \in TimerHosts, NoReplyTickFails(i) PROVE NoReplyInv'
  <2>1. /\ UNCHANGED <<clock, lastInbound, firedAt, fired>>
        /\ doubled' = doubled \cup {host[i].inbound}
        /\ host'[i].at = "asleep"
        /\ \A j \in TimerHosts : j # i => host'[j] = host[j]
    BY <1>5 DEF NoReplyTickFails, NoReplyTypeOK, Asleep
  <2>2. ListedInTime' /\ ListedTogether'
    BY <2>1 DEF ListedInTime, ListedTogether, Awake, NoReplyTypeOK
  <2>3. RunsExplained' /\ NoReplyRunsOnce'
    BY <2>1 DEF RunsExplained, NoReplyRunsOnce, Ran
  <2> QED
    BY <1>a, <2>2, <2>3
<1>6. CASE UNCHANGED noReplyVars
  BY <1>6 DEF noReplyVars, ListedInTime, ListedTogether, RunsExplained, NoReplyRunsOnce, Awake, Ran,
              NoReplyTypeOK
<1> QED
  BY <1>1, <1>2, <1>3, <1>4, <1>5, <1>6 DEF NoReplyNext

(* No-reply rules run once for a silence, for any number of gateway        *)
(* instances, unless two instances had listed it before either marked it   *)
(* or a mark failed (runNoReplyRules).                                     *)
THEOREM RulesRunOnce == NoReplySpec => []NoReplyRunsOnce
<1>1. NoReplyInv => NoReplyRunsOnce
  BY DEF NoReplyInv
<1> QED
  BY <1>1, NoReplyInitially, NoReplyStep, PTL DEF NoReplySpec

-----------------------------------------------------------------------------
(* Automation and auto-reply rules. Two patches, each validated against    *)
(* the row it read, may leave a rule nobody would have accepted; such a    *)
(* rule does nothing when it is listed (evaluateAutomations,               *)
(* evaluateAutoReplies).                                                   *)
THEOREM HalfEditsAreIdle == RulesSpec => []HalfEditedRulesDoNothing
<1> USE DEF HalfEditedRulesDoNothing, Valid
<1>1. RulesInit => HalfEditedRulesDoNothing
  BY DEF RulesInit, NoRule
<1>2. HalfEditedRulesDoNothing /\ [RulesNext]_rulesVars => HalfEditedRulesDoNothing'
  <2> SUFFICES ASSUME HalfEditedRulesDoNothing, [RulesNext]_rulesVars
               PROVE  HalfEditedRulesDoNothing'
    OBVIOUS
  <2>1. CASE Act
    <3>1. CASE Fires(listed)
      <4>1. acted' = listed
        BY <2>1, <3>1 DEF Act
      <4>2. listed.use \in {"assign_agent", "keyword"} => listed.has
        BY <3>1 DEF Fires
      <4> QED
        BY <4>1, <4>2
    <3>2. CASE ~Fires(listed)
      BY <2>1, <3>2 DEF Act
    <3> QED
      BY <3>1, <3>2
  <2>2. CASE UNCHANGED acted
    BY <2>2
  <2> QED
    BY <2>1, <2>2
       DEF RulesNext, rulesVars, CreateRule, DeleteRule, ListEnabled, ValidatePatch, WritePatch
<1> QED
  BY <1>1, <1>2, PTL DEF RulesSpec

=============================================================================
