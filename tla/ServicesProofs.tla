--------------------------- MODULE ServicesProofs ---------------------------
(***************************************************************************)
(* Proofs about five services that share no state: the event bus, the      *)
(* follow-up sequences, the adapter's calls of Meta, the fetching of media *)
(* and the realm's keys, each for any number of its actors and any bounds. *)
(***************************************************************************)
EXTENDS Broker, Drip, GraphApi, MediaFetch, RealmKeys, TLAPS

CopyStates == {"none", "ready", "held", "acked", "dead", "dropped"}

CopiesOK ==
    /\ consuming \subseteq Subscriptions
    /\ copy \in [Subscriptions -> [BusMessages -> CopyStates]]
    /\ redelivered \in [Subscriptions -> [BusMessages -> BOOLEAN]]
    /\ deliveries \in [Subscriptions -> [BusMessages -> Nat]]

(***************************************************************************)
(* The redelivered flag never runs ahead of the deliveries: a copy that a  *)
(* handler holds was delivered, one that carries the flag was delivered    *)
(* before, and one that is both was delivered twice.                       *)
(***************************************************************************)
DeliveriesCounted ==
    \A s \in Subscriptions, m \in BusMessages :
        /\ copy[s][m] = "held" => deliveries[s][m] >= 1
        /\ redelivered[s][m] => deliveries[s][m] >= 1
        /\ copy[s][m] = "held" /\ redelivered[s][m] => deliveries[s][m] >= 2

BrokerInv == CopiesOK /\ DeliveriesCounted /\ DeadDeliveredTwice

(* Nothing is published at first.                                          *)
LEMMA BrokerInitially == BrokerInit => BrokerInv
  BY DEF BrokerInit, Each, BrokerInv, CopiesOK, CopyStates, DeliveriesCounted,
         DeadDeliveredTwice, Subscriptions

(* A connection that goes sends back what it held, flagged as redelivered. *)
LEMMA BackKeeps ==
  ASSUME BrokerInv,
         consuming' \subseteq Subscriptions,
         copy' = [s \in Subscriptions |-> [m \in BusMessages |-> Back(s, copy[s][m])]],
         redelivered' = [s \in Subscriptions |-> [m \in BusMessages |->
                            redelivered[s][m] \/ copy[s][m] = "held"]],
         deliveries' = deliveries
  PROVE  BrokerInv'
<1> USE DEF BrokerInv
<1>1. \A s \in Subscriptions, m \in BusMessages :
         /\ copy'[s][m] \in CopyStates
         /\ copy'[s][m] = "held" => FALSE
         /\ copy'[s][m] = "dead" => copy[s][m] = "dead"
  BY DEF CopiesOK, CopyStates, Back, Subscriptions
<1>2. \A s \in Subscriptions, m \in BusMessages :
         redelivered'[s][m] = (redelivered[s][m] \/ copy[s][m] = "held")
  OBVIOUS
<1>3. CopiesOK'
  BY <1>1 DEF CopiesOK
<1>4. DeliveriesCounted'
  BY <1>1, <1>2 DEF DeliveriesCounted
<1>5. DeadDeliveredTwice'
  BY <1>1 DEF DeadDeliveredTwice
<1> QED
  BY <1>3, <1>4, <1>5

(* A publication makes new copies, none of them delivered yet.             *)
LEMMA PublishKeeps ==
  ASSUME BrokerInv, NEW m \in BusMessages, PublishMessage(m)
  PROVE  BrokerInv'
<1> USE DEF BrokerInv
<1>1. \A s \in Subscriptions, n \in BusMessages :
         copy'[s][n] = copy[s][n] \/ copy'[s][n] \in {"ready", "dropped"}
  BY DEF PublishMessage, CopiesOK
<1>2. UNCHANGED <<consuming, redelivered, deliveries>>
  BY DEF PublishMessage
<1>3. CopiesOK'
  BY <1>2 DEF PublishMessage, CopiesOK, CopyStates
<1> QED
  BY <1>1, <1>2, <1>3 DEF DeliveriesCounted, DeadDeliveredTwice

(* A delivery is counted as it is made.                                    *)
LEMMA HandOverKeeps ==
  ASSUME BrokerInv, NEW s \in Subscriptions, NEW m \in BusMessages, HandOver(s, m)
  PROVE  BrokerInv'
<1> USE DEF BrokerInv
<1>1. \A t \in Subscriptions, n \in BusMessages :
         /\ copy'[t][n] = IF t = s /\ n = m THEN "held" ELSE copy[t][n]
         /\ deliveries'[t][n] = IF t = s /\ n = m THEN deliveries[t][n] + 1 ELSE deliveries[t][n]
         /\ deliveries[t][n] \in Nat
  BY DEF HandOver, CopiesOK
<1>2. UNCHANGED <<consuming, redelivered>>
  BY DEF HandOver
<1>3. CopiesOK'
  BY <1>2 DEF HandOver, CopiesOK, CopyStates
<1> QED
  BY <1>1, <1>2, <1>3 DEF DeliveriesCounted, DeadDeliveredTwice

(* A handler's end takes the copy from it; the broker dead-letters it only *)
(* when its redelivered flag was set.                                      *)
LEMMA HandlerKeeps ==
  ASSUME BrokerInv, NEW s \in Subscriptions, NEW m \in BusMessages,
         Ack(s, m) \/ HandlerThrows(s, m)
  PROVE  BrokerInv'
<1> USE DEF BrokerInv
<1>1. /\ copy[s][m] = "held"
      /\ UNCHANGED <<consuming, deliveries>>
  BY DEF Ack, HandlerThrows
<1>2. /\ \A t \in Subscriptions, n \in BusMessages :
            t # s \/ n # m => copy'[t][n] = copy[t][n] /\ redelivered'[t][n] = redelivered[t][n]
      /\ copy'[s][m] \in {"acked", "ready", "dead"}
      /\ copy'[s][m] = "dead" => s \in Queues /\ redelivered[s][m]
  BY <1>1 DEF Ack, HandlerThrows, CopiesOK, Subscriptions
<1>3. CopiesOK'
  <2>1. CASE Ack(s, m)
    BY <2>1 DEF Ack, CopiesOK, CopyStates
  <2>2. CASE HandlerThrows(s, m)
    BY <2>2 DEF HandlerThrows, CopiesOK, CopyStates
  <2> QED
    BY <2>1, <2>2
<1>4. DeliveriesCounted'
  BY <1>1, <1>2 DEF DeliveriesCounted
<1>5. DeadDeliveredTwice'
  BY <1>1, <1>2 DEF DeliveriesCounted, DeadDeliveredTwice
<1> QED
  BY <1>3, <1>4, <1>5

(* Every turn of the bus and of the broker keeps the invariant.            *)
LEMMA BrokerStep == BrokerInv /\ [BrokerNext]_brokerVars => BrokerInv'
<1> SUFFICES ASSUME BrokerInv, [BrokerNext]_brokerVars PROVE BrokerInv'
  OBVIOUS
<1>1. CASE \/ UNCHANGED <<consuming, copy, redelivered, deliveries>>
           \/ \E s \in Subscriptions : SetUp(s)
  BY <1>1 DEF SetUp, BrokerInv, CopiesOK, DeliveriesCounted, DeadDeliveredTwice
<1>2. CASE Drop \/ Boot
  BY <1>2, BackKeeps DEF Drop, Boot, ConnectionGoes
<1>3. CASE Close
  <2>1. CASE link = "open"
    BY <1>3, <2>1, BackKeeps DEF Close, ConnectionGoes
  <2>2. CASE link # "open"
    BY <1>1, <1>3, <2>2 DEF Close
  <2> QED
    BY <2>1, <2>2
<1>4. ASSUME NEW m \in BusMessages, PublishMessage(m) PROVE BrokerInv'
  BY <1>4, PublishKeeps
<1>5. ASSUME NEW s \in Subscriptions, NEW m \in BusMessages,
             HandOver(s, m) \/ Ack(s, m) \/ HandlerThrows(s, m)
      PROVE  BrokerInv'
  BY <1>5, HandOverKeeps, HandlerKeeps
<1>6. CASE Dialed \/ DialFails \/ TimerFires \/ PublishDials \/ UNCHANGED brokerVars
  BY <1>1, <1>6 DEF Dialed, DialFails, TimerFires, PublishDials, brokerVars
<1> QED
  BY <1>1, <1>2, <1>3, <1>4, <1>5, <1>6 DEF BrokerNext

(* A durable delivery gets a second chance before the dead letter queue    *)
(* (dispatch's catch), however often the connection drops meanwhile.       *)
THEOREM DeadLettersHadTwoChances == BrokerSpec => []DeadDeliveredTwice
<1>1. BrokerInv => DeadDeliveredTwice
  BY DEF BrokerInv
<1> QED
  BY <1>1, BrokerInitially, BrokerStep, PTL DEF BrokerSpec

-----------------------------------------------------------------------------
(***************************************************************************)
(* What EachStepOnce needs to be inductive: an enrollment that may still   *)
(* be advanced has a step left, one not made yet starts from none.         *)
(***************************************************************************)
StepsLeft ==
    \A c \in Contacts :
        /\ enrollment[c] = "active" => step[c] < LastStep
        /\ enrollment[c] = "none" => step[c] = 0

DripInv == DripTypeOK /\ StepsLeft /\ EachStepOnce

(* Nobody is enrolled and nothing enqueued at first.                       *)
LEMMA DripInitially == DripInit => DripInv
<1> SUFFICES ASSUME DripInit PROVE DripInv
  OBVIOUS
<1>1. \A c \in Contacts : step[c] = 0 /\ \A n \in Steps : enqueued[c][n] = 0
  BY DEF DripInit
<1>2. \A n \in Steps : ~(n <= 0)
  BY DripAssumption DEF Steps
<1>3. EachStepOnce
  BY <1>1, <1>2 DEF DripInit, EachStepOnce
<1> QED
  BY <1>3, DripAssumption DEF DripInit, DripInv, DripTypeOK, StepsLeft, Steps

(* A transaction of the scheduler takes an enrollment one step further or  *)
(* leaves it, whatever the scan that listed it had seen.                   *)
LEMMA AdvanceKeeps ==
  ASSUME DripInv, NEW i \in Schedulers, NEW c \in Contacts, AdvanceDueEnrollment(i, c)
  PROVE  DripInv'
<1> USE DEF DripInv
<1>1. tick' \in [Schedulers -> SUBSET Contacts] /\ UNCHANGED <<seqStatus, out, tickFailures>>
  BY DEF AdvanceDueEnrollment, Takes, DripTypeOK
<1>2. CASE /\ c \notin DueEnrollments
           /\ UNCHANGED <<enrollment, step, stepDue, enqueued>>
  BY <1>1, <1>2 DEF DripTypeOK, StepsLeft, EachStepOnce
<1>3. CASE /\ enrollment' = [enrollment EXCEPT ![c] = "stopped"]
           /\ UNCHANGED <<step, stepDue, enqueued>>
  BY <1>1, <1>3 DEF DripTypeOK, StepsLeft, EachStepOnce
<1>4. CASE /\ c \in DueEnrollments
           /\ step' = [step EXCEPT ![c] = @ + 1]
           /\ enqueued' = [enqueued EXCEPT ![c][step[c] + 1] = @ + 1]
           /\ enrollment' = [enrollment EXCEPT ![c] =
                                IF step[c] + 1 = LastStep THEN "completed" ELSE @]
           /\ stepDue' = [stepDue EXCEPT ![c] = FALSE]
  <2>1. /\ enrollment[c] = "active" /\ step[c] \in 0..LastStep
        /\ step[c] + 1 \in Steps /\ step[c] + 1 <= LastStep
    BY <1>4, DripAssumption DEF DueEnrollments, StepsLeft, DripTypeOK, Steps
  <2>2. /\ DripTypeOK'
        /\ step'[c] = step[c] + 1
        /\ \A d \in Contacts \ {c} : step'[d] = step[d] /\ enrollment'[d] = enrollment[d]
        /\ enrollment'[c] = IF step[c] + 1 = LastStep THEN "completed" ELSE "active"
    BY <1>1, <1>4, <2>1, DripAssumption DEF DripTypeOK
  <2>3. /\ \A d \in Contacts \ {c} : enqueued'[d] = enqueued[d]
        /\ \A n \in Steps : enqueued'[c][n] = IF n = step[c] + 1 THEN enqueued[c][n] + 1
                                              ELSE enqueued[c][n]
    BY <1>4, <2>1 DEF DripTypeOK
  <2>4. \A n \in Steps : enqueued'[c][n] = IF n <= step'[c] THEN 1 ELSE 0
    BY <2>1, <2>2, <2>3, DripAssumption DEF EachStepOnce, Steps
  <2>5. StepsLeft'
    <3>1. /\ enrollment'[c] = "active" => step'[c] < LastStep
          /\ enrollment'[c] # "none"
      BY <2>1, <2>2, DripAssumption
    <3>2. \A d \in Contacts \ {c} :
             /\ enrollment'[d] = "active" => step'[d] < LastStep
             /\ enrollment'[d] = "none" => step'[d] = 0
      BY <2>2 DEF StepsLeft
    <3> QED
      BY <3>1, <3>2 DEF StepsLeft
  <2>6. EachStepOnce'
    BY <2>1, <2>2, <2>3, <2>4 DEF EachStepOnce
  <2> QED
    BY <2>2, <2>5, <2>6
<1> QED
  BY <1>2, <1>3, <1>4 DEF AdvanceDueEnrollment

(* Every operation keeps the invariant.                                    *)
LEMMA DripStep == DripInv /\ [DripNext]_dripVars => DripInv'
<1> SUFFICES ASSUME DripInv, [DripNext]_dripVars PROVE DripInv'
  OBVIOUS
<1> USE DEF DripInv, DripTypeOK, StepsLeft, EachStepOnce
<1>1. CASE Activate \/ PauseSequence
  BY <1>1 DEF Activate, PauseSequence
<1>2. ASSUME NEW cs \in SUBSET Contacts, Enroll(cs) PROVE DripInv'
  <2>1. UNCHANGED <<seqStatus, step, stepDue, out, enqueued, tick, tickFailures>>
    BY <1>2 DEF Enroll, Enrollable
  <2>2. \A c \in Contacts :
           \/ enrollment'[c] = enrollment[c]
           \/ enrollment[c] = "none" /\ enrollment'[c] = "active"
    BY <1>2 DEF Enroll, Enrollable
  <2>3. enrollment' \in [Contacts -> {"none", "active", "completed", "stopped"}]
    BY <1>2 DEF Enroll, Enrollable
  <2>4. \A c \in Contacts : 0 < LastStep /\ step[c] \in Nat
    BY DripAssumption
  <2> QED
    BY <2>1, <2>2, <2>3, <2>4
<1>3. ASSUME NEW c \in Contacts, ReplyArrives(c) PROVE DripInv'
  <2>1. DripTypeOK' /\ \A d \in Contacts : enrollment'[d] \in {enrollment[d], "stopped"}
    BY <1>3 DEF ReplyArrives
  <2>2. UNCHANGED <<step, enqueued>>
    BY <1>3 DEF ReplyArrives
  <2> QED
    BY <2>1, <2>2
<1>4. ASSUME NEW c \in Contacts, OptsOut(c) \/ DelayPasses(c) PROVE DripInv'
  <2>1. stepDue' \in [Contacts -> BOOLEAN] /\ out' \in [Contacts -> BOOLEAN]
    BY <1>4 DEF OptsOut, DelayPasses
  <2>2. UNCHANGED <<seqStatus, enrollment, step, enqueued, tick, tickFailures>>
    BY <1>4 DEF OptsOut, DelayPasses
  <2> QED
    BY <2>1, <2>2
<1>5. ASSUME NEW i \in Schedulers, ScanDue(i) \/ TickFails(i) PROVE DripInv'
  <2>1. tick' \in [Schedulers -> SUBSET Contacts] /\ tickFailures' \in Nat
    BY <1>5 DEF ScanDue, TickFails, DueEnrollments
  <2>2. UNCHANGED <<seqStatus, enrollment, step, stepDue, out, enqueued>>
    BY <1>5 DEF ScanDue, TickFails
  <2> QED
    BY <2>1, <2>2
<1>6. ASSUME NEW i \in Schedulers, NEW c \in Contacts, AdvanceDueEnrollment(i, c) PROVE DripInv'
  BY <1>6, AdvanceKeeps
<1>7. CASE UNCHANGED dripVars
  BY <1>7 DEF dripVars
<1> QED
  BY <1>1, <1>2, <1>3, <1>4, <1>5, <1>6, <1>7 DEF DripNext

(* However many schedulers list an enrollment, each of its steps is put in *)
(* the outbox once and in order (advanceDueEnrollment).                    *)
THEOREM StepsEnqueuedOnce == DripSpec => []EachStepOnce
<1>1. DripInv => EachStepOnce
  BY DEF DripInv
<1> QED
  BY <1>1, DripInitially, DripStep, PTL DEF DripSpec

-----------------------------------------------------------------------------
(***************************************************************************)
(* Calls of Meta. A call that has no answer yet has made no more than its  *)
(* attempts in doubt: an attempt that timed out may have reached Meta and  *)
(* is repeated, one that was answered ends the call. A call not begun has  *)
(* made nothing.                                                           *)
(***************************************************************************)
DoubtsCounted ==
    \A c \in Calls :
        /\ attempt[c] = 0 /\ answer[c] = "none" => created[c] = 0
        /\ UnderWay(c) => answer[c] \in {"none", "unavailable"}
        /\ answer[c] = "none" => created[c] <= doubtful[c]

GraphInv == GraphTypeOK /\ DoubtsCounted /\ AnswerTellsTruth

(* No call is under way at first.                                          *)
LEMMA GraphInitially == GraphInit => GraphInv
<1> SUFFICES ASSUME GraphInit PROVE GraphInv
  OBVIOUS
<1> USE GraphAssumption DEF GraphInit
<1>1. GraphTypeOK
  <2>1. attempt \in [Calls -> 0..MAX_ATTEMPTS]
    OBVIOUS
  <2>2. answer \in [Calls -> {"none", "ok", "refused", "unavailable", "unsent"}]
    OBVIOUS
  <2>3. breakerOpen \in BOOLEAN
    OBVIOUS
  <2>5. consecutiveFailures \in 0..(BREAKER_THRESHOLD - 1)
    <3>1. consecutiveFailures = 0 /\ BREAKER_THRESHOLD \in Nat \ {0}
      OBVIOUS
    <3> QED
      BY ONLY <3>1
  <2>4. created \in [Calls -> Nat] /\ doubtful \in [Calls -> Nat]
    OBVIOUS
  <2> QED
    BY <2>1, <2>2, <2>3, <2>4, <2>5 DEF GraphTypeOK
<1>2. DoubtsCounted
  <2>1. \A c \in Calls :
          attempt[c] = 0 /\ created[c] = 0 /\ doubtful[c] = 0 /\ answer[c] = "none"
    OBVIOUS
  <2>2. ~(0 > 0) /\ 0 <= 0
    OBVIOUS
  <2> QED
    BY ONLY <2>1, <2>2 DEF DoubtsCounted, UnderWay
<1>3. AnswerTellsTruth
  BY DEF AnswerTellsTruth
<1> QED
  BY <1>1, <1>2, <1>3 DEF GraphInv

(* One case per attempt's outcome. Only an attempt in doubt makes          *)
(* something without ending the call, and it is counted.                   *)
LEMMA GraphStep == GraphInv /\ [GraphNext]_graphVars => GraphInv'
<1> SUFFICES ASSUME GraphInv, [GraphNext]_graphVars PROVE GraphInv'
  OBVIOUS
<1> USE GraphAssumption
    DEF GraphInv, GraphTypeOK, DoubtsCounted, AnswerTellsTruth, UnderWay, CallKinds
<1>1. ASSUME NEW c \in Calls, BeginCall(c) \/ BeginWithoutToken(c) PROVE GraphInv'
  BY <1>1 DEF BeginCall, BeginWithoutToken
<1>2. ASSUME NEW c \in Calls, MetaAccepts(c) PROVE GraphInv'
  BY <1>2 DEF MetaAccepts, Tell, EndCall, Effect
<1>3. ASSUME NEW c \in Calls, MetaRefuses(c) PROVE GraphInv'
  BY <1>3 DEF MetaRefuses, Tell, EndCall
<1>4. ASSUME NEW c \in Calls, Retry(c) PROVE GraphInv'
  BY <1>4 DEF Retry, Transient, Effect
<1>5. ASSUME NEW c \in Calls, Exhausted(c) PROVE GraphInv'
  <2> USE <1>5 DEF Exhausted
  <2>1. consecutiveFailures' \in 0..(BREAKER_THRESHOLD - 1)
    <3>1. CASE consecutiveFailures + 1 >= BREAKER_THRESHOLD
      BY <3>1 DEF RegisterFailure
    <3>2. CASE ~(consecutiveFailures + 1 >= BREAKER_THRESHOLD)
      BY <3>2 DEF RegisterFailure
    <3> QED
      BY <3>1, <3>2
  <2>11. breakerOpen' \in BOOLEAN
    BY DEF RegisterFailure
  <2>2. /\ attempt' \in [Calls -> 0..MAX_ATTEMPTS]
        /\ answer' \in [Calls -> {"none", "ok", "refused", "unavailable", "unsent"}]
        /\ created' \in [Calls -> Nat]
        /\ doubtful' \in [Calls -> Nat]
    BY DEF Tell, EndCall, Transient, Effect
  <2>3. DoubtsCounted' /\ AnswerTellsTruth'
    BY <2>2 DEF Tell, EndCall, Transient, Effect
  <2> QED
    BY <2>1, <2>11, <2>2, <2>3
<1>6. ASSUME NEW c \in Calls, UploadDeadline(c) PROVE GraphInv'
  BY <1>6 DEF UploadDeadline, Tell
<1>7. CASE Cooldown
  BY <1>7 DEF Cooldown
<1>8. CASE UNCHANGED graphVars
  BY <1>8 DEF graphVars
<1> QED
  BY <1>1, <1>2, <1>3, <1>4, <1>5, <1>6, <1>7, <1>8 DEF GraphNext, Attempt

(* What fetchWithRetry tells its caller bounds what Meta made, for any     *)
(* calls, whatever the shared breaker did between two attempts.            *)
THEOREM AnswersAreTrue == GraphSpec => []AnswerTellsTruth
<1>1. GraphInv => AnswerTellsTruth
  BY DEF GraphInv
<1> QED
  BY <1>1, GraphInitially, GraphStep, PTL DEF GraphSpec

-----------------------------------------------------------------------------
(***************************************************************************)
(* The bytes of a message's media. A stored row has its bytes, a fetch     *)
(* that reached the link found or stored them, and a fetch that began with *)
(* the bytes there (not early) has nothing to fetch, unless a late failure *)
(* had marked the row.                                                     *)
(***************************************************************************)
FetchersExplained ==
    /\ bytes => asset = "stored" \/ late
    /\ asset = "stored" => bytes
    /\ \A f \in Fetchers :
          /\ fetcher[f].at = "link" => bytes
          /\ fetcher[f].at \in {"resolve", "download", "store", "error"} /\ ~fetcher[f].early => late

MediaInv == MediaTypeOK /\ FetchersExplained /\ LinkedIsServed

(* Nothing is stored and no fetch runs at first.                           *)
LEMMA MediaInitially == MediaInit => MediaInv
<1> SUFFICES ASSUME MediaInit PROVE MediaInv
  OBVIOUS
<1> USE MediaFetchAssumption DEF MediaInit
<1>1. MediaTypeOK
  BY DEF MediaTypeOK
<1>2. FetchersExplained
  BY DEF FetchersExplained, NoJob
<1>3. LinkedIsServed
  BY DEF LinkedIsServed
<1> QED
  BY <1>1, <1>2, <1>3 DEF MediaInv

(* One case per step of a fetch; the two that write the row, markStored    *)
(* and the error of a failed attempt, are the ones that could part the row *)
(* from the bytes.                                                         *)
LEMMA MediaStep == MediaInv /\ [MediaNext]_mediaVars => MediaInv'
<1> SUFFICES ASSUME MediaInv, [MediaNext]_mediaVars PROVE MediaInv'
  OBVIOUS
<1> USE MediaFetchAssumption
    DEF MediaInv, MediaTypeOK, FetchersExplained, LinkedIsServed, NoJob, At, MoveTo,
        MEDIA_FETCH_MAX_ATTEMPTS
<1>1. ASSUME NEW m \in MediaMessages, MediaRequested(m) \/ JobDelivered(m) PROVE MediaInv'
  BY <1>1 DEF MediaRequested, JobDelivered
<1>2. ASSUME NEW f \in Fetchers, NEW m \in MediaMessages, UpsertPending(f, m) PROVE MediaInv'
  <2> DEFINE job == [at |-> IF asset = "stored" THEN "link" ELSE "resolve",
                     m |-> m, attempt |-> 1, early |-> ~bytes]
  <2>1. job \in [at : {"resolve", "download", "store", "error", "link"},
                m : MediaMessages, attempt : 1..2, early : BOOLEAN]
    OBVIOUS
  <2>2. fetcher' = [fetcher EXCEPT ![f] = job]
    BY <1>2 DEF UpsertPending
  <2>3. job.at = (IF asset = "stored" THEN "link" ELSE "resolve") /\ job.early = ~bytes
    OBVIOUS
  <2> HIDE DEF job
  <2>4. MediaTypeOK'
    BY <1>2, <2>1, <2>2 DEF UpsertPending
  <2>5. FetchersExplained' /\ LinkedIsServed'
    BY <1>2, <2>1, <2>2, <2>3 DEF UpsertPending
  <2> QED
    BY <2>4, <2>5
<1>3. ASSUME NEW f \in Fetchers, ResolveMediaUrl(f) PROVE MediaInv'
  BY <1>3 DEF ResolveMediaUrl
<1>4. ASSUME NEW f \in Fetchers, DownloadMedia(f) PROVE MediaInv'
  BY <1>4 DEF DownloadMedia
<1>5. ASSUME NEW f \in Fetchers, MarkStored(f) PROVE MediaInv'
  <2>1. CASE asset' = "stored" /\ bytes' = TRUE /\ MoveTo(f, "link")
    BY <1>5, <2>1 DEF MarkStored
  <2>2. CASE MoveTo(f, "error") /\ UNCHANGED <<asset, bytes>>
    BY <1>5, <2>2 DEF MarkStored
  <2> QED
    BY <1>5, <2>1, <2>2 DEF MarkStored
<1>6. ASSUME NEW f \in Fetchers, RecordErrorAndThrow(f) PROVE MediaInv'
  BY <1>6 DEF RecordErrorAndThrow, JobThrows
<1>7. ASSUME NEW f \in Fetchers, LinkAsset(f) PROVE MediaInv'
  BY <1>7 DEF LinkAsset
<1>8. ASSUME NEW f \in Fetchers, FetcherDies(f) PROVE MediaInv'
  BY <1>8 DEF FetcherDies, JobThrows
<1>9. CASE UNCHANGED mediaVars
  BY <1>9 DEF mediaVars
<1> QED
  BY <1>1, <1>2, <1>3, <1>4, <1>5, <1>6, <1>7, <1>8, <1>9 DEF MediaNext, MediaWork

(* Media linked to a message can be served, or a failure that came after   *)
(* another fetch had stored it is to blame (upsertPending, markStored),    *)
(* for any number of concurrent fetches and messages.                      *)
THEOREM LinkedMediaServed == MediaSpec => []LinkedIsServed
<1>1. MediaInv => LinkedIsServed
  BY DEF MediaInv
<1> QED
  BY <1>1, MediaInitially, MediaStep, PTL DEF MediaSpec

-----------------------------------------------------------------------------
RealmKeysOK ==
    /\ published \in SUBSET Keys /\ answerKeys \in SUBSET Keys /\ held \in SUBSET Keys
    /\ reachable \in BOOLEAN /\ outage \in BOOLEAN
    /\ retrying \in BOOLEAN /\ retryDue \in BOOLEAN
    /\ fetch \in Pending
    /\ age \in Ages
    /\ kid \in [Verifiers -> Keys]
    /\ verdict \in [Verifiers -> Verdicts]

RealmKeysInv == RealmKeysOK /\ RetriesHaveAFetch

LEMMA RealmKeysInitially == RealmKeysInit => RealmKeysInv
BY DEF RealmKeysInit, RealmKeysInv, RealmKeysOK, RetriesHaveAFetch, Waiters, Pending, Ages, Verdicts

(* A verification that waits, or starts a retry, leaves a fetch under way. *)
LEMMA VerifyKeepsRealmKeys ==
  ASSUME RealmKeysInv, NEW v \in Verifiers, NEW k \in Keys, Verify(v, k)
  PROVE  RealmKeysInv'
<1>1. /\ fetch' \in Pending
      /\ fetch # "none" => fetch' # "none"
      /\ retrying' \in BOOLEAN /\ retryDue' \in BOOLEAN
      /\ retrying' => fetch' # "none"
  <2> USE DEF RealmKeysInv, RealmKeysOK, RetriesHaveAFetch, Pending
  <2>1. CASE OnLastGoodKeys(v, k)
    <3>1. CASE retryDue /\ ~retrying
      BY <2>1, <3>1 DEF OnLastGoodKeys, Ask
    <3>2. CASE ~(retryDue /\ ~retrying)
      BY <2>1, <3>2 DEF OnLastGoodKeys
    <3> QED
      BY <3>1, <3>2
  <2>2. CASE OnCachedKeys(v, k)
    BY <2>2 DEF OnCachedKeys
  <2>3. CASE AskRealm(v, k)
    BY <2>3 DEF AskRealm, Ask
  <2> QED
    BY <2>1, <2>2, <2>3 DEF Verify
<1>2. PICK new \in Verdicts : /\ verdict' = [verdict EXCEPT ![v] = new]
                              /\ new = "waiting" => fetch' # "none"
  <2>1. CASE OnLastGoodKeys(v, k)
    BY <2>1 DEF OnLastGoodKeys, FromLastGoodKeys, Verdicts
  <2>2. CASE OnCachedKeys(v, k)
    BY <2>2 DEF OnCachedKeys, Lookup, Verdicts
  <2>3. CASE AskRealm(v, k)
    BY <2>3 DEF AskRealm, Ask, Verdicts
  <2> QED
    BY <2>1, <2>2, <2>3 DEF Verify
<1>3. RealmKeysOK'
  BY <1>1, <1>2 DEF RealmKeysInv, RealmKeysOK, Verify
<1>4. Waiters' # {} => fetch' # "none"
  BY <1>1, <1>2 DEF RealmKeysInv, RealmKeysOK, RetriesHaveAFetch, Waiters
<1> QED
  BY <1>1, <1>3, <1>4 DEF RealmKeysInv, RetriesHaveAFetch

(* A fetch that ends, either way, ends the retry and every wait.           *)
LEMMA FetchEndsEverything ==
  ASSUME RealmKeysInv, FetchSucceeds \/ FetchFails
  PROVE  RealmKeysInv'
<1>1. RealmKeysOK'
  BY DEF RealmKeysInv, RealmKeysOK, FetchSucceeds, FetchFails, Lookup, FromLastGoodKeys,
         Pending, Ages, Verdicts
<1>2. /\ retrying' = FALSE
      /\ \A v \in Verifiers : verdict'[v] # "waiting"
  BY DEF FetchSucceeds, FetchFails, Lookup, FromLastGoodKeys, Waiters
<1> QED
  BY <1>1, <1>2 DEF RealmKeysInv, RetriesHaveAFetch, Waiters

LEMMA RealmKeysInvStep == RealmKeysInv /\ [RealmKeysNext]_realmVars => RealmKeysInv'
<1> SUFFICES ASSUME RealmKeysInv, [RealmKeysNext]_realmVars PROVE RealmKeysInv'
  OBVIOUS
<1> USE DEF RealmKeysInv, RealmKeysOK, RetriesHaveAFetch, Waiters
<1>1. CASE Rotate
  BY <1>1 DEF Rotate
<1>2. CASE ComesAndGoes
  BY <1>2 DEF ComesAndGoes
<1>3. CASE RealmAnswers
  BY <1>3 DEF RealmAnswers, Pending
<1>4. CASE TimePasses
  BY <1>4 DEF TimePasses, Ages
<1>5. CASE RetryIntervalPasses
  BY <1>5 DEF RetryIntervalPasses
<1>6. CASE \E v \in Verifiers, k \in Keys : Verify(v, k)
  BY <1>6, VerifyKeepsRealmKeys
<1>7. CASE FetchSucceeds \/ FetchFails
  BY <1>7, FetchEndsEverything
<1>8. CASE UNCHANGED realmVars
  BY <1>8 DEF realmVars
<1> QED
  BY <1>1, <1>2, <1>3, <1>4, <1>5, <1>6, <1>7, <1>8 DEF RealmKeysNext

(* However often the realm fails to answer, rotates its keys or comes back *)
(* late, no retry and no token is left waiting for a fetch there is not.   *)
THEOREM RetriesNeverStick == RealmKeysSpec => []RetriesHaveAFetch
<1>1. RealmKeysInv => RetriesHaveAFetch
  BY DEF RealmKeysInv
<1> QED
  BY RealmKeysInitially, RealmKeysInvStep, <1>1, PTL DEF RealmKeysSpec

=============================================================================
