-------------------------------- MODULE Sends --------------------------------
(***************************************************************************)
(* Messages sent outside campaigns: an agent's reply in a conversation and *)
(* a template an automation asks for. The request is checked and enqueued, *)
(* delivered at least once, and sent by a worker under a Redis claim on    *)
(* its dispatchId; Meta then reports the message's status.                 *)
(*                                                                         *)
(* One contact. The outbox and the broker are the transport: a delivery    *)
(* that fails comes again until MaxTries, and a dispatch may be published  *)
(* twice (MaxRepublished).                                                 *)
(***************************************************************************)
EXTENDS Naturals, FiniteSets

CONSTANTS
    AgentReplies,         \* dispatches of agents' replies
    TemplateSends,   \* dispatches of automations' templates
    Workers,         \* concurrent deliveries
    MaxTries,        \* deliveries of one publication before it is dead
    MaxRepublished,  \* bound: publications repeated by the relay, in all
    MaxMishaps       \* bound: failed calls, lost answers, crashes and expiries

ASSUME SendsAssumption ==
    /\ AgentReplies \cap TemplateSends = {}
    /\ MaxTries \in Nat \ {0}
    /\ MaxRepublished \in Nat
    /\ MaxMishaps \in Nat

Dispatches == AgentReplies \cup TemplateSends
Reports == {"sent", "delivered", "read", "failed"}   \* META_STATUS_TO_MESSAGE

VARIABLES
    contactOut,     \* contacts.opted_out
    consented,    \* the contact has an active consent
    windowOpen,   \* the conversation's last inbound is less than 24 hours old
    sendRequest,      \* per dispatch: "none", "read", "checked", "queued" or "refused"
    windowSeen,   \* per reply: the window its request read
    waiting,      \* per dispatch: deliveries on their way
    tries,        \* per dispatch: deliveries begun since the last publication
    claim,        \* per dispatch: its Redis key exists
    worker,       \* per worker: the delivery it handles
    accepted,     \* per dispatch: copies Meta accepted
    rows,         \* per dispatch: message rows created
    shown,        \* per dispatch: the status its row shows
    fate,         \* per dispatch: "open", "declined" or "dead"
    allowedCopies,      \* history, per dispatch: second copies a lost answer or an expiry allows
    stranded,     \* history: dispatches whose claim outlived an attempt that failed
    republished, mishaps

sendsVars == <<contactOut, consented, windowOpen, sendRequest, windowSeen, waiting, tries, claim,
               worker, accepted, rows, shown, fate, allowedCopies, stranded, republished,
               mishaps>>

Contact == <<contactOut, consented, windowOpen>>
Requests == <<sendRequest, windowSeen>>
Outcome == <<accepted, rows, shown, fate>>
History == <<allowedCopies, stranded, republished, mishaps>>

Free == [at |-> "free"]
Zero == [d \in Dispatches |-> 0]

SendsInit ==
    /\ contactOut = FALSE
    /\ consented \in BOOLEAN
    /\ windowOpen \in BOOLEAN
    /\ sendRequest = [d \in Dispatches |-> "none"]
    /\ windowSeen = [d \in AgentReplies |-> FALSE]
    /\ waiting = Zero
    /\ tries = Zero
    /\ claim = [d \in Dispatches |-> FALSE]
    /\ worker = [w \in Workers |-> Free]
    /\ accepted = Zero
    /\ rows = Zero
    /\ shown = [d \in Dispatches |-> "none"]
    /\ fate = [d \in Dispatches |-> "open"]
    /\ allowedCopies = Zero
    /\ stranded = {}
    /\ republished = 0
    /\ mishaps = 0

Mishap == mishaps < MaxMishaps /\ mishaps' = mishaps + 1

-----------------------------------------------------------------------------
(***************************************************************************)
(* The contact: STOP takes its consent away and, being a message, opens    *)
(* the 24 hour window, which closes with time.                             *)
(***************************************************************************)
ContactStops ==
    /\ ~contactOut
    /\ contactOut' = TRUE
    /\ consented' = FALSE
    /\ windowOpen' = TRUE
    /\ UNCHANGED <<Requests, waiting, tries, claim, worker, Outcome, History>>

WindowCloses ==
    /\ windowOpen
    /\ windowOpen' = FALSE
    /\ UNCHANGED <<contactOut, consented, Requests, waiting, tries, claim, worker, Outcome,
                   History>>

-----------------------------------------------------------------------------
(***************************************************************************)
(* sendConversationMessage: the conversation is read, then the contact; an *)
(* opted-out contact and a closed window refuse the reply; it is enqueued  *)
(* with a fresh dispatchId. An automation enqueues its template as it is.  *)
(***************************************************************************)
ReadConversation(d) ==
    /\ sendRequest[d] = "none"
    /\ sendRequest' = [sendRequest EXCEPT ![d] = "read"]
    /\ windowSeen' = [windowSeen EXCEPT ![d] = windowOpen]
    /\ UNCHANGED <<Contact, waiting, tries, claim, worker, Outcome, History>>

CheckContact(d) ==
    /\ sendRequest[d] = "read"
    /\ sendRequest' = [sendRequest EXCEPT ![d] =
                     IF contactOut \/ ~windowSeen[d] THEN "refused" ELSE "checked"]
    /\ UNCHANGED <<windowSeen, Contact, waiting, tries, claim, worker, Outcome, History>>

EnqueueSend(d) ==
    /\ sendRequest[d] = IF d \in AgentReplies THEN "checked" ELSE "none"
    /\ sendRequest' = [sendRequest EXCEPT ![d] = "queued"]
    /\ waiting' = [waiting EXCEPT ![d] = 1]
    /\ UNCHANGED <<windowSeen, Contact, tries, claim, worker, Outcome, History>>

\* The relay published the row and could not mark it, or an operator replays it.
RepublishSend(d) ==
    /\ sendRequest[d] = "queued"
    /\ republished < MaxRepublished
    /\ republished' = republished + 1
    /\ waiting' = [waiting EXCEPT ![d] = @ + 1]
    /\ tries' = [tries EXCEPT ![d] = 0]
    /\ fate' = [fate EXCEPT ![d] = IF @ = "dead" THEN "open" ELSE @]
    /\ UNCHANGED <<Contact, Requests, claim, worker, accepted, rows, shown, allowedCopies,
                   stranded, mishaps>>

-----------------------------------------------------------------------------
Is(w, at) == worker[w].at = at
Of(w) == worker[w].d
Go(w, at) == worker' = [worker EXCEPT ![w] = [at |-> at, d |-> Of(w)]]
Trying == {"contact", "consent", "policy", "send", "undo"}
Holding == Trying \cup {"row"}
Holds(w) == worker[w].at \in Holding    \* from taking the claim to letting go of it
Handled(d) == \E w \in Workers : ~Is(w, "free") /\ Of(w) = d

BeginDelivery(w, d) ==
    /\ Is(w, "free")
    /\ waiting[d] > 0
    /\ waiting' = [waiting EXCEPT ![d] = @ - 1]
    /\ tries' = [tries EXCEPT ![d] = @ + 1]
    /\ worker' = [worker EXCEPT ![w] = [at |-> "claim", d |-> d]]
    /\ UNCHANGED <<Contact, Requests, claim, Outcome, History>>

\* The handler threw: the transport delivers again, or gives up.
ThrownAgain(w) ==
    LET d == Of(w) IN
    /\ worker' = [worker EXCEPT ![w] = Free]
    /\ waiting' = [waiting EXCEPT ![d] = IF tries[d] < MaxTries THEN @ + 1 ELSE @]
    /\ fate' = [fate EXCEPT ![d] = IF tries[d] >= MaxTries /\ @ = "open" THEN "dead" ELSE @]

SkipReleases(w) ==   \* mutant: a skipped delivery releases the claim it did not take
    /\ Is(w, "claim")
    /\ claim' = [claim EXCEPT ![Of(w)] = ~@]
    /\ IF claim[Of(w)] THEN worker' = [worker EXCEPT ![w] = Free]
       ELSE Go(w, IF Of(w) \in AgentReplies THEN "send" ELSE "contact")
    /\ UNCHANGED <<Contact, Requests, waiting, tries, Outcome, History>>

TakeClaim(w) ==
    /\ Is(w, "claim")
    /\ claim' = [claim EXCEPT ![Of(w)] = TRUE]
    /\ IF claim[Of(w)] THEN worker' = [worker EXCEPT ![w] = Free]
       ELSE Go(w, IF Of(w) \in AgentReplies THEN "send" ELSE "contact")
    /\ UNCHANGED <<Contact, Requests, waiting, tries, Outcome, History>>

(***************************************************************************)
(* The claim is awaited outside the try: when its answer is lost, or the   *)
(* worker crashes in the call, the key may be there and nobody releases    *)
(* it, so that the next delivery is skipped.                               *)
(***************************************************************************)
ClaimFails(w) ==
    /\ Is(w, "claim")
    /\ Mishap
    /\ \/ UNCHANGED <<claim, stranded>>
       \/ /\ ~claim[Of(w)]
          /\ claim' = [claim EXCEPT ![Of(w)] = TRUE]
          /\ stranded' = stranded \cup {Of(w)}
    /\ ThrownAgain(w)
    /\ UNCHANGED <<Contact, Requests, tries, accepted, rows, shown, allowedCopies, republished>>

(***************************************************************************)
(* An automation's template: the contact, its consent and the policy are   *)
(* read in that order; each may decline, which ends the delivery and keeps *)
(* the claim.                                                              *)
(***************************************************************************)
Declines(w) ==
    /\ worker' = [worker EXCEPT ![w] = Free]
    /\ fate' = [fate EXCEPT ![Of(w)] = "declined"]

ReadContact(w) ==
    /\ Is(w, "contact")
    /\ IF contactOut THEN Declines(w) ELSE Go(w, "consent") /\ UNCHANGED fate
    /\ UNCHANGED <<Contact, Requests, waiting, tries, claim, accepted, rows, shown, History>>

ReadConsent(w) ==
    /\ Is(w, "consent")
    /\ IF consented THEN Go(w, "policy") /\ UNCHANGED fate ELSE Declines(w)
    /\ UNCHANGED <<Contact, Requests, waiting, tries, claim, accepted, rows, shown, History>>

\* Quiet hours, or no channel: either may decline.
ReadPolicy(w) ==
    /\ Is(w, "policy")
    /\ \/ Go(w, "send") /\ UNCHANGED fate
       \/ Declines(w)
    /\ UNCHANGED <<Contact, Requests, waiting, tries, claim, accepted, rows, shown, History>>

(***************************************************************************)
(* The guarded send, up to the answer of the adapter. A failure, also one  *)
(* after Meta accepted the message, leads to the release of the claim.     *)
(***************************************************************************)
SendAccepted(w) ==
    /\ Is(w, "send")
    /\ accepted' = [accepted EXCEPT ![Of(w)] = @ + 1]
    /\ Go(w, "row")
    /\ UNCHANGED <<Contact, Requests, waiting, tries, claim, rows, shown, fate, History>>

SendFails(w) ==
    /\ worker[w].at \in {"contact", "consent", "policy", "send"}
    /\ Mishap
    /\ Go(w, "undo")
    /\ UNCHANGED <<Contact, Requests, waiting, tries, claim, Outcome, allowedCopies, stranded,
                   republished>>

AnswerLost(w) ==
    /\ Is(w, "send")
    /\ Mishap
    /\ accepted' = [accepted EXCEPT ![Of(w)] = @ + 1]
    /\ allowedCopies' = [allowedCopies EXCEPT ![Of(w)] = @ + 1]
    /\ Go(w, "undo")
    /\ UNCHANGED <<Contact, Requests, waiting, tries, claim, rows, shown, fate, stranded,
                   republished>>

\* The adapter's own retry: Meta took the message, the answer was lost, and
\* graphRequest posts it again within the same call.
PostedAgain(w) ==
    /\ Is(w, "send")
    /\ Mishap
    /\ accepted' = [accepted EXCEPT ![Of(w)] = @ + 1]
    /\ allowedCopies' = [allowedCopies EXCEPT ![Of(w)] = @ + 1]
    /\ UNCHANGED <<Contact, Requests, waiting, tries, claim, worker, rows, shown, fate, stranded,
                   republished>>

UndoKeepsClaim(w) ==   \* mutant: the failed attempt keeps its claim
    /\ Is(w, "undo")
    /\ ThrownAgain(w)
    /\ UNCHANGED <<claim, stranded, mishaps, Contact, Requests, tries, accepted, rows, shown,
                   allowedCopies, republished>>

UndoSend(w) ==
    /\ Is(w, "undo")
    /\ \/ /\ claim' = [claim EXCEPT ![Of(w)] = FALSE]
          /\ UNCHANGED <<stranded, mishaps>>
       \/ /\ Mishap                                \* the release is best-effort
          /\ stranded' = stranded \cup {Of(w)}
          /\ UNCHANGED claim
    /\ ThrownAgain(w)
    /\ UNCHANGED <<Contact, Requests, tries, accepted, rows, shown, allowedCopies, republished>>

(***************************************************************************)
(* The message row is created outside the guard: a failure is thrown with  *)
(* the claim kept, so the next delivery is skipped and the row is lost.    *)
(***************************************************************************)
CreateRow(w) ==
    /\ Is(w, "row")
    /\ rows' = [rows EXCEPT ![Of(w)] = @ + 1]
    /\ shown' = [shown EXCEPT ![Of(w)] = IF @ = "none" THEN "sent" ELSE @]
    /\ worker' = [worker EXCEPT ![w] = Free]
    /\ UNCHANGED <<Contact, Requests, waiting, tries, claim, accepted, fate, History>>

CreateRowFails(w) ==
    /\ Is(w, "row")
    /\ Mishap
    /\ stranded' = stranded \cup {Of(w)}
    /\ ThrownAgain(w)
    /\ UNCHANGED <<Contact, Requests, tries, claim, accepted, rows, shown, allowedCopies,
                   republished>>

WorkerCrashes(w) ==   \* with the claim; a crash before it is ClaimFails
    /\ Holds(w)
    /\ Mishap
    /\ stranded' = stranded \cup {Of(w)}
    /\ ThrownAgain(w)
    /\ UNCHANGED <<Contact, Requests, tries, claim, accepted, rows, shown, allowedCopies,
                   republished>>

\* 24 hours for a reply, one for a template: nothing holds the claim that long.
ClaimExpires(d) ==
    /\ claim[d]
    /\ ~Handled(d)
    /\ Mishap
    /\ claim' = [claim EXCEPT ![d] = FALSE]
    /\ allowedCopies' = [allowedCopies EXCEPT ![d] = @ + 1]
    /\ UNCHANGED <<Contact, Requests, waiting, tries, worker, Outcome, stranded, republished>>

(***************************************************************************)
(* handleStatus: Meta's reports reach the row in any order and repeatedly, *)
(* and the row shows the last one; a report that precedes the row is lost. *)
(***************************************************************************)
StatusReported(d, report) ==
    /\ accepted[d] > 0
    /\ rows[d] > 0
    /\ shown' = [shown EXCEPT ![d] = report]
    /\ UNCHANGED <<Contact, Requests, waiting, tries, claim, worker, accepted, rows, fate,
                   History>>

SendsNext ==
    \/ ContactStops \/ WindowCloses
    \/ \E d \in AgentReplies : ReadConversation(d) \/ CheckContact(d)
    \/ \E d \in Dispatches :
          \/ EnqueueSend(d) \/ RepublishSend(d) \/ ClaimExpires(d)
          \/ \E report \in Reports : StatusReported(d, report)
          \/ \E w \in Workers : BeginDelivery(w, d)
    \/ \E w \in Workers :
          \/ TakeClaim(w) \/ ClaimFails(w)
          \/ ReadContact(w) \/ ReadConsent(w) \/ ReadPolicy(w)
          \/ SendAccepted(w) \/ SendFails(w) \/ AnswerLost(w) \/ PostedAgain(w) \/ UndoSend(w)
          \/ CreateRow(w) \/ CreateRowFails(w) \/ WorkerCrashes(w)

SendsSpec == SendsInit /\ [][SendsNext]_sendsVars

-----------------------------------------------------------------------------
SendsTypeOK ==
    /\ contactOut \in BOOLEAN
    /\ consented \in BOOLEAN
    /\ windowOpen \in BOOLEAN
    /\ sendRequest \in [Dispatches -> {"none", "read", "checked", "queued", "refused"}]
    /\ windowSeen \in [AgentReplies -> BOOLEAN]
    /\ waiting \in [Dispatches -> Nat]
    /\ tries \in [Dispatches -> Nat]
    /\ claim \in [Dispatches -> BOOLEAN]
    /\ worker \in [Workers -> {Free} \cup
                     [at : {"claim", "contact", "consent", "policy", "send", "undo", "row"},
                      d : Dispatches]]
    /\ accepted \in [Dispatches -> Nat]
    /\ rows \in [Dispatches -> Nat]
    /\ shown \in [Dispatches -> {"none"} \cup Reports]
    /\ fate \in [Dispatches -> {"open", "declined", "dead"}]
    /\ allowedCopies \in [Dispatches -> Nat]
    /\ stranded \subseteq Dispatches
    /\ republished \in Nat
    /\ mishaps \in Nat

Over(d) == waiting[d] = 0 /\ ~Handled(d)

\* Deliveries repeated, overlapping and failing as they may, Meta accepts a
\* dispatch once, and once more only for each answer that was lost and each
\* claim that expired.
OneCopyPerDispatch == \A d \in Dispatches : accepted[d] <= 1 + allowedCopies[d]

\* A dispatch whose deliveries are over was accepted, declined or dead-lettered;
\* it vanishes only when its claim was left behind: by a crash, by a failed
\* release or message row, or by a claim taken whose answer was lost.
NoDispatchVanishes ==
    \A d \in Dispatches :
        sendRequest[d] = "queued" /\ Over(d) =>
            accepted[d] > 0 \/ fate[d] # "open" \/ d \in stranded

-----------------------------------------------------------------------------
(***************************************************************************)
(* The Redis claim on a dispatchId, as SendClaim: a worker holds it from   *)
(* taking it until it let go of the delivery.                              *)
(***************************************************************************)
HoldersOf(d) == {w \in Workers : Holds(w) /\ Of(w) = d}

Claim == INSTANCE SendClaim WITH
    Items <- Dispatches,
    Actors <- Workers,
    taken <- {d \in Dispatches : claim[d]},
    holders <- [d \in Dispatches |-> HoldersOf(d)],
    copies <- accepted,
    excused <- allowedCopies

\* The claim keeps SendClaim's promise: seen through the mapping, every step of
\* requests, workers, failures and crashes is one of its steps or none.
DispatchImplementsSendClaim == Claim!Spec

=============================================================================
