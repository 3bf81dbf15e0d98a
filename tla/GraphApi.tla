------------------------------- MODULE GraphApi -------------------------------
(***************************************************************************)
(* The adapter's calls of Meta's Graph API. Every call of the process,     *)
(* whichever tenant makes it, shares one failure counter and one circuit   *)
(* breaker, which is consulted when a call begins. An attempt that Meta    *)
(* does not answer, or answers 429 or 5xx, is repeated, also when it posts *)
(* a message: what became of that message is not known.                    *)
(***************************************************************************)
EXTENDS Naturals

CONSTANTS
    Calls,               \* the calls made
    KindOf,              \* what each asks for
    BREAKER_THRESHOLD,   \* exhausted calls that open the breaker
    MAX_ATTEMPTS         \* attempts of one call

\* A message, a file (under a deadline), or nothing that stays at Meta.
CallKinds == {"message", "upload", "read"}

ASSUME GraphAssumption ==
    /\ KindOf \in [Calls -> CallKinds]
    /\ BREAKER_THRESHOLD \in Nat \ {0}
    /\ MAX_ATTEMPTS \in Nat \ {0}

VARIABLES
    attempt,              \* per call: the attempt it is in, 0 when it is not under way
    answer,               \* per call: what its caller was told
    consecutiveFailures,
    breakerOpen,          \* Date.now() < breakerOpenUntil
    created,              \* per call: messages or files Meta made of it
    doubtful              \* history, per call: attempts whose outcome nobody knows

graphVars == <<attempt, answer, consecutiveFailures, breakerOpen, created, doubtful>>

GraphInit ==
    /\ attempt = [c \in Calls |-> 0]
    /\ answer = [c \in Calls |-> "none"]
    /\ consecutiveFailures = 0
    /\ breakerOpen = FALSE
    /\ created = [c \in Calls |-> 0]
    /\ doubtful = [c \in Calls |-> 0]

UnderWay(c) == attempt[c] > 0
Effect(c) == IF KindOf[c] = "read" THEN 0 ELSE 1

\* The caller is told once: an abandoned upload has been answered already.
Tell(c, what) == answer' = [answer EXCEPT ![c] = IF @ = "none" THEN what ELSE @]
EndCall(c) == attempt' = [attempt EXCEPT ![c] = 0]

-----------------------------------------------------------------------------
(***************************************************************************)
(* graphRequest: without a token, or with the breaker open, nothing is     *)
(* sent.                                                                   *)
(***************************************************************************)
BeginCall(c) ==
    /\ attempt[c] = 0
    /\ answer[c] = "none"
    /\ attempt' = [attempt EXCEPT ![c] = IF breakerOpen THEN 0 ELSE 1]
    /\ answer' = [answer EXCEPT ![c] = IF breakerOpen THEN "unsent" ELSE @]
    /\ UNCHANGED <<consecutiveFailures, breakerOpen, created, doubtful>>

BeginWithoutToken(c) ==
    /\ attempt[c] = 0
    /\ answer[c] = "none"
    /\ answer' = [answer EXCEPT ![c] = "unsent"]
    /\ UNCHANGED <<attempt, consecutiveFailures, breakerOpen, created, doubtful>>

\* Meta took the request; the caller learns it unless the body cannot be read.
MetaAccepts(c) ==
    /\ UnderWay(c)
    /\ created' = [created EXCEPT ![c] = @ + Effect(c)]
    /\ \/ Tell(c, "ok") /\ UNCHANGED doubtful
       \/ Tell(c, "unavailable") /\ doubtful' = [doubtful EXCEPT ![c] = @ + 1]
    /\ EndCall(c)
    /\ consecutiveFailures' = 0
    /\ UNCHANGED breakerOpen

\* A 4xx other than 429 is final, and counts as a sign of life.
MetaRefuses(c) ==
    /\ UnderWay(c)
    /\ Tell(c, "refused")
    /\ EndCall(c)
    /\ consecutiveFailures' = 0
    /\ UNCHANGED <<breakerOpen, created, doubtful>>

\* 429, 5xx, a network error or the abort after ten seconds.
Transient(c) ==
    \/ UNCHANGED <<created, doubtful>>
    \/ /\ created' = [created EXCEPT ![c] = @ + Effect(c)]
       /\ doubtful' = [doubtful EXCEPT ![c] = @ + 1]

RetryUnlessOpen(c) ==   \* mutant: the breaker is consulted before every attempt
    /\ UnderWay(c)
    /\ attempt[c] < MAX_ATTEMPTS
    /\ Transient(c)
    /\ IF breakerOpen THEN EndCall(c) /\ Tell(c, "unsent")
       ELSE attempt' = [attempt EXCEPT ![c] = @ + 1] /\ UNCHANGED answer
    /\ UNCHANGED <<consecutiveFailures, breakerOpen>>

Retry(c) ==
    /\ UnderWay(c)
    /\ attempt[c] < MAX_ATTEMPTS
    /\ Transient(c)
    /\ attempt' = [attempt EXCEPT ![c] = @ + 1]
    /\ UNCHANGED <<answer, consecutiveFailures, breakerOpen>>

RegisterFailure ==
    IF consecutiveFailures + 1 >= BREAKER_THRESHOLD
    THEN /\ consecutiveFailures' = 0
         /\ breakerOpen' = TRUE
    ELSE /\ consecutiveFailures' = consecutiveFailures + 1
         /\ UNCHANGED breakerOpen

\* The last attempt: the answer is handed on, or the error thrown.
Exhausted(c) ==
    /\ UnderWay(c)
    /\ attempt[c] = MAX_ATTEMPTS
    /\ Transient(c)
    /\ Tell(c, "refused") \/ Tell(c, "unavailable")
    /\ EndCall(c)
    /\ RegisterFailure

\* BREAKER_OPEN_MS have passed since the breaker last opened.
Cooldown ==
    /\ breakerOpen
    /\ breakerOpen' = FALSE
    /\ UNCHANGED <<attempt, answer, consecutiveFailures, created, doubtful>>

\* uploadMediaDirect answers at its deadline; the call it raced goes on.
UploadDeadline(c) ==
    /\ UnderWay(c)
    /\ KindOf[c] = "upload"
    /\ answer[c] = "none"
    /\ Tell(c, "unavailable")
    /\ doubtful' = [doubtful EXCEPT ![c] = @ + 1]
    /\ UNCHANGED <<attempt, consecutiveFailures, breakerOpen, created>>

Attempt(c) == MetaAccepts(c) \/ MetaRefuses(c) \/ Retry(c) \/ Exhausted(c)

GraphNext ==
    \/ \E c \in Calls : BeginCall(c) \/ BeginWithoutToken(c) \/ Attempt(c) \/ UploadDeadline(c)
    \/ Cooldown

GraphSpec == GraphInit /\ [][GraphNext]_graphVars

-----------------------------------------------------------------------------
GraphTypeOK ==
    /\ attempt \in [Calls -> 0..MAX_ATTEMPTS]
    /\ answer \in [Calls -> {"none", "ok", "refused", "unavailable", "unsent"}]
    /\ consecutiveFailures \in 0..(BREAKER_THRESHOLD - 1)
    /\ breakerOpen \in BOOLEAN
    /\ created \in [Calls -> Nat]
    /\ doubtful \in [Calls -> Nat]

\* What a caller is told of a call bounds what Meta made of it: nothing when it
\* was unsent, exactly one thing that is known and one more at most for each
\* attempt in doubt when it was accepted, and only doubtful things otherwise.
AnswerTellsTruth ==
    \A c \in Calls :
        /\ answer[c] = "unsent" => created[c] = 0
        /\ answer[c] = "refused" => created[c] <= doubtful[c]
        /\ answer[c] = "ok" /\ KindOf[c] # "read" =>
              1 <= created[c] /\ created[c] <= 1 + doubtful[c]

=============================================================================
