------------------------------ MODULE RealmKeys -------------------------------
(***************************************************************************)
(* The signing keys of the identity provider's realm as the gateway holds  *)
(* them: fetched when stale or when a token names a key it does not know,  *)
(* and ridden through an outage on the keys of the last good fetch, the    *)
(* realm being tried again in the background once per retry interval.      *)
(*                                                                         *)
(* The age of the last fetch is the interval it lies in: below the         *)
(* cooldown, the cache's age, maxStaleMs, or beyond.                       *)
(***************************************************************************)
EXTENDS Naturals

CONSTANTS
    Keys,        \* key ids the realm may publish
    Verifiers    \* requests that verify a token, one at a time each

Ages == {"never", "fresh", "cached", "stale", "expired"}
Pending == {"none", "asked", "answered"}
Verdicts == {"none", "waiting", "accepted", "refused", "unavailable"}

VARIABLES
    published,   \* the keys the realm serves
    reachable,   \* the realm's endpoint answers
    fetch,       \* jose's one fetch at a time
    answerKeys,      \* the key set on its way back
    held,        \* the keys of the last successful fetch
    age,         \* its age
    outage,      \* an outage is on
    retrying,    \* a background retry is under way
    retryDue,    \* retryIntervalMs has passed since the last attempt
    kid,         \* per verifier: the key its token names
    verdict      \* per verifier: the answer for its token

realmVars == <<published, reachable, fetch, answerKeys, held, age, outage, retrying,
               retryDue, kid, verdict>>

RealmKeysInit ==
    /\ published \in SUBSET Keys \ {{}}
    /\ reachable \in BOOLEAN
    /\ fetch = "none"
    /\ answerKeys = {}
    /\ held = {}
    /\ age = "never"
    /\ outage = FALSE
    /\ retrying = FALSE
    /\ retryDue = FALSE
    /\ kid \in [Verifiers -> Keys]
    /\ verdict = [v \in Verifiers |-> "none"]

-----------------------------------------------------------------------------
(***************************************************************************)
(* The realm: keys are rotated, the endpoint comes and goes.               *)
(***************************************************************************)
Rotate ==
    /\ published' \in SUBSET Keys \ {{}}
    /\ UNCHANGED <<reachable, fetch, answerKeys, held, age, outage, retrying, retryDue, kid,
                   verdict>>

ComesAndGoes ==
    /\ reachable' = ~reachable
    /\ UNCHANGED <<published, fetch, answerKeys, held, age, outage, retrying, retryDue, kid,
                   verdict>>

RealmAnswers ==
    /\ fetch = "asked"
    /\ reachable
    /\ fetch' = "answered"
    /\ answerKeys' = published
    /\ UNCHANGED <<published, reachable, held, age, outage, retrying, retryDue, kid, verdict>>

TimePasses ==
    /\ \/ age = "fresh" /\ age' = "cached"
       \/ age = "cached" /\ age' = "stale"
       \/ age = "stale" /\ age' = "expired"
    /\ UNCHANGED <<published, reachable, fetch, answerKeys, held, outage, retrying, retryDue, kid,
                   verdict>>

RetryIntervalPasses ==
    /\ outage
    /\ ~retryDue
    /\ retryDue' = TRUE
    /\ UNCHANGED <<published, reachable, fetch, answerKeys, held, age, outage, retrying, kid,
                   verdict>>

-----------------------------------------------------------------------------
HasLastGood == age \in {"fresh", "cached", "stale"}
Ask == fetch' = IF fetch = "none" THEN "asked" ELSE fetch   \* joins the one under way

Lookup(k, keys) == IF k \in keys THEN "accepted" ELSE "refused"

FromLastGoodKeys(k) == IF k \in held THEN "accepted" ELSE "unavailable"

\* A verification during an outage that the last good keys answer.
OnLastGoodKeys(v, k) ==
    /\ outage
    /\ HasLastGood
    /\ verdict' = [verdict EXCEPT ![v] = FromLastGoodKeys(k)]
    /\ IF retryDue /\ ~retrying
       THEN retrying' = TRUE /\ retryDue' = FALSE /\ Ask
       ELSE UNCHANGED <<retrying, retryDue, fetch>>

\* One the cached keys answer, be it with a refusal while they are fresh.
OnCachedKeys(v, k) ==
    /\ ~outage
    /\ \/ k \in held /\ age \in {"fresh", "cached"}
       \/ k \notin held /\ age = "fresh"
    /\ verdict' = [verdict EXCEPT ![v] = Lookup(k, held)]
    /\ UNCHANGED <<retrying, retryDue, fetch>>

\* One that has to ask the realm.
AskRealm(v, k) ==
    /\ IF outage THEN ~HasLastGood
       ELSE \/ age \in {"never", "stale", "expired"}
            \/ k \notin held /\ age = "cached"
    /\ verdict' = [verdict EXCEPT ![v] = "waiting"]
    /\ Ask
    /\ UNCHANGED <<retrying, retryDue>>

Verify(v, k) ==
    /\ verdict[v] # "waiting"
    /\ kid' = [kid EXCEPT ![v] = k]
    /\ OnLastGoodKeys(v, k) \/ OnCachedKeys(v, k) \/ AskRealm(v, k)
    /\ UNCHANGED <<published, reachable, answerKeys, held, age, outage>>

Waiters == {v \in Verifiers : verdict[v] = "waiting"}

\* fetchSucceeded: whoever asked, the outage is over, and every waiting token
\* is looked up in the new set.
FetchSucceeds ==
    /\ fetch = "answered"
    /\ fetch' = "none"
    /\ answerKeys' = {}
    /\ held' = answerKeys
    /\ age' = "fresh"
    /\ outage' = FALSE
    /\ retrying' = FALSE
    /\ verdict' = [v \in Verifiers |->
                     IF v \in Waiters THEN Lookup(kid[v], answerKeys) ELSE verdict[v]]
    /\ UNCHANGED <<published, reachable, retryDue, kid>>

FailedRetryStays ==   \* mutant: a failed retry stays under way
    /\ fetch = "asked"
    /\ ~reachable
    /\ fetch' = "none"
    /\ outage' = (outage \/ Waiters # {})
    /\ retryDue' = (retryDue /\ Waiters = {})
    /\ verdict' = [v \in Verifiers |->
                     IF v \notin Waiters THEN verdict[v]
                     ELSE IF HasLastGood THEN FromLastGoodKeys(kid[v]) ELSE "unavailable"]
    /\ UNCHANGED <<published, reachable, answerKeys, held, age, retrying, kid>>

\* duringOutage for every token that waits; a background retry only ends.
FetchFails ==
    /\ fetch = "asked"
    /\ ~reachable
    /\ fetch' = "none"
    /\ outage' = (outage \/ Waiters # {})
    /\ retryDue' = (retryDue /\ Waiters = {})
    /\ retrying' = FALSE
    /\ verdict' = [v \in Verifiers |->
                     IF v \notin Waiters THEN verdict[v]
                     ELSE IF HasLastGood THEN FromLastGoodKeys(kid[v]) ELSE "unavailable"]
    /\ UNCHANGED <<published, reachable, answerKeys, held, age, kid>>

RealmKeysNext ==
    \/ Rotate \/ ComesAndGoes \/ RealmAnswers \/ TimePasses \/ RetryIntervalPasses
    \/ \E v \in Verifiers, k \in Keys : Verify(v, k)
    \/ FetchSucceeds \/ FetchFails

\* Fetches end (jose's timeout), intervals pass, and in an outage tokens keep coming.
RealmKeysFairness ==
    /\ WF_realmVars(RealmAnswers)
    /\ WF_realmVars(FetchSucceeds)
    /\ WF_realmVars(FetchFails)
    /\ WF_realmVars(RetryIntervalPasses)
    /\ \A v \in Verifiers : WF_realmVars(outage /\ \E k \in Keys : Verify(v, k))

RealmKeysSpec == RealmKeysInit /\ [][RealmKeysNext]_realmVars /\ RealmKeysFairness

-----------------------------------------------------------------------------
\* No flag outlives its fetch: a retry under way has a fetch, or the next interval
\* would start none, and a token that waits has one that will answer it.
RetriesHaveAFetch ==
    /\ retrying => fetch # "none"
    /\ Waiters # {} => fetch # "none"

\* Once the realm stays reachable the outage ends: the retries do not stop with
\* one that failed, nor with the last good keys running out.
OutageEnds == (<>[]reachable) => <>[]~outage

=============================================================================
