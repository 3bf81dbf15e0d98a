------------------------------- MODULE Access -------------------------------
(***************************************************************************)
(* Credentials of one user and their revocation: the sessions a login      *)
(* creates, the API keys the user mints, the event streams (SSE) opened    *)
(* with either, and the administrators' requests that suspend, reactivate  *)
(* or reset the user. Every request is a sequence of separate reads and    *)
(* writes, so any two of them interleave.                                  *)
(*                                                                         *)
(* A stream is authorised once, when it connects. The requests modelled    *)
(* run on one gateway instance; streams are held here or on another one.   *)
(***************************************************************************)
EXTENDS Naturals, FiniteSets

CONSTANTS
    Sessions,     \* the logins of the user
    ApiKeys,      \* the API keys the user mints
    Admins,       \* concurrent requests of administrators
    MaxRequests,  \* bound: requests of administrators in all
    MaxFailures   \* bound: failed database calls

ASSUME AccessAssumption ==
    /\ Sessions \cap ApiKeys = {}
    /\ MaxRequests \in Nat
    /\ MaxFailures \in Nat

Credentials == Sessions \cup ApiKeys
StreamHosts == {"here", "elsewhere"}

VARIABLES
    userStatus,     \* users.status: "active" or "suspended"
    statusPhase,    \* history: how often the status changed
    session,    \* "none", "checked" (password and status proven), "live" or "gone"
    refusal,    \* per session: "none", or what a request refused on it does next
    born,       \* history: the phase a session was inserted in
    key,        \* "none", "checked", "inserted", "shown", "hidden" or "revoked"
    streamOf,     \* per credential: "none", "authorised" or the instance that holds it
    ending,     \* credentials revoked on their own whose streams are ended next
    admin,      \* per administrator: the request it is in, with the phase it read the user in
    requests, failures,     \* what the bounds count
    unrevoked,  \* history: credentials a failed call, keepApiKeys or an overtaken read left alive
    lateStreams,      \* history: streams added after their credential was revoked
    leftOpen    \* history: streams a revocation of their credential did not end

accessVars == <<userStatus, statusPhase, session, refusal, born, key, streamOf, ending, admin,
                requests, failures, unrevoked, lateStreams, leftOpen>>

User == <<userStatus, statusPhase>>
Logins == <<session, refusal, born>>
Streams == <<streamOf, ending, lateStreams, leftOpen>>
AccessRecord == <<failures, unrevoked>>

NoAdminRequest == [at |-> "idle", op |-> "none", keys |-> {}, read |-> 0]

AccessInit ==
    /\ userStatus = "active"
    /\ statusPhase = 0
    /\ session = [s \in Sessions |-> "none"]
    /\ refusal = [s \in Sessions |-> "none"]
    /\ born = [s \in Sessions |-> 0]
    /\ key = [k \in ApiKeys |-> "none"]
    /\ streamOf = [c \in Credentials |-> "none"]
    /\ ending = {}
    /\ admin = [a \in Admins |-> NoAdminRequest]
    /\ requests = 0
    /\ failures = 0
    /\ unrevoked = {}
    /\ lateStreams = {}
    /\ leftOpen = {}

LiveSessions == {s \in Sessions : session[s] = "live"}
LiveKeys == {k \in ApiKeys : key[k] \in {"inserted", "shown", "hidden"}}
Accepted(c) == (c \in Sessions /\ session[c] = "live" /\ userStatus = "active")
               \/ (c \in ApiKeys /\ key[c] = "shown")
Revoked(c) == (c \in Sessions /\ session[c] = "gone") \/ (c \in ApiKeys /\ key[c] = "revoked")

Failure == failures < MaxFailures /\ failures' = failures + 1

-----------------------------------------------------------------------------
(***************************************************************************)
(* POST /auth/login proves the password and the status and then inserts    *)
(* the session, which is given away with the answer.                       *)
(***************************************************************************)
LoginChecks(s) ==
    /\ session[s] = "none"
    /\ userStatus = "active"
    /\ session' = [session EXCEPT ![s] = "checked"]
    /\ UNCHANGED <<User, refusal, born, key, Streams, admin, requests, AccessRecord>>

LoginInserts(s) ==
    /\ session[s] = "checked"
    /\ session' = [session EXCEPT ![s] = "live"]
    /\ born' = [born EXCEPT ![s] = statusPhase]
    /\ UNCHANGED <<User, refusal, key, Streams, admin, requests, AccessRecord>>

HeldHere(c) == streamOf[c] = "here"

EndsStreams(cs) ==
    streamOf' = [c \in Credentials |-> IF c \in cs /\ HeldHere(c) THEN "none" ELSE streamOf[c]]

(***************************************************************************)
(* A credential revoked on its own (a logout, a revoked key): once the     *)
(* write has answered its streams are ended. When the write took effect    *)
(* and its answer was lost, the request ends there and they stay.          *)
(***************************************************************************)
RevokedAlone(c) ==
    \/ /\ ending' = ending \cup {c}
       /\ UNCHANGED <<failures, leftOpen>>
    \/ /\ Failure
       /\ leftOpen' = leftOpen \cup {d \in {c} : HeldHere(d)}
       /\ UNCHANGED ending

EndOwnStreams(c) ==
    /\ c \in ending
    /\ ending' = ending \ {c}
    /\ EndsStreams({c})
    /\ UNCHANGED <<User, Logins, key, lateStreams, leftOpen, admin, requests, AccessRecord>>

Logout(s) ==
    /\ session[s] = "live"
    /\ session' = [session EXCEPT ![s] = "gone"]
    /\ RevokedAlone(s)
    /\ UNCHANGED <<User, refusal, born, key, streamOf, lateStreams, admin, requests, unrevoked>>

(***************************************************************************)
(* A request on a live session whose user is read as not active is         *)
(* refused: it ends the user's streams on this instance and then deletes   *)
(* the session, best-effort. The user may be reactivated, and connect on   *)
(* the session, in between: nobody ends that stream when the delete runs.  *)
(***************************************************************************)
RefusalIs(s, step) == refusal' = [refusal EXCEPT ![s] = step]

RefuseInactive(s) ==
    /\ session[s] = "live"
    /\ userStatus # "active"
    /\ refusal[s] = "none"
    /\ RefusalIs(s, "end")
    /\ UNCHANGED <<User, session, born, key, Streams, admin, requests, AccessRecord>>

EndRefused(s) ==
    /\ refusal[s] = "end"
    /\ EndsStreams(Sessions)
    /\ RefusalIs(s, "delete")
    /\ UNCHANGED <<User, session, born, key, ending, lateStreams, leftOpen, admin, requests,
                   AccessRecord>>

DeleteRefused(s) ==
    /\ refusal[s] = "delete"
    /\ RefusalIs(s, "none")
    /\ \/ /\ session[s] = "live"
          /\ session' = [session EXCEPT ![s] = "gone"]
          /\ leftOpen' = leftOpen \cup {d \in {s} : HeldHere(d)}
          /\ UNCHANGED failures
       \/ session[s] # "live" /\ UNCHANGED <<session, failures, leftOpen>>
       \/ Failure /\ UNCHANGED <<session, leftOpen>>
    /\ UNCHANGED <<User, born, key, streamOf, ending, lateStreams, admin, requests, unrevoked>>

(***************************************************************************)
(* The event stream: the credential is resolved, the rate limiter awaited, *)
(* and only then is the stream added to the hub.                           *)
(***************************************************************************)
OpenStream(c) ==
    /\ streamOf[c] = "none"
    /\ Accepted(c)
    /\ streamOf' = [streamOf EXCEPT ![c] = "authorised"]
    /\ UNCHANGED <<User, Logins, key, ending, lateStreams, leftOpen, admin, requests, AccessRecord>>

AddClient(c) ==
    /\ streamOf[c] = "authorised"
    /\ \E i \in StreamHosts : streamOf' = [streamOf EXCEPT ![c] = i]
    /\ lateStreams' = IF Accepted(c) THEN lateStreams \ {c} ELSE lateStreams \cup {c}
    /\ leftOpen' = leftOpen \ {c}
    /\ UNCHANGED <<User, Logins, key, ending, admin, requests, AccessRecord>>

(***************************************************************************)
(* The client disconnects, or the keep-alive sweep ends the stream at its  *)
(* lifetime cap, on every instance and whatever became of its credential.  *)
(***************************************************************************)
CloseStream(c) ==
    /\ streamOf[c] \in StreamHosts
    /\ streamOf' = [streamOf EXCEPT ![c] = "none"]
    /\ UNCHANGED <<User, Logins, key, ending, lateStreams, leftOpen, admin, requests, AccessRecord>>

-----------------------------------------------------------------------------
(***************************************************************************)
(* POST /api-keys: the caller's status is read before the insert and again *)
(* after it, and the secret is shown only when both found it active. A     *)
(* second read that fails counts as active.                                *)
(***************************************************************************)
KeyChecks(k) ==
    /\ key[k] = "none"
    /\ LiveSessions # {}
    /\ userStatus = "active"
    /\ key' = [key EXCEPT ![k] = "checked"]
    /\ UNCHANGED <<User, Logins, Streams, admin, requests, AccessRecord>>

KeyInserts(k) ==
    /\ key[k] = "checked"
    /\ key' = [key EXCEPT ![k] = "inserted"]
    /\ UNCHANGED <<User, Logins, Streams, admin, requests, AccessRecord>>

KeyAnswered(k) ==
    /\ key[k] = "inserted"
    /\ \/ /\ userStatus = "active"
          /\ key' = [key EXCEPT ![k] = "shown"]
          /\ UNCHANGED <<failures, unrevoked>>
       \/ /\ Failure                              \* the second read fails
          /\ key' = [key EXCEPT ![k] = "shown"]
          /\ unrevoked' = unrevoked \cup {k}
       \/ /\ userStatus # "active"
          /\ key' = [key EXCEPT ![k] = "revoked"]
          /\ UNCHANGED <<failures, unrevoked>>
       \/ /\ userStatus # "active"                    \* the revoke fails
          /\ Failure
          /\ key' = [key EXCEPT ![k] = "hidden"]
          /\ UNCHANGED unrevoked
    /\ UNCHANGED <<User, Logins, Streams, admin, requests>>

(***************************************************************************)
(* DELETE /api-keys/:id.                                                   *)
(***************************************************************************)
RevokeKey(k) ==
    /\ k \in LiveKeys
    /\ key' = [key EXCEPT ![k] = "revoked"]
    /\ RevokedAlone(k)
    /\ UNCHANGED <<User, Logins, streamOf, lateStreams, admin, requests, unrevoked>>

-----------------------------------------------------------------------------
(***************************************************************************)
(* PATCH /users/:id with a status, and POST /users/:id/set-password. The   *)
(* target's row is read before the writes.                                 *)
(***************************************************************************)
AfterWrite(op) == IF op = "reactivate" THEN "done" ELSE "delete"

ReactivationOnlyWrites(a, op) ==   \* mutant: reactivation revokes nothing
    /\ admin[a].at = "idle"
    /\ requests < MaxRequests
    /\ requests' = requests + 1
    /\ admin' = [admin EXCEPT ![a] = [at |-> "write", op |-> op, keys |-> {},
                                      read |-> statusPhase]]
    /\ UNCHANGED <<User, Logins, key, Streams, AccessRecord>>

BeginRequest(a, op) ==
    /\ admin[a].at = "idle"
    /\ requests < MaxRequests
    /\ requests' = requests + 1
    /\ LET revokes == op = "reactivate" /\ userStatus # "active"
       IN  admin' = [admin EXCEPT ![a] = [at |-> IF revokes THEN "delete" ELSE "write",
                                          op |-> op, keys |-> {}, read |-> statusPhase]]
    /\ UNCHANGED <<User, Logins, key, Streams, AccessRecord>>

GoesTo(a, step) == admin' = [admin EXCEPT ![a].at = step]

NewStatus(a) == CASE admin[a].op = "reactivate" -> "active"
                  [] admin[a].op = "password" -> userStatus
                  [] OTHER -> "suspended"

StatusWritten(a) ==
    /\ userStatus' = NewStatus(a)
    /\ statusPhase' = statusPhase + (IF userStatus' = userStatus THEN 0 ELSE 1)

\* A reactivation that read the user before the suspension it overtakes.
Overtaken(a) == userStatus # "active" /\ NewStatus(a) = "active" /\ admin[a].read # statusPhase

WriteStatus(a) ==
    /\ admin[a].at = "write"
    /\ StatusWritten(a)
    /\ unrevoked' = unrevoked \cup {s \in LiveSessions : Overtaken(a)}
    /\ GoesTo(a, AfterWrite(admin[a].op))
    /\ UNCHANGED <<Logins, key, Streams, requests, failures>>

\* The request ends with an error, though the write may have taken effect.
WriteStatusFails(a) ==
    /\ admin[a].at = "write"
    /\ Failure
    /\ \/ UNCHANGED <<User, unrevoked>>
       \/ /\ StatusWritten(a)
          /\ unrevoked' = unrevoked \cup {s \in LiveSessions : Overtaken(a)} \cup
                              {k \in LiveKeys : NewStatus(a) # "active"}
    /\ GoesTo(a, "done")
    /\ UNCHANGED <<Logins, key, Streams, requests>>

(***************************************************************************)
(* revokeUserSessions: the sessions first, then the streams they opened,   *)
(* also when the delete did not answer. Reactivation does both before its  *)
(* write.                                                                  *)
(***************************************************************************)
DeleteSessions(a) ==
    /\ admin[a].at = "delete"
    /\ \/ /\ session' = [s \in Sessions |-> IF session[s] = "live" THEN "gone" ELSE session[s]]
          /\ UNCHANGED <<failures, unrevoked>>
       \/ /\ Failure
          /\ unrevoked' = unrevoked \cup (IF admin[a].op = "reactivate" THEN LiveSessions ELSE {})
          /\ UNCHANGED session
    /\ GoesTo(a, "endStreams")
    /\ UNCHANGED <<User, refusal, born, key, Streams, requests>>

AfterStreams(op) ==
    CASE op = "reactivate" -> "write"
      [] op = "suspend" -> "list"
      [] OTHER -> "done"

EndUserStreams(a) ==
    /\ admin[a].at = "endStreams"
    /\ EndsStreams(Sessions)
    /\ GoesTo(a, AfterStreams(admin[a].op))
    /\ unrevoked' = unrevoked \cup (IF admin[a].op = "suspendKeep" THEN LiveKeys ELSE {})
    /\ UNCHANGED <<User, Logins, key, ending, lateStreams, leftOpen, requests, failures>>

(***************************************************************************)
(* revokeKeysCreatedBy: the user's unrevoked keys are listed once and then *)
(* revoked one by one, each with its streams; what fails is reported and   *)
(* left, also a revocation that took effect without an answer.             *)
(***************************************************************************)
ListKeys(a) ==
    /\ admin[a].at = "list"
    /\ \/ /\ admin' = [admin EXCEPT ![a].keys = LiveKeys, ![a].at = "revoke"]
          /\ UNCHANGED <<failures, unrevoked>>
       \/ /\ Failure
          /\ unrevoked' = unrevoked \cup LiveKeys
          /\ GoesTo(a, "done")
    /\ UNCHANGED <<User, Logins, key, Streams, requests>>

RevokeListed(a, k) ==
    /\ admin[a].at = "revoke"
    /\ k \in admin[a].keys
    /\ admin' = [admin EXCEPT ![a].keys = @ \ {k}]
    /\ \/ /\ key' = [key EXCEPT ![k] = "revoked"]
          /\ RevokedAlone(k)
          /\ UNCHANGED unrevoked
       \/ /\ Failure
          /\ unrevoked' = unrevoked \cup {k}
          /\ UNCHANGED <<key, ending, leftOpen>>
    /\ UNCHANGED <<User, Logins, streamOf, lateStreams, requests>>

EndRequest(a) ==
    /\ \/ admin[a].at = "done"
       \/ admin[a].at = "revoke" /\ admin[a].keys = {}
    /\ admin' = [admin EXCEPT ![a] = NoAdminRequest]
    /\ UNCHANGED <<User, Logins, key, Streams, requests, AccessRecord>>

Revoking == \E a \in Admins : admin[a].at \in {"delete", "endStreams", "list", "revoke"}

(***************************************************************************)
(* The gateway crashes: its requests and its streams end where they are,   *)
(* and what a suspension had yet to revoke stays.                          *)
(***************************************************************************)
GatewayCrashes ==
    /\ Failure
    /\ session' = [s \in Sessions |-> IF session[s] = "checked" THEN "none" ELSE session[s]]
    /\ refusal' = [s \in Sessions |-> "none"]
    /\ key' = [k \in ApiKeys |-> CASE key[k] = "checked" -> "none"
                                   [] key[k] = "inserted" -> "hidden"
                                   [] OTHER -> key[k]]
    /\ streamOf' = [c \in Credentials |-> IF streamOf[c] = "elsewhere" THEN "elsewhere" ELSE "none"]
    /\ ending' = {}
    /\ admin' = [a \in Admins |-> NoAdminRequest]
    /\ unrevoked' = unrevoked \cup {k \in LiveKeys : Revoking}
    /\ UNCHANGED <<User, born, requests, lateStreams, leftOpen>>

Operations == {"suspend", "suspendKeep", "reactivate", "password"}

AccessNext ==
    \/ GatewayCrashes
    \/ \E s \in Sessions :
          \/ LoginChecks(s) \/ LoginInserts(s) \/ Logout(s)
          \/ RefuseInactive(s) \/ EndRefused(s) \/ DeleteRefused(s)
    \/ \E c \in Credentials :
          OpenStream(c) \/ AddClient(c) \/ CloseStream(c) \/ EndOwnStreams(c)
    \/ \E k \in ApiKeys : KeyChecks(k) \/ KeyInserts(k) \/ KeyAnswered(k) \/ RevokeKey(k)
    \/ \E a \in Admins :
          \/ \E op \in Operations : BeginRequest(a, op)
          \/ WriteStatus(a) \/ WriteStatusFails(a)
          \/ DeleteSessions(a) \/ EndUserStreams(a) \/ ListKeys(a)
          \/ \E k \in ApiKeys : RevokeListed(a, k)
          \/ EndRequest(a)

AccessSpec == AccessInit /\ [][AccessNext]_accessVars

-----------------------------------------------------------------------------
AccessTypeOK ==
    /\ userStatus \in {"active", "suspended"}
    /\ statusPhase \in Nat
    /\ session \in [Sessions -> {"none", "checked", "live", "gone"}]
    /\ refusal \in [Sessions -> {"none", "end", "delete"}]
    /\ born \in [Sessions -> Nat]
    /\ key \in [ApiKeys -> {"none", "checked", "inserted", "shown", "hidden", "revoked"}]
    /\ streamOf \in [Credentials -> {"none", "authorised"} \cup StreamHosts]
    /\ ending \subseteq Credentials
    /\ admin \in [Admins ->
                     [at : {"idle", "write", "delete", "endStreams", "list", "revoke", "done"},
                      op : Operations \cup {"none"}, keys : SUBSET ApiKeys, read : Nat]]
    /\ requests \in Nat
    /\ failures \in Nat
    /\ unrevoked \subseteq Credentials
    /\ lateStreams \subseteq Credentials
    /\ leftOpen \subseteq Credentials

\* A suspended user is left no API key whose secret was shown: the key was
\* revoked by the suspension, or by the request that minted it, whichever of
\* the two ran second. Failed calls and keepApiKeys leave keys alive.
NoShownKeyOfSuspended ==
    userStatus = "suspended" /\ ~Revoking =>
        \A k \in ApiKeys : key[k] = "shown" => k \in unrevoked

\* A session inserted before a suspension never authenticates again after the
\* reactivation, even when the suspension failed to delete it: the reactivation
\* deletes it too. Left out: a reactivation whose own delete failed, and one that
\* read the user before the suspension it overtakes: it revoked nothing, or before
\* that suspension failed to.
OldSessionsNeverReturn ==
    userStatus = "active" /\ ~Revoking =>
        \A s \in Sessions : session[s] = "live" /\ born[s] + 1 < statusPhase => s \in unrevoked

\* A stream this instance holds for a revoked session or key was added by a
\* connect the revocation overtook, or nobody was left to end it: its logout or
\* revocation took effect without an answer, or it was opened on a session that a
\* refused request of before a reactivation deleted late.
StreamEndsWithCredential ==
    ~Revoking =>
        \A c \in Credentials :
            HeldHere(c) /\ Revoked(c) => c \in lateStreams \cup leftOpen \cup ending

\* Once the requests that revoke have ended, what they revoked is gone for
\* good: the keys, the sessions and the streams opened with them.
RevokedStaysRevoked ==
    /\ NoShownKeyOfSuspended
    /\ OldSessionsNeverReturn
    /\ StreamEndsWithCredential

\* "Whatever takes a user's sessions away must take its streams too" (the
\* gateway's endUserStreams): of a deleted session this instance holds no stream
\* but one added after the deletion. A refused request deletes the session after
\* it ended the streams, and takes the one opened in between not.
StreamsGoWithSessions ==
    ~Revoking =>
        \A s \in Sessions : HeldHere(s) /\ Revoked(s) => s \in lateStreams \cup ending

=============================================================================
