--------------------------- MODULE AccountsProofs ---------------------------
(***************************************************************************)
(* Proofs about what a user may still do: sessions, API keys and event     *)
(* streams after a revocation, and the two stores of roles, for any number *)
(* of administrators and requests.                                         *)
(***************************************************************************)
EXTENDS Access, Users, TLAPS

(***************************************************************************)
(* An administrator's request that has yet to revoke the key k: one        *)
(* suspending the user that has yet to list the keys, or one that has k on *)
(* its list.                                                               *)
(***************************************************************************)
Pursues(a, k) ==
    \/ admin[a].op = "suspend" /\ admin[a].at \in {"delete", "endStreams", "list"}
    \/ admin[a].op = "suspendKeep" /\ admin[a].at \in {"delete", "endStreams"}
    \/ admin[a].at = "revoke" /\ k \in admin[a].keys

(***************************************************************************)
(* Of a suspended user, every key shown to someone is being revoked, or    *)
(* its revocation failed.                                                  *)
(***************************************************************************)
KeysPursued ==
    /\ \A a \in Admins : admin[a].at # "idle" => admin[a].op \in Operations
    /\ userStatus = "suspended" =>
          \A k \in ApiKeys :
              key[k] = "shown" /\ k \notin unrevoked => \E a \in Admins : Pursues(a, k)

(***************************************************************************)
(* A reactivation that read the status as it still is: it has deleted the  *)
(* sessions and will only write.                                           *)
(***************************************************************************)
Cleared(a) ==
    /\ admin[a].op = "reactivate" /\ admin[a].at \in {"endStreams", "write"}
    /\ admin[a].read = statusPhase

(***************************************************************************)
(* Sessions. statusPhase counts the changes of the status and born says   *)
(* in which a session began. Of an active user no session from before the  *)
(* last suspension is live; of a suspended one a reactivation under way    *)
(* has left no old session live, unless a deletion failed (unrevoked).     *)
(***************************************************************************)
SessionsPursued ==
    /\ \A s \in Sessions : born[s] <= statusPhase
    /\ \A a \in Admins : admin[a].read <= statusPhase
    /\ userStatus = "active" =>
          \A s \in Sessions : session[s] = "live" /\ born[s] + 1 < statusPhase => s \in unrevoked
    /\ userStatus = "suspended" =>
          \A a \in Admins : Cleared(a) =>
              \A s \in Sessions : session[s] = "live" /\ born[s] < statusPhase => s \in unrevoked

(***************************************************************************)
(* A stream still held for a credential that is revoked is about to be     *)
(* ended, was opened too late to be found, or was left open; and only a    *)
(* key whose secret was shown opens one.                                   *)
(***************************************************************************)
StreamsPursued ==
    /\ \A c \in Credentials :
          HeldHere(c) /\ Revoked(c) /\ c \notin lateStreams \cup leftOpen \cup ending =>
              c \in Sessions /\ \E a \in Admins : admin[a].at = "endStreams"
    /\ \A k \in ApiKeys : streamOf[k] # "none" => key[k] \in {"shown", "revoked"}

AccessInv == AccessTypeOK /\ KeysPursued /\ SessionsPursued /\ StreamsPursued

(* Nobody is logged in at first.                                           *)
LEMMA AccessInitially == AccessInit => AccessInv
<1> SUFFICES ASSUME AccessInit PROVE AccessInv
  OBVIOUS
<1> USE AccessAssumption DEF AccessInit
<1>1. AccessTypeOK
  BY DEF AccessTypeOK, NoAdminRequest
<1>2. KeysPursued
  BY DEF KeysPursued, NoAdminRequest
<1>3. StreamsPursued
  BY DEF StreamsPursued, HeldHere, Credentials
<1>4. SessionsPursued
  <2>1. statusPhase = 0 /\ (\A s \in Sessions : born[s] = 0 /\ session[s] = "none")
        /\ (\A a \in Admins : admin[a].read = 0) /\ userStatus = "active"
    BY DEF NoAdminRequest
  <2> QED
    BY ONLY <2>1 DEF SessionsPursued
<1> QED
  BY <1>1, <1>2, <1>3, <1>4 DEF AccessInv

(* Types, step by step.                                                    *)
LEMMA AccessTypes == AccessTypeOK /\ [AccessNext]_accessVars => AccessTypeOK'
<1> SUFFICES ASSUME AccessTypeOK, [AccessNext]_accessVars PROVE AccessTypeOK'
  OBVIOUS
<1> USE AccessAssumption
    DEF AccessTypeOK, Credentials, StreamHosts, User, Logins, Streams, AccessRecord
<1>1. ASSUME NEW s \in Sessions, LoginChecks(s) \/ LoginInserts(s) PROVE AccessTypeOK'
  BY <1>1 DEF LoginChecks, LoginInserts
<1>2. ASSUME NEW s \in Sessions, Logout(s) PROVE AccessTypeOK'
  <2>1. leftOpen' \subseteq Credentials /\ ending' \subseteq Credentials /\ failures' \in Nat
    BY <1>2 DEF Logout, RevokedAlone, Failure
  <2> QED
    BY <1>2, <2>1 DEF Logout
<1>3. ASSUME NEW s \in Sessions, RefuseInactive(s) \/ EndRefused(s) PROVE AccessTypeOK'
  BY <1>3 DEF RefuseInactive, EndRefused, RefusalIs, EndsStreams
<1>4. ASSUME NEW s \in Sessions, DeleteRefused(s) PROVE AccessTypeOK'
  <2>1. leftOpen' \subseteq Credentials
    BY <1>4 DEF DeleteRefused
  <2>2. failures' \in Nat
    BY <1>4 DEF DeleteRefused, Failure
  <2>3. session' \in [Sessions -> {"none", "checked", "live", "gone"}]
    BY <1>4 DEF DeleteRefused
  <2> QED
    BY <1>4, <2>1, <2>2, <2>3 DEF DeleteRefused, RefusalIs
<1>5. ASSUME NEW c \in Credentials,
             OpenStream(c) \/ AddClient(c) \/ CloseStream(c) \/ EndOwnStreams(c)
      PROVE AccessTypeOK'
  BY <1>5 DEF OpenStream, AddClient, CloseStream, EndOwnStreams, EndsStreams
<1>6. ASSUME NEW k \in ApiKeys, KeyChecks(k) \/ KeyInserts(k) PROVE AccessTypeOK'
  BY <1>6 DEF KeyChecks, KeyInserts
<1>7. ASSUME NEW k \in ApiKeys, KeyAnswered(k) PROVE AccessTypeOK'
  <2>1. key' \in [ApiKeys -> {"none", "checked", "inserted", "shown", "hidden", "revoked"}]
    BY <1>7 DEF KeyAnswered
  <2>2. failures' \in Nat
    BY <1>7 DEF KeyAnswered, Failure
  <2>3. unrevoked' \subseteq Credentials
    BY <1>7 DEF KeyAnswered
  <2> QED
    BY <1>7, <2>1, <2>2, <2>3 DEF KeyAnswered
<1>8. ASSUME NEW k \in ApiKeys, RevokeKey(k) PROVE AccessTypeOK'
  <2>1. leftOpen' \subseteq Credentials /\ ending' \subseteq Credentials /\ failures' \in Nat
    BY <1>8 DEF RevokeKey, RevokedAlone, Failure
  <2> QED
    BY <1>8, <2>1 DEF RevokeKey
<1>9. ASSUME NEW a \in Admins, NEW op \in Operations, BeginRequest(a, op) PROVE AccessTypeOK'
  BY <1>9 DEF BeginRequest
<1>10. ASSUME NEW a \in Admins, WriteStatus(a) \/ WriteStatusFails(a) PROVE AccessTypeOK'
  <2>1. admin' \in [Admins -> [at : {"idle", "write", "delete", "endStreams", "list", "revoke", "done"},
                      op : Operations \cup {"none"}, keys : SUBSET ApiKeys, read : Nat]]
    BY <1>10 DEF WriteStatus, WriteStatusFails, GoesTo, AfterWrite
  <2>2. unrevoked' \subseteq Credentials
    BY <1>10 DEF WriteStatus, WriteStatusFails, LiveSessions, LiveKeys
  <2>3. statusPhase' \in Nat
    BY <1>10 DEF WriteStatus, WriteStatusFails, StatusWritten
  <2>4. userStatus' \in {"active", "suspended"}
    BY <1>10 DEF WriteStatus, WriteStatusFails, StatusWritten, NewStatus
  <2>5. failures' \in Nat
    BY <1>10 DEF WriteStatus, WriteStatusFails, Failure
  <2>6. UNCHANGED <<Logins, key, Streams, requests>>
    BY <1>10 DEF WriteStatus, WriteStatusFails
  <2> QED
    BY <2>1, <2>2, <2>3, <2>4, <2>5, <2>6
<1>11. ASSUME NEW a \in Admins, DeleteSessions(a) PROVE AccessTypeOK'
  <2>1. session' \in [Sessions -> {"none", "checked", "live", "gone"}]
    BY <1>11 DEF DeleteSessions
  <2>2. failures' \in Nat
    BY <1>11 DEF DeleteSessions, Failure
  <2>3. unrevoked' \subseteq Credentials
    BY <1>11 DEF DeleteSessions, LiveSessions
  <2> QED
    BY <1>11, <2>1, <2>2, <2>3 DEF DeleteSessions, GoesTo
<1>12. ASSUME NEW a \in Admins, EndUserStreams(a) PROVE AccessTypeOK'
  <2>1. unrevoked' \subseteq Credentials
    BY <1>12 DEF EndUserStreams, LiveKeys
  <2>2. streamOf' \in [Credentials -> {"none", "authorised"} \cup StreamHosts]
    BY <1>12 DEF EndUserStreams, EndsStreams
  <2>3. admin' \in [Admins -> [at : {"idle", "write", "delete", "endStreams", "list", "revoke", "done"},
                      op : Operations \cup {"none"}, keys : SUBSET ApiKeys, read : Nat]]
    BY <1>12 DEF EndUserStreams, GoesTo, AfterStreams
  <2> QED
    BY <1>12, <2>1, <2>2, <2>3 DEF EndUserStreams
<1>13. ASSUME NEW a \in Admins, ListKeys(a) PROVE AccessTypeOK'
  <2>1. unrevoked' \subseteq Credentials
    BY <1>13 DEF ListKeys, LiveKeys
  <2>2. failures' \in Nat
    BY <1>13 DEF ListKeys, Failure
  <2>3. admin' \in [Admins -> [at : {"idle", "write", "delete", "endStreams", "list", "revoke", "done"},
                      op : Operations \cup {"none"}, keys : SUBSET ApiKeys, read : Nat]]
    BY <1>13 DEF ListKeys, LiveKeys, GoesTo
  <2> QED
    BY <1>13, <2>1, <2>2, <2>3 DEF ListKeys
<1>14. ASSUME NEW a \in Admins, NEW k \in ApiKeys, RevokeListed(a, k) PROVE AccessTypeOK'
  <2>1. unrevoked' \subseteq Credentials
    BY <1>14 DEF RevokeListed
  <2>2. failures' \in Nat
    BY <1>14 DEF RevokeListed, RevokedAlone, Failure
  <2>3. admin' \in [Admins -> [at : {"idle", "write", "delete", "endStreams", "list", "revoke", "done"},
                      op : Operations \cup {"none"}, keys : SUBSET ApiKeys, read : Nat]]
    BY <1>14 DEF RevokeListed
  <2>4. key' \in [ApiKeys -> {"none", "checked", "inserted", "shown", "hidden", "revoked"}]
    BY <1>14 DEF RevokeListed
  <2>5. leftOpen' \subseteq Credentials /\ ending' \subseteq Credentials
    BY <1>14 DEF RevokeListed, RevokedAlone
  <2> QED
    BY <1>14, <2>1, <2>2, <2>3, <2>4, <2>5 DEF RevokeListed
<1>15. ASSUME NEW a \in Admins, EndRequest(a) PROVE AccessTypeOK'
  BY <1>15 DEF EndRequest, NoAdminRequest
<1>16. ASSUME GatewayCrashes PROVE AccessTypeOK'
  <2>1. unrevoked' \subseteq Credentials /\ failures' \in Nat
    BY <1>16 DEF GatewayCrashes, LiveKeys, Failure
  <2>2. /\ session' \in [Sessions -> {"none", "checked", "live", "gone"}]
        /\ key' \in [ApiKeys -> {"none", "checked", "inserted", "shown", "hidden", "revoked"}]
    BY <1>16 DEF GatewayCrashes
  <2>3. admin' \in [Admins -> [at : {"idle", "write", "delete", "endStreams", "list", "revoke", "done"},
                      op : Operations \cup {"none"}, keys : SUBSET ApiKeys, read : Nat]]
    BY <1>16 DEF GatewayCrashes, NoAdminRequest
  <2> QED
    BY <1>16, <2>1, <2>2, <2>3 DEF GatewayCrashes
<1>17. CASE UNCHANGED accessVars
  BY <1>17 DEF accessVars
<1> QED
  BY <1>1, <1>2, <1>3, <1>4, <1>5, <1>6, <1>7, <1>8, <1>9, <1>10, <1>11, <1>12, <1>13, <1>14,
     <1>15, <1>16, <1>17 DEF AccessNext

(* Keys: the steps of a suspension, and a key minted meanwhile, which its  *)
(* own request revokes.                                                    *)
LEMMA KeysStep ==
  ASSUME AccessTypeOK, KeysPursued, [AccessNext]_accessVars
  PROVE  KeysPursued'
<1> USE AccessAssumption DEF AccessTypeOK, User, AccessRecord
<1>1. CASE UNCHANGED <<userStatus, key, admin, unrevoked>>
  BY <1>1 DEF KeysPursued, Pursues
<1>2. ASSUME NEW k \in ApiKeys, KeyChecks(k) \/ KeyInserts(k) \/ RevokeKey(k) PROVE KeysPursued'
  BY <1>2 DEF KeyChecks, KeyInserts, RevokeKey, KeysPursued, Pursues
<1>3. ASSUME NEW k \in ApiKeys, KeyAnswered(k) PROVE KeysPursued'
  BY <1>3 DEF KeyAnswered, KeysPursued, Pursues
<1>4. ASSUME NEW a \in Admins, NEW op \in Operations, BeginRequest(a, op) PROVE KeysPursued'
  BY <1>4 DEF BeginRequest, KeysPursued, Pursues
<1>5. ASSUME NEW a \in Admins, WriteStatus(a) PROVE KeysPursued'
  <2>1. /\ admin[a].op \in Operations /\ admin[a].at = "write"
        /\ admin' = [admin EXCEPT ![a].at = AfterWrite(admin[a].op)]
        /\ unrevoked \subseteq unrevoked' /\ key' = key
    BY <1>5 DEF WriteStatus, GoesTo, KeysPursued
  <2>2. \A b \in Admins, k \in ApiKeys : Pursues(b, k) => Pursues(b, k)'
    BY <2>1 DEF Pursues
  <2>3. CASE admin[a].op \in {"suspend", "suspendKeep"}
    BY <2>1, <2>3 DEF AfterWrite, KeysPursued, Pursues
  <2>4. CASE admin[a].op = "reactivate"
    BY <1>5, <2>1, <2>4 DEF WriteStatus, StatusWritten, NewStatus, KeysPursued
  <2>5. CASE admin[a].op = "password"
    BY <1>5, <2>1, <2>2, <2>5 DEF WriteStatus, StatusWritten, NewStatus, KeysPursued
  <2> QED
    BY <2>1, <2>3, <2>4, <2>5 DEF Operations
<1>6. ASSUME NEW a \in Admins, WriteStatusFails(a) PROVE KeysPursued'
  <2>1. /\ admin[a].op \in Operations /\ admin[a].at = "write"
        /\ admin' = [admin EXCEPT ![a].at = "done"]
        /\ unrevoked \subseteq unrevoked' /\ key' = key
    BY <1>6 DEF WriteStatusFails, GoesTo, KeysPursued
  <2>2. \A b \in Admins, k \in ApiKeys : Pursues(b, k) => Pursues(b, k)'
    BY <2>1 DEF Pursues
  <2>3. CASE UNCHANGED userStatus
    BY <2>1, <2>2, <2>3 DEF KeysPursued
  <2>4. CASE userStatus' = NewStatus(a) /\ {k \in LiveKeys : NewStatus(a) # "active"} \subseteq unrevoked'
    BY <2>1, <2>4 DEF LiveKeys, KeysPursued
  <2> QED
    BY <1>6, <2>3, <2>4 DEF WriteStatusFails, StatusWritten
<1>7. ASSUME NEW a \in Admins, DeleteSessions(a) PROVE KeysPursued'
  BY <1>7 DEF DeleteSessions, GoesTo, KeysPursued, Pursues
<1>8. ASSUME NEW a \in Admins, EndUserStreams(a) PROVE KeysPursued'
  BY <1>8 DEF EndUserStreams, GoesTo, AfterStreams, LiveKeys, KeysPursued, Pursues
<1>9. ASSUME NEW a \in Admins, ListKeys(a) PROVE KeysPursued'
  BY <1>9 DEF ListKeys, GoesTo, LiveKeys, KeysPursued, Pursues
<1>10. ASSUME NEW a \in Admins, NEW k \in ApiKeys, RevokeListed(a, k) PROVE KeysPursued'
  BY <1>10 DEF RevokeListed, KeysPursued, Pursues
<1>11. ASSUME NEW a \in Admins, EndRequest(a) PROVE KeysPursued'
  BY <1>11 DEF EndRequest, NoAdminRequest, KeysPursued, Pursues
<1>12. ASSUME GatewayCrashes PROVE KeysPursued'
  <2>1. /\ userStatus' = userStatus
        /\ admin' = [a \in Admins |-> NoAdminRequest]
        /\ \A k \in ApiKeys : key'[k] = "shown" => key[k] = "shown"
        /\ unrevoked' = unrevoked \cup {k \in LiveKeys : Revoking}
    BY <1>12 DEF GatewayCrashes
  <2>2. \A k \in ApiKeys : (\E a \in Admins : Pursues(a, k)) => Revoking
    BY DEF Pursues, Revoking
  <2> QED
    BY <2>1, <2>2 DEF KeysPursued, LiveKeys, NoAdminRequest
<1> QED
  BY <1>1, <1>2, <1>3, <1>4, <1>5, <1>6, <1>7, <1>8, <1>9, <1>10, <1>11, <1>12
     DEF AccessNext, accessVars, LoginChecks, LoginInserts, Logout, RefuseInactive, EndRefused,
         DeleteRefused, OpenStream, AddClient, CloseStream, EndOwnStreams

(* Sessions: logins, the deletions of a suspension and of a reactivation,  *)
(* and the write of the status between them.                               *)
LEMMA SessionsStep ==
  ASSUME AccessTypeOK, SessionsPursued, [AccessNext]_accessVars
  PROVE  SessionsPursued'
<1> USE AccessAssumption DEF AccessTypeOK, User, Logins, AccessRecord
<1>1. CASE UNCHANGED <<userStatus, statusPhase, session, born, admin>> /\ unrevoked \subseteq unrevoked'
  BY <1>1 DEF SessionsPursued, Cleared
<1>2. ASSUME NEW s \in Sessions, LoginChecks(s) \/ LoginInserts(s) PROVE SessionsPursued'
  BY <1>2 DEF LoginChecks, LoginInserts, SessionsPursued, Cleared
<1>3. ASSUME NEW s \in Sessions, Logout(s) \/ DeleteRefused(s) PROVE SessionsPursued'
  <2>1. /\ UNCHANGED <<userStatus, statusPhase, born, admin, unrevoked>>
        /\ \A t \in Sessions : session'[t] = "live" => session[t] = "live"
    BY <1>3 DEF Logout, DeleteRefused
  <2> QED
    BY <2>1 DEF SessionsPursued, Cleared
<1>4. ASSUME NEW a \in Admins, NEW op \in Operations, BeginRequest(a, op) PROVE SessionsPursued'
  BY <1>4 DEF BeginRequest, SessionsPursued, Cleared
<1>5. ASSUME NEW a \in Admins, WriteStatus(a) PROVE SessionsPursued'
  BY <1>5 DEF WriteStatus, StatusWritten, NewStatus, Overtaken, GoesTo, AfterWrite, LiveSessions,
              SessionsPursued, Cleared, Operations
<1>6. ASSUME NEW a \in Admins, WriteStatusFails(a) PROVE SessionsPursued'
  <2>1. /\ admin[a].at = "write"
        /\ admin' = [admin EXCEPT ![a].at = "done"]
        /\ UNCHANGED <<session, born>>
    BY <1>6 DEF WriteStatusFails, GoesTo
  <2>2. CASE UNCHANGED <<userStatus, statusPhase, unrevoked>>
    BY <2>1, <2>2 DEF SessionsPursued, Cleared
  <2>3. CASE StatusWritten(a) /\ unrevoked \cup {s \in LiveSessions : Overtaken(a)} \subseteq unrevoked'
    BY <2>1, <2>3 DEF StatusWritten, NewStatus, Overtaken, LiveSessions, SessionsPursued, Cleared,
                      Operations
  <2> QED
    BY <1>6, <2>2, <2>3 DEF WriteStatusFails
<1>7. ASSUME NEW a \in Admins, DeleteSessions(a) PROVE SessionsPursued'
  BY <1>7 DEF DeleteSessions, GoesTo, LiveSessions, SessionsPursued, Cleared
<1>8. ASSUME NEW a \in Admins, EndUserStreams(a) PROVE SessionsPursued'
  BY <1>8 DEF EndUserStreams, GoesTo, AfterStreams, SessionsPursued, Cleared
<1>9. ASSUME NEW a \in Admins, ListKeys(a) PROVE SessionsPursued'
  BY <1>9 DEF ListKeys, GoesTo, SessionsPursued, Cleared
<1>10. ASSUME NEW a \in Admins, NEW k \in ApiKeys, RevokeListed(a, k) PROVE SessionsPursued'
  BY <1>10 DEF RevokeListed, SessionsPursued, Cleared
<1>11. ASSUME NEW a \in Admins, EndRequest(a) PROVE SessionsPursued'
  BY <1>11 DEF EndRequest, NoAdminRequest, SessionsPursued, Cleared
<1>12. ASSUME GatewayCrashes PROVE SessionsPursued'
  <2>1. /\ UNCHANGED <<userStatus, statusPhase, born>>
        /\ unrevoked \subseteq unrevoked'
        /\ admin' = [a \in Admins |-> NoAdminRequest]
        /\ \A t \in Sessions : session'[t] = "live" => session[t] = "live"
    BY <1>12 DEF GatewayCrashes
  <2> QED
    BY <2>1 DEF SessionsPursued, Cleared, NoAdminRequest
<1> QED
  BY <1>1, <1>2, <1>3, <1>4, <1>5, <1>6, <1>7, <1>8, <1>9, <1>10, <1>11, <1>12
     DEF AccessNext, accessVars, KeyChecks, KeyInserts, KeyAnswered, RevokeKey, RefuseInactive,
         EndRefused, OpenStream, AddClient, CloseStream, EndOwnStreams

(* Streams: each deletion of sessions is followed by the end of the user's *)
(* streams, and a credential revoked on its own by the end of its own.     *)
LEMMA StreamsStep ==
  ASSUME AccessTypeOK, StreamsPursued, [AccessNext]_accessVars
  PROVE  StreamsPursued'
<1> USE AccessAssumption
    DEF AccessTypeOK, HeldHere, Credentials, StreamHosts, User, Logins, Streams, AccessRecord
<1>1. CASE UNCHANGED <<session, key, Streams, admin>>
  BY <1>1 DEF StreamsPursued, Revoked
<1>2. ASSUME NEW s \in Sessions, LoginChecks(s) \/ LoginInserts(s) PROVE StreamsPursued'
  BY <1>2 DEF LoginChecks, LoginInserts, StreamsPursued, Revoked
<1>3. ASSUME NEW c \in Credentials,
             /\ c \in Sessions => UNCHANGED key /\ session' = [session EXCEPT ![c] = "gone"]
             /\ c \in ApiKeys => UNCHANGED session /\ key' = [key EXCEPT ![c] = "revoked"],
             RevokedAlone(c),
             UNCHANGED <<streamOf, lateStreams>>,
             \A b \in Admins : admin[b].at = "endStreams" => admin'[b].at = "endStreams"
      PROVE  StreamsPursued'
  <2>1. \A d \in Credentials : d # c => (Revoked(d)' <=> Revoked(d))
    BY <1>3 DEF Revoked
  <2>2. /\ c \in ending' \/ c \in leftOpen' \/ ~HeldHere(c)
        /\ ending \subseteq ending' /\ leftOpen \subseteq leftOpen'
    BY <1>3 DEF RevokedAlone
  <2> QED
    BY <1>3, <2>1, <2>2 DEF StreamsPursued
<1>4. ASSUME NEW s \in Sessions, Logout(s) PROVE StreamsPursued'
  BY <1>3, <1>4 DEF Logout
<1>5. ASSUME NEW k \in ApiKeys, RevokeKey(k) PROVE StreamsPursued'
  BY <1>3, <1>5 DEF RevokeKey
<1>6. ASSUME NEW a \in Admins, NEW k \in ApiKeys, RevokeListed(a, k) PROVE StreamsPursued'
  <2>1. /\ admin[a].at = "revoke" /\ admin' = [admin EXCEPT ![a].keys = @ \ {k}]
        /\ UNCHANGED <<session, streamOf, lateStreams>>
    BY <1>6 DEF RevokeListed
  <2>2. CASE key' = [key EXCEPT ![k] = "revoked"] /\ RevokedAlone(k)
    BY <1>3, <2>1, <2>2
  <2>3. CASE UNCHANGED <<key, ending, leftOpen>>
    BY <2>1, <2>3 DEF StreamsPursued, Revoked
  <2> QED
    BY <1>6, <2>2, <2>3 DEF RevokeListed
<1>7. ASSUME NEW s \in Sessions, DeleteRefused(s) PROVE StreamsPursued'
  <2>1. /\ UNCHANGED <<key, streamOf, ending, lateStreams, admin>>
        /\ \/ /\ session' = [session EXCEPT ![s] = "gone"]
              /\ leftOpen' = leftOpen \cup {d \in {s} : HeldHere(d)}
           \/ UNCHANGED <<session, leftOpen>>
    BY <1>7 DEF DeleteRefused
  <2> QED
    BY <2>1 DEF StreamsPursued, Revoked
<1>8. ASSUME NEW c \in Credentials, OpenStream(c) \/ CloseStream(c)
      PROVE StreamsPursued'
  BY <1>8 DEF OpenStream, CloseStream, Accepted, StreamsPursued, Revoked
<1>9. ASSUME NEW c \in Credentials, AddClient(c) PROVE StreamsPursued'
  <2>1. /\ UNCHANGED <<session, key, ending, admin>>
        /\ streamOf[c] = "authorised"
        /\ \A d \in Credentials : d # c => streamOf'[d] = streamOf[d]
        /\ leftOpen' = leftOpen \ {c}
        /\ lateStreams \ {c} \subseteq lateStreams'
        /\ ~Accepted(c) => c \in lateStreams'
    BY <1>9 DEF AddClient
  <2>2. Revoked(c) => ~Accepted(c)
    BY DEF Revoked, Accepted
  <2>3. \A d \in Credentials : Revoked(d)' <=> Revoked(d)
    BY <2>1 DEF Revoked
  <2> QED
    BY <2>1, <2>2, <2>3 DEF StreamsPursued
<1>10. ASSUME NEW c \in Credentials, EndOwnStreams(c) PROVE StreamsPursued'
  BY <1>10 DEF EndOwnStreams, EndsStreams, StreamsPursued, Revoked
<1>11. ASSUME NEW s \in Sessions, EndRefused(s) PROVE StreamsPursued'
  BY <1>11 DEF EndRefused, EndsStreams, StreamsPursued, Revoked
<1>12. ASSUME NEW k \in ApiKeys, KeyChecks(k) \/ KeyInserts(k) \/ KeyAnswered(k) PROVE StreamsPursued'
  <2>1. /\ UNCHANGED <<session, streamOf, ending, lateStreams, leftOpen, admin>>
        /\ key[k] \notin {"shown", "revoked"}
        /\ \A j \in ApiKeys : j # k => key'[j] = key[j]
    BY <1>12 DEF KeyChecks, KeyInserts, KeyAnswered
  <2>2. streamOf[k] = "none"
    BY <2>1 DEF StreamsPursued
  <2> QED
    BY <2>1, <2>2 DEF StreamsPursued, Revoked
<1>13. ASSUME NEW a \in Admins, NEW op \in Operations, BeginRequest(a, op) PROVE StreamsPursued'
  BY <1>13 DEF BeginRequest, StreamsPursued, Revoked
<1>14. ASSUME NEW a \in Admins, WriteStatus(a) \/ WriteStatusFails(a) \/ ListKeys(a)
       PROVE StreamsPursued'
  <2>1. /\ UNCHANGED <<session, key, streamOf, ending, lateStreams, leftOpen>>
        /\ admin[a].at # "endStreams"
        /\ \A b \in Admins : b # a => admin'[b] = admin[b]
    BY <1>14 DEF WriteStatus, WriteStatusFails, ListKeys, GoesTo
  <2> QED
    BY <2>1 DEF StreamsPursued, Revoked
<1>15. ASSUME NEW a \in Admins, DeleteSessions(a) PROVE StreamsPursued'
  BY <1>15 DEF DeleteSessions, GoesTo, StreamsPursued, Revoked
<1>16. ASSUME NEW a \in Admins, EndUserStreams(a) PROVE StreamsPursued'
  BY <1>16 DEF EndUserStreams, EndsStreams, StreamsPursued, Revoked
<1>17. ASSUME NEW a \in Admins, EndRequest(a) PROVE StreamsPursued'
  BY <1>17 DEF EndRequest, NoAdminRequest, StreamsPursued, Revoked
<1>18. ASSUME GatewayCrashes PROVE StreamsPursued'
  <2>1. /\ streamOf' = [c \in Credentials |-> IF streamOf[c] = "elsewhere" THEN "elsewhere" ELSE "none"]
        /\ \A k \in ApiKeys : key[k] \in {"shown", "revoked"} => key'[k] = key[k]
    BY <1>18 DEF GatewayCrashes
  <2> QED
    BY <2>1 DEF StreamsPursued
<1> QED
  BY <1>1, <1>2, <1>4, <1>5, <1>6, <1>7, <1>8, <1>9, <1>10, <1>11, <1>12, <1>13, <1>14, <1>15,
     <1>16, <1>17, <1>18 DEF AccessNext, accessVars, RefuseInactive

(* What a suspension, a reset or a logout revoked stays revoked, for any   *)
(* number of administrators, sessions and keys: no login, mint or          *)
(* connection that races it survives, but for the failures, the late       *)
(* streams and those left open that are recorded (users routes, SseHub).   *)
THEOREM RevocationStands == AccessSpec => []RevokedStaysRevoked
<1>1. AccessInv /\ [AccessNext]_accessVars => AccessInv'
  BY AccessTypes, KeysStep, SessionsStep, StreamsStep DEF AccessInv
<1>2. AccessInv => RevokedStaysRevoked
  <2> SUFFICES ASSUME AccessInv PROVE RevokedStaysRevoked
    OBVIOUS
  <2>1. NoShownKeyOfSuspended
    BY DEF AccessInv, NoShownKeyOfSuspended, KeysPursued, Pursues, Revoking
  <2>2. OldSessionsNeverReturn
    BY DEF AccessInv, OldSessionsNeverReturn, SessionsPursued
  <2>3. StreamEndsWithCredential
    BY DEF AccessInv, StreamEndsWithCredential, StreamsPursued, Revoking
  <2> QED
    BY <2>1, <2>2, <2>3 DEF RevokedStaysRevoked
<1> QED
  BY <1>1, <1>2, AccessInitially, PTL DEF AccessSpec

-----------------------------------------------------------------------------
(***************************************************************************)
(* Roles, the rows of role_bindings a replacement inserts (its number      *)
(* tells its rows from another's), and the steps of a patch.               *)
(***************************************************************************)
Roles == {"owner", "admin", "agent"}
Rows == Roles \X Nat
PatchSteps == {"recheck", "status", "roles", "commit"}

(***************************************************************************)
(* A request and where it stands.                                          *)
(***************************************************************************)
Requests ==
    [at : {"idle", "create", "insert"} \cup PatchSteps, n : Nat, user : Accounts \cup {"none"},
     roles : SUBSET Roles, status : {"same", "active", "suspended"}, seen : SUBSET Rows]

(***************************************************************************)
(* Types of the two stores and of the users' status.                       *)
(***************************************************************************)
StoresTypeOK ==
    /\ accountStatus = [u \in Accounts |-> accountStatus[u]]
    /\ bindings \in [Accounts -> SUBSET Rows]
    /\ column \in [Accounts -> SUBSET Roles]

(***************************************************************************)
(* Types; a request that is idle is no request.                            *)
(***************************************************************************)
UsersTypeOK ==
    /\ StoresTypeOK
    /\ change \in [Accounts -> Requests]
    /\ \A c \in Accounts : change[c].at = "idle" => change[c] = NoChange
    /\ changes \in Nat

(***************************************************************************)
(* The request c patches the user u, and replaces the roles of u.          *)
(***************************************************************************)
Patches(c, u) == change[c].at \in PatchSteps /\ change[c].user = u
Replaces(c, u) == Patches(c, u) /\ change[c].roles # {}

(***************************************************************************)
(* A patch under way concerns a user there is and has something to write.  *)
(***************************************************************************)
PatchesApply ==
    \A c \in Accounts :
        /\ change[c].at # "idle" => change[c].user \in Accounts
        /\ change[c].at \in PatchSteps => accountStatus[change[c].user] # "absent"
        /\ change[c].at \in {"roles", "commit"} => change[c].roles # {}
        /\ change[c].at = "recheck" /\ change[c].roles = {} => change[c].status # "same"

(***************************************************************************)
(* Of a user whose replacements never overlapped (crossed), the two stores *)
(* agree, at most one replacement is under way, and the one about to       *)
(* commit deletes the bindings there are.                                  *)
(***************************************************************************)
ReplacementsApart ==
    \A u \in Accounts : u \notin crossed =>
        /\ RolesOf(u) = column[u]
        /\ \A c, d \in Accounts : Replaces(c, u) /\ Replaces(d, u) => c = d
        /\ \A c \in Accounts : Replaces(c, u) /\ change[c].at = "commit" => change[c].seen = bindings[u]

UsersInv == UsersTypeOK /\ PatchesApply /\ ReplacementsApart

(* The roles of the rows one replacement inserts.                          *)
LEMMA ProjectRows ==
  ASSUME NEW R, NEW n
  PROVE  {row[1] : row \in R \X {n}} = R
<1>1. \A r \in R : <<r, n>> \in R \X {n} /\ <<r, n>>[1] = r
  OBVIOUS
<1>2. \A row \in R \X {n} : row[1] \in R
  OBVIOUS
<1> QED
  BY <1>1, <1>2

(* The founders' stores agree and no request is under way.                 *)
LEMMA UsersInitially == UsersInit => UsersInv
<1> SUFFICES ASSUME UsersInit PROVE UsersInv
  OBVIOUS
<1> USE UsersAssumption
<1>1. PICK roles \in [Founders -> {{"owner"}, {"admin"}}] :
          /\ bindings = [u \in Accounts |-> IF u \in Founders THEN roles[u] \X {0} ELSE {}]
          /\ column = [u \in Accounts |-> IF u \in Founders THEN roles[u] ELSE {}]
  BY DEF UsersInit
<1>2. \A u \in Founders : roles[u] \subseteq Roles
  BY DEF Roles
<1>3. bindings \in [Accounts -> SUBSET Rows]
  <2>1. \A u \in Founders : roles[u] \X {0} \subseteq Rows
    BY <1>2 DEF Rows
  <2> QED
    BY <1>1, <2>1
<1>4. column \in [Accounts -> SUBSET Roles]
  BY <1>1, <1>2
<1>5. \A c \in Accounts : change[c] = NoChange
  BY DEF UsersInit
<1>6. change \in [Accounts -> Requests]
  BY DEF UsersInit, NoChange, Requests
<1>7. UsersTypeOK
  BY <1>3, <1>4, <1>5, <1>6 DEF UsersInit, UsersTypeOK, StoresTypeOK
<1>8. \A u \in Accounts : RolesOf(u) = column[u]
  <2> SUFFICES ASSUME NEW u \in Accounts PROVE {row[1] : row \in bindings[u]} = column[u]
    BY DEF RolesOf
  <2>1. CASE u \in Founders
    <3>1. {row[1] : row \in roles[u] \X {0}} = roles[u]
      BY ProjectRows
    <3> QED
      BY <1>1, <2>1, <3>1
  <2>2. CASE u \notin Founders
    BY <1>1, <2>2
  <2> QED
    BY <2>1, <2>2
<1>9. PatchesApply
  BY <1>5 DEF PatchesApply, NoChange, PatchSteps
<1>10. ReplacementsApart
  BY <1>5, <1>8 DEF ReplacementsApart, Replaces, Patches, NoChange, PatchSteps
<1> QED
  BY <1>7, <1>9, <1>10 DEF UsersInv

(* A request that begins or is replaced by another record.                 *)
LEMMA RequestChanges ==
  ASSUME UsersTypeOK, StoresTypeOK', changes' \in Nat, NEW c \in Accounts, NEW request \in Requests,
         request.at = "idle" => request = NoChange, change' = [change EXCEPT ![c] = request]
  PROVE  /\ UsersTypeOK'
         /\ change'[c] = request
         /\ \A d \in Accounts \ {c} : change'[d] = change[d]
  BY DEF UsersTypeOK

(* A request that ends.                                                    *)
LEMMA RequestEnds ==
  ASSUME UsersTypeOK, StoresTypeOK', changes' \in Nat, NEW c \in Accounts,
         change' = [change EXCEPT ![c] = NoChange]
  PROVE  /\ UsersTypeOK'
         /\ change'[c].at = "idle"
         /\ \A d \in Accounts \ {c} : change'[d] = change[d]
<1>1. NoChange \in Requests /\ NoChange.at = "idle"
  BY DEF NoChange, Requests
<1> QED
  BY <1>1, RequestChanges

(* A request that goes on with another step keeps what it asks for.        *)
LEMMA RequestGoesOn ==
  ASSUME UsersTypeOK, StoresTypeOK', changes' \in Nat, NEW c \in Accounts,
         NEW at \in {"insert"} \cup PatchSteps, change' = [change EXCEPT ![c].at = at]
  PROVE  /\ UsersTypeOK'
         /\ change'[c].at = at /\ change'[c].user = change[c].user
         /\ change'[c].roles = change[c].roles /\ change'[c].status = change[c].status
         /\ change'[c].seen = change[c].seen
         /\ \A d \in Accounts \ {c} : change'[d] = change[d]
  BY DEF UsersTypeOK, Requests, PatchSteps

(* Steps that touch neither store and begin no replacement disturb         *)
(* nothing.                                                                *)
LEMMA RequestsAside ==
  ASSUME UsersInv, NEW c \in Accounts, UNCHANGED <<accountStatus, bindings, column, crossed>>,
         \A d \in Accounts \ {c} : change'[d] = change[d],
         \/ change'[c].at \notin PatchSteps /\ (change'[c].at = "idle" \/ change'[c].user \in Accounts)
         \/ /\ change[c].at \in PatchSteps
            /\ change'[c].at \in PatchSteps \ {"commit", "recheck"}
            /\ change'[c].user = change[c].user /\ change'[c].roles = change[c].roles
            /\ change'[c].at = "roles" => change'[c].roles # {}
  PROVE  PatchesApply' /\ ReplacementsApart'
<1>1. PatchesApply'
  BY DEF UsersInv, PatchesApply, PatchSteps
<1>2. \A u \in Accounts : RolesOf(u)' = RolesOf(u)
  BY DEF RolesOf
<1>3. \A d, u \in Accounts : Replaces(d, u)' => Replaces(d, u)
  BY DEF Replaces, Patches
<1>4. \A d, u \in Accounts : Replaces(d, u)' /\ change'[d].at = "commit" => change'[d] = change[d]
  BY DEF Replaces, Patches, PatchSteps
<1>5. ReplacementsApart'
  BY <1>2, <1>3, <1>4 DEF UsersInv, ReplacementsApart
<1> QED
  BY <1>1, <1>5

(* One case per step of a request. A replacement that begins beside        *)
(* another marks its user crossed; the one that commits writes both        *)
(* stores.                                                                 *)
LEMMA UsersStep == UsersInv /\ [UsersNext]_usersVars => UsersInv'
<1> SUFFICES ASSUME UsersInv, [UsersNext]_usersVars PROVE UsersInv'
  OBVIOUS
<1> USE UsersAssumption
<1>a. UsersTypeOK /\ PatchesApply /\ ReplacementsApart
  BY DEF UsersInv
<1>b. UNCHANGED <<accountStatus, bindings, column>> => StoresTypeOK'
  BY <1>a DEF UsersTypeOK, StoresTypeOK
<1>1. ASSUME NEW c \in Accounts, NEW u \in Accounts, NEW roles \in RoleSets, BeginCreateUser(c, u, roles)
      PROVE  UsersInv'
  <2> DEFINE request == [at |-> "create", n |-> changes', user |-> u, roles |-> roles,
                         status |-> "active", seen |-> {}]
  <2>1. /\ change' = [change EXCEPT ![c] = request]
        /\ changes' \in Nat
        /\ UNCHANGED <<accountStatus, bindings, column, crossed>>
    BY <1>1, <1>a DEF BeginCreateUser, Admits, UsersTypeOK
  <2>2. request \in Requests /\ request.at = "create" /\ request.user = u
    BY <2>1 DEF Roles, Requests
  <2> HIDE DEF request
  <2>3. UsersTypeOK' /\ change'[c] = request /\ \A d \in Accounts \ {c} : change'[d] = change[d]
    BY <1>a, <1>b, <2>1, <2>2, RequestChanges
  <2> QED
    BY <2>1, <2>2, <2>3, RequestsAside DEF UsersInv, PatchSteps
<1>2. ASSUME NEW c \in Accounts, NEW u \in Accounts, NEW roles \in RoleSets \cup {{}},
             NEW s \in {"same", "active", "suspended"}, BeginPatch(c, u, roles, s)
      PROVE  UsersInv'
  <2> DEFINE request == [at |-> "recheck", n |-> changes', user |-> u, roles |-> roles,
                         status |-> s, seen |-> {}]
  <2>1. /\ change' = [change EXCEPT ![c] = request]
        /\ changes' \in Nat
        /\ accountStatus[u] # "absent"
        /\ roles # {} \/ s # "same"
        /\ crossed' = IF roles # {} /\ Replacing(u) # {} THEN crossed \cup {u} ELSE crossed
        /\ UNCHANGED <<accountStatus, bindings, column>>
    BY <1>2, <1>a DEF BeginPatch, Admits, UsersTypeOK
  <2>2. request \in Requests
    BY <2>1 DEF Roles, Requests, PatchSteps
  <2>3. request.at = "recheck" /\ request.user = u /\ request.roles = roles /\ request.status = s
    OBVIOUS
  <2> HIDE DEF request
  <2>4. UsersTypeOK' /\ change'[c] = request /\ \A d \in Accounts \ {c} : change'[d] = change[d]
    BY <1>a, <1>b, <2>1, <2>2, <2>3, RequestChanges
  <2>5. PatchesApply'
    BY <1>a, <2>1, <2>3, <2>4 DEF PatchesApply
  <2>6. \A d \in Accounts : Replaces(d, u) => d \in Replacing(u)
    BY DEF Replaces, Patches, Replacing, Changing, PatchSteps, NoChange
  <2>7. \A v \in Accounts : RolesOf(v)' = RolesOf(v)
    BY <2>1 DEF RolesOf
  <2>8. \A d, v \in Accounts :
          Replaces(d, v)' => \/ d = c /\ v = u /\ roles # {}
                             \/ d # c /\ Replaces(d, v) /\ change'[d] = change[d]
    BY <2>3, <2>4 DEF Replaces, Patches
  <2>9. ReplacementsApart'
    BY <1>a, <2>1, <2>3, <2>4, <2>6, <2>7, <2>8 DEF ReplacementsApart
  <2> QED
    BY <2>4, <2>5, <2>9 DEF UsersInv
<1>3. ASSUME NEW c \in Accounts, Recheck(c) PROVE UsersInv'
  <2> DEFINE next == IF change[c].at = "create" THEN "insert"
                     ELSE IF change[c].status # "same" THEN "status" ELSE "roles"
  <2>1. /\ change[c].at \in {"recheck", "create"}
        /\ UNCHANGED <<accountStatus, bindings, column, changes, crossed>>
        /\ \/ change' = [change EXCEPT ![c] = NoChange]
           \/ change' = [change EXCEPT ![c].at = next]
    BY <1>3 DEF Recheck
  <2>2. changes' \in Nat
    BY <1>a, <2>1 DEF UsersTypeOK
  <2>3. CASE change' = [change EXCEPT ![c] = NoChange]
    <3>1. UsersTypeOK' /\ change'[c].at = "idle" /\ \A d \in Accounts \ {c} : change'[d] = change[d]
      BY <1>a, <1>b, <2>1, <2>2, <2>3, RequestEnds
    <3> QED
      BY <2>1, <3>1, RequestsAside DEF UsersInv, PatchSteps
  <2>4. CASE change' = [change EXCEPT ![c].at = next]
    <3>1. /\ next \in {"insert"} \cup PatchSteps
          /\ next = "insert" <=> change[c].at = "create"
          /\ next \in {"insert", "status", "roles"}
          /\ next = "roles" => change[c].at = "recheck" /\ change[c].status = "same"
      BY <2>1 DEF PatchSteps
    <3> HIDE DEF next
    <3>2. /\ UsersTypeOK'
          /\ change'[c].at = next /\ change'[c].user = change[c].user
          /\ change'[c].roles = change[c].roles
          /\ \A d \in Accounts \ {c} : change'[d] = change[d]
      BY <1>a, <1>b, <2>1, <2>2, <2>4, <3>1, RequestGoesOn
    <3>3. change[c].user \in Accounts /\ (next = "roles" => change[c].roles # {})
      BY <1>a, <2>1, <3>1 DEF PatchesApply
    <3> QED
      BY <2>1, <3>1, <3>2, <3>3, RequestsAside DEF UsersInv, PatchSteps
  <2> QED
    BY <2>1, <2>3, <2>4
<1>4. ASSUME NEW c \in Accounts, CreateUser(c) PROVE UsersInv'
  <2>0. PICK u \in Accounts : u = change[c].user
    BY <1>4, <1>a DEF CreateUser, PatchesApply
  <2> DEFINE n == change[c].n
             roles == change[c].roles
  <2>1. /\ change[c].at = "insert" /\ change' = [change EXCEPT ![c] = NoChange]
        /\ UNCHANGED <<changes, crossed>>
    BY <1>4 DEF CreateUser
  <2>2. changes' \in Nat /\ n \in Nat /\ roles \in SUBSET Roles
    BY <1>a, <2>1 DEF UsersTypeOK, Requests
  <2>3. CASE accountStatus[u] # "absent"
    <3>1. UNCHANGED <<accountStatus, bindings, column>>
      BY <1>4, <2>0, <2>3 DEF CreateUser
    <3>2. UsersTypeOK' /\ change'[c].at = "idle" /\ \A d \in Accounts \ {c} : change'[d] = change[d]
      BY <1>a, <1>b, <2>1, <2>2, <3>1, RequestEnds
    <3> QED
      BY <2>1, <3>1, <3>2, RequestsAside DEF UsersInv, PatchSteps
  <2>4. CASE accountStatus[u] = "absent"
    <3>1. /\ accountStatus' = [accountStatus EXCEPT ![u] = "active"]
          /\ bindings' = [bindings EXCEPT ![u] = roles \X {n}]
          /\ column' = [column EXCEPT ![u] = roles]
      BY <1>4, <2>0, <2>4 DEF CreateUser
    <3>2. roles \X {n} \in SUBSET Rows
      BY <2>2 DEF Rows
    <3>3. /\ bindings'[u] = roles \X {n} /\ column'[u] = roles /\ accountStatus'[u] = "active"
          /\ \A v \in Accounts \ {u} :
                /\ bindings'[v] = bindings[v] /\ column'[v] = column[v]
                /\ accountStatus'[v] = accountStatus[v]
      BY <1>a, <2>2, <3>1 DEF UsersTypeOK, StoresTypeOK
    <3>4. StoresTypeOK'
      BY <1>a, <2>2, <3>1, <3>2 DEF UsersTypeOK, StoresTypeOK
    <3>5. UsersTypeOK' /\ change'[c].at = "idle" /\ \A d \in Accounts \ {c} : change'[d] = change[d]
      BY <1>a, <2>1, <2>2, <3>4, RequestEnds
    <3>6. PatchesApply'
      BY <1>a, <3>3, <3>5 DEF PatchesApply, PatchSteps
    <3>7. RolesOf(u)' = column'[u] /\ \A v \in Accounts \ {u} : RolesOf(v)' = RolesOf(v)
      <4>1. {row[1] : row \in roles \X {n}} = roles
        BY ProjectRows
      <4>2. RolesOf(u)' = {row[1] : row \in bindings'[u]}
        BY DEF RolesOf
      <4>3. \A v \in Accounts \ {u} : RolesOf(v)' = RolesOf(v)
        BY <3>3 DEF RolesOf
      <4> QED
        BY <3>3, <4>1, <4>2, <4>3
    <3>8. \A d, v \in Accounts : Replaces(d, v)' =>
              v # u /\ Replaces(d, v) /\ change'[d] = change[d]
      BY <1>a, <2>4, <3>5 DEF Replaces, Patches, PatchesApply, PatchSteps
    <3>9. ReplacementsApart'
      BY <1>a, <2>1, <3>3, <3>7, <3>8 DEF ReplacementsApart
    <3> QED
      BY <3>5, <3>6, <3>9 DEF UsersInv
  <2> QED
    BY <2>3, <2>4
<1>5. ASSUME NEW c \in Accounts, UpdateStatus(c) PROVE UsersInv'
  <2>1. /\ change[c].at = "status"
        /\ accountStatus' = [accountStatus EXCEPT ![change[c].user] = change[c].status]
        /\ UNCHANGED <<bindings, column, changes, crossed>>
        /\ \/ change' = [change EXCEPT ![c] = NoChange]
           \/ change' = [change EXCEPT ![c].at = "roles"] /\ change[c].roles # {}
    BY <1>5 DEF UpdateStatus
  <2>2. StoresTypeOK' /\ changes' \in Nat /\ change[c].status # "absent"
    BY <1>a, <2>1 DEF UsersTypeOK, StoresTypeOK, Requests
  <2>3. \A v \in Accounts : accountStatus[v] # "absent" => accountStatus'[v] # "absent"
    BY <1>a, <2>1, <2>2 DEF UsersTypeOK, StoresTypeOK
  <2>4. /\ UsersTypeOK'
        /\ \A d \in Accounts \ {c} : change'[d] = change[d]
        /\ \/ change'[c].at = "idle"
           \/ /\ change'[c].at = "roles" /\ change[c].roles # {}
              /\ change'[c].user = change[c].user /\ change'[c].roles = change[c].roles
    BY <1>a, <2>1, <2>2, RequestEnds, RequestGoesOn DEF PatchSteps
  <2>5. PatchesApply'
    BY <1>a, <2>1, <2>3, <2>4 DEF PatchesApply, PatchSteps
  <2>6. \A v \in Accounts : RolesOf(v)' = RolesOf(v)
    BY <2>1 DEF RolesOf
  <2>7. \A d, v \in Accounts :
          Replaces(d, v)' => Replaces(d, v) /\ (change'[d].at = "commit" => change'[d] = change[d])
    BY <2>1, <2>4 DEF Replaces, Patches, PatchSteps
  <2>8. ReplacementsApart'
    BY <1>a, <2>1, <2>6, <2>7 DEF ReplacementsApart
  <2> QED
    BY <2>4, <2>5, <2>8 DEF UsersInv
<1>6. ASSUME NEW c \in Accounts, DeleteBindings(c) PROVE UsersInv'
  <2>0. PICK u \in Accounts : u = change[c].user
    BY <1>6, <1>a DEF DeleteBindings, PatchesApply
  <2>1. /\ change[c].at = "roles"
        /\ UNCHANGED <<accountStatus, bindings, column, changes, crossed>>
    BY <1>6 DEF DeleteBindings
  <2>9. PICK rows \in SUBSET Rows : rows = bindings[u]
    BY <1>a DEF UsersTypeOK, StoresTypeOK
  <2>10. change' = [change EXCEPT ![c].at = "commit", ![c].seen = rows]
    BY <1>6, <2>0, <2>9 DEF DeleteBindings
  <2>4. /\ change'[c].at = "commit" /\ change'[c].seen = bindings[u]
        /\ change'[c].user = u /\ change'[c].roles = change[c].roles
        /\ \A d \in Accounts \ {c} : change'[d] = change[d]
    BY <1>a, <2>0, <2>9, <2>10 DEF UsersTypeOK, Requests
  <2>3. UsersTypeOK'
    <3>1. change' \in [Accounts -> Requests]
      <4> DEFINE moved == [change EXCEPT ![c].at = "commit"]
      <4>1. moved \in [Accounts -> Requests]
        BY <1>a DEF UsersTypeOK, Requests, PatchSteps
      <4>2. change' = [moved EXCEPT ![c].seen = rows]
        BY <1>a, <2>10 DEF UsersTypeOK, Requests
      <4> HIDE DEF moved
      <4>3. \A r \in Requests : [r EXCEPT !.seen = rows] \in Requests
        BY DEF Requests
      <4> QED
        BY <4>1, <4>2, <4>3
    <3>2. \A d \in Accounts : change'[d].at = "idle" => change'[d] = NoChange
      BY <1>a, <2>4 DEF UsersTypeOK
    <3> QED
      BY <1>a, <1>b, <2>1, <3>1, <3>2 DEF UsersTypeOK
  <2>5. PatchesApply'
    BY <1>a, <2>0, <2>1, <2>4 DEF PatchesApply, PatchSteps
  <2>6. \A v \in Accounts : RolesOf(v)' = RolesOf(v)
    BY <2>1 DEF RolesOf
  <2>7. \A d, v \in Accounts : Replaces(d, v)' =>
          Replaces(d, v) /\ (d = c => v = u) /\ (d # c => change'[d] = change[d])
    BY <2>0, <2>1, <2>4 DEF Replaces, Patches, PatchSteps
  <2>8. ReplacementsApart'
    BY <1>a, <2>1, <2>4, <2>6, <2>7 DEF ReplacementsApart
  <2> QED
    BY <2>3, <2>5, <2>8 DEF UsersInv
<1>7. ASSUME NEW c \in Accounts, CommitRoles(c) PROVE UsersInv'
  <2>0. PICK u \in Accounts : u = change[c].user
    BY <1>7, <1>a DEF CommitRoles, PatchesApply
  <2> DEFINE n == change[c].n
             roles == change[c].roles
             left == bindings[u] \ change[c].seen
             new == {role \in roles : \A row \in left : row[1] # role}
  <2>1. /\ change[c].at = "commit"
        /\ change' = [change EXCEPT ![c] = NoChange]
        /\ bindings' = [bindings EXCEPT ![u] = left \cup (new \X {n})]
        /\ column' = [column EXCEPT ![u] = roles]
        /\ crossed' = IF left = {} /\ Replacing(u) = {c} THEN crossed \ {u} ELSE crossed
        /\ UNCHANGED <<accountStatus, changes>>
    BY <1>7, <2>0 DEF CommitRoles
  <2>2. changes' \in Nat /\ n \in Nat /\ roles \in SUBSET Roles /\ roles # {}
    BY <1>a, <2>1 DEF PatchesApply, UsersTypeOK, Requests
  <2>3. left \cup (new \X {n}) \in SUBSET Rows
    BY <1>a, <2>2 DEF UsersTypeOK, StoresTypeOK, Rows
  <2>4. left = {} => {row[1] : row \in left \cup (new \X {n})} = roles
    <3> SUFFICES ASSUME left = {} PROVE {row[1] : row \in new \X {n}} = roles
      OBVIOUS
    <3>1. new = roles
      OBVIOUS
    <3> QED
      BY <3>1, ProjectRows
  <2> HIDE DEF left, new
  <2>5. /\ bindings'[u] = left \cup (new \X {n}) /\ column'[u] = roles
        /\ \A v \in Accounts \ {u} : bindings'[v] = bindings[v] /\ column'[v] = column[v]
    BY <1>a, <2>1, <2>2 DEF UsersTypeOK, StoresTypeOK
  <2>6. StoresTypeOK'
    BY <1>a, <2>1, <2>2, <2>3 DEF UsersTypeOK, StoresTypeOK
  <2>7. UsersTypeOK' /\ change'[c].at = "idle" /\ \A d \in Accounts \ {c} : change'[d] = change[d]
    BY <1>a, <2>1, <2>2, <2>6, RequestEnds
  <2>8. PatchesApply'
    BY <1>a, <2>1, <2>7 DEF PatchesApply, PatchSteps
  <2>9. (left = {} => RolesOf(u)' = column'[u]) /\ \A v \in Accounts \ {u} : RolesOf(v)' = RolesOf(v)
    <3>1. RolesOf(u)' = {row[1] : row \in left \cup (new \X {n})}
      BY <2>5 DEF RolesOf
    <3>2. \A v \in Accounts \ {u} : RolesOf(v)' = RolesOf(v)
      BY <2>5 DEF RolesOf
    <3> QED
      BY <2>4, <2>5, <3>1, <3>2
  <2>10. \A d, v \in Accounts :
           Replaces(d, v)' => d # c /\ Replaces(d, v) /\ change'[d] = change[d]
    BY <2>7 DEF Replaces, Patches, PatchSteps
  <2>11. Replaces(c, u)
    BY <2>0, <2>1, <2>2 DEF Replaces, Patches, PatchSteps
  <2>12. u \notin crossed' => left = {} /\ \A d \in Accounts : ~Replaces(d, u)'
    <3>1. \A d \in Accounts : Replaces(d, u) => d \in Replacing(u)
      BY DEF Replaces, Patches, Replacing, Changing, PatchSteps, NoChange
    <3>2. u \notin crossed => left = {}
      BY <1>a, <2>1, <2>2, <2>11 DEF ReplacementsApart, left
    <3>3. CASE u \notin crossed
      BY <1>a, <2>2, <2>10, <2>11, <3>2, <3>3 DEF ReplacementsApart
    <3>4. CASE u \in crossed /\ u \notin crossed'
      BY <2>1, <2>10, <3>1, <3>4
    <3> QED
      BY <2>1, <3>3, <3>4
  <2>13. \A v \in Accounts \ {u} : v \notin crossed' => v \notin crossed
    BY <2>1
  <2>14. ReplacementsApart'
    BY <1>a, <2>5, <2>9, <2>10, <2>12, <2>13 DEF ReplacementsApart
  <2> QED
    BY <2>7, <2>8, <2>14 DEF UsersInv
<1>8. CASE UNCHANGED usersVars
  BY <1>8, <1>a DEF usersVars, UsersInv, UsersTypeOK, StoresTypeOK, PatchesApply, ReplacementsApart,
                   Replaces, Patches, RolesOf
<1> QED
  BY <1>1, <1>2, <1>3, <1>4, <1>5, <1>6, <1>7, <1>8 DEF UsersNext

(* role_bindings and users.roles name the same roles for every user whose  *)
(* role replacements never overlapped, for any number of administrators    *)
(* and requests (replaceRoles).                                            *)
THEOREM RoleStoresAgreeAlways == UsersSpec => []RoleStoresAgree
<1>1. UsersInv => RoleStoresAgree
  BY DEF UsersInv, RoleStoresAgree, ReplacementsApart
<1> QED
  BY <1>1, UsersInitially, UsersStep, PTL DEF UsersSpec

=============================================================================
