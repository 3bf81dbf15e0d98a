------------------------------ MODULE MediaFetch ------------------------------
(***************************************************************************)
(* The bytes of media a customer sent: a job per message asks Meta for a   *)
(* download URL, downloads, stores the bytes in the row of the media id,   *)
(* and links the row to the message. Messages that carry the same media    *)
(* share its row, and a job may be delivered again while it runs.          *)
(***************************************************************************)
EXTENDS Naturals, FiniteSets

CONSTANTS
    MediaMessages,    \* messages that carry the media
    Fetchers,         \* concurrent deliveries
    JobTries,         \* failed deliveries after which a job is dead-lettered
    MaxDoubled        \* bound: jobs delivered a second time

ASSUME MediaFetchAssumption ==
    /\ JobTries \in Nat \ {0}
    /\ MaxDoubled \in Nat

MEDIA_FETCH_MAX_ATTEMPTS == 2

VARIABLES
    asset,       \* media_assets.status of the media id, "none" before the first job
    bytes,       \* media_assets.bytes is set
    requested,   \* messages whose job was enqueued
    mediaLink,   \* per message: the status in payload.mediaAsset, or "none"
    jobCopies,   \* per message: deliveries on their way
    jobTries,    \* per message: deliveries that threw
    fetcher,     \* per fetcher: its job and where it is
    doubledJobs, \* what the bound counts
    late         \* history: an attempt begun before the bytes were stored failed after

mediaVars == <<asset, bytes, requested, mediaLink, jobCopies, jobTries, fetcher, doubledJobs, late>>

NoJob == [at |-> "none"]

MediaInit ==
    /\ asset = "none"
    /\ bytes = FALSE
    /\ requested = {}
    /\ mediaLink = [m \in MediaMessages |-> "none"]
    /\ jobCopies = [m \in MediaMessages |-> 0]
    /\ jobTries = [m \in MediaMessages |-> 0]
    /\ fetcher = [f \in Fetchers |-> NoJob]
    /\ doubledJobs = 0
    /\ late = FALSE

At(f, step) == fetcher[f].at = step
MoveTo(f, step) == fetcher' = [fetcher EXCEPT ![f].at = step]
MediaDead(m) == jobTries[m] >= JobTries

-----------------------------------------------------------------------------
\* The inbound handler enqueues the fetch (module Inbound).
MediaRequested(m) ==
    /\ m \notin requested
    /\ requested' = requested \cup {m}
    /\ jobCopies' = [jobCopies EXCEPT ![m] = 1]
    /\ UNCHANGED <<asset, bytes, mediaLink, jobTries, fetcher, doubledJobs, late>>

(***************************************************************************)
(* upsertPending creates the row or returns the one there is: a stored one *)
(* only needs the link.                                                    *)
(***************************************************************************)
UpsertIgnoresStatus(f, m) ==   \* mutant: a stored row is fetched again
    /\ At(f, "none")
    /\ jobCopies[m] > 0
    /\ jobCopies' = [jobCopies EXCEPT ![m] = @ - 1]
    /\ asset' = IF asset = "none" THEN "pending" ELSE asset
    /\ fetcher' = [fetcher EXCEPT ![f] =
                     [at |-> "resolve", m |-> m, attempt |-> 1, early |-> ~bytes]]
    /\ UNCHANGED <<requested, bytes, mediaLink, jobTries, doubledJobs, late>>

UpsertPending(f, m) ==
    /\ At(f, "none")
    /\ jobCopies[m] > 0
    /\ jobCopies' = [jobCopies EXCEPT ![m] = @ - 1]
    /\ asset' = IF asset = "none" THEN "pending" ELSE asset
    /\ fetcher' = [fetcher EXCEPT ![f] =
                     [at |-> IF asset = "stored" THEN "link" ELSE "resolve",
                      m |-> m, attempt |-> 1, early |-> ~bytes]]
    /\ UNCHANGED <<requested, bytes, mediaLink, jobTries, doubledJobs, late>>

(***************************************************************************)
(* fetchMediaDirect. A URL is resolved for every attempt; a download that  *)
(* finds it expired (401, 403, 404) resolves once more, any other failure  *)
(* ends the fetch.                                                         *)
(***************************************************************************)
ResolveMediaUrl(f) ==
    /\ At(f, "resolve")
    /\ \/ MoveTo(f, "download")
       \/ MoveTo(f, "error")
    /\ UNCHANGED <<requested, asset, bytes, mediaLink, jobCopies, jobTries, doubledJobs, late>>

DownloadMedia(f) ==
    /\ At(f, "download")
    /\ \/ MoveTo(f, "store")
       \/ MoveTo(f, "error")          \* too large, network, any other status
       \/ /\ fetcher[f].attempt < MEDIA_FETCH_MAX_ATTEMPTS
          /\ fetcher' = [fetcher EXCEPT ![f].at = "resolve", ![f].attempt = @ + 1]
    /\ UNCHANGED <<requested, asset, bytes, mediaLink, jobCopies, jobTries, doubledJobs, late>>

MarkStored(f) ==
    /\ At(f, "store")
    /\ \/ /\ asset' = "stored"
          /\ bytes' = TRUE
          /\ MoveTo(f, "link")
       \/ /\ MoveTo(f, "error")
          /\ UNCHANGED <<asset, bytes>>
    /\ UNCHANGED <<requested, mediaLink, jobCopies, jobTries, doubledJobs, late>>

JobThrows(f) ==
    LET m == fetcher[f].m IN
    /\ fetcher' = [fetcher EXCEPT ![f] = NoJob]
    /\ jobTries' = [jobTries EXCEPT ![m] = @ + 1]
    /\ jobCopies' = [jobCopies EXCEPT ![m] = IF jobTries[m] + 1 < JobTries THEN @ + 1 ELSE @]

(***************************************************************************)
(* The catch: recordError writes 'failed' whatever the row says by now,    *)
(* itself best-effort, and the error goes back to the transport.           *)
(***************************************************************************)
RecordErrorAndThrow(f) ==
    /\ At(f, "error")
    /\ \/ /\ asset' = "failed"
          /\ late' = (late \/ (bytes /\ fetcher[f].early))
       \/ UNCHANGED <<asset, late>>
    /\ JobThrows(f)
    /\ UNCHANGED <<requested, bytes, mediaLink, doubledJobs>>

(***************************************************************************)
(* linkAssetToMessage merges {mediaAsset} into the message's payload; the  *)
(* link of a stored row is written outside the catch.                      *)
(***************************************************************************)
LinkNothing(f) ==   \* mutant: a row that was stored already is not linked
    /\ At(f, "link")
    /\ mediaLink' = [mediaLink EXCEPT ![fetcher[f].m] = IF fetcher[f].early THEN "stored" ELSE @]
    /\ fetcher' = [fetcher EXCEPT ![f] = NoJob]
    /\ UNCHANGED <<requested, asset, bytes, jobCopies, jobTries, doubledJobs, late>>

LinkAsset(f) ==
    /\ At(f, "link")
    /\ mediaLink' = [mediaLink EXCEPT ![fetcher[f].m] = "stored"]
    /\ fetcher' = [fetcher EXCEPT ![f] = NoJob]
    /\ UNCHANGED <<requested, asset, bytes, jobCopies, jobTries, doubledJobs, late>>

\* The worker dies, or the link's write throws: the job comes back.
FetcherDies(f) ==
    /\ ~At(f, "none")
    /\ JobThrows(f)
    /\ UNCHANGED <<requested, asset, bytes, mediaLink, doubledJobs, late>>

\* A claim that went stale, or a dead letter replayed by an operator.
JobDelivered(m) ==
    /\ m \in requested
    /\ doubledJobs < MaxDoubled
    /\ doubledJobs' = doubledJobs + 1
    /\ jobCopies' = [jobCopies EXCEPT ![m] = @ + 1]
    /\ UNCHANGED <<requested, asset, bytes, mediaLink, jobTries, fetcher, late>>

MediaWork(f) ==
    \/ \E m \in MediaMessages : UpsertPending(f, m)
    \/ ResolveMediaUrl(f) \/ DownloadMedia(f) \/ MarkStored(f)
    \/ RecordErrorAndThrow(f) \/ LinkAsset(f)

MediaNext ==
    \/ \E f \in Fetchers : MediaWork(f) \/ FetcherDies(f)
    \/ \E m \in MediaMessages : MediaRequested(m) \/ JobDelivered(m)

\* A delivered job runs on; nobody has to crash or to deliver twice.
MediaFairness == \A f \in Fetchers : WF_mediaVars(MediaWork(f))

MediaSpec == MediaInit /\ [][MediaNext]_mediaVars /\ MediaFairness

-----------------------------------------------------------------------------
MediaTypeOK ==
    /\ asset \in {"none", "pending", "stored", "failed"}
    /\ bytes \in BOOLEAN
    /\ requested \subseteq MediaMessages
    /\ mediaLink \in [MediaMessages -> {"none", "stored"}]
    /\ jobCopies \in [MediaMessages -> Nat]
    /\ jobTries \in [MediaMessages -> Nat]
    /\ fetcher \in [Fetchers -> {NoJob} \cup
                      [at : {"resolve", "download", "store", "error", "link"},
                       m : MediaMessages, attempt : 1..MEDIA_FETCH_MAX_ATTEMPTS, early : BOOLEAN]]
    /\ doubledJobs \in Nat
    /\ late \in BOOLEAN

\* Media linked to a message is served: its row says stored and has the bytes.
\* Only an attempt begun before the bytes were there and failing after them
\* takes that back; what begins later fetches nothing.
LinkedIsServed ==
    \A m \in MediaMessages :
        mediaLink[m] = "stored" => bytes /\ (asset = "stored" \/ late)

\* Liveness: every requested message's media is linked in the end, or its job is a dead
\* letter, also when another message's job stored the shared media first.
MediaSettles ==
    \A m \in MediaMessages :
        m \in requested ~> (mediaLink[m] = "stored" \/ MediaDead(m))

=============================================================================
