-------------------------------- MODULE Channels --------------------------------
(***************************************************************************)
(* The credentials of one channel: its row and what every process          *)
(* remembers of it for five minutes.                                       *)
(*                                                                         *)
(* A token is the number of its rotation, a cleared token counts as one.   *)
(***************************************************************************)
EXTENDS Naturals

CONSTANTS
    Instances,      \* processes, each with its own cache
    MaxRotations,   \* bound: rotations and clearings of the token
    MaxLostUpdates  \* bound: updates whose answer is lost

ASSUME ChannelsAssumption == {MaxRotations, MaxLostUpdates} \subseteq Nat

Absent == 0   \* no row, an empty cache

VARIABLES
    token,          \* the row's access_token_encrypted (Absent: not registered yet)
    creds,          \* credsByChannelIdCache: per instance the token held
    lookups,        \* per instance: tokens its getCredentials calls read and will remember
    rotating,       \* instances whose update is between its commit and its delete
    mayBeStale,     \* history: instances an update left behind: another's, one whose
                    \* answer was lost, or any while a lookup was under way
    lostUpdates     \* what the bound counts

channelsVars == <<token, creds, lookups, rotating, mayBeStale, lostUpdates>>

ChannelsInit ==
    /\ token = Absent
    /\ creds = [i \in Instances |-> Absent]
    /\ lookups = [i \in Instances |-> {}]
    /\ rotating = {}
    /\ mayBeStale = {}
    /\ lostUpdates = 0

-----------------------------------------------------------------------------
CreateChannel ==
    /\ token = Absent
    /\ token' = 1
    /\ UNCHANGED <<creds, lookups, rotating, mayBeStale, lostUpdates>>

\* getCredentials without a remembered answer; that there is no row is not remembered.
ReadCredentials(i) ==
    /\ token # Absent
    /\ creds[i] = Absent
    /\ lookups' = [lookups EXCEPT ![i] = @ \cup {token}]
    /\ UNCHANGED <<token, creds, rotating, mayBeStale, lostUpdates>>

RememberCredentials(i) ==
    /\ \E t \in lookups[i] :
          /\ creds' = [creds EXCEPT ![i] = t]
          /\ lookups' = [lookups EXCEPT ![i] = @ \ {t}]
    /\ UNCHANGED <<token, rotating, mayBeStale, lostUpdates>>

\* PATCH /channels/whatsapp/:id, the row first: every other process keeps what
\* it remembers, this one what a lookup under way will put back.
UpdateToken(i) ==
    /\ token \in 1..MaxRotations
    /\ i \notin rotating
    /\ token' = token + 1
    /\ rotating' = rotating \cup {i}
    /\ mayBeStale' = mayBeStale \cup
           {j \in Instances : lookups[j] # {} \/ (j # i /\ creds[j] # Absent)}
    /\ UNCHANGED <<creds, lookups, lostUpdates>>

\* The row is written and the answer lost: update throws before it would forget.
UpdateAnswerLost ==
    /\ token \in 1..MaxRotations
    /\ lostUpdates < MaxLostUpdates
    /\ lostUpdates' = lostUpdates + 1
    /\ token' = token + 1
    /\ mayBeStale' = mayBeStale \cup {j \in Instances : lookups[j] # {} \/ creds[j] # Absent}
    /\ UNCHANGED <<creds, lookups, rotating>>

UpdateKeepsCache(i) ==   \* mutant: the update leaves its own cache
    /\ i \in rotating
    /\ rotating' = rotating \ {i}
    /\ UNCHANGED <<token, creds, lookups, mayBeStale, lostUpdates>>

Caught(i) == IF lookups[i] = {} THEN mayBeStale \ {i} ELSE mayBeStale

ForgetCredentials(i) ==
    /\ i \in rotating
    /\ rotating' = rotating \ {i}
    /\ creds' = [creds EXCEPT ![i] = Absent]
    /\ mayBeStale' = Caught(i)
    /\ UNCHANGED <<token, lookups, lostUpdates>>

CredentialsExpire(i) ==
    /\ creds[i] # Absent
    /\ creds' = [creds EXCEPT ![i] = Absent]
    /\ mayBeStale' = Caught(i)
    /\ UNCHANGED <<token, lookups, rotating, lostUpdates>>

ChannelsNext ==
    \/ CreateChannel \/ UpdateAnswerLost
    \/ \E i \in Instances :
          \/ ReadCredentials(i) \/ RememberCredentials(i)
          \/ UpdateToken(i) \/ ForgetCredentials(i) \/ CredentialsExpire(i)

ChannelsSpec == ChannelsInit /\ [][ChannelsNext]_channelsVars

-----------------------------------------------------------------------------
ChannelsTypeOK ==
    /\ token \in Nat
    /\ creds \in [Instances -> Nat]
    /\ lookups \in [Instances -> SUBSET Nat]
    /\ rotating \subseteq Instances
    /\ mayBeStale \subseteq Instances
    /\ lostUpdates \in Nat

\* Who still sends with an older token once an update has returned: another
\* process within its five minutes, one that had read the row before the update
\* and remembered it after, or one whose update threw after its commit.
StaleTokenIsExplained ==
    \A i \in Instances : creds[i] \notin {Absent, token} => i \in mayBeStale \cup rotating

\* "Invalidates the credentials cache so a rotated token is visible immediately"
\* (channelRepository.update): with no update under way nobody has an old one.
\* The update reaches the cache of its own process only.
RotatedTokenIsVisible ==
    rotating = {} => \A i \in Instances : creds[i] \in {Absent, token}

=============================================================================
