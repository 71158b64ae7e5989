---------------------------- MODULE MetadataCache ----------------------------
(***************************************************************************)
(* CachedMetadataFetcher (crate aauth-reqwest, metadata.rs): how a verifier *)
(* finds the keys of one issuer, from the issuer's metadata document to a   *)
(* jwks_uri and from there to a key set.                                    *)
(*                                                                         *)
(* Its three maps (metadata, jwks, last_fetch) each have a mutex of their   *)
(* own, locked for one look or one insertion at a time, and the fetcher is  *)
(* shared by all requests: every lock acquisition is a step.                *)
(*                                                                         *)
(* Times are kept as ages, counted in ticks up to the largest age that any  *)
(* comparison tells apart, so time goes on for ever in a finite model.      *)
(***************************************************************************)
EXTENDS Naturals

CONSTANTS
  Task,         \* requests that verify a token at the same time
  Uri,          \* places where the issuer may publish its keys
  Document,     \* the issuer's metadata url
  TTL,          \* METADATA_CACHE_TTL
  MinInterval,  \* MIN_FETCH_INTERVAL
  MaxMoves,     \* bound: how often the issuer moves its keys
  MaxFailures,  \* bound: how many requests to the issuer fail
  MaxClears,    \* bound: how often clear_cache is called
  None          \* nothing cached

ASSUME AgeAssumption ==
  TTL \in Nat /\ MinInterval \in Nat /\ MinInterval > 0

ASSUME BoundAssumption ==
  /\ MaxMoves \in Nat /\ MaxFailures \in Nat /\ MaxClears \in Nat

Key == {Document} \cup Uri

ASSUME KeyAssumption == Document \notin Uri /\ Uri # {}

VARIABLES
  metadata,    \* the cached jwks_uri and its age, or None
  jwks,        \* the uris whose keys are cached; entries carry no time
  last_fetch,  \* Key -> age of the last fetch; MinInterval if there was none
  task,        \* Task -> where the request is
  clearing,    \* the map clear_cache clears next
  issuer,      \* where the keys are published, how often they moved
  failures,    \* how many requests to the issuer failed
  clears,      \* how often clear_cache was called
  \* History, read by the properties only:
  gap,         \* Task -> Uri -> age of the last request it actually sent for the keys
  lost         \* uris fetched within the interval whose keys are not to be had:
               \* the fetch failed, or they were cleared

history == <<gap, lost>>
vars == <<metadata, jwks, last_fetch, task, clearing, issuer, failures, clears,
          gap, lost>>

cache == <<metadata, jwks, last_fetch>>
environment == <<issuer, failures>>
clear == <<clearing, clears>>

-----------------------------------------------------------------------------
(* Where a request is *)

\* Before a step for the document or for the keys at a uri; `can` is one of
\* the steps of fetch_metadata and fetch_jwks, in the order of the code.
Stage == {"look", "can_fetch", "look_again", "send", "sent"}
Looking == [at : Stage, key : Key]
\* The document named `uri`, or the keys at `key` arrived.
Arrived == [at : {"arrived"}, key : Key, uri : Uri]
\* The answer to the caller, who has not asked yet in the beginning.
Answer == [at : {"idle", "served", "limited", "failed"}, key : Key]
State == Looking \cup Arrived \cup Answer

TypeOK ==
  /\ metadata \in [uri : Uri, age : 0..TTL] \cup {None}
  /\ jwks \subseteq Uri
  /\ last_fetch \in [Key -> 0..MinInterval]
  /\ task \in [Task -> State]
  /\ clearing \in {"no", "jwks", "last_fetch"}
  /\ issuer \in [uri : Uri, moves : 0..MaxMoves]
  /\ failures \in 0..MaxFailures
  /\ clears \in 0..MaxClears
  /\ gap \in [Task -> [Uri -> 0..MinInterval]]
  /\ lost \subseteq Uri

Init ==
  /\ metadata = None
  /\ jwks = {}
  /\ last_fetch = [k \in Key |-> MinInterval]
  /\ task = [t \in Task |-> [at |-> "idle", key |-> Document]]
  /\ clearing = "no"
  /\ issuer = [uri |-> CHOOSE u \in Uri : TRUE, moves |-> 0]
  /\ failures = 0
  /\ clears = 0
  /\ gap = [t \in Task |-> [u \in Uri |-> MinInterval]]
  /\ lost = {}

Go(t, stage, key) == task' = [task EXCEPT ![t] = [at |-> stage, key |-> key]]

At(t, stage, keys) == task[t].at = stage /\ task[t].key \in keys

-----------------------------------------------------------------------------
(* Both kinds of fetch *)

\* fetch_decoding_key asks for the jwks_uri first, then for the keys there.
Resolve(t) ==
  /\ task[t].at \in {"idle", "served", "limited", "failed"}
  /\ Go(t, "look", Document)
  /\ UNCHANGED <<cache, environment, clear, history>>

\* can_fetch says no where it should say yes, and the other way round.
FaultyCanFetch(t) ==
  /\ task[t].at = "can_fetch"
  /\ Go(t, IF last_fetch[task[t].key] >= MinInterval THEN "look_again" ELSE "send",
        task[t].key)
  /\ UNCHANGED <<cache, environment, clear, history>>

CanFetch(t) ==
  /\ task[t].at = "can_fetch"
  /\ Go(t, IF last_fetch[task[t].key] >= MinInterval THEN "send" ELSE "look_again",
        task[t].key)
  /\ UNCHANGED <<cache, environment, clear, history>>

\* A mistake: only the fetch of the document is recorded.
FaultyRecorded(key) ==
  last_fetch' = IF key = Document THEN [last_fetch EXCEPT ![key] = 0] ELSE last_fetch

Recorded(key) == last_fetch' = [last_fetch EXCEPT ![key] = 0]

\* record_fetch, and the request goes out.
RecordFetch(t) ==
  /\ task[t].at = "send"
  /\ Recorded(task[t].key)
  /\ Go(t, "sent", task[t].key)
  /\ gap' = [gap EXCEPT ![t] = [u \in Uri |-> IF u = task[t].key THEN 0 ELSE @[u]]]
  /\ lost' = lost \ {task[t].key}
  /\ UNCHANGED <<metadata, jwks, environment, clear>>

\* The issuer answers; a document names the uri of this moment.
Respond(t) ==
  /\ task[t].at = "sent"
  /\ task' = [task EXCEPT ![t] =
                [at |-> "arrived", key |-> task[t].key, uri |-> issuer.uri]]
  /\ UNCHANGED <<cache, environment, clear, history>>

\* No answer, an error status, a body that does not parse, or a document
\* without a jwks_uri.
FetchFails(t) ==
  /\ task[t].at = "sent"
  /\ failures < MaxFailures
  /\ failures' = failures + 1
  /\ Go(t, "failed", task[t].key)
  /\ lost' = lost \cup ({task[t].key} \cap Uri)
  /\ UNCHANGED <<cache, issuer, clear, gap>>

-----------------------------------------------------------------------------
(* fetch_metadata *)

\* The entry never gets old.
FaultyFresh(entry) == entry # None
Fresh(entry) == entry # None /\ entry.age < TTL

LookForMetadata(t) ==
  /\ At(t, "look", {Document})
  /\ IF Fresh(metadata) THEN Go(t, "look", metadata.uri)
     ELSE Go(t, "can_fetch", Document)
  /\ UNCHANGED <<cache, environment, clear, history>>

\* A stale entry serves while the document was just fetched; without an entry
\* the document is fetched all the same.
LookForStaleMetadata(t) ==
  /\ At(t, "look_again", {Document})
  /\ IF metadata # None THEN Go(t, "look", metadata.uri)
     ELSE Go(t, "send", Document)
  /\ UNCHANGED <<cache, environment, clear, history>>

\* The document may be without a jwks_uri.
FaultyStoreMetadata(t) ==
  /\ At(t, "arrived", {Document})
  /\ \E uri \in {task[t].uri, None} :
       /\ metadata' = [uri |-> uri, age |-> 0]
       /\ Go(t, "look", uri)
  /\ UNCHANGED <<jwks, last_fetch, environment, clear, history>>

StoreMetadata(t) ==
  /\ At(t, "arrived", {Document})
  /\ metadata' = [uri |-> task[t].uri, age |-> 0]
  /\ Go(t, "look", task[t].uri)
  /\ UNCHANGED <<jwks, last_fetch, environment, clear, history>>

-----------------------------------------------------------------------------
(* fetch_jwks *)

LookForKeys(t) ==
  /\ At(t, "look", Uri)
  /\ Go(t, IF task[t].key \in jwks THEN "served" ELSE "can_fetch", task[t].key)
  /\ UNCHANGED <<cache, environment, clear, history>>

\* Without a second look.
FaultyLookForKeysAgain(t) ==
  /\ At(t, "look_again", Uri)
  /\ Go(t, "limited", task[t].key)
  /\ UNCHANGED <<cache, environment, clear, history>>

LookForKeysAgain(t) ==
  /\ At(t, "look_again", Uri)
  /\ Go(t, IF task[t].key \in jwks THEN "served" ELSE "limited", task[t].key)
  /\ UNCHANGED <<cache, environment, clear, history>>

StoreKeys(t) ==
  /\ At(t, "arrived", Uri)
  /\ jwks' = jwks \cup {task[t].key}
  /\ Go(t, "served", task[t].key)
  /\ lost' = lost \ {task[t].key}
  /\ UNCHANGED <<metadata, last_fetch, environment, clear, gap>>

-----------------------------------------------------------------------------
(* clear_cache clears one map after the other. *)

ClearMetadata ==
  /\ clearing = "no" /\ clears < MaxClears
  /\ clears' = clears + 1
  /\ metadata' = None
  /\ clearing' = "jwks"
  /\ UNCHANGED <<jwks, last_fetch, task, environment, history>>

ClearJwks ==
  /\ clearing = "jwks"
  /\ jwks' = {}
  /\ lost' = lost \cup jwks
  /\ clearing' = "last_fetch"
  /\ UNCHANGED <<metadata, last_fetch, task, clears, environment, gap>>

\* A caller that clears the cache asks for new fetches.
ClearLastFetch ==
  /\ clearing = "last_fetch"
  /\ last_fetch' = [k \in Key |-> MinInterval]
  /\ gap' = [t \in Task |-> [u \in Uri |-> MinInterval]]
  /\ lost' = {}
  /\ clearing' = "no"
  /\ UNCHANGED <<metadata, jwks, task, clears, environment>>

-----------------------------------------------------------------------------
(* Time, and the issuer *)

Older(age, limit) == IF age < limit THEN age + 1 ELSE age

Tick ==
  /\ metadata' = IF metadata = None THEN None
                 ELSE [metadata EXCEPT !.age = Older(@, TTL)]
  /\ last_fetch' = [k \in Key |-> Older(last_fetch[k], MinInterval)]
  /\ gap' = [t \in Task |-> [u \in Uri |-> Older(gap[t][u], MinInterval)]]
  /\ lost' = {u \in lost : last_fetch'[u] < MinInterval}
  /\ UNCHANGED <<jwks, task, environment, clear>>

MoveKeys ==
  /\ issuer.moves < MaxMoves
  /\ \E u \in Uri \ {issuer.uri} : issuer' = [uri |-> u, moves |-> issuer.moves + 1]
  /\ UNCHANGED <<cache, task, failures, clear, history>>

-----------------------------------------------------------------------------
\* A request's own steps and the issuer's answers to it.
Fetch(t) ==
  \/ Resolve(t)
  \/ LookForMetadata(t)
  \/ LookForStaleMetadata(t)
  \/ StoreMetadata(t)
  \/ LookForKeys(t)
  \/ LookForKeysAgain(t)
  \/ StoreKeys(t)
  \/ CanFetch(t)
  \/ RecordFetch(t)
  \/ Respond(t)

Clear == ClearMetadata \/ ClearJwks \/ ClearLastFetch

Next ==
  \/ Tick
  \/ MoveKeys
  \/ Clear
  \/ \E t \in Task : Fetch(t) \/ FetchFails(t)

Spec == Init /\ [][Next]_vars

-----------------------------------------------------------------------------
(* Safety *)

\* draft-hardt-oauth-aauth-protocol.md:2405 (and metadata.rs:62): the keys of
\* an issuer are not fetched twice within a minute.
FetchGap ==
  [][\A t \in Task :
       At(t, "send", Uri) /\ task'[t].at = "sent" =>
         \A u \in Task : gap[u][task[t].key] >= MinInterval]_vars

\* What is left of it when requests run at once: can_fetch and record_fetch are
\* two lock acquisitions, so others may slip in between, but none of them
\* fetches the same keys twice within the interval, whatever the others record
\* meanwhile.  As many fetches as there are requests at once are the most.  (A
\* clear_cache asks for the next fetch, and the interval begins anew.)
OwnFetchGap ==
  [][\A t \in Task :
       At(t, "send", Uri) /\ task'[t].at = "sent" => gap[t][task[t].key] >= MinInterval]_vars

\* The keys of a uri are being fetched, or the last fetch left none.
Awaited(uri) ==
  \/ uri \in lost
  \/ \E u \in Task : task[u].key = uri /\ task[u].at \in {"sent", "arrived"}

\* A request is told that it is rate limited only while another fetches these
\* very keys, or within an interval of a fetch that failed, or whose keys
\* clear_cache dropped before it forgot the fetch, or when the interval ran out
\* behind its back: never of keys that came in since its first look.  last_fetch
\* and jwks have a lock each, and no request holds one while it looks at the
\* other (fetch_jwks looks twice, with can_fetch in between).
LimitExplained ==
  [][\A t \in Task :
       task[t].at # "limited" /\ task'[t].at = "limited" =>
         Awaited(task[t].key) \/ last_fetch[task[t].key] >= MinInterval]_vars

-----------------------------------------------------------------------------
(* Liveness: the verifier keeps being asked, its steps are taken, time goes *)
(* on, and the issuer answers (all but MaxFailures requests).               *)

Fairness ==
  /\ WF_vars(Tick)
  /\ WF_vars(Clear /\ clearing # "no")
  /\ \A t \in Task : WF_vars(Fetch(t))

FairSpec == Spec /\ Fairness

\* Whatever failed, raced or was cleared, each of the concurrent requests is
\* served again and again: no fetch that was recorded and then failed, or was
\* overtaken, leaves the limit of one a minute in the way for ever.
ServedAgain == \A t \in Task : []<>(task[t].at = "served")

\* Once the issuer has moved its keys for the last time, the requests come to
\* use the new place: a document that was fetched before the move and stored
\* after it is not kept for ever.
MoveSeen ==
  <>[](issuer.moves = MaxMoves) =>
    \A t \in Task : <>[](task[t].at = "served" => task[t].key = issuer.uri)

=============================================================================
