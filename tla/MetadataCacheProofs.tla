------------------------ MODULE MetadataCacheProofs ------------------------
(* Theorems about MetadataCache, for every number of requests, any lengths *)
(* of its intervals, and every bound.                                      *)
EXTENDS MetadataCache, TLAPS

-----------------------------------------------------------------------------
(* Requests *)

\* A request is in a state of the kind its `at` says.
LEMMA StateKinds ==
  ASSUME NEW s \in State
  PROVE  /\ s.key \in Key
         /\ s.at = "arrived" => s.uri \in Uri
<1>1. CASE s \in Looking
  BY <1>1 DEF Looking, Stage
<1>2. CASE s \in Arrived
  BY <1>2 DEF Arrived
<1>3. CASE s \in Answer
  BY <1>3 DEF Answer
<1> QED BY <1>1, <1>2, <1>3 DEF State

\* Ages stay within their limits.
LEMMA OlderType ==
  ASSUME NEW limit \in Nat, NEW age \in 0..limit
  PROVE  Older(age, limit) \in 0..limit
  BY DEF Older

\* A request that moves to a step of the code or to an answer stays well
\* typed.
LEMMA GoType ==
  ASSUME TypeOK, NEW t \in Task, NEW k \in Key,
         NEW at \in Stage \cup {"idle", "served", "limited", "failed"},
         Go(t, at, k)
  PROVE  task' \in [Task -> State]
<1>1. [at |-> at, key |-> k] \in State
  BY DEF State, Looking, Answer
<1> QED BY <1>1 DEF TypeOK, Go

\* What a request does to the ages of its own fetches.
LEMMA GapSent ==
  ASSUME TypeOK, NEW t \in Task, RecordFetch(t)
  PROVE  /\ gap' \in [Task -> [Uri -> 0..MinInterval]]
         /\ \A u \in Uri : gap'[t][u] = IF u = task[t].key THEN 0 ELSE gap[t][u]
         /\ \A v \in Task : v # t => gap'[v] = gap[v]
<1> DEFINE mine == [u \in Uri |-> IF u = task[t].key THEN 0 ELSE gap[t][u]]
<1>1. gap \in [Task -> [Uri -> 0..MinInterval]]
  BY DEF TypeOK
<1>2. gap' = [gap EXCEPT ![t] = mine]
  BY DEF RecordFetch
<1>3. mine \in [Uri -> 0..MinInterval]
  BY <1>1, AgeAssumption
<1>4. \A u \in Uri : mine[u] = IF u = task[t].key THEN 0 ELSE gap[t][u]
  OBVIOUS
<1> HIDE DEF mine
<1> QED BY <1>1, <1>2, <1>3, <1>4

-----------------------------------------------------------------------------
(* Type correctness *)

\* Each step of a request, of clear_cache, of the issuer and of time.
LEMMA TypeStep == TypeOK /\ [Next]_vars => TypeOK'
<1> SUFFICES ASSUME TypeOK, [Next]_vars PROVE TypeOK'
  OBVIOUS
<1> USE DEF cache, environment, clear, history
<1>0. \A t \in Task : task[t] \in State /\ task[t].key \in Key
  BY StateKinds DEF TypeOK
<1>1. CASE UNCHANGED vars
  BY <1>1 DEF TypeOK, vars
<1>2. CASE Tick
  <2>1. metadata' \in [uri : Uri, age : 0..TTL] \cup {None}
    <3>1. CASE metadata = None
      BY <1>2, <3>1 DEF Tick
    <3>2. CASE metadata # None
      BY <1>2, <3>2, OlderType, AgeAssumption DEF Tick, TypeOK
    <3> QED BY <3>1, <3>2
  <2>2. jwks' \subseteq Uri
    BY <1>2 DEF Tick, TypeOK
  <2>3. /\ last_fetch' \in [Key -> 0..MinInterval]
        /\ gap' \in [Task -> [Uri -> 0..MinInterval]]
    BY <1>2, OlderType, AgeAssumption DEF Tick, TypeOK
  <2>4. lost' \subseteq Uri
    BY <1>2 DEF Tick, TypeOK
  <2> QED BY <1>2, <2>1, <2>2, <2>3, <2>4 DEF Tick, TypeOK
<1>3. CASE MoveKeys
  <2>1. issuer' \in [uri : Uri, moves : 0..MaxMoves]
    BY <1>3, BoundAssumption DEF MoveKeys, TypeOK
  <2> QED BY <1>3, <2>1 DEF MoveKeys, TypeOK
<1>4. CASE ClearMetadata
  BY <1>4, BoundAssumption DEF ClearMetadata, TypeOK
<1>5. CASE ClearJwks
  BY <1>5 DEF ClearJwks, TypeOK
<1>6. CASE ClearLastFetch
  BY <1>6, AgeAssumption DEF ClearLastFetch, TypeOK
<1>7. ASSUME NEW t \in Task, Fetch(t) PROVE TypeOK'
  <2>1. CASE Resolve(t)
    BY <2>1, GoType DEF Resolve, TypeOK, Key, Stage
  <2>2. CASE LookForMetadata(t)
    <3>1. Fresh(metadata) => metadata.uri \in Key
      BY DEF TypeOK, Fresh, Key
    <3> QED BY <2>2, <3>1, GoType DEF LookForMetadata, TypeOK, Key, Stage
  <2>3. CASE LookForStaleMetadata(t)
    <3>1. metadata # None => metadata.uri \in Key
      BY DEF TypeOK, Key
    <3> QED BY <2>3, <3>1, GoType DEF LookForStaleMetadata, TypeOK, Key, Stage
  <2>4. CASE StoreMetadata(t)
    <3>1. task[t].uri \in Uri
      BY <2>4, StateKinds DEF StoreMetadata, At, TypeOK
    <3>2. metadata' \in [uri : Uri, age : 0..TTL]
      BY <2>4, <3>1, AgeAssumption DEF StoreMetadata
    <3>3. task' \in [Task -> State]
      BY <2>4, <3>1, GoType DEF StoreMetadata, Key, Stage
    <3> QED BY <2>4, <3>2, <3>3 DEF StoreMetadata, TypeOK
  <2>5. CASE LookForKeys(t)
    BY <1>0, <2>5, GoType DEF LookForKeys, TypeOK, Stage
  <2>6. CASE LookForKeysAgain(t)
    BY <1>0, <2>6, GoType DEF LookForKeysAgain, TypeOK
  <2>7. CASE StoreKeys(t)
    <3>1. jwks' \subseteq Uri
      BY <2>7 DEF StoreKeys, At, TypeOK
    <3>2. task' \in [Task -> State]
      BY <1>0, <2>7, GoType DEF StoreKeys
    <3>3. lost' \subseteq Uri
      BY <2>7 DEF StoreKeys, TypeOK
    <3> QED BY <2>7, <3>1, <3>2, <3>3 DEF StoreKeys, TypeOK
  <2>8. CASE CanFetch(t)
    BY <1>0, <2>8, GoType DEF CanFetch, TypeOK, Stage
  <2>9. CASE RecordFetch(t)
    <3>1. 0 \in 0..MinInterval
      BY AgeAssumption
    <3>2. last_fetch' \in [Key -> 0..MinInterval]
      BY <2>9, <3>1 DEF RecordFetch, Recorded, TypeOK
    <3>3. gap' \in [Task -> [Uri -> 0..MinInterval]]
      BY <2>9, <3>1, GapSent DEF TypeOK
    <3>4. task' \in [Task -> State]
      BY <1>0, <2>9, GoType DEF RecordFetch, Stage
    <3>5. lost' \subseteq Uri
      BY <2>9 DEF RecordFetch, TypeOK
    <3> QED BY <2>9, <3>2, <3>3, <3>4, <3>5 DEF RecordFetch, TypeOK
  <2>10. CASE Respond(t)
    <3>1. [at |-> "arrived", key |-> task[t].key, uri |-> issuer.uri] \in State
      BY <1>0 DEF State, Arrived, TypeOK
    <3> QED BY <2>10, <3>1 DEF Respond, TypeOK
  <2> QED
    BY <1>7, <2>1, <2>2, <2>3, <2>4, <2>5, <2>6, <2>7, <2>8, <2>9, <2>10
       DEF Fetch
<1>8. ASSUME NEW t \in Task, FetchFails(t) PROVE TypeOK'
  <2>1. task' \in [Task -> State]
    BY <1>0, <1>8, GoType DEF FetchFails
  <2>2. failures' \in 0..MaxFailures
    BY <1>8, BoundAssumption DEF FetchFails, TypeOK
  <2> QED BY <1>8, <2>1, <2>2 DEF FetchFails, TypeOK
<1> QED
  BY <1>1, <1>2, <1>3, <1>4, <1>5, <1>6, <1>7, <1>8 DEF Next, Clear

\* The three maps and every request keep their type: among them, a cached
\* document always names a uri.
THEOREM TypeCorrect == Spec => []TypeOK
<1>1. Init => TypeOK
  <2> SUFFICES ASSUME Init PROVE TypeOK
    OBVIOUS
  <2>1. [at |-> "idle", key |-> Document] \in State
    BY DEF State, Answer, Key
  <2>2. task \in [Task -> State]
    BY <2>1 DEF Init
  <2>3. /\ last_fetch \in [Key -> 0..MinInterval]
        /\ gap \in [Task -> [Uri -> 0..MinInterval]]
    BY AgeAssumption DEF Init
  <2>4. /\ failures \in 0..MaxFailures /\ clears \in 0..MaxClears
        /\ issuer \in [uri : Uri, moves : 0..MaxMoves]
    BY BoundAssumption, KeyAssumption DEF Init
  <2>5. /\ metadata \in [uri : Uri, age : 0..TTL] \cup {None}
        /\ jwks \subseteq Uri /\ lost \subseteq Uri
        /\ clearing \in {"no", "jwks", "last_fetch"}
    BY DEF Init
  <2> QED BY <2>2, <2>3, <2>4, <2>5 DEF TypeOK
<1> QED BY <1>1, TypeStep, PTL DEF Spec

-----------------------------------------------------------------------------
(* Rate limiting *)

\* A step moves at most the request that takes it.
LEMMA OthersStay ==
  ASSUME TypeOK, NEW t \in Task, NEW u \in Task, t # u, Fetch(t) \/ FetchFails(t)
  PROVE  task'[u] = task[u]
  BY DEF TypeOK, Fetch, FetchFails, Resolve, LookForMetadata,
         LookForStaleMetadata, StoreMetadata, LookForKeys, LookForKeysAgain,
         StoreKeys, CanFetch, RecordFetch, Respond, Go

\* The other steps move none.
LEMMA OtherSteps ==
  ASSUME Tick \/ MoveKeys \/ Clear \/ UNCHANGED vars
  PROVE  task' = task
  BY DEF Tick, MoveKeys, Clear, ClearMetadata, ClearJwks, ClearLastFetch,
         cache, environment, clear, history, vars

\* Keys for which a fetch was recorded within the interval are in the cache, on
\* their way, or lost.
LimitInv ==
  \A k \in Uri : last_fetch[k] < MinInterval => k \in jwks \/ Awaited(k)

\* Each step of a request, of clear_cache, the issuer and time.
LEMMA LimitStep == TypeOK /\ LimitInv /\ [Next]_vars => LimitInv'
<1> SUFFICES ASSUME TypeOK, LimitInv, [Next]_vars,
                    NEW k \in Uri, last_fetch'[k] < MinInterval
             PROVE  (k \in jwks \/ Awaited(k))'
  BY DEF LimitInv
<1> USE DEF cache, environment, clear, history, At
<1>0. /\ last_fetch[k] \in 0..MinInterval
      /\ last_fetch[k] < MinInterval => k \in jwks \/ Awaited(k)
  BY DEF LimitInv, TypeOK, Key
<1>1. CASE UNCHANGED vars \/ MoveKeys \/ ClearMetadata
  BY <1>0, <1>1 DEF vars, MoveKeys, ClearMetadata, Awaited
<1>2. CASE Tick
  <2>1. last_fetch'[k] = Older(last_fetch[k], MinInterval)
    BY <1>2 DEF Tick, Key
  <2>2. last_fetch[k] < MinInterval
    BY <1>0, <2>1 DEF Older
  <2> QED BY <1>0, <1>2, <2>2 DEF Tick, Awaited
<1>3. CASE ClearJwks
  BY <1>0, <1>3 DEF ClearJwks, Awaited
<1>4. CASE ClearLastFetch
  BY <1>4, AgeAssumption DEF ClearLastFetch, Key
<1>5. ASSUME NEW t \in Task, RecordFetch(t) PROVE (k \in jwks \/ Awaited(k))'
  <2>1. task' = [task EXCEPT ![t] = [at |-> "sent", key |-> task[t].key]]
    BY <1>5 DEF RecordFetch, Go
  <2>2. CASE task[t].key = k
    BY <2>1, <2>2 DEF Awaited, TypeOK
  <2>3. CASE task[t].key # k
    <3>1. last_fetch'[k] = last_fetch[k]
      BY <1>5, <2>3 DEF RecordFetch, Recorded, TypeOK, Key
    <3>2. \A u \in Task : u # t => task'[u] = task[u]
      BY <1>5, OthersStay DEF Fetch
    <3>3. UNCHANGED jwks /\ lost' = lost \ {task[t].key}
      BY <1>5 DEF RecordFetch
    <3> QED BY <1>0, <1>5, <2>3, <3>1, <3>2, <3>3 DEF Awaited, RecordFetch
  <2> QED BY <2>2, <2>3
<1>6. ASSUME NEW t \in Task, StoreKeys(t) PROVE (k \in jwks \/ Awaited(k))'
  <2>1. \A u \in Task : u # t => task'[u] = task[u]
    BY <1>6, OthersStay DEF Fetch
  <2> QED BY <1>0, <1>6, <2>1 DEF StoreKeys, Awaited
<1>7. ASSUME NEW t \in Task, Respond(t) PROVE (k \in jwks \/ Awaited(k))'
  <2>1. /\ task'[t].at = "arrived" /\ task'[t].key = task[t].key
        /\ \A u \in Task : u # t => task'[u] = task[u]
    BY <1>7 DEF Respond, TypeOK
  <2>2. UNCHANGED <<last_fetch, jwks, lost>>
    BY <1>7 DEF Respond
  <2>3. CASE k \in jwks \/ k \in lost
    BY <2>2, <2>3 DEF Awaited
  <2>4. ASSUME NEW u \in Task, task[u].key = k, task[u].at \in {"sent", "arrived"}
        PROVE  Awaited(k)'
    <3>1. task'[u].key = k /\ task'[u].at \in {"sent", "arrived"}
      BY <2>1, <2>4
    <3> QED BY <3>1 DEF Awaited
  <2> QED BY <1>0, <2>2, <2>3, <2>4 DEF Awaited
<1>8. ASSUME NEW t \in Task, FetchFails(t) PROVE (k \in jwks \/ Awaited(k))'
  <2>1. \A u \in Task : u # t => task'[u] = task[u]
    BY <1>8, OthersStay
  <2> QED BY <1>0, <1>8, <2>1 DEF FetchFails, Awaited
<1>9. ASSUME NEW t \in Task, Fetch(t), ~RecordFetch(t), ~StoreKeys(t), ~Respond(t)
      PROVE  (k \in jwks \/ Awaited(k))'
  <2>1. \A u \in Task : u # t => task'[u] = task[u]
    BY <1>9, OthersStay
  <2>2. UNCHANGED <<last_fetch, jwks, lost>>
    BY <1>9 DEF Fetch, Resolve, LookForMetadata, LookForStaleMetadata,
       StoreMetadata, LookForKeys, LookForKeysAgain, CanFetch
  <2>3. task[t].key = k => task[t].at \notin {"sent", "arrived"}
    BY <1>9, KeyAssumption DEF Fetch, Resolve, LookForMetadata,
       LookForStaleMetadata, StoreMetadata, LookForKeys, LookForKeysAgain, CanFetch
  <2> QED BY <1>0, <2>1, <2>2, <2>3 DEF Awaited
<1> QED
  BY <1>1, <1>2, <1>3, <1>4, <1>5, <1>6, <1>7, <1>8, <1>9 DEF Next, Clear

\* However the requests, their failures and a clear_cache interleave, one is told
\* RateLimited only of keys that are on their way or that the last fetch left
\* unavailable, or when the interval has run out meanwhile.
THEOREM LimitIsExplained == Spec => LimitExplained
<1>1. Init => LimitInv
  BY AgeAssumption DEF Init, LimitInv, Key
<1>2. TypeOK /\ LimitInv /\ [Next]_vars =>
        [\A t \in Task :
           task[t].at # "limited" /\ task'[t].at = "limited" =>
             Awaited(task[t].key) \/ last_fetch[task[t].key] >= MinInterval]_vars
  <2> SUFFICES ASSUME TypeOK, LimitInv, [Next]_vars, NEW t \in Task,
                      task[t].at # "limited", task'[t].at = "limited"
               PROVE  Awaited(task[t].key) \/ last_fetch[task[t].key] >= MinInterval
    OBVIOUS
  <2>1. Fetch(t) \/ FetchFails(t)
    BY OthersStay, OtherSteps DEF Next
  <2>2. LookForKeysAgain(t)
    BY <2>1 DEF Fetch, FetchFails, Resolve, LookForMetadata,
       LookForStaleMetadata, StoreMetadata, LookForKeys, StoreKeys, CanFetch,
       RecordFetch, Respond, Go, TypeOK
  <2>3. task[t].key \in Uri /\ task[t].key \notin jwks
    BY <2>2 DEF LookForKeysAgain, At, Go, TypeOK
  <2>4. last_fetch[task[t].key] \in 0..MinInterval
    BY <2>3 DEF TypeOK, Key
  <2>5. last_fetch[task[t].key] < MinInterval => Awaited(task[t].key)
    BY <2>3 DEF LimitInv
  <2> QED BY <2>4, <2>5, AgeAssumption
<1>3. TypeOK /\ LimitInv /\ [Next]_vars => LimitInv'
  BY LimitStep
<1> QED BY <1>1, <1>2, <1>3, TypeCorrect, PTL DEF Spec, LimitExplained

\* Whoever asked last, last_fetch is at most as old as the last fetch of each
\* request; one that may fetch has not done so for an interval, and nobody but
\* itself changes that before it does.
GapInv ==
  /\ \A t \in Task, u \in Uri : last_fetch[u] <= gap[t][u]
  /\ \A t \in Task : At(t, "send", Uri) => gap[t][task[t].key] >= MinInterval

LEMMA OlderGrows ==
  ASSUME NEW a \in 0..MinInterval, NEW b \in 0..MinInterval
  PROVE  /\ a <= b => Older(a, MinInterval) <= Older(b, MinInterval)
         /\ a >= MinInterval => Older(a, MinInterval) >= MinInterval
  BY AgeAssumption DEF Older

\* Each step of a request, of clear_cache, the issuer and time.
LEMMA GapStep == TypeOK /\ GapInv /\ [Next]_vars => GapInv'
<1> SUFFICES ASSUME TypeOK, GapInv, [Next]_vars PROVE GapInv'
  OBVIOUS
<1> USE DEF GapInv, At, cache, environment, clear, history
<1>0. /\ \A u \in Uri : last_fetch[u] \in 0..MinInterval
      /\ \A t \in Task, u \in Uri : gap[t][u] \in 0..MinInterval
  BY DEF TypeOK, Key
<1>1. CASE UNCHANGED vars \/ MoveKeys \/ ClearMetadata \/ ClearJwks
  BY <1>1 DEF vars, MoveKeys, ClearMetadata, ClearJwks
<1>2. CASE Tick
  <2>1. /\ \A u \in Uri : last_fetch'[u] = Older(last_fetch[u], MinInterval)
        /\ \A t \in Task, u \in Uri : gap'[t][u] = Older(gap[t][u], MinInterval)
        /\ task' = task
    BY <1>2 DEF Tick, Key
  <2> QED BY <1>0, <2>1, OlderGrows
<1>3. CASE ClearLastFetch
  <2>1. /\ \A u \in Uri : last_fetch'[u] = MinInterval
        /\ \A t \in Task, u \in Uri : gap'[t][u] = MinInterval
    BY <1>3 DEF ClearLastFetch, Key
  <2> QED BY <1>3, <2>1, AgeAssumption DEF ClearLastFetch
<1>4. ASSUME NEW t \in Task, RecordFetch(t) PROVE GapInv'
  <2>1. \A u \in Uri : last_fetch'[u] = IF u = task[t].key THEN 0 ELSE last_fetch[u]
    BY <1>4 DEF RecordFetch, Recorded, TypeOK, Key
  <2>2. /\ gap' \in [Task -> [Uri -> 0..MinInterval]]
        /\ \A u \in Uri : gap'[t][u] = IF u = task[t].key THEN 0 ELSE gap[t][u]
        /\ \A v \in Task : v # t => gap'[v] = gap[v]
    BY <1>4, GapSent
  <2>3. task'[t].at = "sent" /\ \A v \in Task : v # t => task'[v] = task[v]
    BY <1>4 DEF RecordFetch, Go, TypeOK
  <2>4. ASSUME NEW v \in Task, NEW u \in Uri
        PROVE  last_fetch'[u] <= gap'[v][u]
    <3>1. CASE u = task[t].key
      <4>1. gap'[v][u] \in 0..MinInterval
        BY <2>2
      <4> QED BY <2>1, <3>1, <4>1
    <3>2. CASE u # task[t].key
      BY <2>1, <2>2, <3>2
    <3> QED BY <3>1, <3>2
  <2> QED BY <2>2, <2>3, <2>4
<1>5. ASSUME NEW t \in Task, CanFetch(t) PROVE GapInv'
  <2>1. /\ task'[t].at = "send" => last_fetch[task[t].key] >= MinInterval
        /\ task'[t].key = task[t].key
        /\ \A v \in Task : v # t => task'[v] = task[v]
        /\ UNCHANGED <<last_fetch, gap>>
    BY <1>5 DEF CanFetch, Go, TypeOK
  <2>2. task[t].key \in Uri /\ task'[t].at = "send" => gap[t][task[t].key] >= MinInterval
    <3> SUFFICES ASSUME task[t].key \in Uri, task'[t].at = "send"
                 PROVE  gap[t][task[t].key] >= MinInterval
      OBVIOUS
    <3>1. last_fetch[task[t].key] <= gap[t][task[t].key]
      OBVIOUS
    <3> QED BY <1>0, <2>1, <3>1, AgeAssumption
  <2> QED BY <2>1, <2>2
<1>6. ASSUME NEW t \in Task, (Fetch(t) /\ ~RecordFetch(t) /\ ~CanFetch(t)) \/ FetchFails(t)
      PROVE  GapInv'
  <2>1. UNCHANGED <<last_fetch, gap>>
    BY <1>6 DEF Fetch, FetchFails, Resolve, LookForMetadata,
       LookForStaleMetadata, StoreMetadata, LookForKeys, LookForKeysAgain,
       StoreKeys, Respond
  <2>2. task'[t].at = "send" => task'[t].key = Document
    BY <1>6 DEF Fetch, FetchFails, Resolve, LookForMetadata,
       LookForStaleMetadata, StoreMetadata, LookForKeys, LookForKeysAgain,
       StoreKeys, Respond, Go, TypeOK
  <2>3. \A v \in Task : v # t => task'[v] = task[v]
    BY <1>6, OthersStay
  <2> QED BY <2>1, <2>2, <2>3, KeyAssumption
<1> QED
  BY <1>1, <1>2, <1>3, <1>4, <1>5, <1>6 DEF Next, Clear

\* However many requests run at once (metadata.rs:155 and :164 are two lock
\* acquisitions), none fetches the same keys twice within the interval, also
\* after failures; clear_cache starts afresh.
THEOREM OwnFetchGapKept == Spec => OwnFetchGap
<1>1. Init => GapInv
  BY AgeAssumption DEF Init, GapInv, At, Key
<1>2. TypeOK /\ GapInv /\ [Next]_vars =>
        [\A t \in Task :
           At(t, "send", Uri) /\ task'[t].at = "sent" =>
             gap[t][task[t].key] >= MinInterval]_vars
  BY DEF GapInv
<1>3. TypeOK /\ GapInv /\ [Next]_vars => GapInv'
  BY GapStep
<1> QED BY <1>1, <1>2, <1>3, TypeCorrect, PTL DEF Spec, OwnFetchGap

\* With one request at a time nobody fetches the keys at a uri twice within
\* the minimal interval.
THEOREM FetchGapKept ==
  ASSUME NEW only \in Task, Task = {only}
  PROVE  Spec => FetchGap
<1>1. [\A t \in Task :
         At(t, "send", Uri) /\ task'[t].at = "sent" =>
           gap[t][task[t].key] >= MinInterval]_vars
      => [\A t \in Task :
            At(t, "send", Uri) /\ task'[t].at = "sent" =>
              \A u \in Task : gap[u][task[t].key] >= MinInterval]_vars
  OBVIOUS
<1> QED BY <1>1, OwnFetchGapKept, PTL DEF OwnFetchGap, FetchGap

=============================================================================
