----------------------- MODULE ResourceManagedProofs -----------------------
(* Theorems about ResourceConsent and ResourceManaged, for any number of   *)
(* calls, handlers, requests and restarts, any policy and any lifetime.    *)
EXTENDS ResourceManaged, TLAPS

-----------------------------------------------------------------------------
(* The resource: its records, tasks and responses *)

\* None is neither a time nor a token, and the current epoch is a token.
LEMMA Constants ==
  /\ None \notin Nat /\ None \notin Life /\ None \notin Token
  /\ TTL \in Life
  /\ 0 \in Token
  BY NoneAssumption, TTLAssumption, TokenAssumption DEF Life

\* A poll in flight is in a slot that is not idle, and concerns a request
\* (poll_pending's parameters and locals).
LEMMA TaskKinds ==
  ASSUME NEW t \in Task, t # Idle
  PROVE  /\ t.at \in {"remove", "respond"}
         /\ t.id \in Id
         /\ t.response \in Response
         /\ t.at # Idle.at
  BY DEF Task, Idle

\* poll_outcome_from_snapshot, for a record of the store.
LEMMA AnswerType ==
  ASSUME NEW r \in Record
  PROVE  /\ Answer(r) \in Response
         /\ Answer(r).status = 410 => r.snapshot = Error(410)
         /\ (Answer(r).status = 200) <=> (r.snapshot.state = "token")
         /\ Answer(r).access =
              IF r.snapshot.state = "token" THEN r.snapshot.token ELSE None
<1> DEFINE s == r.snapshot
<1>1. /\ r.requirement \in Requirement
      /\ s \in WaitingSnapshot \/ s \in TokenSnapshot \/ s \in ErrorSnapshot
  BY DEF Record, Snapshot, Outcome
<1>2. CASE s \in WaitingSnapshot
  <2>1. s.state = "waiting"
    BY <1>2 DEF WaitingSnapshot
  <2>2. Answer(r) = [status |-> 202, requirement |-> r.requirement, access |-> None]
    BY <2>1 DEF Answer, Plain
  <2> QED BY <1>1, <2>1, <2>2 DEF Response
<1>3. CASE s \in TokenSnapshot
  <2>1. s.state = "token" /\ s.token \in Token
    BY <1>3 DEF TokenSnapshot
  <2>2. Answer(r) = [status |-> 200, requirement |-> None, access |-> s.token]
    BY <2>1 DEF Answer, Plain
  <2> QED BY <2>1, <2>2 DEF Response
<1>4. CASE s \in ErrorSnapshot
  <2>1. s.state = "error" /\ s.failure \in PollingStatus
    BY <1>4, FailureAssumption DEF ErrorSnapshot
  <2>2. Answer(r) = [status |-> s.failure, requirement |-> None, access |-> None]
    BY <2>1 DEF Answer, Plain
  <2>3. s.failure # 200
    BY <2>1 DEF PollingStatus
  <2>4. s.failure = 410 => s = Error(410)
    BY <1>4 DEF ErrorSnapshot, Error
  <2> QED BY <2>1, <2>2, <2>3, <2>4 DEF Response
<1> QED BY <1>1, <1>2, <1>3, <1>4

\* What poll_auth_pending finds and answers.
LEMMA LoadedType ==
  ASSUME ResourceTypeOK, NEW i \in Id
  PROVE  /\ Loaded(i) \in Task
         /\ Loaded(i) # Idle
         /\ Loaded(i).id = i
         /\ Loaded(i).response.status = 410 =>
              \/ store[i] = NoRecord
              \/ Expired(store[i])
              \/ store[i] # NoRecord /\ store[i].snapshot = Error(410)
         /\ Loaded(i).at = "remove" /\ Loaded(i).response.status # 200 =>
              /\ store[i] # NoRecord
              /\ Expired(store[i])
              /\ Loaded(i).response.status = 410
         /\ Loaded(i).response.status = 200 =>
              /\ store[i] # NoRecord
              /\ store[i].snapshot.state = "token"
              /\ Loaded(i).response.access = store[i].snapshot.token
         /\ Loaded(i).response.status # 200 => Loaded(i).response.access = None
<1>1. Plain(410) \in Response /\ Plain(410).status = 410 /\ Plain(410).access = None
  BY DEF Plain, Response, PollingStatus
<1>2. Idle.at = "idle"
  BY DEF Idle
<1>3. CASE store[i] = NoRecord
  <2>1. Loaded(i) = [at |-> "respond", id |-> i, response |-> Plain(410)]
    BY <1>3 DEF Loaded, Gone
  <2> HIDE DEF Loaded, Idle, Plain
  <2> QED BY <1>1, <1>2, <1>3, <2>1 DEF Task
<1>4. CASE store[i] # NoRecord /\ Expired(store[i])
  <2>1. Loaded(i) = [at |-> "remove", id |-> i, response |-> Plain(410)]
    BY <1>4 DEF Loaded, Gone
  <2> QED BY <1>1, <1>2, <1>4, <2>1 DEF Task
<1>5. CASE store[i] # NoRecord /\ ~Expired(store[i])
  <2> DEFINE r == store[i]
             place == IF r.snapshot.state = "token" THEN "remove" ELSE "respond"
  <2>1. r \in Record
    BY <1>5 DEF ResourceTypeOK
  <2>2. Loaded(i) = [at |-> place, id |-> i, response |-> Answer(r)]
    BY <1>5 DEF Loaded
  <2>3. place \in {"remove", "respond"}
    OBVIOUS
  <2>4. place = "remove" <=> r.snapshot.state = "token"
    OBVIOUS
  <2> HIDE DEF place
  <2> QED BY <1>2, <1>5, <2>1, <2>2, <2>3, <2>4, AnswerType DEF Task
<1> QED BY <1>3, <1>4, <1>5

-----------------------------------------------------------------------------
(* Type correctness of the resource *)

\* What complete does to the store: the snapshot of one record.
LEMMA CompleteEffect ==
  ASSUME NEW s \in [Id -> Record \cup {NoRecord}], NEW i \in Id, NEW o \in Outcome,
         s[i] # NoRecord
  PROVE  /\ Complete(s, i, o) \in [Id -> Record \cup {NoRecord}]
         /\ Complete(s, i, o)[i] # NoRecord
         /\ Complete(s, i, o)[i].snapshot = o
         /\ Complete(s, i, o)[i].expires_at = s[i].expires_at
         /\ \A j \in Id : j # i => Complete(s, i, o)[j] = s[j]
<1> DEFINE r == [s[i] EXCEPT !.snapshot = o]
<1>1. s[i] \in Record
  OBVIOUS
<1>2. r \in Record /\ r.expires_at = s[i].expires_at /\ r.snapshot = o
  BY <1>1 DEF Record, Snapshot
<1>3. Complete(s, i, o) = [s EXCEPT ![i] = r]
  BY <1>1 DEF Complete
<1>4. r # NoRecord
  BY <1>2, RecordAssumption
<1> HIDE DEF r
<1> QED BY <1>2, <1>3, <1>4

\* One unit of time for a time left.
LEMMA AgedType ==
  /\ \A t \in Life : Aged(t) \in Life /\ (t < 0 => Aged(t) < 0)
  /\ Aged(None) = None
<1>1. \A t \in Life : Aged(t) \in Life /\ (t < 0 => Aged(t) < 0)
  BY TTLAssumption DEF Aged, Life
<1>2. Aged(None) = None
  BY Constants DEF Aged
<1> QED BY <1>1, <1>2

\* What a unit of time does to the records and to the requests.
LEMMA TickEffect ==
  ASSUME ResourceTypeOK, ResourceTick, NEW i \in Id
  PROVE  /\ life'[i] = Aged(life[i])
         /\ life'[i] \in Life \cup {None}
         /\ life'[i] = None <=> life[i] = None
         /\ life[i] # None /\ life[i] < 0 => life'[i] < 0
         /\ store[i] = NoRecord => store'[i] = NoRecord
         /\ store[i] # NoRecord =>
              /\ store'[i] \in Record
              /\ store'[i] # NoRecord
              /\ store'[i].expires_at = Aged(store[i].expires_at)
              /\ store'[i].snapshot = store[i].snapshot
<1>1. life[i] \in Life \cup {None}
  BY DEF ResourceTypeOK
<1>2. life'[i] = Aged(life[i])
  BY DEF ResourceTick
<1>3. store[i] = NoRecord => store'[i] = NoRecord
  BY DEF ResourceTick
<1>4. ASSUME store[i] # NoRecord
      PROVE  /\ store'[i] \in Record
             /\ store'[i] # NoRecord
             /\ store'[i].expires_at = Aged(store[i].expires_at)
             /\ store'[i].snapshot = store[i].snapshot
  <2>1. store[i] \in Record
    BY <1>4 DEF ResourceTypeOK
  <2>2. store'[i] = [store[i] EXCEPT !.expires_at = Aged(store[i].expires_at)]
    BY <1>4 DEF ResourceTick
  <2>3. Aged(store[i].expires_at) \in Life
    BY <2>1, AgedType DEF Record
  <2>4. store'[i] \in Record
    BY <2>1, <2>2, <2>3 DEF Record
  <2> QED BY <2>1, <2>2, <2>4, RecordAssumption DEF Record
<1> QED BY <1>1, <1>2, <1>3, <1>4, AgedType, Constants

\* A new record of the resource.
LEMMA NewRecord ==
  ASSUME ResourceTypeOK, NEW i \in Id, ConsentDefer(i)
  PROVE  store'[i] \in Record /\ store'[i] # NoRecord
<1>1. \E q \in Requirement : store'[i] =
        [expires_at |-> TTL, requirement |-> q, snapshot |-> Waiting("pending")]
  BY DEF ConsentDefer, Insert, ResourceTypeOK
<1>2. Waiting("pending") \in Snapshot
  BY DEF Waiting, Snapshot, WaitingSnapshot
<1> QED BY <1>1, <1>2, Constants, RecordAssumption DEF Record

LEMMA ResourceTypeInit == ResourceInit => ResourceTypeOK
<1> SUFFICES ASSUME ResourceInit PROVE ResourceTypeOK
  OBVIOUS
<1>1. task \in [Handler -> Task]
  BY DEF ResourceInit, Task
<1>2. store \in [Id -> Record \cup {NoRecord}]
  BY DEF ResourceInit
<1>3. life \in [Id -> Life \cup {None}]
  BY DEF ResourceInit
<1> QED BY <1>1, <1>2, <1>3, Constants DEF ResourceInit, ResourceTypeOK

LEMMA ResourceTypeStep ==
  ResourceTypeOK /\ [ResourceNext]_resourceVars => ResourceTypeOK'
<1> SUFFICES ASSUME ResourceTypeOK, [ResourceNext]_resourceVars PROVE ResourceTypeOK'
  OBVIOUS
<1> USE DEF ResourceTypeOK, resourceHistory
<1>1. CASE UNCHANGED resourceVars
  BY <1>1 DEF resourceVars
<1>2. ASSUME NEW i \in Id, ConsentDefer(i) PROVE ResourceTypeOK'
  <2> PICK requirement \in Requirement :
        store' = [store EXCEPT ![i] =
                    [expires_at |-> TTL, requirement |-> requirement,
                     snapshot |-> Waiting("pending")]]
    BY <1>2 DEF ConsentDefer, Insert
  <2>1. Waiting("pending") \in Snapshot
    BY DEF Waiting, Snapshot, WaitingSnapshot
  <2>2. store' \in [Id -> Record \cup {NoRecord}]
    BY <2>1, Constants DEF Record
  <2>3. life' \in [Id -> Life \cup {None}]
    BY <1>2, Constants DEF ConsentDefer
  <2> QED BY <1>2, <2>2, <2>3 DEF ConsentDefer
<1>3. ASSUME NEW i \in Id, Approve(i) PROVE ResourceTypeOK'
  <2>1. AuthToken(epoch) \in Outcome
    BY DEF AuthToken, Outcome, TokenSnapshot
  <2>2. store' \in [Id -> Record \cup {NoRecord}]
    BY <1>3, <2>1, CompleteEffect DEF Approve, Unanswered
  <2> QED BY <1>3, <2>2 DEF Approve
<1>4. ASSUME NEW i \in Id, Reject(i) PROVE ResourceTypeOK'
  <2> PICK f \in Failure : store' = Complete(store, i, Error(f))
    BY <1>4 DEF Reject
  <2>1. Error(f) \in Outcome
    BY DEF Error, Outcome, ErrorSnapshot
  <2>2. store' \in [Id -> Record \cup {NoRecord}]
    BY <1>4, <2>1, CompleteEffect DEF Reject, Unanswered
  <2>3. over' \in SUBSET Id
    BY <1>4 DEF Reject
  <2> QED BY <1>4, <2>2, <2>3 DEF Reject
<1>5. ASSUME NEW h \in Handler, RemovePending(h) PROVE ResourceTypeOK'
  <2>1. task[h] # Idle
    BY <1>5 DEF RemovePending, Idle
  <2>2. task[h].id \in Id /\ [task[h] EXCEPT !.at = "respond"] \in Task
    BY <2>1, TaskKinds DEF Task, Idle
  <2>3. task' \in [Handler -> Task]
    BY <1>5, <2>2 DEF RemovePending
  <2>4. store' \in [Id -> Record \cup {NoRecord}]
    BY <1>5, <2>2 DEF RemovePending, Remove
  <2>5. over' \in SUBSET Id
    BY <1>5, <2>2 DEF RemovePending
  <2> QED BY <1>5, <2>3, <2>4, <2>5 DEF RemovePending
<1>6. ASSUME NEW h \in Handler, Release(h) PROVE ResourceTypeOK'
  <2>1. task' \in [Handler -> Task]
    BY <1>6 DEF Release, Task
  <2> QED BY <1>6, <2>1 DEF Release
<1>7. ASSUME NEW h \in Handler, NEW i \in Id, PollPending(h, i) PROVE ResourceTypeOK'
  <2>1. task' \in [Handler -> Task]
    BY <1>7, LoadedType DEF PollPending
  <2> QED BY <1>7, <2>1 DEF PollPending
<1>8. CASE Restart
  <2>1. epoch' \in Token
    BY <1>8, TokenAssumption, TTLAssumption DEF Restart
  <2>2. task' \in [Handler -> Task]
    BY <1>8 DEF Restart, Task
  <2>3. store' \in [Id -> Record \cup {NoRecord}]
    BY <1>8 DEF Restart
  <2> QED BY <1>8, <2>1, <2>2, <2>3 DEF Restart
<1>9. CASE ResourceTick
  <2>1. DOMAIN life' = Id /\ DOMAIN store' = Id
    BY <1>9 DEF ResourceTick
  <2>2. life' = [i \in Id |-> life'[i]] /\ store' = [i \in Id |-> store'[i]]
    BY <1>9 DEF ResourceTick
  <2>3. life' \in [Id -> Life \cup {None}]
    BY <1>9, <2>2, TickEffect
  <2>4. store' \in [Id -> Record \cup {NoRecord}]
    BY <1>9, <2>2, TickEffect
  <2> QED BY <1>9, <2>3, <2>4 DEF ResourceTick
<1> QED
  BY <1>1, <1>2, <1>3, <1>4, <1>5, <1>6, <1>7, <1>8, <1>9 DEF ResourceNext

-----------------------------------------------------------------------------
(* Why a request is gone *)

\* What LifeInv says of one request and of one poll in flight.
RecordLife(i) ==
  /\ store[i] # NoRecord => store[i].expires_at = life[i]
  /\ life[i] # None /\ store[i] = NoRecord => Closed(i)
  /\ store[i] # NoRecord /\ store[i].snapshot = Error(410) => Closed(i)

PollLife(h) ==
  task[h] # Idle =>
    /\ life[task[h].id] # None
    /\ task[h].response.status = 410 => Closed(task[h].id)
    /\ task[h].at = "remove" /\ task[h].response.status # 200 =>
         /\ task[h].response.status = 410
         /\ life[task[h].id] < 0

LEMMA LifeParts ==
  LifeInv <=> (\A i \in Id : RecordLife(i)) /\ (\A h \in Handler : PollLife(h))
  BY DEF LifeInv, RecordLife, PollLife

\* What is over stays over, and what has begun stays begun, as long as the
\* time left only grows less.
LEMMA ClosedStays ==
  ASSUME NEW i \in Id,
         life[i] # None => life'[i] # None /\ (life[i] < 0 => life'[i] < 0),
         life[i] # None /\ i \in over => i \in over' \/ life'[i] < 0
  PROVE  Closed(i) => Closed(i)'
  BY DEF Closed

\* A poll that the step does not touch keeps what is known of it.
LEMMA PollKeepsLife ==
  ASSUME ResourceTypeOK, NEW h \in Handler, PollLife(h), task'[h] = task[h],
         \A i \in Id :
           /\ life[i] # None => life'[i] # None /\ (life[i] < 0 => life'[i] < 0)
           /\ life[i] # None /\ i \in over => i \in over' \/ life'[i] < 0
  PROVE  PollLife(h)'
<1>1. CASE task[h] = Idle
  BY <1>1 DEF PollLife
<1>2. CASE task[h] # Idle
  <2>1. task[h].id \in Id
    BY <1>2, TaskKinds DEF ResourceTypeOK
  <2> QED BY <1>2, <2>1, ClosedStays DEF PollLife
<1> QED BY <1>1, <1>2

\* A record the step does not touch, of a request whose time stands still.
LEMMA RecordKeepsLife ==
  ASSUME NEW i \in Id, RecordLife(i), store'[i] = store[i], life'[i] = life[i],
         over \subseteq over'
  PROVE  RecordLife(i)'
  BY DEF RecordLife, Closed

\* A record that is there belongs to a request that was made.
LEMMA RecordBegun ==
  ASSUME ResourceTypeOK, NEW i \in Id, RecordLife(i), store[i] # NoRecord
  PROVE  life[i] # None
  BY Constants DEF ResourceTypeOK, RecordLife, Record

LEMMA LifeStep ==
  ResourceTypeOK /\ LifeInv /\ [ResourceNext]_resourceVars => LifeInv'
<1> SUFFICES ASSUME ResourceTypeOK, \A i \in Id : RecordLife(i),
                    \A h \in Handler : PollLife(h),
                    [ResourceNext]_resourceVars
             PROVE  /\ \A i \in Id : RecordLife(i)'
                    /\ \A h \in Handler : PollLife(h)'
  BY LifeParts DEF LifeInv, RecordLife, PollLife
<1> DEFINE Goal == (\A i \in Id : RecordLife(i)') /\ (\A h \in Handler : PollLife(h)')
<1>1. CASE UNCHANGED resourceVars
  BY <1>1 DEF resourceVars, resourceHistory, RecordLife, PollLife, Closed
<1>2. ASSUME NEW i \in Id, ConsentDefer(i) PROVE Goal
  <2>1. /\ Unknown(i) /\ life' = [life EXCEPT ![i] = TTL]
        /\ task' = task /\ over' = over \ {i}
    BY <1>2 DEF ConsentDefer
  <2> PICK requirement :
        store' = [store EXCEPT ![i] =
                    [expires_at |-> TTL, requirement |-> requirement,
                     snapshot |-> Waiting("pending")]]
    BY <1>2 DEF ConsentDefer, Insert
  <2>2. \A j \in Id : j # i => life'[j] = life[j] /\ (Closed(j) <=> Closed(j)')
    BY <2>1 DEF ResourceTypeOK, Closed
  <2>3. ASSUME NEW h \in Handler PROVE PollLife(h)'
    <3>1. CASE task[h] = Idle
      BY <2>1, <3>1 DEF PollLife
    <3>2. CASE task[h] # Idle
      <4>1. task[h].id \in Id /\ task[h].id # i
        BY <2>1, <3>2, TaskKinds DEF Unknown, PollLife, ResourceTypeOK
      <4> QED BY <2>1, <2>2, <3>2, <4>1 DEF PollLife
    <3> QED BY <3>1, <3>2
  <2>4. ASSUME NEW j \in Id PROVE RecordLife(j)'
    <3>1. CASE j # i
      <4>1. store'[j] = store[j] /\ life'[j] = life[j]
        BY <2>1, <3>1 DEF ResourceTypeOK
      <4> QED BY <2>2, <3>1, <4>1 DEF RecordLife
    <3>2. CASE j = i
      <4>1. /\ store'[i].expires_at = TTL /\ life'[i] = TTL
            /\ store'[i].snapshot = Waiting("pending")
        BY <2>1 DEF ResourceTypeOK
      <4>2. Waiting("pending").state # Error(410).state
        BY DEF Waiting, Error
      <4>3. store'[i] # NoRecord
        BY <1>2, NewRecord
      <4> QED BY <3>2, <4>1, <4>2, <4>3 DEF RecordLife
    <3> QED BY <3>1, <3>2
  <2> QED BY <2>3, <2>4
<1>3. ASSUME NEW i \in Id, NEW o \in Outcome, Unanswered(i),
             store' = Complete(store, i, o), UNCHANGED <<task, life>>,
             over \subseteq over', o = Error(410) => i \in over'
      PROVE  Goal
  <2>1. \A h \in Handler : PollLife(h)'
    BY <1>3, PollKeepsLife
  <2>2. ASSUME NEW j \in Id PROVE RecordLife(j)'
    <3>1. CASE j # i
      <4>1. store'[j] = store[j]
        BY <1>3, <3>1, CompleteEffect DEF Unanswered, ResourceTypeOK
      <4> QED BY <1>3, <4>1, RecordKeepsLife
    <3>2. CASE j = i
      <4>1. /\ store'[i] # NoRecord /\ store'[i].snapshot = o
            /\ store'[i].expires_at = store[i].expires_at
        BY <1>3, CompleteEffect DEF Unanswered, ResourceTypeOK
      <4>2. life[i] # None
        BY <1>3, RecordBegun DEF Unanswered
      <4> QED BY <1>3, <3>2, <4>1, <4>2 DEF RecordLife, Closed, Unanswered
    <3> QED BY <3>1, <3>2
  <2> QED BY <2>1, <2>2
<1>4. ASSUME NEW i \in Id, Approve(i) PROVE Goal
  <2>1. AuthToken(epoch) \in Outcome
    BY DEF AuthToken, Outcome, TokenSnapshot, ResourceTypeOK
  <2>2. AuthToken(epoch).state # Error(410).state
    BY DEF AuthToken, Error
  <2> QED BY <1>3, <1>4, <2>1, <2>2 DEF Approve, resourceHistory
<1>5. ASSUME NEW i \in Id, Reject(i) PROVE Goal
  <2> PICK f \in Failure :
        /\ store' = Complete(store, i, Error(f))
        /\ over' = IF f = 410 THEN over \cup {i} ELSE over
    BY <1>5 DEF Reject
  <2>1. Error(f) \in Outcome
    BY DEF Error, Outcome, ErrorSnapshot
  <2>2. Error(f) = Error(410) => f = 410
    <3>1. Error(f).failure = f /\ Error(410).failure = 410
      BY DEF Error
    <3> QED BY <3>1
  <2> QED BY <1>3, <1>5, <2>1, <2>2 DEF Reject
<1>6. ASSUME NEW h \in Handler, RemovePending(h) PROVE Goal
  <2>1. task[h] # Idle /\ task[h].at = "remove"
    BY <1>6 DEF RemovePending, Idle
  <2> PICK i \in Id : i = task[h].id
    BY <2>1, TaskKinds DEF ResourceTypeOK
  <2>2. life[i] # None
    BY <2>1 DEF PollLife
  <2>3. /\ store' = [store EXCEPT ![i] = NoRecord] /\ life' = life
        /\ task' = [task EXCEPT ![h].at = "respond"]
        /\ over' = IF task[h].response.status = 200 THEN over \cup {i} ELSE over
    BY <1>6 DEF RemovePending, Remove
  <2>4. over \subseteq over'
    BY <2>3
  <2>5. ASSUME NEW j \in Id PROVE RecordLife(j)'
    <3>1. CASE j # i
      BY <2>3, <2>4, <3>1, RecordKeepsLife DEF ResourceTypeOK
    <3>2. CASE j = i
      <4>1. store'[i] = NoRecord
        BY <2>2, <2>3 DEF ResourceTypeOK
      <4>2. Closed(i)'
        BY <2>1, <2>2, <2>3 DEF Closed, PollLife
      <4> QED BY <3>2, <4>1, <4>2 DEF RecordLife
    <3> QED BY <3>1, <3>2
  <2>6. ASSUME NEW g \in Handler PROVE PollLife(g)'
    <3>1. CASE g # h
      BY <2>3, <2>4, <3>1, PollKeepsLife DEF ResourceTypeOK
    <3>2. CASE g = h
      <4>1. /\ task'[h].id = i /\ task'[h].response = task[h].response
            /\ task'[h].at = "respond"
        BY <2>1, <2>3, TaskKinds DEF ResourceTypeOK, Task, Idle
      <4>2. task[h].response.status = 410 => Closed(i)'
        BY <2>1, <2>2, <2>3, <2>4 DEF Closed, PollLife
      <4> QED BY <2>2, <2>3, <3>2, <4>1, <4>2 DEF PollLife
    <3> QED BY <3>1, <3>2
  <2> QED BY <2>5, <2>6
<1>7. ASSUME NEW h \in Handler, Release(h) PROVE Goal
  <2>1. /\ task' = [task EXCEPT ![h] = Idle]
        /\ UNCHANGED <<store, life, over>>
    BY <1>7 DEF Release, resourceHistory
  <2>2. \A i \in Id : RecordLife(i)'
    BY <2>1, RecordKeepsLife
  <2>3. ASSUME NEW g \in Handler PROVE PollLife(g)'
    <3>1. CASE g = h
      BY <2>1, <3>1 DEF PollLife, ResourceTypeOK
    <3>2. CASE g # h
      BY <2>1, <3>2, PollKeepsLife DEF ResourceTypeOK
    <3> QED BY <3>1, <3>2
  <2> QED BY <2>2, <2>3
<1>8. ASSUME NEW h \in Handler, NEW i \in Id, PollPending(h, i) PROVE Goal
  <2>1. /\ task' = [task EXCEPT ![h] = Loaded(i)] /\ life[i] # None
        /\ UNCHANGED <<store, life, over>>
    BY <1>8 DEF PollPending, resourceHistory
  <2>2. \A j \in Id : RecordLife(j)'
    BY <2>1, RecordKeepsLife
  <2>3. ASSUME NEW g \in Handler PROVE PollLife(g)'
    <3>1. CASE g # h
      BY <2>1, <3>1, PollKeepsLife DEF ResourceTypeOK
    <3>2. CASE g = h
      <4>1. task'[h] = Loaded(i)
        BY <2>1 DEF ResourceTypeOK
      <4>2. store[i] # NoRecord /\ Expired(store[i]) => life[i] < 0
        BY Constants DEF Expired, IsExpired, RecordLife, ResourceTypeOK, Record, Life
      <4>3. Loaded(i).response.status = 410 => Closed(i)
        BY <2>1, <4>2, LoadedType DEF RecordLife, Closed
      <4> QED BY <2>1, <3>2, <4>1, <4>2, <4>3, LoadedType DEF PollLife, Closed
    <3> QED BY <3>1, <3>2
  <2> QED BY <2>2, <2>3
<1>9. CASE Restart
  <2>1. /\ \A i \in Id : store'[i] = NoRecord
        /\ \A h \in Handler : task'[h] = Idle
        /\ life' = life /\ over' = {i \in Id : life[i] \in Nat}
    BY <1>9 DEF Restart
  <2>2. \A i \in Id : life[i] # None => Closed(i)'
    BY <2>1 DEF Closed, ResourceTypeOK, Life
  <2> QED BY <2>1, <2>2 DEF RecordLife, PollLife
<1>10. CASE ResourceTick
  <2>1. task' = task /\ over' = {i \in over : life'[i] \in Nat}
    BY <1>10 DEF ResourceTick
  <2>2. \A i \in Id :
          /\ life[i] # None => life'[i] # None /\ (life[i] < 0 => life'[i] < 0)
          /\ life[i] # None /\ i \in over => i \in over' \/ life'[i] < 0
    <3>1. ASSUME NEW i \in Id, life[i] # None PROVE life'[i] \in Life /\ life'[i] # None
      BY <1>10, <3>1, TickEffect
    <3> QED BY <1>10, <2>1, <3>1, TickEffect DEF Life
  <2>3. \A h \in Handler : PollLife(h)'
    BY <2>1, <2>2, PollKeepsLife
  <2>4. ASSUME NEW i \in Id PROVE RecordLife(i)'
    <3>1. Closed(i) => Closed(i)'
      BY <2>1, <2>2, ClosedStays
    <3> QED BY <1>10, <3>1, TickEffect DEF RecordLife
  <2> QED BY <2>3, <2>4
<1> QED
  BY <1>1, <1>2, <1>4, <1>5, <1>6, <1>7, <1>8, <1>9, <1>10 DEF ResourceNext

-----------------------------------------------------------------------------
(* The tokens of this epoch *)

RecordEpoch(i) ==
  store[i] # NoRecord /\ store[i].snapshot.state = "token" =>
    store[i].snapshot.token = epoch

PollEpoch(h) ==
  task[h] # Idle =>
    task[h].response.access = IF task[h].response.status = 200 THEN epoch ELSE None

LEMMA EpochParts ==
  EpochInv <=> (\A i \in Id : RecordEpoch(i)) /\ (\A h \in Handler : PollEpoch(h))
  BY DEF EpochInv, RecordEpoch, PollEpoch

\* However polls and restarts interleave, a grant and the answer that carries
\* it are of the process that issued them: no restart leaves one behind.
LEMMA EpochStep ==
  ResourceTypeOK /\ EpochInv /\ [ResourceNext]_resourceVars => EpochInv'
<1> SUFFICES ASSUME ResourceTypeOK, \A i \in Id : RecordEpoch(i),
                    \A h \in Handler : PollEpoch(h),
                    [ResourceNext]_resourceVars
             PROVE  /\ \A i \in Id : RecordEpoch(i)'
                    /\ \A h \in Handler : PollEpoch(h)'
  BY EpochParts DEF EpochInv, RecordEpoch, PollEpoch
<1> DEFINE Goal == (\A i \in Id : RecordEpoch(i)') /\ (\A h \in Handler : PollEpoch(h)')
<1>1. CASE UNCHANGED resourceVars
  BY <1>1 DEF resourceVars, RecordEpoch, PollEpoch
<1>2. ASSUME NEW i \in Id, ConsentDefer(i) PROVE Goal
  <2>1. UNCHANGED <<epoch, task>>
    BY <1>2 DEF ConsentDefer
  <2>2. \A j \in Id : j # i => store'[j] = store[j]
    BY <1>2 DEF ConsentDefer, Insert, ResourceTypeOK
  <2>3. store'[i].snapshot = Waiting("pending")
    BY <1>2 DEF ConsentDefer, Insert, ResourceTypeOK
  <2>4. Waiting("pending").state # "token"
    BY DEF Waiting
  <2>5. \A h \in Handler : PollEpoch(h)'
    BY <2>1 DEF PollEpoch
  <2>6. ASSUME NEW j \in Id PROVE RecordEpoch(j)'
    BY <2>1, <2>2, <2>3, <2>4 DEF RecordEpoch
  <2> QED BY <2>5, <2>6
<1>3. ASSUME NEW i \in Id, NEW o \in Outcome, Unanswered(i),
             store' = Complete(store, i, o), UNCHANGED <<epoch, task>>,
             o.state = "token" => o.token = epoch
      PROVE  Goal
  <2>1. store'[i].snapshot = o /\ \A j \in Id : j # i => store'[j] = store[j]
    BY <1>3, CompleteEffect DEF Unanswered, ResourceTypeOK
  <2>2. \A h \in Handler : PollEpoch(h)'
    BY <1>3 DEF PollEpoch
  <2>3. ASSUME NEW j \in Id PROVE RecordEpoch(j)'
    BY <1>3, <2>1 DEF RecordEpoch
  <2> QED BY <2>2, <2>3
<1>4. ASSUME NEW i \in Id, Approve(i) PROVE Goal
  <2>1. AuthToken(epoch) \in Outcome /\ AuthToken(epoch).token = epoch
    BY DEF AuthToken, Outcome, TokenSnapshot, ResourceTypeOK
  <2> QED BY <1>3, <1>4, <2>1 DEF Approve
<1>5. ASSUME NEW i \in Id, Reject(i) PROVE Goal
  <2> PICK f \in Failure : store' = Complete(store, i, Error(f))
    BY <1>5 DEF Reject
  <2>1. Error(f) \in Outcome /\ Error(f).state # "token"
    BY DEF Error, Outcome, ErrorSnapshot
  <2> QED BY <1>3, <1>5, <2>1 DEF Reject
<1>6. ASSUME NEW h \in Handler, RemovePending(h) PROVE Goal
  <2>1. task[h] # Idle
    BY <1>6 DEF RemovePending, Idle
  <2>2. /\ UNCHANGED epoch
        /\ \A i \in Id : store'[i] = store[i] \/ store'[i] = NoRecord
    BY <1>6 DEF RemovePending, Remove, ResourceTypeOK
  <2>3. \A g \in Handler : g # h => task'[g] = task[g]
    BY <1>6 DEF RemovePending, ResourceTypeOK
  <2>4. task'[h].response = task[h].response
    BY <1>6, <2>1, TaskKinds DEF RemovePending, ResourceTypeOK, Task, Idle
  <2>5. ASSUME NEW g \in Handler PROVE PollEpoch(g)'
    BY <2>1, <2>2, <2>3, <2>4 DEF PollEpoch
  <2>6. ASSUME NEW i \in Id PROVE RecordEpoch(i)'
    BY <2>2 DEF RecordEpoch
  <2> QED BY <2>5, <2>6
<1>7. ASSUME NEW h \in Handler, Release(h) PROVE Goal
  BY <1>7 DEF Release, RecordEpoch, PollEpoch, ResourceTypeOK
<1>8. ASSUME NEW h \in Handler, NEW i \in Id, PollPending(h, i) PROVE Goal
  <2>1. /\ UNCHANGED <<epoch, store>>
        /\ task'[h] = Loaded(i)
        /\ \A g \in Handler : g # h => task'[g] = task[g]
    BY <1>8 DEF PollPending, ResourceTypeOK
  <2>2. \A j \in Id : RecordEpoch(j)'
    BY <2>1 DEF RecordEpoch
  <2>3. ASSUME NEW g \in Handler PROVE PollEpoch(g)'
    BY <2>1, LoadedType DEF PollEpoch, RecordEpoch
  <2> QED BY <2>2, <2>3
<1>9. CASE Restart
  BY <1>9 DEF Restart, RecordEpoch, PollEpoch
<1>10. CASE ResourceTick
  <2>1. UNCHANGED <<epoch, task>>
    BY <1>10 DEF ResourceTick
  <2>2. \A h \in Handler : PollEpoch(h)'
    BY <2>1 DEF PollEpoch
  <2>3. ASSUME NEW i \in Id PROVE RecordEpoch(i)'
    BY <1>10, <2>1, TickEffect DEF RecordEpoch
  <2> QED BY <2>2, <2>3
<1> QED
  BY <1>1, <1>2, <1>4, <1>5, <1>6, <1>7, <1>8, <1>9, <1>10 DEF ResourceNext

-----------------------------------------------------------------------------
(* The resource's part of the invariant *)

ResourceInv == ResourceTypeOK /\ LifeInv /\ EpochInv

LEMMA ResourceInvInit == ResourceInit => ResourceInv
<1> SUFFICES ASSUME ResourceInit PROVE ResourceInv
  OBVIOUS
<1>1. \A i \in Id : store[i] = NoRecord /\ life[i] = None
  BY DEF ResourceInit
<1>2. \A h \in Handler : task[h] = Idle
  BY DEF ResourceInit
<1>3. \A i \in Id : RecordLife(i) /\ RecordEpoch(i)
  BY <1>1 DEF RecordLife, RecordEpoch
<1>4. \A h \in Handler : PollLife(h) /\ PollEpoch(h)
  BY <1>2 DEF PollLife, PollEpoch
<1> QED BY <1>3, <1>4, ResourceTypeInit, LifeParts, EpochParts DEF ResourceInv

LEMMA ResourceInvStep ==
  ResourceInv /\ [ResourceNext]_resourceVars => ResourceInv'
  BY ResourceTypeStep, LifeStep, EpochStep DEF ResourceInv

\* A record with a grant is removed by a poll that carries the grant away, by
\* one that found it expired, or with everything else by a restart.
LEMMA GrantKeptStep ==
  ASSUME ResourceInv, [ResourceNext]_resourceVars, NEW i \in Id,
         store[i] # NoRecord, store[i].snapshot.state = "token",
         store'[i] = NoRecord
  PROVE  \/ Expired(store[i])
         \/ Restart
         \/ \E h \in Handler :
              task[h].at = "remove" /\ task[h].id = i /\ task[h].response.access # None
<1>0. ResourceTypeOK /\ (\A h \in Handler : PollLife(h) /\ PollEpoch(h)) /\ RecordLife(i)
  BY LifeParts, EpochParts DEF ResourceInv
<1>1. CASE \E h \in Handler : RemovePending(h)
  <2> PICK h \in Handler : RemovePending(h)
    BY <1>1
  <2>1. task[h] # Idle /\ task[h].at = "remove"
    BY DEF RemovePending, Idle
  <2>2. task[h].id = i
    BY <2>1, <1>0 DEF RemovePending, Remove, ResourceTypeOK
  <2>3. CASE task[h].response.status = 200
    <3>1. task[h].response.access = epoch /\ epoch # None
      BY <1>0, <2>1, <2>3, Constants DEF PollEpoch, ResourceTypeOK
    <3> QED BY <2>1, <2>2, <3>1
  <2>4. CASE task[h].response.status # 200
    <3>1. life[i] < 0
      BY <1>0, <2>1, <2>2, <2>4 DEF PollLife
    <3> QED BY <1>0, <3>1 DEF RecordLife, Expired, IsExpired, ResourceTypeOK, Life, Record
  <2> QED BY <2>3, <2>4
<1>2. CASE \E j \in Id : Approve(j) \/ Reject(j)
  <2> PICK j \in Id, o \in Outcome : Unanswered(j) /\ store' = Complete(store, j, o)
    <3>1. AuthToken(epoch) \in Outcome /\ \A f \in Failure : Error(f) \in Outcome
      BY <1>0 DEF AuthToken, Error, Outcome, TokenSnapshot, ErrorSnapshot, ResourceTypeOK
    <3> QED BY <1>2, <3>1 DEF Approve, Reject
  <2> QED BY <1>0, CompleteEffect DEF Unanswered, ResourceTypeOK
<1>3. CASE \E j \in Id : ConsentDefer(j)
  <2> PICK j \in Id : ConsentDefer(j)
    BY <1>3
  <2>1. i # j
    BY <1>0, NewRecord
  <2> QED BY <1>0, <2>1 DEF ConsentDefer, Insert, ResourceTypeOK
<1>4. CASE ResourceTick
  BY <1>0, <1>4, TickEffect
<1>5. CASE UNCHANGED store
  BY <1>5
<1> QED
  BY <1>1, <1>2, <1>3, <1>4, <1>5
     DEF ResourceNext, resourceVars, Release, PollPending

-----------------------------------------------------------------------------
(* The polling loops *)

LEMMA OffType ==
  /\ Poll!Off.at = "off"
  /\ \A l \in Poll!Loop : l # Poll!Off /\ l.at \in {"top", "polling", "answering", "asleep"}
  BY DEF Poll!Off, Poll!Loop

\* A step of a loop of c leaves the others alone.
LEMMA MoveType ==
  ASSUME Poll!LoopTypeOK, NEW c \in Call, NEW l \in Poll!Loop \cup {Poll!Off},
         Poll!Move(c, l)
  PROVE  /\ Poll!LoopTypeOK'
         /\ loop'[c] = l
         /\ \A d \in Call : d # c => loop'[d] = loop[d]
  BY DEF Poll!LoopTypeOK, Poll!Move

\* An unfinished loop is one of the kinds its `at` says.
LEMMA Running ==
  ASSUME Poll!LoopTypeOK, NEW c \in Call, loop[c].at # "off"
  PROVE  /\ loop[c] \in Poll!Loop /\ loop[c] # Poll!Off
         /\ loop[c].url \in Id
         /\ loop[c].left \in Nat /\ loop[c].backoff \in Nat /\ loop[c].nap \in Nat
  BY OffType DEF Poll!LoopTypeOK, Poll!Loop

\* poll_deferred_with: what an answer makes of a loop.
LEMMA NextOfType ==
  ASSUME NEW l \in Poll!Loop, NEW reading, reading.retry_after \in {0, None}
  PROVE  Poll!NextOf(l, reading) \in Poll!Loop
<1>1. ASSUME NEW cap \in Nat
      PROVE  Poll!Pause(l, reading, cap) \in Poll!Loop
  <2> DEFINE nap == IF reading.retry_after = None THEN l.backoff ELSE reading.retry_after
             backoff == Poll!Lesser(2 * l.backoff, cap)
  <2>1. nap \in Nat
    BY DEF Poll!Loop
  <2>2. backoff \in Nat
    BY DEF Poll!Loop, Poll!Lesser
  <2>3. Poll!Pause(l, reading, cap) = [l EXCEPT !.nap = nap, !.backoff = backoff]
    BY DEF Poll!Pause
  <2> HIDE DEF nap, backoff
  <2> QED BY <2>1, <2>2, <2>3 DEF Poll!Loop
<1>2. ASSUME NEW m \in Poll!Loop, NEW place \in {"answering", "asleep"}
      PROVE  [m EXCEPT !.at = place] \in Poll!Loop
  BY DEF Poll!Loop
<1>3. PendingCap \in Nat /\ BusyCap \in Nat
  BY PollAssumption
<1>4. /\ Poll!Pause(l, reading, BusyCap) \in Poll!Loop
      /\ Poll!Pause(l, reading, PendingCap) \in Poll!Loop
  BY <1>1, <1>3
<1> QED BY <1>2, <1>4 DEF Poll!NextOf

\* The loop c goes on or ends.
LoopMoves(c) ==
  /\ Poll!LoopTypeOK'
  /\ loop[c] # Poll!Off
  /\ \A d \in Call : d # c => loop'[d] = loop[d]

LEMMA LoopSteps ==
  ASSUME Poll!LoopTypeOK, NEW c \in Call,
         \/ Poll!SendPoll(c)
         \/ Poll!HearAnswer(c)
         \/ Poll!Wake(c)
         \/ loop[c].at # "off" /\ Poll!Abandon(c)
  PROVE  LoopMoves(c)
<1> USE DEF LoopMoves
<1>1. CASE Poll!SendPoll(c)
  <2>1. loop[c].at # "off"
    BY <1>1 DEF Poll!SendPoll, Poll!Due
  <2>2. [loop[c] EXCEPT !.at = "polling"] \in Poll!Loop
    BY <2>1, Running DEF Poll!Loop
  <2> QED BY <1>1, <2>1, <2>2, Running, MoveType DEF Poll!SendPoll
<1>2. CASE Poll!HearAnswer(c)
  <2>1. loop[c].at # "off"
    BY <1>2 DEF Poll!HearAnswer
  <2>2. [loop[c] EXCEPT !.at = "asleep"] \in Poll!Loop
    BY <2>1, Running DEF Poll!Loop
  <2> QED BY <1>2, <2>1, <2>2, Running, MoveType DEF Poll!HearAnswer
<1>3. CASE Poll!Wake(c)
  <2>1. loop[c].at # "off"
    BY <1>3 DEF Poll!Wake
  <2>2. [loop[c] EXCEPT !.at = "top"] \in Poll!Loop
    BY <2>1, Running DEF Poll!Loop
  <2> QED BY <1>3, <2>1, <2>2, Running, MoveType DEF Poll!Wake
<1>4. CASE loop[c].at # "off" /\ Poll!Abandon(c)
  BY <1>4, Running, MoveType DEF Poll!Abandon
<1> QED BY <1>1, <1>2, <1>3, <1>4

LEMMA HearMoves ==
  ASSUME Poll!LoopTypeOK, NEW c \in Call, NEW reading,
         reading.retry_after \in {0, None}, Poll!Hear(c, reading)
  PROVE  /\ LoopMoves(c)
         /\ Poll!Ends(reading) => loop'[c] = Poll!Off
<1> DEFINE l == IF Poll!Ends(reading) THEN Poll!Off ELSE Poll!NextOf(loop[c], reading)
<1>1. loop[c].at # "off"
  BY DEF Poll!Hear
<1>2. l \in Poll!Loop \cup {Poll!Off}
  BY <1>1, Running, NextOfType
<1>3. Poll!Move(c, l) /\ (Poll!Ends(reading) => l = Poll!Off)
  BY DEF Poll!Hear
<1> HIDE DEF l
<1> QED BY <1>1, <1>2, <1>3, Running, MoveType DEF LoopMoves

\* The clock moves no loop from where it is.
LEMMA LaterType ==
  ASSUME Poll!LoopTypeOK, Poll!LoopTick
  PROVE  /\ Poll!LoopTypeOK'
         /\ \A c \in Call : loop[c] = Poll!Off => loop'[c] = Poll!Off
<1>1. \A n \in Nat : Poll!Less(n) \in Nat
  BY DEF Poll!Less
<1>2. ASSUME NEW c \in Call PROVE Poll!Later(loop[c]) \in Poll!Loop \cup {Poll!Off}
  <2>1. CASE loop[c] = Poll!Off
    BY <2>1 DEF Poll!Later
  <2>2. CASE loop[c] # Poll!Off
    <3> DEFINE left == Poll!Less(loop[c].left)
               nap == IF loop[c].at = "asleep" THEN Poll!Less(loop[c].nap) ELSE loop[c].nap
    <3>1. loop[c] \in Poll!Loop
      BY <2>2 DEF Poll!LoopTypeOK
    <3>2. left \in Nat /\ nap \in Nat
      BY <1>1, <3>1 DEF Poll!Loop
    <3>3. Poll!Later(loop[c]) = [loop[c] EXCEPT !.left = left, !.nap = nap]
      BY <2>2, <3>1 DEF Poll!Later, Poll!Loop
    <3> HIDE DEF left, nap
    <3> QED BY <3>1, <3>2, <3>3 DEF Poll!Loop
  <2> QED BY <2>1, <2>2
<1>3. loop' = [c \in Call |-> Poll!Later(loop[c])]
  BY DEF Poll!LoopTick
<1>4. Poll!Later(Poll!Off) = Poll!Off
  BY DEF Poll!Later
<1> QED BY <1>2, <1>3, <1>4 DEF Poll!LoopTypeOK

-----------------------------------------------------------------------------
(* The agent's client.  What AgentClientProofs proves is used under the    *)
(* name Proved; the two instances of the client are the same.              *)

Proved == INSTANCE AgentClientProofs WITH Seeded <- FALSE, MaxAges <- 0

\* What AgentClient assumes of its constants, which the resource shares.
LEMMA ClientAssumptions ==
  /\ MaxEpoch \in Nat /\ 0 \in Nat /\ FALSE \in BOOLEAN
  /\ None \notin Proved!Epoch
  BY NoneAssumption, TTLAssumption DEF Proved!Epoch

LEMMA SameTypes == Client!TypeOK <=> Proved!TypeOK
  BY DEF Client!TypeOK, Proved!TypeOK, Client!Epoch, Proved!Epoch,
    Client!State, Proved!State, Client!Waiting, Proved!Waiting,
    Client!Idle, Proved!Idle, Client!Ready, Proved!Ready,
    Client!Sent, Proved!Sent, Client!Answered, Proved!Answered,
    Client!Minted, Proved!Minted, Client!Purpose, Proved!Purpose,
    Client!Attempt, Proved!Attempt, Client!Agent, Proved!Agent,
    Client!Credential, Proved!Credential, Client!Answer, Proved!Answer

LEMMA SameSteps ==
  [Client!Next]_(Client!vars) => [Proved!Next]_(Proved!vars)
<1> USE DEF Client!Go, Proved!Go, Client!Send, Proved!Send, Client!Reply, Proved!Reply,
      Client!Idle, Proved!Idle, Client!Ready, Proved!Ready, Client!Agent, Proved!Agent,
      Client!environment, Proved!environment, Client!cache, Proved!cache,
      Client!history, Proved!history
<1>1. ASSUME NEW c \in Call, Client!Client(c) PROVE Proved!Client(c)
  BY <1>1 DEF Client!Client, Proved!Client,
    Client!BeginAuthorizeAttempt, Proved!BeginAuthorizeAttempt,
    Client!TryProactiveAuthorize, Proved!TryProactiveAuthorize,
    Client!NextAttempt, Proved!NextAttempt, Client!Usable, Proved!Usable,
    Client!AuthOf, Proved!AuthOf, Client!OpaqueOf, Proved!OpaqueOf,
    Client!AuthorizeAnswered, Proved!AuthorizeAnswered,
    Client!AuthorizePolled, Proved!AuthorizePolled,
    Client!RequestAnswered, Proved!RequestAnswered,
    Client!RequestPolled, Proved!RequestPolled,
    Client!RecordAuthToken, Proved!RecordAuthToken,
    Client!Observe, Proved!Observe, Client!Observed, Proved!Observed,
    Client!NewOpaque, Proved!NewOpaque, Client!Step, Proved!Step
<1>2. ASSUME NEW c \in Call, Client!Serve(c) PROVE Proved!Serve(c)
  BY <1>2 DEF Client!Serve, Proved!Serve, Client!Accept, Proved!Accept,
    Client!Reject, Proved!Reject, Client!Challenge, Proved!Challenge,
    Client!Defer, Proved!Defer, Client!Refuse, Proved!Refuse,
    Client!ExchangeToken, Proved!ExchangeToken, Client!Fail, Proved!Fail,
    Client!Presented, Proved!Presented, Client!Polling, Proved!Polling
<1>3. ASSUME NEW c \in Call, Client!SeedOpaque(c) PROVE Proved!SeedOpaque(c)
  BY <1>3 DEF Client!SeedOpaque, Proved!SeedOpaque
<1>4. Client!Environment => Proved!Environment
  BY DEF Client!Environment, Proved!Environment, Client!Revoke, Proved!Revoke,
    Client!Age, Proved!Age, Client!Usable, Proved!Usable
<1>5. UNCHANGED Client!vars => UNCHANGED Proved!vars
  BY DEF Client!vars, Proved!vars
<1> QED BY <1>1, <1>2, <1>3, <1>4, <1>5 DEF Client!Next, Proved!Next

LEMMA ClientTypeStep ==
  Client!TypeOK /\ [Client!Next]_(Client!vars) => Client!TypeOK'
<1>1. Proved!TypeOK /\ [Proved!Next]_(Proved!vars) => Proved!TypeOK'
  BY ClientAssumptions, Proved!TypeStep
<1>2. (Client!TypeOK <=> Proved!TypeOK)'
  BY SameTypes, PTL
<1> QED BY <1>1, <1>2, SameTypes, SameSteps

\* A client begins with nothing, and waits for nothing.
LEMMA ClientInit == Client!Init => Client!TypeOK
<1> SUFFICES ASSUME Client!Init PROVE Client!TypeOK
  OBVIOUS
<1>2. 0 \in Client!Epoch
  BY TTLAssumption DEF Client!Epoch
<1>3. call \in [Call -> Client!State]
  BY DEF Client!Init, Client!State, Client!Waiting
<1>4. rejected \in [Call -> SUBSET Client!Credential] /\ denied \subseteq Call
  BY DEF Client!Init
<1>5. tried \in BOOLEAN
  BY Zenon DEF Client!Init
<1>6. auth \in [epoch : Client!Epoch, aged : BOOLEAN] \cup {None}
  BY DEF Client!Init
<1>7. epoch \in Client!Epoch /\ opaque \in Client!Epoch \cup {None}
  BY <1>2 DEF Client!Init
<1>8. ages \in 0..0 /\ posts \in 0..2
  BY DEF Client!Init
<1> QED BY <1>3, <1>4, <1>5, <1>6, <1>7, <1>8 DEF Client!TypeOK

-----------------------------------------------------------------------------
(* Calls and their loops *)

CallPolling(c) ==
  /\ loop[c] # Poll!Off => call[c].at = "sent" /\ Client!Polling(c)
  /\ call[c].at = "answered" /\ call[c].answer.status = "accepted" =>
       deferral[c].location \in Id

LEMMA PollingParts == PollingInv <=> \A c \in Call : CallPolling(c)
  BY DEF PollingInv, CallPolling

\* A step that concerns the call c only.
Others(c) ==
  \A d \in Call : d # c =>
    loop'[d] = loop[d] /\ call'[d] = call[d] /\ deferral'[d] = deferral[d]

LEMMA OthersKeep ==
  ASSUME NEW c \in Call, Others(c), \A d \in Call : CallPolling(d), CallPolling(c)'
  PROVE  \A d \in Call : CallPolling(d)'
<1> SUFFICES ASSUME NEW d \in Call, d # c PROVE CallPolling(d)'
  OBVIOUS
<1>1. loop'[d] = loop[d] /\ call'[d] = call[d] /\ deferral'[d] = deferral[d]
  BY DEF Others
<1> QED BY <1>1 DEF CallPolling, Client!Polling

\* The states of a call's own steps.
LEMMA GoEffect ==
  ASSUME Client!TypeOK, NEW c \in Call, NEW s, Client!Go(c, s)
  PROVE  call'[c] = s /\ \A d \in Call : d # c => call'[d] = call[d]
  BY DEF Client!TypeOK, Client!Go

LEMMA ReplyEffect ==
  ASSUME Client!TypeOK, NEW c \in Call, NEW status, NEW access,
         Client!Reply(c, status, access, FALSE)
  PROVE  /\ call[c].at = "sent"
         /\ call'[c].at = "answered"
         /\ call'[c].answer.status = status
         /\ \A d \in Call : d # c => call'[d] = call[d]
<1> DEFINE s == [at |-> "answered", for |-> call[c].for, attempt |-> call[c].attempt,
                 answer |-> [status |-> status, access |-> access, challenge |-> FALSE]]
<1>1. call[c].at = "sent" /\ Client!Go(c, s)
  BY DEF Client!Reply
<1>2. s.at = "answered" /\ s.answer.status = status
  OBVIOUS
<1> HIDE DEF s
<1> QED BY <1>1, <1>2, GoEffect

\* A request that is not a poll is no loop's, and ends with no poll.
LEMMA AskedPolling ==
  ASSUME Client!TypeOK, NEW c \in Call, CallPolling(c), Asks(c),
         NEW status, NEW access, Client!Reply(c, status, access, FALSE),
         loop' = loop,
         status = "accepted" => deferral'[c].location \in Id
  PROVE  CallPolling(c)'
<1>1. loop[c] = Poll!Off
  BY DEF CallPolling, Asks, Client!Polling
<1> QED BY <1>1, ReplyEffect DEF CallPolling

LEMMA IdleSteps ==
  ASSUME Client!TypeOK, NEW c \in Call, CallPolling(c), Begin(c) \/ Step(c)
  PROVE  Others(c) /\ CallPolling(c)'
<1>1. UNCHANGED <<loop, deferral>>
  BY DEF Begin, Step
<1>2. \E s : /\ Client!Go(c, s) /\ s.at # "answered"
             /\ call[c].at # "sent"
  <2>1. Client!Idle.at = "idle" /\ Client!Ready.at = "next"
    BY DEF Client!Idle, Client!Ready
  <2>2. CASE Begin(c)
    <3>1. Client!Go(c, [at |-> "begin"]) /\ call[c] = Client!Idle
      BY <2>2 DEF Begin, Client!SeedOpaque
    <3> QED BY <2>1, <3>1
  <2>3. CASE Client!BeginAuthorizeAttempt(c)
    BY <2>1, <2>3 DEF Client!BeginAuthorizeAttempt
  <2>4. CASE Client!TryProactiveAuthorize(c)
    BY <2>1, <2>4 DEF Client!TryProactiveAuthorize, Client!Send
  <2>5. CASE Client!NextAttempt(c)
    <3>1. call[c].at # "sent"
      BY <2>1, <2>5 DEF Client!NextAttempt
    <3>2. \E a : Client!Go(c, [at |-> "sent", for |-> "request", attempt |-> a])
      BY <2>5 DEF Client!NextAttempt, Client!Send
    <3> QED BY <3>1, <3>2
  <2>6. CASE Client!AuthorizePolled(c)
    BY <2>1, <2>6 DEF Client!AuthorizePolled, Client!Observe
  <2>7. CASE Client!RequestPolled(c)
    BY <2>1, <2>7 DEF Client!RequestPolled, Client!Observe
  <2> QED BY <2>2, <2>3, <2>4, <2>5, <2>6, <2>7 DEF Step
<1>3. loop[c] = Poll!Off
  BY <1>2 DEF CallPolling
<1>4. /\ call'[c].at # "answered"
      /\ \A d \in Call : d # c => call'[d] = call[d]
  BY <1>2, GoEffect
<1> QED BY <1>1, <1>3, <1>4 DEF CallPolling, Others

\* A 202 is polled, any other answer is not.
LEMMA ReadAnswerStep ==
  ASSUME TypeOK, NEW c \in Call, CallPolling(c), ReadAnswer(c)
  PROVE  /\ Others(c)
         /\ CallPolling(c)'
         /\ Poll!LoopTypeOK'
         /\ prompted' \in SUBSET Id
<1> USE DEF TypeOK
<1> DEFINE answer == call[c].answer
<1>1. call[c].at = "answered" /\ loop[c] = Poll!Off
  BY DEF ReadAnswer, Client!AuthorizeAnswered, Client!RequestAnswered, Client!Observe,
         CallPolling
<1>2. call[c] \in Client!Answered
  BY <1>1 DEF Client!TypeOK, Client!State, Client!Waiting, Client!Idle, Client!Ready,
              Client!Sent, Client!Minted
<1>3. answer.status \in {"ok", "accepted", "refused", "unauthorized"}
  BY <1>2 DEF Client!Answered, Client!Answer
<1>4. ASSUME NEW attempt
      PROVE  /\ (Client!Step(attempt, answer) = "PollDeferred") <=> (answer.status = "accepted")
             /\ Client!Step(attempt, answer) \in
                  {"PollDeferred", "RetryWithOpaque", "Finish", "Invalidate", "ExchangeToken"}
  <2>1. (Client!Step(attempt, answer) = "PollDeferred") <=> (answer.status = "accepted")
    BY <1>3 DEF Client!Step
  <2>2. Client!Step(attempt, answer) \in
          {"PollDeferred", "RetryWithOpaque", "Finish", "Invalidate", "ExchangeToken"}
    BY <1>3 DEF Client!Step
  <2> QED BY <2>1, <2>2
<1>5. \E s : /\ Client!Go(c, s)
             /\ answer.status = "accepted" => s.at = "sent" /\ s.for \in {"authorize_poll", "poll"}
             /\ s.at # "answered"
  <2>1. Client!Idle.at = "idle" /\ Client!Ready.at = "next"
    BY DEF Client!Idle, Client!Ready
  <2>2. CASE Client!AuthorizeAnswered(c)
    BY <1>4, <2>1, <2>2 DEF Client!AuthorizeAnswered, Client!Send
  <2>3. CASE Client!RequestAnswered(c)
    <3> DEFINE attempt == call[c].attempt
               step == Client!Step(attempt, answer)
    <3>1. \/ step = "Finish" /\ Client!Go(c, Client!Idle)
          \/ step \in {"RetryWithOpaque", "Invalidate"} /\ Client!Go(c, Client!Ready)
          \/ step = "PollDeferred" /\ Client!Send(c, "poll", attempt)
          \/ step = "ExchangeToken" /\ Client!Go(c, [at |-> "exchange"])
      BY <1>4, <2>3 DEF Client!RequestAnswered
    <3> QED BY <1>4, <2>1, <3>1 DEF Client!Send
  <2> QED BY <2>2, <2>3 DEF ReadAnswer
<1>6. /\ call'[c].at # "answered"
      /\ answer.status = "accepted" =>
           call'[c].at = "sent" /\ call'[c].for \in {"authorize_poll", "poll"}
      /\ \A d \in Call : d # c => call'[d] = call[d]
  BY <1>5, GoEffect
<1>7. \A d \in Call : d # c => deferral'[d] = deferral[d]
  BY DEF ReadAnswer
<1>8. CASE answer.status = "accepted"
  <2> DEFINE i == deferral[c].location
             l == [at |-> "top", url |-> i, left |-> Poll!PollDuration, backoff |-> 1,
                   nap |-> 0]
  <2>1. i \in Id
    BY <1>1, <1>8 DEF CallPolling
  <2>2. Poll!PollDuration \in Nat
    BY PollAssumption DEF Poll!PollDuration
  <2>3. l \in Poll!Loop
    BY <2>1, <2>2 DEF Poll!Loop
  <2>4. Poll!Move(c, l) /\ prompted' \in {prompted, prompted \cup {i}}
    BY <1>8 DEF ReadAnswer, Poll!Start
  <2> HIDE DEF l
  <2>5. Poll!LoopTypeOK' /\ \A d \in Call : d # c => loop'[d] = loop[d]
    BY <2>3, <2>4, MoveType
  <2> QED BY <1>6, <1>7, <1>8, <2>1, <2>4, <2>5 DEF Others, CallPolling, Client!Polling
<1>9. CASE answer.status # "accepted"
  <2>1. UNCHANGED <<loop, prompted>>
    BY <1>9 DEF ReadAnswer
  <2> QED BY <1>1, <1>6, <1>7, <2>1 DEF Others, CallPolling, Poll!LoopTypeOK
<1> QED BY <1>8, <1>9

-----------------------------------------------------------------------------
(* The composition *)

Inv == TypeOK /\ LifeInv /\ EpochInv /\ PollingInv

LEMMA InvParts ==
  Inv <=> TypeOK /\ ResourceInv /\ \A c \in Call : CallPolling(c)
  BY PollingParts DEF Inv, ResourceInv, TypeOK

\* An answer that a call hears is one the resource has ready.
LEMMA HeardPoll ==
  ASSUME Inv, NEW c \in Call, HearPoll(c)
  PROVE  /\ via[c] \in Handler
         /\ task[via[c]] # Idle
         /\ task[via[c]].response \in Response
         /\ task[via[c]].response.access =
              IF task[via[c]].response.status = 200 THEN epoch ELSE None
         /\ loop[c].url \in Id
         /\ call[c].at = "sent" /\ Client!Polling(c)
<1>1. via[c] \in Handler /\ task[via[c]].at = "respond"
  BY DEF HearPoll, Inv, TypeOK
<1>2. task[via[c]] # Idle /\ task[via[c]] \in Task
  BY <1>1 DEF Idle, Inv, TypeOK, ResourceTypeOK
<1>3. loop[c].at # "off"
  BY DEF HearPoll
<1>4. loop[c] # Poll!Off /\ loop[c].url \in Id
  BY <1>3, Running DEF Inv, TypeOK
<1> QED BY <1>1, <1>2, <1>4, TaskKinds DEF Inv, EpochInv, PollingInv

\* What the composition does at the resource are steps of the resource.
LEMMA ResourceSteps == Inv /\ [Next]_vars => [ResourceNext]_resourceVars
<1> SUFFICES ASSUME Inv, [Next]_vars PROVE [ResourceNext]_resourceVars
  OBVIOUS
<1>1. CASE UNCHANGED resourceVars
  BY <1>1
<1>2. ASSUME NEW h \in Handler, FinishPoll(h) \/ Drop(h) PROVE ResourceNext
  BY <1>2 DEF FinishPoll, Drop, ResourceNext
<1>3. ASSUME NEW i \in Id, Interact(i) PROVE ResourceNext
  BY <1>3 DEF Interact, ResourceNext
<1>4. CASE Crash \/ Tick
  BY <1>4 DEF Crash, Tick, ResourceNext
<1>5. ASSUME NEW c \in Call, CallStep(c) PROVE [ResourceNext]_resourceVars
  <2>1. CASE \E i \in Id : Deferred(c, i)
    BY <2>1 DEF Deferred, ResourceNext
  <2>2. CASE ~ \E i \in Id : Deferred(c, i)
    <3>1. UNCHANGED resourceVars
      BY <1>5, <2>2 DEF CallStep, Serve, Begin, Step, ReadAnswer, Answered, Validated,
                        LoseRequest
    <3> QED BY <3>1
  <2> QED BY <2>1, <2>2
<1>6. ASSUME NEW c \in Call, LoopStep(c) PROVE [ResourceNext]_resourceVars
  <2>1. ASSUME NEW h \in Handler, SendPoll(c, h) \/ Duplicate(c, h) PROVE ResourceNext
    <3>1. loop[c].at # "off" /\ PollPending(h, loop[c].url)
      BY <2>1 DEF SendPoll, Duplicate, Poll!SendPoll, Poll!Due
    <3>2. loop[c].url \in Id
      BY <3>1, Running DEF Inv, TypeOK
    <3> QED BY <3>1, <3>2 DEF ResourceNext
  <2>2. CASE HearPoll(c)
    <3>1. via[c] \in Handler /\ Release(via[c])
      BY <2>2, HeardPoll DEF HearPoll
    <3> QED BY <3>1 DEF ResourceNext
  <2>3. CASE HearBusy(c) \/ HearAnswer(c) \/ Wake(c) \/ EndWithError(c)
    <3>1. UNCHANGED resourceVars
      BY <2>3 DEF HearBusy, HearAnswer, Wake, EndWithError
    <3> QED BY <3>1
  <2> QED BY <1>6, <2>1, <2>2, <2>3 DEF LoopStep, TimeOut, Lose, Broken
<1> QED BY <1>1, <1>2, <1>3, <1>4, <1>5, <1>6 DEF Next, vars

\* What it does to the client are steps of AgentClient: the answers are among
\* those AgentClient allows a resource, and each opaque token is current.
LEMMA ClientSteps == Inv /\ [Next]_vars => [Client!Next]_(Client!vars)
<1> SUFFICES ASSUME Inv, [Next]_vars PROVE [Client!Next]_(Client!vars)
  OBVIOUS
<1> DEFINE Goal == [Client!Next]_(Client!vars)
<1>1. CASE UNCHANGED <<epoch, clientVars>>
  BY <1>1 DEF clientVars, Client!vars
<1>2. CASE UNCHANGED vars
  BY <1>1, <1>2 DEF vars, resourceVars
<1>3. CASE Tick \/ \E h \in Handler : FinishPoll(h) \/ Drop(h)
  BY <1>1, <1>3 DEF Tick, ResourceTick, FinishPoll, RemovePending, Drop, Release
<1>4. ASSUME NEW i \in Id, Interact(i) PROVE Goal
  BY <1>1, <1>4 DEF Interact, Approve, Reject
<1>5. CASE Crash
  BY <1>5 DEF Crash, Restart, clientVars, Client!Next, Client!Environment,
              Client!Revoke, Client!cache, Client!history
<1>6. ASSUME NEW c \in Call,
             Client!SeedOpaque(c) \/ Client!Client(c) \/ Client!Serve(c)
      PROVE  Goal
  BY <1>6 DEF Client!Next
<1>7. ASSUME NEW c \in Call, CallStep(c) PROVE Goal
  <2>1. CASE Begin(c) \/ Step(c) \/ ReadAnswer(c)
    BY <1>6, <2>1 DEF Begin, Step, ReadAnswer, Client!Client
  <2>2. CASE \E i \in Id : Deferred(c, i)
    <3>1. Client!Defer(c)
      BY <2>2 DEF Deferred, AsksConsent, Asks, Client!Defer, Client!Polling
    <3> QED BY <1>6, <3>1 DEF Client!Serve
  <2>3. CASE Answered(c)
    <3>1. call[c].at = "sent" /\ Client!Presented(c) = Client!Agent
      BY <2>3 DEF Answered, AsksConsent, Asks, Client!Presented
    <3>2. Client!Accept(c, epoch) \/ Client!Refuse(c)
      BY <2>3, <3>1 DEF Answered, Client!Accept, Client!Refuse
    <3> QED BY <1>6, <3>2 DEF Client!Serve
  <2>4. CASE Validated(c)
    <3>1. /\ call[c].at = "sent" /\ Client!Presented(c) = call[c].attempt
          /\ call[c].attempt.kind = "opaque"
      BY <2>4 DEF Validated, Asks, Client!Presented, Client!Polling
    <3>2. call[c].attempt # Client!Agent
      BY <3>1 DEF Client!Agent
    <3>3. Client!Accept(c, None) \/ Client!Reject(c)
      BY <2>4, <3>1, <3>2 DEF Validated, ValidateOpaque, Client!Accept, Client!Reject
    <3> QED BY <1>6, <3>3 DEF Client!Serve
  <2>5. CASE LoseRequest(c)
    BY <1>6, <2>5 DEF LoseRequest, Client!Serve
  <2> QED BY <1>7, <2>1, <2>2, <2>3, <2>4, <2>5 DEF CallStep, Serve
<1>8. ASSUME NEW c \in Call, LoopStep(c) PROVE Goal
  <2>1. CASE \E h \in Handler : SendPoll(c, h) \/ Duplicate(c, h)
    BY <1>1, <2>1 DEF SendPoll, Duplicate, PollPending
  <2>2. CASE HearPoll(c)
    <3> DEFINE response == task[via[c]].response
    <3>1. /\ response.access = IF response.status = 200 THEN epoch ELSE None
          /\ call[c].at = "sent"
          /\ Client!Presented(c) = Client!Agent
      BY <2>2, HeardPoll DEF Client!Presented
    <3>2. CASE UNCHANGED clientVars
      BY <1>1, <2>2, <3>2 DEF HearPoll, Release
    <3>3. CASE Client!Reply(c, LastStatus(response), response.access, FALSE)
      <4>1. Client!Accept(c, epoch) \/ Client!Refuse(c)
        BY <3>1, <3>3 DEF LastStatus, Client!Accept, Client!Refuse
      <4> QED BY <1>6, <4>1 DEF Client!Serve
    <3> QED BY <2>2, <3>2, <3>3 DEF HearPoll
  <2>3. CASE HearBusy(c) \/ HearAnswer(c) \/ Wake(c)
    BY <1>1, <2>3 DEF HearBusy, HearAnswer, Wake, resourceVars
  <2>4. CASE EndWithError(c)
    BY <1>6, <2>4 DEF EndWithError, Client!Serve
  <2> QED BY <1>8, <2>1, <2>2, <2>3, <2>4 DEF LoopStep, TimeOut, Lose, Broken
<1> QED BY <1>2, <1>3, <1>4, <1>5, <1>7, <1>8 DEF Next

\* What the resource did to its stores is done; here is what becomes of the
\* calls, their loops and their connections.
OwnTypeOK ==
  /\ Poll!LoopTypeOK
  /\ prompted \in SUBSET Id
  /\ deferral \in [Call -> [location : Id, requirement : Requirement] \cup {None}]
  /\ via \in [Call -> Handler \cup {None}]

OwnInv == OwnTypeOK /\ \A c \in Call : CallPolling(c)

LEMMA CallStepKeeps ==
  ASSUME Inv, ResourceTypeOK', NEW c \in Call, CallStep(c)
  PROVE  OwnInv'
<1> USE DEF OwnInv, OwnTypeOK
<1>1. TypeOK /\ \A d \in Call : CallPolling(d)
  BY InvParts
<1>2. OwnTypeOK
  BY <1>1 DEF TypeOK
<1>3. Client!TypeOK
  BY <1>1 DEF TypeOK
<1>4. CASE Begin(c) \/ Step(c)
  <2>1. UNCHANGED <<loop, prompted, deferral, via>>
    BY <1>4 DEF Begin, Step
  <2>2. OwnTypeOK'
    BY <1>2, <2>1 DEF Poll!LoopTypeOK
  <2>3. \A d \in Call : CallPolling(d)'
    BY <1>1, <1>3, <1>4, IdleSteps, OthersKeep
  <2> QED BY <2>2, <2>3
<1>5. CASE ReadAnswer(c)
  <2>1. via' = via /\ deferral' = [deferral EXCEPT ![c] = None]
    BY <1>5 DEF ReadAnswer
  <2>2. OwnTypeOK'
    BY <1>1, <1>2, <1>5, <2>1, ReadAnswerStep
  <2>3. \A d \in Call : CallPolling(d)'
    BY <1>1, <1>5, ReadAnswerStep, OthersKeep
  <2> QED BY <2>2, <2>3
<1>6. ASSUME NEW i \in Id, Deferred(c, i) PROVE OwnInv'
  <2> DEFINE d0 == [location |-> i, requirement |-> store'[i].requirement]
  <2>1. /\ Asks(c) /\ Client!Reply(c, "accepted", None, FALSE)
        /\ deferral' = [deferral EXCEPT ![c] = d0]
        /\ prompted' = prompted \ {i}
        /\ UNCHANGED <<loop, via>>
    BY <1>6 DEF Deferred, AsksConsent
  <2>2. store'[i] \in Record
    BY <1>1, <1>6, NewRecord DEF Deferred, TypeOK
  <2>3. d0 \in [location : Id, requirement : Requirement] /\ d0.location = i
    BY <2>2 DEF Record
  <2> HIDE DEF d0
  <2>4. OwnTypeOK'
    BY <1>2, <2>1, <2>3 DEF Poll!LoopTypeOK
  <2>5. /\ deferral'[c].location \in Id
        /\ \A d \in Call : d # c => deferral'[d] = deferral[d]
    BY <1>2, <2>1, <2>3
  <2>6. CallPolling(c)'
    BY <1>1, <1>3, <2>1, <2>5, AskedPolling
  <2>7. Others(c)
    BY <1>3, <2>1, <2>5, ReplyEffect DEF Others
  <2> QED BY <1>1, <2>4, <2>6, <2>7, OthersKeep
<1>7. CASE Answered(c) \/ Validated(c)
  <2> PICK status \in {"ok", "refused", "unauthorized"} :
        \E access : Client!Reply(c, status, access, FALSE)
    BY <1>7 DEF Answered, Validated
  <2> PICK access : Client!Reply(c, status, access, FALSE)
    OBVIOUS
  <2>1. Asks(c) /\ UNCHANGED <<loop, prompted, deferral, via>>
    BY <1>7 DEF Answered, Validated, AsksConsent
  <2>2. OwnTypeOK'
    BY <1>2, <2>1 DEF Poll!LoopTypeOK
  <2>3. CallPolling(c)'
    BY <1>1, <1>3, <2>1, AskedPolling
  <2>4. Others(c)
    BY <1>3, <2>1, ReplyEffect DEF Others
  <2> QED BY <1>1, <2>2, <2>3, <2>4, OthersKeep
<1>8. CASE LoseRequest(c)
  <2>1. Asks(c) /\ Client!Go(c, Client!Idle) /\ UNCHANGED <<loop, prompted, deferral, via>>
    BY <1>8 DEF LoseRequest, Client!Fail
  <2>2. OwnTypeOK'
    BY <1>2, <2>1 DEF Poll!LoopTypeOK
  <2>3. /\ call'[c].at # "answered"
        /\ \A d \in Call : d # c => call'[d] = call[d]
    BY <1>3, <2>1, GoEffect DEF Client!Idle
  <2>4. loop[c] = Poll!Off
    BY <1>1, <2>1 DEF CallPolling, Asks, Client!Polling
  <2>5. CallPolling(c)' /\ Others(c)
    BY <2>1, <2>3, <2>4 DEF CallPolling, Others
  <2> QED BY <1>1, <2>2, <2>5, OthersKeep
<1> QED BY <1>4, <1>5, <1>6, <1>7, <1>8 DEF CallStep, Serve

\* A loop that goes on while its call waits.
LEMMA LoopGoesOn ==
  ASSUME Inv, NEW c \in Call, LoopMoves(c),
         \/ UNCHANGED call
         \/ loop'[c] = Poll!Off /\ call'[c].at = "idle"
              /\ \A d \in Call : d # c => call'[d] = call[d]
         \/ loop'[c] = Poll!Off /\ call'[c].at = "answered"
              /\ call'[c].answer.status # "accepted"
              /\ \A d \in Call : d # c => call'[d] = call[d],
         deferral' = deferral,
         prompted' \in SUBSET Id,
         via' \in [Call -> Handler \cup {None}]
  PROVE  OwnInv'
<1>1. TypeOK /\ \A d \in Call : CallPolling(d)
  BY InvParts
<1>2. CallPolling(c)'
  BY <1>1 DEF CallPolling, LoopMoves, Client!Polling
<1>3. Others(c)
  BY DEF Others, LoopMoves
<1>4. \A d \in Call : CallPolling(d)'
  BY <1>1, <1>2, <1>3, OthersKeep
<1> QED BY <1>1, <1>4 DEF OwnInv, OwnTypeOK, TypeOK, LoopMoves

LEMMA LoopStepKeeps ==
  ASSUME Inv, NEW c \in Call, LoopStep(c)
  PROVE  OwnInv'
<1>1. /\ Client!TypeOK /\ Poll!LoopTypeOK /\ prompted \in SUBSET Id
      /\ deferral \in [Call -> [location : Id, requirement : Requirement] \cup {None}]
      /\ via \in [Call -> Handler \cup {None}]
  BY DEF Inv, TypeOK
<1>2. ASSUME NEW h \in Handler, SendPoll(c, h) PROVE OwnInv'
  <2>1. LoopMoves(c)
    BY <1>1, <1>2, LoopSteps DEF SendPoll
  <2>2. UNCHANGED call /\ deferral' = deferral /\ prompted' = prompted
    BY <1>2 DEF SendPoll, clientVars
  <2>3. via' \in [Call -> Handler \cup {None}]
    BY <1>1, <1>2 DEF SendPoll
  <2> QED BY <1>1, <2>1, <2>2, <2>3, LoopGoesOn
<1>3. ASSUME NEW h \in Handler, Duplicate(c, h) PROVE OwnInv'
  <2>1. UNCHANGED <<call, loop, prompted, deferral, via>>
    BY <1>3 DEF Duplicate, clientVars
  <2>2. \A d \in Call : CallPolling(d)'
    BY <2>1, InvParts DEF CallPolling, Client!Polling
  <2> QED BY <1>1, <2>1, <2>2 DEF OwnInv, OwnTypeOK, Poll!LoopTypeOK
<1>4. CASE HearPoll(c)
  <2> DEFINE response == task[via[c]].response
             reading == Reading(response)
  <2>1. reading.retry_after \in {0, None} /\ Poll!Hear(c, reading)
    BY <1>4 DEF HearPoll, Reading, Poll!Reading
  <2>2. IF Poll!Ends(reading)
        THEN Client!Reply(c, LastStatus(response), response.access, FALSE)
        ELSE UNCHANGED call
    <3>1. IF Poll!Ends(reading)
          THEN Client!Reply(c, LastStatus(response), response.access, FALSE)
          ELSE UNCHANGED clientVars
      BY <1>4 DEF HearPoll
    <3>2. UNCHANGED clientVars => UNCHANGED call
      BY DEF clientVars
    <3> HIDE DEF reading, response
    <3> QED BY <3>1, <3>2
  <2>3. deferral' = deferral /\ prompted' \in SUBSET Id
    BY <1>1, <1>4, HeardPoll DEF HearPoll
  <2>4. via' \in [Call -> Handler \cup {None}]
    BY <1>1, <1>4 DEF HearPoll
  <2>5. LastStatus(response) # "accepted"
    BY DEF LastStatus
  <2> HIDE DEF reading, response
  <2>6. LoopMoves(c) /\ (Poll!Ends(reading) => loop'[c] = Poll!Off)
    BY <1>1, <2>1, HearMoves
  <2>7. Poll!Ends(reading) =>
          /\ call'[c].at = "answered" /\ call'[c].answer.status # "accepted"
          /\ \A d \in Call : d # c => call'[d] = call[d]
    <3> SUFFICES ASSUME Client!Reply(c, LastStatus(response), response.access, FALSE)
                 PROVE  /\ call'[c].at = "answered" /\ call'[c].answer.status # "accepted"
                        /\ \A d \in Call : d # c => call'[d] = call[d]
      BY <2>2
    <3> QED BY <1>1, <2>5 DEF Client!Reply, Client!Go, Client!TypeOK
  <2> QED BY <2>2, <2>3, <2>4, <2>6, <2>7, LoopGoesOn
<1>5. CASE HearBusy(c)
  <2>1. LoopMoves(c)
    <3>1. Poll!Reading(503, None, None).retry_after \in {0, None}
      BY DEF Poll!Reading
    <3> QED BY <1>1, <1>5, <3>1, HearMoves DEF HearBusy
  <2>2. UNCHANGED call /\ deferral' = deferral /\ prompted' = prompted
    BY <1>5 DEF HearBusy, clientVars
  <2>3. via' \in [Call -> Handler \cup {None}]
    BY <1>1, <1>5 DEF HearBusy
  <2> QED BY <1>1, <2>1, <2>2, <2>3, LoopGoesOn
<1>6. CASE HearAnswer(c) \/ Wake(c)
  <2>1. LoopMoves(c)
    BY <1>1, <1>6, LoopSteps DEF HearAnswer, Wake
  <2>2. UNCHANGED <<call, deferral, prompted, via>>
    BY <1>6 DEF HearAnswer, Wake, clientVars
  <2> QED BY <1>1, <2>1, <2>2, LoopGoesOn
<1>7. CASE loop[c].at # "off" /\ EndWithError(c)
  <2>1. LoopMoves(c)
    BY <1>1, <1>7, LoopSteps DEF EndWithError
  <2>2. loop'[c] = Poll!Off
    BY <1>1, <1>7, MoveType DEF EndWithError, Poll!Abandon
  <2>3. /\ call'[c].at = "idle"
        /\ \A d \in Call : d # c => call'[d] = call[d]
    BY <1>1, <1>7, GoEffect DEF EndWithError, Client!Fail, Client!Idle
  <2>4. /\ deferral' = deferral /\ prompted' = prompted
        /\ via' \in [Call -> Handler \cup {None}]
    BY <1>1, <1>7 DEF EndWithError
  <2> QED BY <1>1, <2>1, <2>2, <2>3, <2>4, LoopGoesOn
<1>8. TimeOut(c) \/ Lose(c) \/ Broken(c) => loop[c].at # "off" /\ EndWithError(c)
  BY DEF TimeOut, Lose, Broken, Poll!TimedOut, Poll!Awaits
<1> QED BY <1>2, <1>3, <1>4, <1>5, <1>6, <1>7, <1>8 DEF LoopStep

\* What the resource and the world do concerns no call.
LEMMA WorldKeeps ==
  ASSUME Inv,
         \/ Crash \/ Tick
         \/ \E h \in Handler : FinishPoll(h) \/ Drop(h)
         \/ \E i \in Id : Interact(i)
         \/ UNCHANGED vars
  PROVE  OwnInv'
<1>1. OwnTypeOK /\ \A c \in Call : CallPolling(c)
  BY InvParts DEF OwnTypeOK, TypeOK
<1>2. UNCHANGED <<call, prompted, deferral>>
  BY DEF Crash, Tick, FinishPoll, Drop, Interact, clientVars, vars
<1>3. via' = via \/ via' = [c \in Call |-> None]
  BY DEF Crash, Tick, FinishPoll, Drop, Interact, vars
<1>4. /\ Poll!LoopTypeOK'
      /\ \A c \in Call : loop[c] = Poll!Off => loop'[c] = Poll!Off
  <2>1. CASE Tick
    BY <1>1, <2>1, LaterType DEF Tick, OwnTypeOK
  <2>2. CASE UNCHANGED loop
    BY <1>1, <2>2 DEF OwnTypeOK, Poll!LoopTypeOK
  <2> QED BY <2>1, <2>2 DEF Crash, FinishPoll, Drop, Interact, vars
<1>5. \A c \in Call : CallPolling(c)'
  BY <1>1, <1>2, <1>4 DEF CallPolling, Client!Polling
<1>6. OwnTypeOK'
  BY <1>1, <1>2, <1>3, <1>4 DEF OwnTypeOK
<1> QED BY <1>5, <1>6 DEF OwnInv

LEMMA InvInit == Init => Inv
<1> SUFFICES ASSUME Init PROVE Inv
  OBVIOUS
<1>1. ResourceInv
  BY ResourceInvInit DEF Init
<1>2. Client!TypeOK
  BY ClientInit DEF Init
<1>3. Poll!LoopTypeOK
  BY DEF Init, Poll!LoopInit, Poll!LoopTypeOK
<1>4. OwnTypeOK
  BY <1>3 DEF Init, OwnTypeOK
<1>5. \A c \in Call : loop[c] = Poll!Off /\ call[c].at = "idle"
  BY DEF Init, Poll!LoopInit, Client!Init, Client!Idle
<1>6. \A c \in Call : CallPolling(c)
  BY <1>5 DEF CallPolling
<1> QED BY <1>1, <1>2, <1>4, <1>6, InvParts DEF OwnTypeOK, TypeOK, ResourceInv

LEMMA InvStep == Inv /\ [Next]_vars => Inv'
<1> SUFFICES ASSUME Inv, [Next]_vars PROVE Inv'
  OBVIOUS
<1>1. ResourceInv'
  BY InvParts, ResourceSteps, ResourceInvStep
<1>2. Client!TypeOK'
  BY InvParts, ClientSteps, ClientTypeStep DEF TypeOK
<1>3. OwnInv'
  BY <1>1, CallStepKeeps, LoopStepKeeps, WorldKeeps DEF Next, ResourceInv
<1>4. TypeOK'
  BY <1>1, <1>2, <1>3 DEF OwnInv, OwnTypeOK, TypeOK, ResourceInv
<1>5. (Inv <=> TypeOK /\ ResourceInv /\ \A c \in Call : CallPolling(c))'
  BY InvParts, PTL
<1> QED BY <1>1, <1>3, <1>4, <1>5 DEF OwnInv

\* What holds of the composition at every moment.
THEOREM InvAlways == Spec => []Inv
<1>1. Init => Inv
  BY InvInit
<1>2. Inv /\ [Next]_vars => Inv'
  BY InvStep
<1> QED BY <1>1, <1>2, PTL DEF Spec

\* Records, tasks, loops and calls keep their types, whatever the resource
\* forgets and the network loses or delivers twice.
THEOREM TypeCorrect == Spec => []TypeOK
<1>1. Inv => TypeOK
  BY DEF Inv
<1> QED BY <1>1, InvAlways, PTL

\* 410 is told only of a request that is over: poll_pending removes nothing
\* else, for any number of polls, users and restarts.
THEOREM GoneIsExplained == Spec => []GoneExplained
<1>1. Inv => GoneExplained
  <2> SUFFICES ASSUME Inv, NEW h \in Handler, task[h] # Idle,
                      task[h].response.status = 410
               PROVE  life[task[h].id] < 0 \/ task[h].id \in over
    BY DEF GoneExplained
  <2> QED BY DEF Inv, LifeInv, Closed
<1> QED BY <1>1, InvAlways, PTL

\* A grant leaves the store into the hands of a poll, by its expiry, or with
\* all else that was in memory.
THEOREM GrantIsKept == Spec => GrantKept
<1> DEFINE Kept ==
      \A i \in Id :
        store[i] # NoRecord /\ store[i].snapshot.state = "token" /\ store'[i] = NoRecord
        => \/ Expired(store[i])
           \/ Restart
           \/ \E h \in Handler :
                task[h].at = "remove" /\ task[h].id = i /\ task[h].response.access # None
<1>1. Inv /\ [Next]_vars => [Kept]_resourceVars
  BY InvParts, ResourceSteps, GrantKeptStep
<1> HIDE DEF Kept
<1>2. Spec => [][Kept]_resourceVars
  BY <1>1, InvAlways, PTL DEF Spec
<1> QED BY <1>2 DEF GrantKept, Kept

\* A resource that manages its own authorization is an environment that
\* AgentClient allows for: the routes, the opaque store and the polling loop
\* answer the client's requests as AgentClient's resource may.
THEOREM ImplementsClient == Spec => ClientSpec
<1>1. Init => Client!Init
  BY DEF Init
<1>2. Inv /\ [Next]_vars => [Client!Next]_(Client!vars)
  BY ClientSteps
<1> QED BY <1>1, <1>2, InvAlways, PTL DEF Spec, ClientSpec, Client!Spec

-----------------------------------------------------------------------------
(* What holds of every client holds of the client of this resource *)

LEMMA IsClient == Spec => Proved!Spec
<1>1. Client!Init => Proved!Init
  BY DEF Client!Init, Proved!Init, Client!Idle, Proved!Idle
<1> QED BY <1>1, SameSteps, ImplementsClient, PTL DEF ClientSpec, Client!Spec, Proved!Spec

\* However often the resource restarts, defers or forgets, and however many
\* calls begin at once, its authorization endpoint is called proactively at
\* most once (agent.rs, begin_authorize_attempt).
THEOREM ManagedAuthorizesOnce == Spec => []Client!AuthorizeOnce
<1>1. Proved!Spec => []Proved!AuthorizeOnce
  BY ClientAssumptions, Proved!AuthorizeIsOnce
<1>2. Proved!AuthorizeOnce => Client!AuthorizeOnce
  BY DEF Proved!AuthorizeOnce, Client!AuthorizeOnce
<1> QED BY <1>1, <1>2, IsClient, PTL

\* An opaque token that the resource forgot in a restart, or that ran out, is
\* dropped when it is answered 401: a client that makes one call at a time
\* does not present it to this resource again (auth.rs, observe_response).
THEOREM ManagedDropsRejected ==
  ASSUME NEW c \in Call, Call = {c}
  PROVE  Spec => []Client!RejectedNotReused
<1>1. Proved!Spec => []Proved!RejectedNotReused
  BY ClientAssumptions, Proved!RejectedIsNotReused
<1>2. Proved!RejectedNotReused => Client!RejectedNotReused
  BY DEF Proved!RejectedNotReused, Client!RejectedNotReused
<1> QED BY <1>1, <1>2, IsClient, PTL

=============================================================================
