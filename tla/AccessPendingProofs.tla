------------------------ MODULE AccessPendingProofs ------------------------
(* Theorems about AccessPending, for every value of its constants. *)
EXTENDS AccessPending, TLAPS

-----------------------------------------------------------------------------
(* Types *)

\* A task is of the kind its `at` says.
LEMMA TaskKinds ==
  ASSUME NEW t \in Task
  PROVE  /\ t.at \in {"policy", "reload"} => t \in RecordTask
         /\ t.at = "complete" => t \in CompleteTask
         /\ t.at = "save" => t \in SaveTask
         /\ t.at = "remove" => t \in RemoveTask
         /\ t.at = "respond" => t \in RespondTask
         /\ t.at \in Opened => t.id \in Id
  BY DEF Task, Idle, EvaluateTask, RecordTask, CompleteTask, SaveTask,
         RemoveTask, RespondTask, Opened

LEMMA BecomeType ==
  ASSUME task \in [Handler -> Task], NEW h \in Handler, NEW t \in Task, Become(h, t)
  PROVE  /\ task' \in [Handler -> Task]
         /\ task'[h] = t
         /\ \A g \in Handler : g # h => task'[g] = task[g]
  BY DEF Become

LEMMA IdleType == Idle \in Task /\ Idle.at = "idle"
  BY DEF Idle, Task

\* Every response of the routes is well typed (respond.rs).
LEMMA ResponseTypes ==
  /\ \A s \in Status : Plain(s) \in Response
  /\ \A t \in Token : Granted(t) \in Response
  /\ \A i \in Id : DeferCreated(i) \in Response
  /\ Denied \in Response /\ Gone \in Response /\ ServerError \in Response
  /\ \A s \in Snapshot : PollResponse(s) \in Response
  /\ \A o \in Outcome : OutcomeResponse(o) \in Response
<1>1. \A s \in Status : Plain(s) \in Response
  BY DEF Plain, Response
<1>2. {200, 202, 403, 410, 500} \subseteq Status
  BY DEF Status, PollingStatus
<1>3. \A t \in Token : Granted(t) \in Response
  BY <1>1, <1>2 DEF Granted, Plain, Response
<1>4. \A i \in Id : DeferCreated(i) \in Response
  BY <1>1, <1>2 DEF DeferCreated, Plain, Response
<1>5. Denied \in Response /\ Gone \in Response /\ ServerError \in Response
  BY <1>1, <1>2 DEF Denied, Gone, ServerError
<1>6. \A f \in Failure : f \in Status
  BY FailureAssumption DEF Status
<1>7. \A s \in Snapshot : PollResponse(s) \in Response
  BY <1>1, <1>2, <1>3, <1>6 DEF PollResponse, Snapshot, WaitingSnapshot,
                                Outcome, TokenSnapshot, ErrorSnapshot
<1>8. \A o \in Outcome : OutcomeResponse(o) \in Response
  BY <1>3, <1>5 DEF OutcomeResponse, Outcome, TokenSnapshot, ErrorSnapshot
<1> QED BY <1>1, <1>3, <1>4, <1>5, <1>7, <1>8

LEMMA RespondType ==
  ASSUME task \in [Handler -> Task], NEW h \in Handler, NEW r \in Response,
         Respond(h, r)
  PROVE  /\ task' \in [Handler -> Task]
         /\ task'[h] = [at |-> "respond", response |-> r]
         /\ \A g \in Handler : g # h => task'[g] = task[g]
<1>1. [at |-> "respond", response |-> r] \in Task
  BY DEF Task, RespondTask
<1> QED BY <1>1, BecomeType DEF Respond

LEMMA NewRecordType ==
  ASSUME now \in Nat
  PROVE  NewRecord \in Record /\ NewRecord.expires_at = now + TTL
  BY TimeAssumption DEF NewRecord, Record, Snapshot, WaitingSnapshot, Waiting

LEMMA DeferredType ==
  ASSUME NEW r \in Record
  PROVE  /\ Deferred(r) \in Record
         /\ Deferred(r).expires_at = r.expires_at
         /\ Deferred(r).snapshot.state = "waiting"
  BY DEF Deferred, Record, Snapshot, WaitingSnapshot, Waiting

\* What complete does to a store: the snapshot of one record, if it is there.
LEMMA CompleteEffect ==
  ASSUME NEW s \in [Id -> Record \cup {NoRecord}], NEW i \in Id, NEW o \in Outcome
  PROVE  /\ Complete(s, i, o) \in [Id -> Record \cup {NoRecord}]
         /\ \A j \in Id :
              /\ Complete(s, i, o)[j] = NoRecord <=> s[j] = NoRecord
              /\ s[j] # NoRecord => Complete(s, i, o)[j].expires_at = s[j].expires_at
              /\ j # i => Complete(s, i, o)[j] = s[j]
         /\ s[i] # NoRecord => Complete(s, i, o)[i].snapshot = o
<1>1. CASE s[i] = NoRecord
  BY <1>1 DEF Complete
<1>2. CASE s[i] # NoRecord
  <2> DEFINE r == [s[i] EXCEPT !.snapshot = o]
  <2>1. s[i] \in Record
    BY <1>2
  <2>2. r \in Record /\ r.expires_at = s[i].expires_at /\ r.snapshot = o
    BY <2>1 DEF Record, Snapshot
  <2>3. Complete(s, i, o) = [s EXCEPT ![i] = r]
    BY <1>2, <2>1 DEF Complete
  <2>4. r # NoRecord
    BY <2>2, RecordAssumption
  <2> HIDE DEF r
  <2> QED BY <1>2, <2>2, <2>3, <2>4
<1> QED BY <1>1, <1>2

-----------------------------------------------------------------------------
(* Type correctness *)

LEMMA InitType == AccessInit => AccessTypeOK
<1> SUFFICES ASSUME AccessInit PROVE AccessTypeOK
  OBVIOUS
<1>1. now \in 0..MaxTime
  BY TimeAssumption DEF AccessInit
<1>2. task \in [Handler -> Task]
  BY IdleType DEF AccessInit
<1>3. /\ store \in [Id -> Record \cup {NoRecord}]
      /\ deadline \in [Id -> Nat \cup {None}]
  BY DEF AccessInit
<1>4. polled \in [Id -> {"none", "pending", "token", "error", "gone"}]
  BY DEF AccessInit
<1>5. decided \in [Id -> SUBSET Outcome]
  BY DEF AccessInit
<1> QED BY <1>1, <1>2, <1>3, <1>4, <1>5 DEF AccessTypeOK

LEMMA NowIsNat == AccessTypeOK => now \in Nat
  BY TimeAssumption DEF AccessTypeOK

LEMMA PollOutcomeType ==
  ASSUME NEW s \in Snapshot
  PROVE  PollOutcome(s) \in {"pending", "token", "error"}
  BY DEF PollOutcome, Snapshot, WaitingSnapshot, Outcome, TokenSnapshot, ErrorSnapshot

LEMMA EvaluateType ==
  ASSUME AccessTypeOK, NEW h \in Handler,
         \/ EvaluateGrant(h) \/ EvaluateDeny(h) \/ EvaluateFail(h)
         \/ \E i \in Id : EvaluateDefer(h, i)
  PROVE  AccessTypeOK'
<1> USE DEF AccessTypeOK
<1>1. CASE EvaluateGrant(h) \/ EvaluateDeny(h) \/ EvaluateFail(h)
  <2>1. UNCHANGED <<now, store, accessHistory>>
    BY <1>1 DEF EvaluateGrant, EvaluateDeny, EvaluateFail
  <2>2. \E r \in Response : Respond(h, r)
    BY <1>1, ResponseTypes DEF EvaluateGrant, EvaluateDeny, EvaluateFail
  <2> QED BY <2>1, <2>2, RespondType DEF accessHistory
<1>2. CASE \E i \in Id : EvaluateDefer(h, i)
  <2> PICK i \in Id : EvaluateDefer(h, i)
    BY <1>2
  <2>1. now + TTL \in Nat /\ NewRecord \in Record
    BY NowIsNat, NewRecordType, TimeAssumption
  <2>2. store' \in [Id -> Record \cup {NoRecord}]
    BY <2>1 DEF EvaluateDefer, Insert
  <2>3. deadline' \in [Id -> Nat \cup {None}]
    BY <2>1 DEF EvaluateDefer
  <2>4. task' \in [Handler -> Task]
    BY ResponseTypes, RespondType DEF EvaluateDefer
  <2> QED BY <2>2, <2>3, <2>4 DEF EvaluateDefer
<1> QED BY <1>1, <1>2

LEMMA ArriveType ==
  ASSUME AccessTypeOK, NEW h \in Handler, Arrive(h)
  PROVE  AccessTypeOK'
<1> USE DEF AccessTypeOK
<1>1. CASE ExchangeToken(h)
  <2>1. [at |-> "evaluate"] \in Task
    BY DEF Task, EvaluateTask
  <2> QED BY <1>1, <2>1, BecomeType DEF ExchangeToken, accessHistory
<1>2. CASE \E i \in Id : PollPending(h, i)
  <2> PICK i \in Id : PollPending(h, i)
    BY <1>2
  <2>1. Live(i) => store[i].snapshot \in Snapshot
    BY DEF Live, Record
  <2>2. task' \in [Handler -> Task]
    <3>1. (IF Live(i) THEN PollResponse(store[i].snapshot) ELSE Gone) \in Response
      BY <2>1, ResponseTypes
    <3> QED BY <3>1, RespondType DEF PollPending
  <2>3. (IF Live(i) THEN PollOutcome(store[i].snapshot) ELSE "gone")
          \in {"none", "pending", "token", "error", "gone"}
    BY <2>1, PollOutcomeType
  <2>4. polled' \in [Id -> {"none", "pending", "token", "error", "gone"}]
    BY <2>3 DEF PollPending
  <2> QED BY <2>2, <2>4 DEF PollPending
<1>3. CASE \E i \in Id : ResumePending(h, i)
  <2> PICK i \in Id : ResumePending(h, i)
    BY <1>3
  <2>1. [at |-> "policy", id |-> i] \in Task
    BY DEF Task, RecordTask
  <2>2. task' \in [Handler -> Task]
    BY <2>1, BecomeType, ResponseTypes, RespondType DEF ResumePending
  <2> QED BY <2>2 DEF ResumePending, accessHistory
<1>4. CASE \E i \in Id, isPoll \in BOOLEAN : FindExpired(h, i, isPoll)
  <2> PICK i \in Id, isPoll \in BOOLEAN : FindExpired(h, i, isPoll)
    BY <1>4
  <2>1. [at |-> "remove", id |-> i, poll |-> isPoll] \in Task
    BY DEF Task, RemoveTask
  <2> QED BY <2>1, BecomeType DEF FindExpired, accessHistory
<1> QED BY <1>1, <1>2, <1>3, <1>4 DEF Arrive

\* A step of a resume that only moves the slot.
LEMMA DecideType ==
  ASSUME AccessTypeOK, NEW h \in Handler,
         DecideGrant(h) \/ DecideDeny(h) \/ DecideDefer(h) \/ DecideFail(h)
  PROVE  /\ AccessTypeOK'
         /\ UNCHANGED <<now, store, accessHistory>>
         /\ task[h].at = "policy"
<1>1. UNCHANGED <<now, store, accessHistory>> /\ task[h].at = "policy"
  BY DEF DecideGrant, DecideDeny, DecideDefer, DecideFail, Decide
<1>2. task[h].id \in Id
  BY <1>1, TaskKinds DEF AccessTypeOK, Opened
<1>3. \A o \in Outcome : [at |-> "complete", id |-> task[h].id, outcome |-> o] \in Task
  BY <1>2 DEF Task, CompleteTask
<1>4. /\ \A t \in Token : AuthToken(t) \in Outcome
      /\ \A f \in Failure : Error(f) \in Outcome
  BY DEF Outcome, TokenSnapshot, ErrorSnapshot, AuthToken, Error
<1>5. task' \in [Handler -> Task]
  <2>1. CASE DecideGrant(h)
    BY <2>1, <1>3, <1>4, BecomeType DEF DecideGrant, Decide, AccessTypeOK
  <2>2. CASE DecideDeny(h)
    BY <2>2, <1>3, <1>4, BecomeType DEF DecideDeny, Decide, AccessTypeOK
  <2>3. CASE DecideDefer(h)
    <3>1. [at |-> "reload", id |-> task[h].id] \in Task
      BY <1>2 DEF Task, RecordTask
    <3> QED BY <2>3, <3>1, BecomeType DEF DecideDefer, AccessTypeOK
  <2>4. CASE DecideFail(h)
    BY <2>4, ResponseTypes, RespondType DEF DecideFail, AccessTypeOK
  <2> QED BY <2>1, <2>2, <2>3, <2>4
<1> QED BY <1>1, <1>5 DEF AccessTypeOK, accessHistory

LEMMA WriteType ==
  ASSUME AccessTypeOK, NEW h \in Handler,
         \/ RemovePending(h) \/ CompletePending(h)
         \/ ReloadPending(h) \/ SavePending(h)
  PROVE  AccessTypeOK'
<1>1. CASE RemovePending(h)
  <2>1. task[h].id \in Id
    BY <1>1, TaskKinds DEF RemovePending, AccessTypeOK, Opened
  <2>2. store' \in [Id -> Record \cup {NoRecord}]
    BY <1>1 DEF RemovePending, Remove, AccessTypeOK
  <2>3. polled' \in [Id -> {"none", "pending", "token", "error", "gone"}]
    BY <1>1 DEF RemovePending, AccessTypeOK
  <2>4. task' \in [Handler -> Task]
    BY <1>1, ResponseTypes, RespondType DEF RemovePending, AccessTypeOK
  <2> QED BY <1>1, <2>2, <2>3, <2>4 DEF RemovePending, AccessTypeOK
<1>2. CASE CompletePending(h)
  <2>1. task[h].id \in Id /\ task[h].outcome \in Outcome
    BY <1>2, TaskKinds DEF CompletePending, AccessTypeOK, CompleteTask
  <2>2. store' \in [Id -> Record \cup {NoRecord}]
    BY <1>2, <2>1, CompleteEffect DEF CompletePending, AccessTypeOK
  <2>3. decided' \in [Id -> SUBSET Outcome]
    BY <1>2, <2>1 DEF CompletePending, AccessTypeOK
  <2>4. task' \in [Handler -> Task]
    BY <1>2, <2>1, ResponseTypes, RespondType DEF CompletePending, AccessTypeOK
  <2> QED BY <1>2, <2>2, <2>3, <2>4 DEF CompletePending, AccessTypeOK
<1>3. CASE ReloadPending(h)
  <2>1. task[h].id \in Id
    BY <1>3, TaskKinds DEF ReloadPending, AccessTypeOK, Opened
  <2>2. CASE store[task[h].id] = NoRecord
    BY <1>3, <2>2, ResponseTypes, RespondType
       DEF ReloadPending, AccessTypeOK, accessHistory
  <2>3. CASE store[task[h].id] # NoRecord
    <3> DEFINE t == [at |-> "save", id |-> task[h].id,
                     record |-> Deferred(store[task[h].id])]
    <3>1. t \in Task
      BY <2>1, <2>3, DeferredType DEF AccessTypeOK, Task, SaveTask
    <3> QED BY <1>3, <2>3, <3>1, BecomeType
            DEF ReloadPending, AccessTypeOK, accessHistory
  <2> QED BY <2>2, <2>3
<1>4. CASE SavePending(h)
  <2>1. task[h].id \in Id /\ task[h].record \in Record
    BY <1>4, TaskKinds DEF SavePending, AccessTypeOK, SaveTask
  <2>2. store' \in [Id -> Record \cup {NoRecord}]
    BY <1>4, <2>1 DEF SavePending, Insert, AccessTypeOK
  <2>3. task' \in [Handler -> Task]
    BY <1>4, <2>1, ResponseTypes, RespondType DEF SavePending, AccessTypeOK
  <2> QED BY <1>4, <2>2, <2>3 DEF SavePending, AccessTypeOK, accessHistory
<1> QED BY <1>1, <1>2, <1>3, <1>4

\* A step of the server, or the end of a response, keeps the types; stated
\* apart from AccessSpec for the specifications that compose these steps.
LEMMA AccessStepType ==
  ASSUME AccessTypeOK, [AccessNext]_accessVars
  PROVE  AccessTypeOK'
<1>1. CASE Tick
  BY <1>1, TimeAssumption DEF Tick, AccessTypeOK, accessHistory
<1>2. ASSUME NEW h \in Handler, Arrive(h)
      PROVE  AccessTypeOK'
  BY <1>2, ArriveType
<1>3. ASSUME NEW h \in Handler, Proceed(h)
      PROVE  AccessTypeOK'
  BY <1>3, EvaluateType, DecideType, WriteType DEF Proceed
<1>4. ASSUME NEW h \in Handler, Release(h)
      PROVE  AccessTypeOK'
  BY <1>4, IdleType, BecomeType DEF Release, AccessTypeOK, accessHistory
<1>5. CASE UNCHANGED accessVars
  BY <1>5 DEF accessVars, AccessTypeOK
<1> QED BY <1>1, <1>2, <1>3, <1>4, <1>5 DEF AccessNext

-----------------------------------------------------------------------------
(* Deadlines and outcomes of records, and of the copies in flight *)

AccessInv == AccessTypeOK /\ RecordInv /\ DecidedInv

\* What AccessInv asks of one task.
GoodTask(t) ==
  /\ t.at \in Opened => deadline[t.id] # None
  /\ t.at = "save" => /\ t.record.expires_at = deadline[t.id]
                      /\ t.record.snapshot.state = "waiting"
  /\ t.at = "remove" => now > deadline[t.id]

LEMMA TasksAreGood ==
  ASSUME AccessInv, NEW h \in Handler
  PROVE  GoodTask(task[h])
  BY DEF AccessInv, RecordInv, DecidedInv, GoodTask

LEMMA HarmlessTasks ==
  /\ GoodTask(Idle)
  /\ GoodTask([at |-> "evaluate"])
  /\ \A r : GoodTask([at |-> "respond", response |-> r])
  BY DEF GoodTask, Idle, Opened

\* A step that moves one slot, to a good task, and touches no record.
LEMMA MoveFrame ==
  ASSUME AccessInv, NEW h \in Handler, UNCHANGED <<now, store, deadline, decided>>,
         \A g \in Handler : g # h => task'[g] = task[g],
         GoodTask(task'[h])
  PROVE  RecordInv' /\ DecidedInv'
<1>1. \A g \in Handler : GoodTask(task'[g])
  BY TasksAreGood
<1>2. \A g \in Handler : GoodTask(task[g])'
  BY <1>1 DEF GoodTask
<1> QED BY <1>2 DEF AccessInv, RecordInv, DecidedInv, GoodTask

LEMMA BecomeGood ==
  ASSUME AccessInv, NEW h \in Handler, NEW t, Become(h, t), GoodTask(t),
         UNCHANGED <<now, store, deadline, decided>>
  PROVE  RecordInv' /\ DecidedInv'
<1>1. task'[h] = t /\ \A g \in Handler : g # h => task'[g] = task[g]
  BY DEF Become, AccessInv, AccessTypeOK
<1> QED BY <1>1, MoveFrame

LEMMA RespondGood ==
  ASSUME AccessInv, NEW h \in Handler, NEW r, Respond(h, r),
         UNCHANGED <<now, store, deadline, decided>>
  PROVE  RecordInv' /\ DecidedInv'
  BY BecomeGood, HarmlessTasks DEF Respond

LEMMA ArriveInv ==
  ASSUME AccessInv, NEW h \in Handler, Arrive(h)
  PROVE  RecordInv' /\ DecidedInv'
<1>1. UNCHANGED <<now, store, deadline, decided>>
  BY DEF Arrive, ExchangeToken, PollPending, ResumePending, FindExpired, accessHistory
<1>2. CASE ExchangeToken(h)
  BY <1>1, <1>2, BecomeGood, HarmlessTasks DEF ExchangeToken
<1>3. CASE \E i \in Id : PollPending(h, i)
  BY <1>1, <1>3, RespondGood DEF PollPending
<1>4. CASE \E i \in Id : ResumePending(h, i)
  <2> PICK i \in Id : ResumePending(h, i)
    BY <1>4
  <2>1. GoodTask([at |-> "policy", id |-> i])
    BY DEF ResumePending, GoodTask
  <2> QED BY <1>1, <2>1, BecomeGood, RespondGood DEF ResumePending
<1>5. CASE \E i \in Id, isPoll \in BOOLEAN : FindExpired(h, i, isPoll)
  <2> PICK i \in Id, isPoll \in BOOLEAN : FindExpired(h, i, isPoll)
    BY <1>5
  <2>1. deadline[i] # None /\ now > deadline[i]
    BY DEF FindExpired, Stale, IsExpired, AccessInv, RecordInv
  <2>2. GoodTask([at |-> "remove", id |-> i, poll |-> isPoll])
    BY <2>1 DEF GoodTask
  <2> QED BY <1>1, <2>2, BecomeGood DEF FindExpired
<1> QED BY <1>2, <1>3, <1>4, <1>5 DEF Arrive

LEMMA EvaluateInv ==
  ASSUME AccessInv, NEW h \in Handler,
         \/ EvaluateGrant(h) \/ EvaluateDeny(h) \/ EvaluateFail(h)
         \/ \E i \in Id : EvaluateDefer(h, i)
  PROVE  RecordInv' /\ DecidedInv'
<1>1. CASE EvaluateGrant(h) \/ EvaluateDeny(h) \/ EvaluateFail(h)
  BY <1>1, RespondGood DEF EvaluateGrant, EvaluateDeny, EvaluateFail, accessHistory
<1>2. CASE \E i \in Id : EvaluateDefer(h, i)
  <2> PICK i \in Id : EvaluateDefer(h, i)
    BY <1>2
  <2>1. /\ now \in Nat /\ NewRecord \in Record /\ NewRecord # NoRecord
        /\ NewRecord.expires_at = now + TTL
        /\ NewRecord.snapshot.state = "waiting"
    BY NowIsNat, NewRecordType, RecordAssumption
       DEF AccessInv, NewRecord, Waiting
  <2>2. /\ store'[i] = NewRecord /\ deadline'[i] = now + TTL /\ deadline[i] = None
        /\ \A j \in Id : j # i => store'[j] = store[j] /\ deadline'[j] = deadline[j]
        /\ UNCHANGED <<now, decided>>
    BY DEF EvaluateDefer, Insert, AccessInv, AccessTypeOK
  <2>3. deadline'[i] # None
    BY <2>1, <2>2, TimeAssumption, NoneAssumption
  <2>4. \A j \in Id : store'[j] # NoRecord =>
          deadline'[j] # None /\ store'[j].expires_at = deadline'[j]
    BY <2>1, <2>2, <2>3 DEF AccessInv, RecordInv
  <2>5. \A j \in Id : deadline'[j] # None /\ store'[j] = NoRecord => now' > deadline'[j]
    BY <2>1, <2>2 DEF AccessInv, RecordInv
  <2>6. \A j \in Id : store'[j] # NoRecord /\ store'[j].snapshot.state # "waiting"
          => store'[j].snapshot \in decided'[j]
    BY <2>1, <2>2 DEF AccessInv, DecidedInv
  <2>7. \A g \in Handler : GoodTask(task[g])'
    <3> SUFFICES ASSUME NEW g \in Handler PROVE GoodTask(task[g])'
      OBVIOUS
    <3>1. CASE g = h
      <4>1. task'[h] = [at |-> "respond", response |-> DeferCreated(i)]
        BY DEF EvaluateDefer, Respond, Become, AccessInv, AccessTypeOK
      <4> QED BY <3>1, <4>1 DEF GoodTask, Opened
    <3>2. CASE g # h
      <4>1. task'[g] = task[g]
        BY <3>2 DEF EvaluateDefer, Respond, Become, AccessInv, AccessTypeOK
      <4>2. task[g].at \in Opened => task[g].id \in Id /\ task[g].id # i
        BY <2>2, TaskKinds, TasksAreGood DEF GoodTask, AccessInv, AccessTypeOK
      <4> QED BY <2>2, <4>1, <4>2, TasksAreGood DEF GoodTask, Opened
    <3> QED BY <3>1, <3>2
  <2> QED BY <2>4, <2>5, <2>6, <2>7 DEF RecordInv, DecidedInv, GoodTask
<1> QED BY <1>1, <1>2

LEMMA DecideInv ==
  ASSUME AccessInv, NEW h \in Handler,
         DecideGrant(h) \/ DecideDeny(h) \/ DecideDefer(h) \/ DecideFail(h)
  PROVE  RecordInv' /\ DecidedInv'
<1>1. UNCHANGED <<now, store, deadline, decided>> /\ task[h].at = "policy"
  BY DecideType DEF AccessInv, accessHistory
<1>2. deadline[task[h].id] # None
  BY <1>1, TasksAreGood DEF GoodTask, Opened
<1>3. CASE DecideGrant(h) \/ DecideDeny(h)
  <2>1. \A o : GoodTask([at |-> "complete", id |-> task[h].id, outcome |-> o])
    BY <1>2 DEF GoodTask
  <2> QED BY <1>1, <1>3, <2>1, BecomeGood DEF DecideGrant, DecideDeny, Decide
<1>4. CASE DecideDefer(h)
  <2>1. GoodTask([at |-> "reload", id |-> task[h].id])
    BY <1>2 DEF GoodTask
  <2> QED BY <1>1, <1>4, <2>1, BecomeGood DEF DecideDefer
<1>5. CASE DecideFail(h)
  BY <1>1, <1>5, RespondGood DEF DecideFail
<1> QED BY <1>3, <1>4, <1>5

\* A step that writes one record and answers.
LEMMA WriteFrame ==
  ASSUME AccessInv, NEW h \in Handler, NEW i \in Id, NEW r, Respond(h, r),
         UNCHANGED <<now, deadline>>,
         \A j \in Id : j # i => store'[j] = store[j],
         \A j \in Id : decided[j] \subseteq decided'[j],
         store'[i] # NoRecord => /\ deadline[i] # None
                                 /\ store'[i].expires_at = deadline[i],
         deadline[i] # None /\ store'[i] = NoRecord => now > deadline[i],
         store'[i] # NoRecord /\ store'[i].snapshot.state # "waiting"
           => store'[i].snapshot \in decided'[i]
  PROVE  RecordInv' /\ DecidedInv'
<1>1. \A g \in Handler : GoodTask(task'[g])
  <2> SUFFICES ASSUME NEW g \in Handler PROVE GoodTask(task'[g])
    OBVIOUS
  <2>1. g # h => task'[g] = task[g]
    BY DEF Respond, Become, AccessInv, AccessTypeOK
  <2>2. task'[h] = [at |-> "respond", response |-> r]
    BY DEF Respond, Become, AccessInv, AccessTypeOK
  <2> QED BY <2>1, <2>2, TasksAreGood, HarmlessTasks
<1>2. \A g \in Handler : GoodTask(task[g])'
  BY <1>1 DEF GoodTask
<1>3. \A j \in Id : store'[j] # NoRecord =>
        deadline'[j] # None /\ store'[j].expires_at = deadline'[j]
  BY DEF AccessInv, RecordInv
<1>4. \A j \in Id : deadline'[j] # None /\ store'[j] = NoRecord => now' > deadline'[j]
  BY DEF AccessInv, RecordInv
<1>5. \A j \in Id : store'[j] # NoRecord /\ store'[j].snapshot.state # "waiting"
        => store'[j].snapshot \in decided'[j]
  BY DEF AccessInv, DecidedInv
<1> QED BY <1>2, <1>3, <1>4, <1>5 DEF RecordInv, DecidedInv, GoodTask

LEMMA WriteInv ==
  ASSUME AccessInv, NEW h \in Handler,
         \/ RemovePending(h) \/ CompletePending(h)
         \/ ReloadPending(h) \/ SavePending(h)
  PROVE  RecordInv' /\ DecidedInv'
<1> DEFINE i == task[h].id
<1>1. i \in Id /\ deadline[i] # None
  BY TaskKinds, TasksAreGood DEF RemovePending, CompletePending, ReloadPending,
     SavePending, GoodTask, Opened, AccessInv, AccessTypeOK
<1>2. GoodTask(task[h])
  BY TasksAreGood
<1>3. CASE RemovePending(h)
  <2>1. now > deadline[i]
    BY <1>2, <1>3 DEF RemovePending, GoodTask
  <2>2. store'[i] = NoRecord /\ \A j \in Id : j # i => store'[j] = store[j]
    BY <1>1, <1>3 DEF RemovePending, Remove, AccessInv, AccessTypeOK
  <2> QED BY <1>1, <1>3, <2>1, <2>2, WriteFrame DEF RemovePending
<1>4. CASE CompletePending(h)
  <2> DEFINE o == task[h].outcome
  <2>1. o \in Outcome
    BY <1>4, TaskKinds DEF CompletePending, CompleteTask, AccessInv, AccessTypeOK
  <2>2. /\ store' = Complete(store, i, o)
        /\ decided' = [decided EXCEPT ![i] = @ \cup {o}]
        /\ Respond(h, OutcomeResponse(o))
        /\ UNCHANGED <<now, deadline>>
    BY <1>4 DEF CompletePending
  <2>3. o \in decided'[i] /\ \A j \in Id : decided[j] \subseteq decided'[j]
    BY <1>1, <2>2 DEF AccessInv, AccessTypeOK
  <2>4. \A j \in Id : j # i => store'[j] = store[j]
    BY <1>1, <2>1, <2>2, CompleteEffect DEF AccessInv, AccessTypeOK
  <2>5. /\ store'[i] = NoRecord <=> store[i] = NoRecord
        /\ store[i] # NoRecord => store'[i].expires_at = store[i].expires_at
        /\ store[i] # NoRecord => store'[i].snapshot = o
    BY <1>1, <2>1, <2>2, CompleteEffect DEF AccessInv, AccessTypeOK
  <2>6. /\ store[i] # NoRecord => store[i].expires_at = deadline[i]
        /\ store[i] = NoRecord => now > deadline[i]
    BY <1>1 DEF AccessInv, RecordInv
  <2> QED BY <1>1, <2>2, <2>3, <2>4, <2>5, <2>6, WriteFrame
<1>5. CASE ReloadPending(h)
  <2>1. UNCHANGED <<now, store, deadline, decided>>
    BY <1>5 DEF ReloadPending, accessHistory
  <2>2. CASE store[i] = NoRecord
    BY <1>5, <2>1, <2>2, RespondGood DEF ReloadPending
  <2>3. CASE store[i] # NoRecord
    <3> DEFINE t == [at |-> "save", id |-> i, record |-> Deferred(store[i])]
    <3>1. store[i] \in Record /\ store[i].expires_at = deadline[i]
      BY <1>1, <2>3 DEF AccessInv, AccessTypeOK, RecordInv
    <3>2. GoodTask(t)
      BY <1>1, <3>1, DeferredType DEF GoodTask
    <3>3. Become(h, t)
      BY <1>5, <2>3 DEF ReloadPending
    <3> QED BY <2>1, <3>2, <3>3, BecomeGood
  <2> QED BY <2>2, <2>3
<1>6. CASE SavePending(h)
  <2> DEFINE r == task[h].record
  <2>1. /\ r.expires_at = deadline[i] /\ r.snapshot.state = "waiting"
        /\ r \in Record
    BY <1>2, <1>6, TaskKinds
       DEF SavePending, GoodTask, SaveTask, AccessInv, AccessTypeOK
  <2>2. store'[i] = r /\ \A j \in Id : j # i => store'[j] = store[j]
    BY <1>1, <1>6 DEF SavePending, Insert, AccessInv, AccessTypeOK
  <2>3. r # NoRecord
    BY <2>1, RecordAssumption
  <2>4. /\ Respond(h, DeferCreated(i))
        /\ UNCHANGED <<now, deadline, decided>>
    BY <1>6 DEF SavePending, accessHistory
  <2> HIDE DEF r
  <2> QED BY <1>1, <2>1, <2>2, <2>3, <2>4, WriteFrame
<1> QED BY <1>3, <1>4, <1>5, <1>6

LEMMA TickInv ==
  ASSUME AccessInv, Tick
  PROVE  RecordInv' /\ DecidedInv'
<1>1. now' = now + 1 /\ now \in Nat /\ UNCHANGED <<store, task, deadline, decided>>
  BY NowIsNat DEF Tick, accessHistory, AccessInv
<1>2. \A i \in Id : deadline[i] # None => deadline[i] \in Nat
  BY DEF AccessInv, AccessTypeOK
<1>3. \A i \in Id : deadline[i] # None /\ now > deadline[i] => now' > deadline[i]
  BY <1>1, <1>2
<1>4. \A h \in Handler : task[h].at = "remove" => now' > deadline[task[h].id]
  <2> SUFFICES ASSUME NEW h \in Handler, task[h].at = "remove"
               PROVE  now' > deadline[task[h].id]
    OBVIOUS
  <2>1. task[h].id \in Id /\ deadline[task[h].id] # None /\ now > deadline[task[h].id]
    BY TaskKinds, TasksAreGood DEF GoodTask, Opened, AccessInv, AccessTypeOK
  <2> QED BY <1>3, <2>1
<1> QED BY <1>1, <1>3, <1>4 DEF AccessInv, RecordInv, DecidedInv

LEMMA InitInv == AccessInit => AccessInv
<1> SUFFICES ASSUME AccessInit PROVE RecordInv /\ DecidedInv
  BY InitType DEF AccessInv
<1> QED BY DEF AccessInit, RecordInv, DecidedInv, Idle, Opened

LEMMA AccessStepInv ==
  ASSUME AccessInv, [AccessNext]_accessVars
  PROVE  AccessInv'
<1>1. AccessTypeOK'
  BY AccessStepType DEF AccessInv
<1>2. RecordInv' /\ DecidedInv'
  <2>1. CASE Tick
    BY <2>1, TickInv
  <2>2. ASSUME NEW h \in Handler, Arrive(h)
        PROVE  RecordInv' /\ DecidedInv'
    BY <2>2, ArriveInv
  <2>3. ASSUME NEW h \in Handler, Proceed(h)
        PROVE  RecordInv' /\ DecidedInv'
    BY <2>3, EvaluateInv, DecideInv, WriteInv DEF Proceed
  <2>4. ASSUME NEW h \in Handler, Release(h)
        PROVE  RecordInv' /\ DecidedInv'
    BY <2>4, BecomeGood, HarmlessTasks DEF Release, accessHistory
  <2>5. CASE UNCHANGED accessVars
    BY <2>5 DEF accessVars, AccessInv, RecordInv, DecidedInv
  <2> QED BY <2>1, <2>2, <2>3, <2>4, <2>5 DEF AccessNext
<1> QED BY <1>1, <1>2 DEF AccessInv

-----------------------------------------------------------------------------
(* The refinement of PendingPromise *)

LEMMA PollIsAbstractPoll ==
  ASSUME AccessInv, NEW h \in Handler, NEW i \in Id, PollPending(h, i)
  PROVE  PendingURL!Poll(i)
<1>1. deadline[i] # None /\ UNCHANGED <<now, deadline>>
  BY DEF PollPending
<1>2. CASE Live(i)
  <2>1. store[i] # NoRecord /\ ~(now > deadline[i])
    BY <1>2 DEF Live, IsExpired, AccessInv, RecordInv
  <2>2. store[i].snapshot \in Snapshot
    BY <2>1 DEF AccessInv, AccessTypeOK, Record
  <2>3. PollOutcome(store[i].snapshot) \in PendingURL!LiveAnswer
    BY <2>2, PollOutcomeType DEF PendingURL!LiveAnswer
  <2> QED BY <1>1, <1>2, <2>1, <2>3 DEF PollPending, PendingURL!Poll
<1>3. CASE ~Live(i)
  <2>1. now > deadline[i]
    BY <1>1, <1>3 DEF PollPending, Live, Stale, AccessInv, RecordInv
  <2> QED BY <1>1, <1>3, <2>1 DEF PollPending, PendingURL!Poll
<1> QED BY <1>2, <1>3

LEMMA RemoveIsAbstractPoll ==
  ASSUME AccessInv, NEW h \in Handler, RemovePending(h)
  PROVE  [PendingURL!Next]_(PendingURL!vars)
<1> DEFINE i == task[h].id
<1>1. i \in Id /\ deadline[i] # None /\ now > deadline[i]
  BY TaskKinds, TasksAreGood DEF RemovePending, GoodTask, Opened, AccessInv,
                                 AccessTypeOK
<1>2. CASE task[h].poll
  BY <1>1, <1>2 DEF RemovePending, PendingURL!Poll, PendingURL!Next
<1>3. CASE ~task[h].poll
  BY <1>3 DEF RemovePending, PendingURL!vars
<1> QED BY <1>2, <1>3

LEMMA AccessImplements ==
  ASSUME AccessInv, [AccessNext]_accessVars
  PROVE  [PendingURL!Next]_(PendingURL!vars)
<1>1. CASE Tick
  BY <1>1 DEF Tick, accessHistory, PendingURL!Next, PendingURL!Tick
<1>2. ASSUME NEW h \in Handler, Arrive(h)
      PROVE  [PendingURL!Next]_(PendingURL!vars)
  <2>1. CASE \E i \in Id : PollPending(h, i)
    BY <2>1, PollIsAbstractPoll DEF PendingURL!Next
  <2>2. CASE ~ \E i \in Id : PollPending(h, i)
    BY <1>2, <2>2 DEF Arrive, ExchangeToken, ResumePending, FindExpired,
                      accessHistory, PendingURL!vars
  <2> QED BY <2>1, <2>2
<1>3. ASSUME NEW h \in Handler, Proceed(h)
      PROVE  [PendingURL!Next]_(PendingURL!vars)
  <2>1. CASE \E i \in Id : EvaluateDefer(h, i)
    BY <2>1 DEF EvaluateDefer, PendingURL!Next, PendingURL!Open
  <2>2. CASE RemovePending(h)
    BY <2>2, RemoveIsAbstractPoll
  <2>3. CASE ~RemovePending(h) /\ ~ \E i \in Id : EvaluateDefer(h, i)
    BY <1>3, <2>3 DEF Proceed, EvaluateGrant, EvaluateDeny, EvaluateFail,
       DecideGrant, DecideDeny, DecideDefer, DecideFail, Decide,
       CompletePending, ReloadPending, SavePending, accessHistory, PendingURL!vars
  <2> QED BY <2>1, <2>2, <2>3
<1>4. ASSUME NEW h \in Handler, Release(h)
      PROVE  [PendingURL!Next]_(PendingURL!vars)
  BY <1>4 DEF Release, accessHistory, PendingURL!vars
<1>5. CASE UNCHANGED accessVars
  BY <1>5 DEF accessVars, PendingURL!vars
<1> QED BY <1>1, <1>2, <1>3, <1>4, <1>5 DEF AccessNext

\* Requests, polls and resumes of the Access Server, in any number and order,
\* implement the abstract pending URL: one deadline, live until it, gone and
\* nothing else past it (access/service.rs over poll_auth_pending).
THEOREM AccessKeepsPromise == AccessSpec => Promise
<1>1. AccessInit => AccessInv
  BY InitInv
<1>2. AccessInv /\ [AccessNext]_accessVars => AccessInv'
  BY AccessStepInv
<1>3. AccessInit => PendingURL!Init
  BY DEF AccessInit, PendingURL!Init
<1>4. AccessInv /\ [AccessNext]_accessVars => [PendingURL!Next]_(PendingURL!vars)
  BY AccessImplements
<1> QED BY <1>1, <1>2, <1>3, <1>4, PTL DEF AccessSpec, Promise, PendingURL!Spec

=============================================================================
