------------------------ MODULE PersonPendingProofs ------------------------
(* Theorems about PersonPending, for every value of its constants. *)
EXTENDS PersonPending, TLAPS

-----------------------------------------------------------------------------
(* Records and tasks *)

\* A task is of the kind its `at` says: what each handler may rely on when it
\* goes on after an await.
LEMMA TaskKinds ==
  ASSUME NEW t \in Task
  PROVE  /\ t.at = "policy" => t \in PolicyTask
         /\ t.at = "federated" => t \in FederatedTask
         /\ t.at = "complete" => t \in CompleteTask
         /\ t.at = "reload" => t \in DeferTask \cup FederateTask \cup RedeferTask
         /\ t.at \in {"save", "consume"} => t \in WriteTask
         /\ t.at = "remove" => t \in RemoveTask
  BY DEF Task, Idle, PolicyTask, FederatedTask, CompleteTask, DeferTask,
         FederateTask, RedeferTask, WriteTask, RemoveTask

\* Building, editing and completing records keeps their type (records.rs,
\* defer.rs, federation_pending.rs).
LEMMA NewRecordType ==
  ASSUME NEW r \in Request, NEW f \in AccessServer \cup {NoServer},
         NEW u \in {"none", "https", "other"}, NEW c \in Code \cup {NoCode},
         now \in Nat
  PROVE  /\ NewRecord(r, f, u, c) \in Record
         /\ NewRecord(r, f, u, c).request = r
         /\ NewRecord(r, f, u, c).expires_at \in Nat
  BY TimeAssumption DEF NewRecord, Record, Snapshot, WaitingSnapshot, Waiting

LEMMA EditedType ==
  ASSUME NEW rec \in Record,
         NEW t \in DeferTask \cup FederateTask \cup RedeferTask
  PROVE  Edited(rec, t) \in Record
<1>1. Deferred(rec) \in Record
  BY DEF Deferred, Record, Snapshot, WaitingSnapshot, Waiting
<1>2. CASE t \in DeferTask
  BY <1>1, <1>2 DEF Edited, DeferTask
<1>3. CASE t \in FederateTask
  <2>1. t.edit = "federate" /\ t.request \in Request
    BY <1>3 DEF FederateTask
  <2>2. t.request.aud \in AccessServer
    BY <2>1 DEF Request
  <2>3. Federated(rec, t.request) \in Record
    BY <1>1, <2>1, <2>2 DEF Federated, Record
  <2> QED BY <2>1, <2>3 DEF Edited
<1>4. CASE t \in RedeferTask
  BY <1>1, <1>4 DEF Edited, RedeferTask, Redeferred, Record
<1> QED BY <1>2, <1>3, <1>4

LEMMA ConsumedType ==
  ASSUME NEW rec \in Record
  PROVE  Consumed(rec) \in Record
  BY DEF Consumed, Record, Snapshot, WaitingSnapshot, Waiting

LEMMA CompleteType ==
  ASSUME NEW s \in [Id -> Record \cup {NoRecord}], NEW i \in Id, NEW o \in Outcome
  PROVE  Complete(s, i, o) \in [Id -> Record \cup {NoRecord}]
<1>1. CASE s[i] = NoRecord
  BY <1>1 DEF Complete
<1>2. CASE s[i] # NoRecord
  <2>1. s[i] \in Record
    BY <1>2
  <2>2. [s[i] EXCEPT !.snapshot = o] \in Record
    BY <2>1 DEF Record, Snapshot
  <2> QED BY <1>2, <2>2 DEF Complete
<1> QED BY <1>1, <1>2

-----------------------------------------------------------------------------
(* Type correctness *)

\* A slot that takes a well-typed task leaves `task` well typed.
LEMMA BecomeType ==
  ASSUME TypeOK, NEW w \in Worker, NEW t \in Task, Become(w, t)
  PROVE  task' \in [Worker -> Task]
  BY DEF TypeOK, Become

LEMMA IdleType == Idle \in Task
  BY DEF Task

\* What follows a verification is a completion or the end of the request.
LEMMA AfterVerificationType ==
  ASSUME NEW i \in Id, NEW t \in Token, NEW s, NEW r
  PROVE  AfterVerification(i, t, s, r) \in Task
  BY IdleType DEF AfterVerification, Task, CompleteTask, Outcome, TokenSnapshot, AuthToken

LEMMA MintedType ==
  ASSUME NEW r \in Request
  PROVE  Minted(r) \in Token
  BY TokenAssumption DEF Minted, Request

LEMMA ExchangeTokenType ==
  ASSUME TypeOK, NEW i \in Id, ExchangeToken(i)
  PROVE  TypeOK'
<1> PICK r \in Request, f \in AccessServer \cup {NoServer},
         u \in {"none", "https", "other"}, c \in Code \cup {NoCode} :
         CreatePending(i, NewRecord(r, f, u, c))
  BY DEF ExchangeToken, CreateDeferredPersonResponse, Request,
         CreateFederatedDeferredResponse, CreateResourceInitiatedDeferredResponse
<1> DEFINE rec == NewRecord(r, f, u, c)
<1>0. now \in Nat
  BY TimeAssumption DEF TypeOK
<1>1. rec \in Record /\ rec.request \in Request /\ rec.expires_at \in Nat
  BY <1>0, NewRecordType
<1>2. [request |-> rec.request, expires_at |-> rec.expires_at] \in Lease
  BY <1>1 DEF Lease
<1>3. CreatePending(i, rec)
  OBVIOUS
<1> HIDE DEF rec
<1> QED BY <1>1, <1>2, <1>3 DEF TypeOK, CreatePending, Insert

LEMMA ArriveType ==
  ASSUME TypeOK, NEW w \in Worker, NEW i \in Id, Arrive(w, i)
  PROVE  TypeOK'
<1>1. CASE \E isPoll \in BOOLEAN : FindExpired(w, i, isPoll)
  <2> PICK isPoll \in BOOLEAN : FindExpired(w, i, isPoll)
    BY <1>1
  <2>1. [at |-> "remove", id |-> i, poll |-> isPoll] \in Task
    BY DEF Task, RemoveTask
  <2> QED BY <2>1, BecomeType DEF FindExpired, TypeOK, history
<1>2. ASSUME Live(i) PROVE store[i] \in Record
  BY <1>2 DEF Live, TypeOK
<1>3. CASE ResumePending(w, i)
  <2>1. store[i] \in Record
    BY <1>2, <1>3 DEF ResumePending
  <2>2. [at |-> "policy", id |-> i, request |-> store[i].request] \in Task
    BY <2>1 DEF Task, PolicyTask, Record
  <2>3. ASSUME store[i].federation # NoServer
        PROVE  [at |-> "federated", id |-> i, request |-> store[i].request,
                server |-> store[i].federation] \in Task
    BY <2>1, <2>3 DEF Task, FederatedTask, Record
  <2> QED BY <1>3, <2>2, <2>3, BecomeType DEF ResumePending, TypeOK, history
<1>4. CASE \E c \in Code : BeginInteraction(w, i, c)
  <2> PICK c \in Code : BeginInteraction(w, i, c)
    BY <1>4
  <2>1. [at |-> "consume", id |-> i, record |-> Consumed(store[i])] \in Task
    BY <1>2, ConsumedType DEF BeginInteraction, Task, WriteTask
  <2> QED BY <2>1, BecomeType DEF BeginInteraction, TypeOK, history
<1>5. CASE CallbackError(w, i)
  <2> PICK f \in Failure :
         Become(w, [at |-> "complete", id |-> i, outcome |-> Error(f)])
    BY <1>5 DEF CallbackError
  <2>1. [at |-> "complete", id |-> i, outcome |-> Error(f)] \in Task
    BY DEF Task, CompleteTask, Outcome, ErrorSnapshot, Error
  <2> QED BY <1>5, <2>1, BecomeType DEF CallbackError, TypeOK, history
<1>6. CASE CallbackReturned(w, i)
  <2>1. [at |-> "policy", id |-> i, request |-> store[i].request] \in Task
    BY <1>2, <1>6 DEF CallbackReturned, Task, PolicyTask, Record
  <2> QED BY <1>6, <2>1, IdleType, BecomeType DEF CallbackReturned, TypeOK, history
<1> QED BY <1>1, <1>3, <1>4, <1>5, <1>6 DEF Arrive

\* The steps of a policy decision and of a federated post only move the slot.
LEMMA DecideType ==
  ASSUME TypeOK, NEW w \in Worker,
         \/ DecideGrant(w) \/ DecideDeny(w) \/ DecideDefer(w)
         \/ DecideFederate(w) \/ DecideFail(w)
  PROVE  TypeOK' /\ UNCHANGED <<now, store, history>>
<1>1. task[w] \in PolicyTask
  BY TaskKinds DEF TypeOK, DecideGrant, DecideDeny, DecideDefer, DecideFederate, DecideFail
<1>2. task[w].id \in Id /\ task[w].request \in Request
  BY <1>1 DEF PolicyTask
<1>3. UNCHANGED <<now, store, history>>
  BY DEF DecideGrant, DecideDeny, DecideDefer, DecideFederate, DecideFail
<1>4. SUFFICES \E t \in Task : Become(w, t)
  BY <1>3, BecomeType DEF TypeOK, history
<1>5. CASE DecideGrant(w)
  <2>1. [at |-> "complete", id |-> task[w].id,
         outcome |-> AuthToken(Minted(task[w].request))] \in Task
    BY <1>2, MintedType DEF Task, CompleteTask, Outcome, TokenSnapshot, AuthToken
  <2> QED BY <1>5, <2>1 DEF DecideGrant
<1>6. CASE DecideDeny(w)
  <2> PICK f \in Failure :
         Become(w, [at |-> "complete", id |-> task[w].id, outcome |-> Error(f)])
    BY <1>6 DEF DecideDeny
  <2>1. [at |-> "complete", id |-> task[w].id, outcome |-> Error(f)] \in Task
    BY <1>2 DEF Task, CompleteTask, Outcome, ErrorSnapshot, Error
  <2> QED BY <1>6, <2>1 DEF DecideDeny
<1>7. CASE DecideDefer(w)
  <2>1. [at |-> "reload", id |-> task[w].id, edit |-> "defer"] \in Task
    BY <1>2 DEF Task, DeferTask
  <2> QED BY <1>7, <2>1 DEF DecideDefer
<1>8. CASE DecideFederate(w)
  <2>1. [at |-> "reload", id |-> task[w].id, edit |-> "federate",
         request |-> task[w].request] \in Task
    BY <1>2 DEF Task, FederateTask
  <2> QED BY <1>2, <1>8, <2>1, IdleType, AfterVerificationType DEF DecideFederate
<1>9. CASE DecideFail(w)
  BY <1>9, IdleType DEF DecideFail
<1> QED BY <1>5, <1>6, <1>7, <1>8, <1>9

LEMMA FederatedType ==
  ASSUME TypeOK, NEW w \in Worker,
         \/ FederatedToken(w) \/ FederatedDeferred(w) \/ FederatedError(w)
         \/ FederatedGone(w) \/ FederatedFail(w)
  PROVE  TypeOK' /\ UNCHANGED <<now, store, history>>
<1>1. task[w] \in FederatedTask
  BY TaskKinds DEF TypeOK, FederatedToken, FederatedDeferred, FederatedError,
                   FederatedGone, FederatedFail
<1>2. task[w].id \in Id /\ task[w].server \in AccessServer
  BY <1>1 DEF FederatedTask
<1>3. UNCHANGED <<now, store, history>>
  BY DEF FederatedToken, FederatedDeferred, FederatedError, FederatedGone, FederatedFail
<1>4. SUFFICES \E t \in Task : Become(w, t)
  BY <1>3, BecomeType DEF TypeOK, history
<1>5. CASE FederatedToken(w)
  BY <1>2, <1>5, AfterVerificationType DEF FederatedToken
<1>6. CASE FederatedDeferred(w)
  <2>1. [at |-> "reload", id |-> task[w].id, edit |-> "redefer",
         server |-> task[w].server] \in Task
    BY <1>2 DEF Task, RedeferTask
  <2> QED BY <1>6, <2>1 DEF FederatedDeferred
<1>7. CASE FederatedError(w)
  <2> PICK f \in Failure :
         Become(w, [at |-> "complete", id |-> task[w].id, outcome |-> Error(f)])
    BY <1>7 DEF FederatedError
  <2>1. [at |-> "complete", id |-> task[w].id, outcome |-> Error(f)] \in Task
    BY <1>2 DEF Task, CompleteTask, Outcome, ErrorSnapshot, Error
  <2> QED BY <1>7, <2>1 DEF FederatedError
<1>8. CASE FederatedGone(w)
  <2>1. [at |-> "remove", id |-> task[w].id, poll |-> FALSE] \in Task
    BY <1>2 DEF Task, RemoveTask
  <2> QED BY <1>8, <2>1 DEF FederatedGone
<1>9. CASE FederatedFail(w)
  BY <1>9, IdleType DEF FederatedFail
<1> QED BY <1>5, <1>6, <1>7, <1>8, <1>9

\* The steps that write to the store and free the slot.
LEMMA WriteType ==
  ASSUME TypeOK, NEW w \in Worker,
         \/ RemovePending(w) \/ CompletePending(w) \/ ReloadPending(w)
         \/ SavePending(w) \/ ConsumeCode(w)
  PROVE  TypeOK'
<1>1. CASE RemovePending(w)
  <2>1. task[w].id \in Id
    BY <1>1, TaskKinds DEF TypeOK, RemovePending, RemoveTask
  <2> QED BY <1>1, <2>1, IdleType, BecomeType DEF RemovePending, Remove, TypeOK, Answer
<1>2. CASE CompletePending(w)
  <2>1. task[w].id \in Id /\ task[w].outcome \in Outcome
    BY <1>2, TaskKinds DEF TypeOK, CompletePending, CompleteTask
  <2>2. Complete(store, task[w].id, task[w].outcome) \in [Id -> Record \cup {NoRecord}]
    BY <2>1, CompleteType DEF TypeOK
  <2> QED BY <1>2, <2>2, IdleType, BecomeType DEF CompletePending, TypeOK, history
<1>3. CASE ReloadPending(w)
  <2>1. task[w] \in DeferTask \cup FederateTask \cup RedeferTask
    BY <1>3, TaskKinds DEF TypeOK, ReloadPending
  <2>2. task[w].id \in Id
    BY <2>1 DEF DeferTask, FederateTask, RedeferTask
  <2>3. CASE store[task[w].id] = NoRecord
    BY <1>3, <2>3, IdleType, BecomeType DEF ReloadPending, TypeOK, history
  <2>4. CASE store[task[w].id] # NoRecord
    <3>1. Edited(store[task[w].id], task[w]) \in Record
      BY <2>1, <2>2, <2>4, EditedType DEF TypeOK
    <3>2. [at |-> "save", id |-> task[w].id,
           record |-> Edited(store[task[w].id], task[w])] \in Task
      BY <2>2, <3>1 DEF Task, WriteTask
    <3> QED BY <1>3, <2>4, <3>2, BecomeType DEF ReloadPending, TypeOK, history
  <2> QED BY <2>3, <2>4
<1>4. CASE SavePending(w)
  <2>1. task[w].id \in Id /\ task[w].record \in Record
    BY <1>4, TaskKinds DEF TypeOK, SavePending, WriteTask
  <2> QED BY <1>4, <2>1, IdleType, BecomeType DEF SavePending, Insert, TypeOK, history
<1>5. CASE ConsumeCode(w)
  <2>1. task[w].id \in Id /\ task[w].record \in Record
    BY <1>5, TaskKinds DEF TypeOK, ConsumeCode, WriteTask
  <2>2. redeemed' \in [Id -> 0..2]
    <3> DEFINE n == redeemed[task[w].id]
    <3>1. n \in 0..2
      BY <2>1 DEF TypeOK
    <3>2. n < 2 => n + 1 \in 0..2
      BY <3>1
    <3>3. \E m \in 0..2 : redeemed' = [redeemed EXCEPT ![task[w].id] = m]
      BY <1>5, <3>1, <3>2, Zenon DEF ConsumeCode
    <3> QED BY <3>3 DEF TypeOK
  <2> QED BY <1>5, <2>1, <2>2, IdleType, BecomeType DEF ConsumeCode, Insert, TypeOK
<1> QED BY <1>1, <1>2, <1>3, <1>4, <1>5

LEMMA PollType ==
  ASSUME TypeOK, NEW i \in Id, PollPending(i)
  PROVE  TypeOK'
<1>1. store[i] # NoRecord => PollOutcome(store[i].snapshot) \in Answer
  BY DEF TypeOK, Record, Snapshot, WaitingSnapshot, Outcome, TokenSnapshot,
         ErrorSnapshot, PollOutcome, Answer
<1> QED BY <1>1 DEF PollPending, TypeOK, Answer

\* Every state of every run is well typed: no handler stores a record or
\* leaves a slot in a shape the others do not expect.
THEOREM TypeCorrect == Spec => []TypeOK
<1>1. Init => TypeOK
  BY TimeAssumption, IdleType DEF Init, TypeOK, Answer
<1>2. TypeOK /\ [Next]_vars => TypeOK'
  <2> SUFFICES ASSUME TypeOK, [Next]_vars PROVE TypeOK'
    OBVIOUS
  <2>1. CASE Tick
    BY <2>1, TimeAssumption DEF Tick, TypeOK, history
  <2>2. CASE \E i \in Id : ExchangeToken(i) \/ PollPending(i)
    BY <2>2, ExchangeTokenType, PollType
  <2>3. CASE \E w \in Worker : Proceed(w)
    BY <2>3, DecideType, FederatedType, WriteType DEF Proceed
  <2>4. CASE \E w \in Worker, i \in Id : Arrive(w, i)
    BY <2>4, ArriveType
  <2>5. CASE UNCHANGED vars
    BY <2>5 DEF vars, TypeOK
  <2> QED BY <2>1, <2>2, <2>3, <2>4, <2>5 DEF Next
<1> QED BY <1>1, <1>2, PTL DEF Spec

-----------------------------------------------------------------------------
(* The lease: request, deadline and token of a pending id *)

\* Only exchange_token issues an id; elsewhere it is enough that the new task
\* and the new records are good.
LEMMA LeaseFrame ==
  ASSUME TypeOK, LeaseInv, NEW w \in Worker, NEW t \in Task, Become(w, t),
         GoodTask(t), UNCHANGED issued,
         \A i \in Id : store'[i] # NoRecord => GoodRecord(i, store'[i])
  PROVE  LeaseInv'
<1>1. \A v \in Worker : GoodTask(task'[v])
  BY DEF TypeOK, LeaseInv, Become
<1>2. \A i \in Id : store'[i] # NoRecord => GoodRecord(i, store[i])'
  BY DEF GoodRecord, GoodSnapshot, GoodToken
<1>3. \A v \in Worker : GoodTask(task[v])'
  BY <1>1 DEF GoodTask, GoodRecord, GoodSnapshot, GoodToken
<1> QED BY <1>2, <1>3 DEF LeaseInv

LEMMA GoodIdle == GoodTask(Idle)
  BY DEF GoodTask, Idle

\* A token that passed verification against the record's Access Server, and
\* one minted here, are good.
LEMMA GoodVerification ==
  ASSUME NEW i \in Id, NEW t \in Token, issued[i] # NoLease
  PROVE  GoodTask(AfterVerification(i, t, issued[i].request.aud, issued[i].request))
  BY DEF AfterVerification, Verified, GoodTask, GoodSnapshot, GoodToken,
         AuthToken, Idle

LEMMA GoodEdited ==
  ASSUME TypeOK, NEW t \in DeferTask \cup FederateTask \cup RedeferTask,
         GoodTask(t), store[t.id] # NoRecord, GoodRecord(t.id, store[t.id])
  PROVE  GoodRecord(t.id, Edited(store[t.id], t))
<1> DEFINE rec == store[t.id]
<1>1. t.at = "reload" /\ t.id \in Id
  BY DEF DeferTask, FederateTask, RedeferTask
<1>2. rec \in Record
  BY <1>1 DEF TypeOK
<1>3. Deferred(rec) \in Record /\ GoodRecord(t.id, Deferred(rec))
  BY <1>2 DEF Deferred, Record, Snapshot, WaitingSnapshot, Waiting, GoodRecord,
              GoodSnapshot
<1> HIDE DEF rec
<1>4. CASE t \in DeferTask
  <2>1. Edited(rec, t) = Deferred(rec)
    BY <1>4 DEF Edited, DeferTask
  <2> QED BY <1>3, <2>1 DEF rec
<1>5. CASE t \in FederateTask
  <2>1. t.edit = "federate"
    BY <1>5 DEF FederateTask
  <2>2. t.request = issued[t.id].request
    BY <1>1, <2>1 DEF GoodTask
  <2>3. Edited(rec, t) = Federated(rec, t.request)
    BY <2>1 DEF Edited
  <2>4. GoodRecord(t.id, Federated(rec, t.request))
    BY <1>3, <2>2 DEF GoodRecord, GoodSnapshot, Federated, Record
  <2> QED BY <2>3, <2>4 DEF rec
<1>6. CASE t \in RedeferTask
  <2>1. t.edit = "redefer"
    BY <1>6 DEF RedeferTask
  <2>2. t.server = issued[t.id].request.aud
    BY <1>1, <2>1 DEF GoodTask
  <2>3. Edited(rec, t) = Redeferred(rec, t.server)
    BY <2>1 DEF Edited
  <2>4. GoodRecord(t.id, Redeferred(rec, t.server))
    BY <1>3, <2>2 DEF GoodRecord, GoodSnapshot, Redeferred, Record
  <2> QED BY <2>3, <2>4 DEF rec
<1> QED BY <1>4, <1>5, <1>6

LEMMA GoodConsumed ==
  ASSUME NEW i \in Id, NEW rec \in Record, GoodRecord(i, rec)
  PROVE  GoodRecord(i, Consumed(rec))
  BY DEF Consumed, Record, GoodRecord, GoodSnapshot, Waiting

LEMMA ExchangeTokenLease ==
  ASSUME TypeOK, LeaseInv, NEW i \in Id, ExchangeToken(i)
  PROVE  LeaseInv'
<1>1. PICK r \in Request, f \in AccessServer \cup {NoServer},
         u \in {"none", "https", "other"}, c \in Code \cup {NoCode} :
         CreatePending(i, NewRecord(r, f, u, c)) /\ f \in {NoServer, r.aud}
  BY DEF ExchangeToken, CreateDeferredPersonResponse, Request,
         CreateFederatedDeferredResponse, CreateResourceInitiatedDeferredResponse
<1> DEFINE rec == NewRecord(r, f, u, c)
           lease == [request |-> rec.request, expires_at |-> rec.expires_at]
<1>0. now \in Nat
  BY TimeAssumption DEF TypeOK
<1>2. rec \in Record /\ rec.request \in Request /\ rec.expires_at \in Nat
  BY <1>0, NewRecordType
<1>3. lease \in Lease /\ lease # NoLease
  BY <1>2, RecordAssumption DEF Lease
<1>4. rec.federation \in {NoServer, rec.request.aud} /\ rec.snapshot.state = "waiting"
  BY <1>1 DEF NewRecord, Waiting
<1>5. CreatePending(i, rec)
  BY <1>1
<1>6. lease.request = rec.request /\ lease.expires_at = rec.expires_at
  OBVIOUS
<1>7. issued' = [issued EXCEPT ![i] = lease] /\ issued[i] = NoLease
  BY <1>5 DEF CreatePending
<1> HIDE DEF rec, lease
<1>8. store' = [store EXCEPT ![i] = rec] /\ task' = task
  BY <1>5 DEF CreatePending, Insert
<1>9. \A j \in Id : issued[j] # NoLease => issued'[j] = issued[j]
  BY <1>7 DEF TypeOK
<1>10. GoodRecord(i, store[i])'
  <2>1. store'[i] = rec /\ issued'[i] = lease
    BY <1>7, <1>8 DEF TypeOK
  <2> QED BY <2>1, <1>3, <1>4, <1>6 DEF GoodRecord, GoodSnapshot
<1>11. \A j \in Id : store'[j] # NoRecord => GoodRecord(j, store[j])'
  <2> SUFFICES ASSUME NEW j \in Id, store'[j] # NoRecord
               PROVE  GoodRecord(j, store[j])'
    OBVIOUS
  <2>1. CASE j = i
    BY <2>1, <1>10
  <2>2. CASE j # i
    <3>1. store'[j] = store[j] /\ GoodRecord(j, store[j])
      BY <2>2, <1>8 DEF TypeOK, LeaseInv
    <3> QED BY <3>1, <1>9 DEF GoodRecord, GoodSnapshot, GoodToken
  <2> QED BY <2>1, <2>2
<1>12. \A w \in Worker : GoodTask(task[w])'
  <2> SUFFICES ASSUME NEW w \in Worker, NEW t \in Task, GoodTask(t)
               PROVE  GoodTask(t)'
    BY <1>8 DEF LeaseInv, TypeOK
  <2>1. CASE t = Idle
    BY <2>1 DEF GoodTask, Idle
  <2>2. CASE t # Idle
    <3>1. t.id \in Id
      BY <2>2 DEF Task, PolicyTask, FederatedTask, CompleteTask, DeferTask,
                  FederateTask, RedeferTask, WriteTask, RemoveTask
    <3>2. issued[t.id] # NoLease /\ issued'[t.id] = issued[t.id]
      BY <2>2, <3>1, <1>9 DEF GoodTask
    <3> QED BY <3>2 DEF GoodTask, GoodRecord, GoodSnapshot, GoodToken
  <2> QED BY <2>1, <2>2
<1> QED BY <1>11, <1>12 DEF LeaseInv

LEMMA ArriveLease ==
  ASSUME TypeOK, LeaseInv, NEW w \in Worker, NEW i \in Id, Arrive(w, i)
  PROVE  LeaseInv'
<1>1. store' = store /\ issued' = issued /\ store[i] # NoRecord
  BY DEF Arrive, FindExpired, ResumePending, BeginInteraction, CallbackError,
         CallbackReturned, Live, Stale, history
<1>2. store[i] \in Record /\ GoodRecord(i, store[i])
  BY <1>1 DEF TypeOK, LeaseInv
<1>3. SUFFICES \E t \in Task : Become(w, t) /\ GoodTask(t)
  BY <1>1, LeaseFrame DEF LeaseInv
<1>4. issued[i] # NoLease /\ store[i].request = issued[i].request
      /\ store[i].federation \in {NoServer, issued[i].request.aud}
  BY <1>2 DEF GoodRecord
<1>5. CASE \E isPoll \in BOOLEAN : FindExpired(w, i, isPoll)
  <2> PICK isPoll \in BOOLEAN : FindExpired(w, i, isPoll)
    BY <1>5
  <2>1. [at |-> "remove", id |-> i, poll |-> isPoll] \in Task
    BY DEF Task, RemoveTask
  <2>2. GoodTask([at |-> "remove", id |-> i, poll |-> isPoll])
    BY <1>4 DEF GoodTask
  <2> QED BY <2>1, <2>2 DEF FindExpired
<1> DEFINE policy == [at |-> "policy", id |-> i, request |-> store[i].request]
<1>6. policy \in Task /\ GoodTask(policy)
  BY <1>2, <1>4 DEF Task, PolicyTask, Record, GoodTask
<1>7. CASE ResumePending(w, i)
  <2> DEFINE fed == [at |-> "federated", id |-> i, request |-> store[i].request,
                     server |-> store[i].federation]
  <2>1. ASSUME store[i].federation # NoServer
        PROVE  fed \in Task /\ GoodTask(fed)
    BY <1>2, <1>4, <2>1 DEF Task, FederatedTask, Record, GoodTask
  <2> QED BY <1>6, <1>7, <2>1 DEF ResumePending
<1>8. CASE \E c \in Code : BeginInteraction(w, i, c)
  <2> DEFINE t == [at |-> "consume", id |-> i, record |-> Consumed(store[i])]
  <2>1. t \in Task
    BY <1>2, ConsumedType DEF Task, WriteTask
  <2>2. GoodTask(t)
    BY <1>2, <1>4, GoodConsumed DEF GoodTask
  <2> QED BY <1>8, <2>1, <2>2 DEF BeginInteraction
<1>9. CASE CallbackError(w, i)
  <2> PICK f \in Failure :
         Become(w, [at |-> "complete", id |-> i, outcome |-> Error(f)])
    BY <1>9 DEF CallbackError
  <2> DEFINE t == [at |-> "complete", id |-> i, outcome |-> Error(f)]
  <2>1. t \in Task /\ GoodTask(t)
    BY <1>4 DEF Task, CompleteTask, Outcome, ErrorSnapshot, Error, GoodTask,
                GoodSnapshot
  <2> QED BY <1>9, <2>1 DEF CallbackError
<1>10. CASE CallbackReturned(w, i)
  BY <1>6, <1>10, IdleType, GoodIdle DEF CallbackReturned
<1> QED BY <1>5, <1>7, <1>8, <1>9, <1>10 DEF Arrive

LEMMA DecideLease ==
  ASSUME TypeOK, LeaseInv, NEW w \in Worker,
         \/ DecideGrant(w) \/ DecideDeny(w) \/ DecideDefer(w)
         \/ DecideFederate(w) \/ DecideFail(w)
  PROVE  LeaseInv'
<1>1. task[w] \in PolicyTask
  BY TaskKinds DEF TypeOK, DecideGrant, DecideDeny, DecideDefer, DecideFederate, DecideFail
<1> DEFINE i == task[w].id
           r == task[w].request
<1>2. i \in Id /\ r \in Request /\ task[w].at = "policy"
  BY <1>1 DEF PolicyTask
<1>3. GoodTask(task[w])
  BY DEF LeaseInv
<1>4. issued[i] # NoLease /\ r = issued[i].request
  BY <1>2, <1>3 DEF GoodTask, Idle
<1>5. store' = store /\ issued' = issued
  BY DEF DecideGrant, DecideDeny, DecideDefer, DecideFederate, DecideFail, history
<1>6. SUFFICES \E t \in Task : Become(w, t) /\ GoodTask(t)
  BY <1>5, LeaseFrame DEF LeaseInv
<1>7. CASE DecideGrant(w)
  <2> DEFINE t == [at |-> "complete", id |-> i, outcome |-> AuthToken(Minted(r))]
  <2>1. t \in Task
    BY <1>2, MintedType DEF Task, CompleteTask, Outcome, TokenSnapshot, AuthToken
  <2>2. GoodTask(t)
    BY <1>4 DEF GoodTask, GoodSnapshot, GoodToken, AuthToken, Minted
  <2> QED BY <1>7, <2>1, <2>2 DEF DecideGrant
<1>8. CASE DecideDeny(w)
  <2> PICK f \in Failure :
         Become(w, [at |-> "complete", id |-> task[w].id, outcome |-> Error(f)])
    BY <1>8 DEF DecideDeny
  <2> DEFINE t == [at |-> "complete", id |-> i, outcome |-> Error(f)]
  <2>1. t \in Task
    BY <1>2 DEF Task, CompleteTask, Outcome, ErrorSnapshot, Error
  <2>2. GoodTask(t)
    BY <1>4 DEF GoodTask, GoodSnapshot, Error
  <2> QED BY <1>8, <2>1, <2>2 DEF DecideDeny
<1>9. CASE DecideDefer(w)
  <2> DEFINE t == [at |-> "reload", id |-> i, edit |-> "defer"]
  <2>1. t \in Task /\ GoodTask(t)
    BY <1>2, <1>4 DEF Task, DeferTask, GoodTask
  <2> QED BY <1>9, <2>1 DEF DecideDefer
<1>10. CASE DecideFederate(w)
  <2> DEFINE t == [at |-> "reload", id |-> i, edit |-> "federate", request |-> r]
  <2>1. t \in Task
    BY <1>2 DEF Task, FederateTask
  <2>2. GoodTask(t)
    BY <1>4 DEF GoodTask
  <2>3. \A tk \in Token : /\ AfterVerification(i, tk, r.aud, r) \in Task
                          /\ GoodTask(AfterVerification(i, tk, r.aud, r))
    BY <1>2, <1>4, GoodVerification, AfterVerificationType
  <2> QED BY <1>10, <2>1, <2>2, <2>3, IdleType, GoodIdle DEF DecideFederate
<1>11. CASE DecideFail(w)
  BY <1>11, IdleType, GoodIdle DEF DecideFail
<1> QED BY <1>7, <1>8, <1>9, <1>10, <1>11

LEMMA FederatedLease ==
  ASSUME TypeOK, LeaseInv, NEW w \in Worker,
         \/ FederatedToken(w) \/ FederatedDeferred(w) \/ FederatedError(w)
         \/ FederatedGone(w) \/ FederatedFail(w)
  PROVE  LeaseInv'
<1>1. task[w] \in FederatedTask
  BY TaskKinds DEF TypeOK, FederatedToken, FederatedDeferred, FederatedError,
                   FederatedGone, FederatedFail
<1> DEFINE i == task[w].id
<1>2. i \in Id /\ task[w].server \in AccessServer /\ task[w].at = "federated"
  BY <1>1 DEF FederatedTask
<1>3. GoodTask(task[w])
  BY DEF LeaseInv
<1>4. /\ issued[i] # NoLease
      /\ task[w].request = issued[i].request
      /\ task[w].server = issued[i].request.aud
  BY <1>2, <1>3 DEF GoodTask, Idle
<1>5. store' = store /\ issued' = issued
  BY DEF FederatedToken, FederatedDeferred, FederatedError, FederatedGone,
         FederatedFail, history
<1>6. SUFFICES \E t \in Task : Become(w, t) /\ GoodTask(t)
  BY <1>5, LeaseFrame DEF LeaseInv
<1>7. CASE FederatedToken(w)
  BY <1>2, <1>4, <1>7, GoodVerification, AfterVerificationType DEF FederatedToken
<1>8. CASE FederatedDeferred(w)
  <2> DEFINE t == [at |-> "reload", id |-> i, edit |-> "redefer",
                   server |-> task[w].server]
  <2>1. t \in Task
    BY <1>2 DEF Task, RedeferTask
  <2>2. GoodTask(t)
    BY <1>4 DEF GoodTask
  <2> QED BY <1>8, <2>1, <2>2 DEF FederatedDeferred
<1>9. CASE FederatedError(w)
  <2> PICK f \in Failure :
         Become(w, [at |-> "complete", id |-> task[w].id, outcome |-> Error(f)])
    BY <1>9 DEF FederatedError
  <2> DEFINE t == [at |-> "complete", id |-> i, outcome |-> Error(f)]
  <2>1. t \in Task
    BY <1>2 DEF Task, CompleteTask, Outcome, ErrorSnapshot, Error
  <2>2. GoodTask(t)
    BY <1>4 DEF GoodTask, GoodSnapshot, Error
  <2> QED BY <1>9, <2>1, <2>2 DEF FederatedError
<1>10. CASE FederatedGone(w)
  <2> DEFINE t == [at |-> "remove", id |-> i, poll |-> FALSE]
  <2>1. t \in Task /\ GoodTask(t)
    BY <1>2, <1>4 DEF Task, RemoveTask, GoodTask
  <2> QED BY <1>10, <2>1 DEF FederatedGone
<1>11. CASE FederatedFail(w)
  BY <1>11, IdleType, GoodIdle DEF FederatedFail
<1> QED BY <1>7, <1>8, <1>9, <1>10, <1>11

LEMMA WriteLease ==
  ASSUME TypeOK, LeaseInv, NEW w \in Worker,
         \/ RemovePending(w) \/ CompletePending(w) \/ ReloadPending(w)
         \/ SavePending(w) \/ ConsumeCode(w)
  PROVE  LeaseInv'
<1> DEFINE i == task[w].id
<1>1. GoodTask(task[w])
  BY DEF LeaseInv
<1>2. issued' = issued
  BY DEF RemovePending, CompletePending, ReloadPending, SavePending,
         ConsumeCode, history
<1>3. CASE RemovePending(w)
  <2>1. \A j \in Id : store'[j] # NoRecord => GoodRecord(j, store'[j])
    BY <1>3 DEF RemovePending, Remove, TypeOK, LeaseInv
  <2> QED BY <1>2, <1>3, <2>1, IdleType, GoodIdle, LeaseFrame DEF RemovePending
<1>4. CASE CompletePending(w)
  <2>1. i \in Id /\ task[w].outcome \in Outcome /\ task[w].at = "complete"
    BY <1>4, TaskKinds DEF TypeOK, CompletePending, CompleteTask
  <2>2. GoodSnapshot(i, task[w].outcome)
    BY <1>1, <2>1 DEF GoodTask
  <2>3. CASE store[i] = NoRecord
    <3>1. store' = store
      BY <1>4, <2>3 DEF CompletePending, Complete
    <3> QED BY <1>2, <1>4, <3>1, IdleType, GoodIdle, LeaseFrame DEF CompletePending, LeaseInv
  <2>4. CASE store[i] # NoRecord
    <3> DEFINE rec == [store[i] EXCEPT !.snapshot = task[w].outcome]
    <3>1. store' = [store EXCEPT ![i] = rec]
      BY <1>4, <2>4 DEF CompletePending, Complete
    <3>2. store[i] \in Record /\ GoodRecord(i, store[i])
      BY <2>1, <2>4 DEF TypeOK, LeaseInv
    <3>3. GoodRecord(i, rec)
      BY <2>2, <3>2 DEF GoodRecord, Record
    <3> HIDE DEF rec
    <3>4. \A j \in Id : store'[j] # NoRecord => GoodRecord(j, store'[j])
      BY <3>1, <3>3 DEF TypeOK, LeaseInv
    <3> QED BY <1>2, <1>4, <3>4, IdleType, GoodIdle, LeaseFrame DEF CompletePending
  <2> QED BY <2>3, <2>4
<1>5. CASE ReloadPending(w)
  <2>1. task[w] \in DeferTask \cup FederateTask \cup RedeferTask /\ task[w].at = "reload"
    BY <1>5, TaskKinds DEF TypeOK, ReloadPending
  <2>2. i \in Id
    BY <2>1 DEF DeferTask, FederateTask, RedeferTask
  <2>3. store' = store
    BY <1>5 DEF ReloadPending
  <2>4. SUFFICES \E t \in Task : Become(w, t) /\ GoodTask(t)
    BY <1>2, <2>3, LeaseFrame DEF LeaseInv
  <2>5. CASE store[i] = NoRecord
    BY <1>5, <2>5, IdleType, GoodIdle DEF ReloadPending
  <2>6. CASE store[i] # NoRecord
    <3> DEFINE rec == Edited(store[i], task[w])
               t == [at |-> "save", id |-> i, record |-> rec]
    <3>1. rec \in Record
      BY <2>1, <2>2, <2>6, EditedType DEF TypeOK
    <3>2. GoodRecord(i, rec)
      BY <1>1, <2>1, <2>2, <2>6, GoodEdited DEF LeaseInv
    <3>3. Become(w, t)
      BY <1>5, <2>6 DEF ReloadPending
    <3> HIDE DEF rec
    <3>4. t \in Task
      BY <2>2, <3>1 DEF Task, WriteTask
    <3>5. GoodTask(t)
      BY <3>2 DEF GoodTask, GoodRecord
    <3> QED BY <3>3, <3>4, <3>5
  <2> QED BY <2>5, <2>6
<1>6. CASE SavePending(w) \/ ConsumeCode(w)
  <2>1. /\ i \in Id /\ task[w].record \in Record
        /\ task[w].at \in {"save", "consume"}
    BY <1>6, TaskKinds DEF TypeOK, SavePending, ConsumeCode, WriteTask
  <2>2. GoodRecord(i, task[w].record)
    BY <1>1, <2>1 DEF GoodTask
  <2>3. store' = [store EXCEPT ![i] = task[w].record]
    BY <1>6 DEF SavePending, ConsumeCode, Insert
  <2>4. \A j \in Id : store'[j] # NoRecord => GoodRecord(j, store'[j])
    BY <2>2, <2>3 DEF TypeOK, LeaseInv
  <2>5. Become(w, Idle)
    BY <1>6 DEF SavePending, ConsumeCode
  <2> QED BY <1>2, <2>4, <2>5, IdleType, GoodIdle, LeaseFrame
<1> QED BY <1>3, <1>4, <1>5, <1>6

\* Frame: what leaves records, tasks and issued ids alone keeps the lease.
LEMMA LeaseUnchanged ==
  ASSUME LeaseInv, UNCHANGED <<store, task, issued>>
  PROVE  LeaseInv'
  BY DEF LeaseInv, GoodTask, GoodRecord, GoodSnapshot, GoodToken

\* Stored records and the copies requests hold agree with the lease of their
\* pending id, in every schedule of every number of requests.
THEOREM LeaseInvariant == Spec => []LeaseInv
<1>1. Init => LeaseInv
  BY GoodIdle DEF Init, LeaseInv
<1>2. TypeOK /\ LeaseInv /\ [Next]_vars => LeaseInv'
  <2> SUFFICES ASSUME TypeOK, LeaseInv, [Next]_vars PROVE LeaseInv'
    OBVIOUS
  <2>1. CASE Tick
    BY <2>1, LeaseUnchanged DEF Tick, history
  <2>2. CASE \E i \in Id : ExchangeToken(i)
    BY <2>2, ExchangeTokenLease
  <2>3. CASE \E i \in Id : PollPending(i)
    BY <2>3, LeaseUnchanged DEF PollPending
  <2>4. CASE \E w \in Worker : Proceed(w)
    BY <2>4, DecideLease, FederatedLease, WriteLease DEF Proceed
  <2>5. CASE \E w \in Worker, i \in Id : Arrive(w, i)
    BY <2>5, ArriveLease
  <2>6. CASE UNCHANGED vars
    BY <2>6, LeaseUnchanged DEF vars
  <2> QED BY <2>1, <2>2, <2>3, <2>4, <2>5, <2>6 DEF Next
<1> QED BY <1>1, <1>2, TypeCorrect, PTL DEF Spec

\* A stored record keeps the request and the deadline its id was issued with
\* (the saves of defer.rs, federation_pending.rs and begin_interaction).
THEOREM LeaseIsKept == Spec => []LeaseKept
<1>1. LeaseInv => LeaseKept
  BY DEF LeaseInv, GoodRecord, LeaseKept
<1> QED BY <1>1, LeaseInvariant, PTL

\* The token a pending URL hands out is for the agent that opened it and comes
\* from this server or from the Access Server its resource token names.
THEOREM TokenIsForRequest == Spec => []TokenForRequest
<1>1. LeaseInv => TokenForRequest
  BY DEF LeaseInv, GoodRecord, GoodSnapshot, GoodToken, TokenForRequest
<1> QED BY <1>1, LeaseInvariant, PTL

-----------------------------------------------------------------------------
(* The deadline *)

LEMMA PollingSteps ==
  ASSUME TypeOK, LeaseInv, NEW i \in Id, [Next]_vars, polled'[i] # polled[i]
  PROVE  \/ PollPending(i)
         \/ \E w \in Worker : RemovePending(w) /\ task[w].id = i
                              /\ polled'[i] = "gone"
<1>1. CASE \E j \in Id : PollPending(j)
  BY <1>1 DEF PollPending, TypeOK
<1>2. CASE \E w \in Worker : RemovePending(w)
  <2> PICK w \in Worker : RemovePending(w)
    BY <1>2
  <2>1. task[w].id \in Id
    BY TaskKinds DEF TypeOK, RemovePending, RemoveTask
  <2>2. polled' = [polled EXCEPT ![task[w].id] = "gone"]
    BY DEF RemovePending
  <2>3. task[w].id = i /\ polled'[i] = "gone"
    BY <2>1, <2>2 DEF TypeOK
  <2> QED BY <2>3
<1>3. CASE polled' = polled
  BY <1>3
<1>4. \/ \E j \in Id : PollPending(j)
      \/ \E w \in Worker : RemovePending(w)
      \/ polled' = polled
  <2>1. CASE Tick
    BY <2>1 DEF Tick, history
  <2>2. CASE \E j \in Id : ExchangeToken(j)
    BY <2>2 DEF ExchangeToken, CreateDeferredPersonResponse, CreatePending,
                CreateFederatedDeferredResponse,
                CreateResourceInitiatedDeferredResponse
  <2>3. CASE \E w \in Worker : Proceed(w)
    BY <2>3 DEF Proceed, DecideGrant, DecideDeny, DecideDefer, DecideFederate,
                DecideFail, FederatedToken, FederatedDeferred, FederatedError,
                FederatedGone, FederatedFail, CompletePending, ReloadPending,
                SavePending, ConsumeCode, history
  <2>4. CASE \E w \in Worker, j \in Id : Arrive(w, j)
    BY <2>4 DEF Arrive, FindExpired, ResumePending, BeginInteraction,
                CallbackError, CallbackReturned, history
  <2>5. CASE UNCHANGED vars
    BY <2>5 DEF vars
  <2> QED BY <2>1, <2>2, <2>3, <2>4, <2>5 DEF Next
<1> QED BY <1>1, <1>2, <1>3, <1>4

LEMMA DeadlineStepHolds ==
  ASSUME TypeOK, LeaseInv, [Next]_vars, NEW i \in Id
  PROVE  DeadlineStep(i)
<1> SUFFICES ASSUME issued[i] # NoLease, now > issued[i].expires_at,
                    polled'[i] # polled[i]
             PROVE  polled'[i] = "gone"
  BY DEF DeadlineStep
<1>1. CASE PollPending(i)
  <2>1. store[i] = NoRecord
    BY <1>1 DEF PollPending, Stale, IsExpired, LeaseInv, GoodRecord
  <2> QED BY <1>1, <2>1 DEF PollPending, TypeOK
<1> QED BY <1>1, PollingSteps

\* No save, deferral or federation gives a pending URL a new answer past the
\* deadline it was issued with.
THEOREM DeadlineIsKept == Spec => DeadlineHolds
<1>1. TypeOK /\ LeaseInv /\ [Next]_vars => [\A i \in Id : DeadlineStep(i)]_vars
  BY DeadlineStepHolds
<1> QED BY <1>1, TypeCorrect, LeaseInvariant, PTL DEF Spec, DeadlineHolds

-----------------------------------------------------------------------------
(* A policy that never federates *)

LEMMA LocalIdle == LocalTask(Idle) /\ Idle.at # "remove"
  BY DEF LocalTask, Idle

\* Like LeaseFrame: the clock and the answers stand still, and records appear
\* or change but do not disappear.
LEMMA DeadlineFrame ==
  ASSUME TypeOK, DeadlineInv, NEW w \in Worker, NEW t \in Task, Become(w, t),
         LocalTask(t), t.at = "remove" => now > issued[t.id].expires_at,
         UNCHANGED <<now, issued, polled>>,
         \A i \in Id : store'[i] = NoRecord => store[i] = NoRecord,
         \A i \in Id : store'[i] # NoRecord => store'[i].federation = NoServer
  PROVE  DeadlineInv'
<1>1. \A v \in Worker : task'[v] = task[v] \/ task'[v] = t
  BY DEF TypeOK, Become
<1>2. \A v \in Worker : LocalTask(task'[v])
  BY <1>1 DEF DeadlineInv
<1>3. \A v \in Worker : LocalTask(task[v])'
  BY <1>2 DEF LocalTask
<1>4. \A v \in Worker : task'[v].at = "remove" =>
        now' > issued'[task'[v].id].expires_at
  BY <1>1 DEF DeadlineInv
<1> QED BY <1>3, <1>4 DEF DeadlineInv

LEMMA ExchangeTokenDeadline ==
  ASSUME TypeOK, LeaseInv, DeadlineInv, "federate" \notin Decisions,
         NEW i \in Id, ExchangeToken(i)
  PROVE  DeadlineInv'
<1>1. PICK r \in Request, u \in {"none", "https", "other"}, c \in Code \cup {NoCode} :
         CreatePending(i, NewRecord(r, NoServer, u, c))
  BY DEF ExchangeToken, CreateDeferredPersonResponse,
         CreateFederatedDeferredResponse, CreateResourceInitiatedDeferredResponse
<1> DEFINE rec == NewRecord(r, NoServer, u, c)
           lease == [request |-> rec.request, expires_at |-> rec.expires_at]
<1>2. rec \in Record /\ rec # NoRecord
  <2>1. now \in Nat /\ NoServer \in AccessServer \cup {NoServer}
    BY DEF TypeOK
  <2>2. rec \in Record
    BY <2>1, NewRecordType
  <2> QED BY <2>2, RecordAssumption
<1>3. rec.federation = NoServer
  BY DEF NewRecord
<1>4. /\ store' = [store EXCEPT ![i] = rec] /\ issued[i] = NoLease
      /\ issued' = [issued EXCEPT ![i] = lease]
      /\ UNCHANGED <<now, task, polled>>
  BY <1>1 DEF CreatePending, Insert
<1> HIDE DEF rec, lease
<1>5. \A j \in Id : (issued'[j] = issued[j] /\ store'[j] = store[j]) \/ j = i
  BY <1>4 DEF TypeOK
<1>6. store'[i] = rec
  BY <1>4 DEF TypeOK
<1>7. polled[i] # "gone"
  BY <1>4 DEF DeadlineInv
<1>8. \A w \in Worker : task[w].at = "remove" => task[w].id \in Id /\ task[w].id # i
  <2> SUFFICES ASSUME NEW w \in Worker, task[w].at = "remove"
               PROVE  task[w].id \in Id /\ task[w].id # i
    OBVIOUS
  <2>1. task[w].id \in Id
    BY TaskKinds DEF TypeOK, RemoveTask
  <2>2. GoodTask(task[w]) /\ task[w] # Idle
    BY DEF LeaseInv, Idle
  <2> QED BY <1>4, <2>1, <2>2 DEF GoodTask
<1>9. \A w \in Worker : LocalTask(task[w])'
  BY <1>4 DEF DeadlineInv, LocalTask
<1>10. \A j \in Id : issued'[j] # NoLease /\ store'[j] = NoRecord =>
         now' > issued'[j].expires_at
  BY <1>2, <1>4, <1>5, <1>6 DEF DeadlineInv
<1>11. \A j \in Id : polled'[j] = "gone" =>
         issued'[j] # NoLease /\ now' > issued'[j].expires_at
  BY <1>4, <1>5, <1>7 DEF DeadlineInv
<1>12. \A j \in Id : store'[j] # NoRecord => store'[j].federation = NoServer
  BY <1>3, <1>5, <1>6 DEF DeadlineInv
<1>13. \A w \in Worker : task'[w].at = "remove" =>
         now' > issued'[task'[w].id].expires_at
  BY <1>4, <1>5, <1>8 DEF DeadlineInv
<1> QED BY <1>9, <1>10, <1>11, <1>12, <1>13 DEF DeadlineInv

LEMMA ArriveDeadline ==
  ASSUME TypeOK, LeaseInv, DeadlineInv, NEW w \in Worker, NEW i \in Id, Arrive(w, i)
  PROVE  DeadlineInv'
<1>1. /\ store[i] # NoRecord
      /\ UNCHANGED <<now, store, issued, polled>>
  BY DEF Arrive, FindExpired, ResumePending, BeginInteraction, CallbackError,
         CallbackReturned, Live, Stale, history
<1>2. /\ store[i] \in Record /\ store[i].federation = NoServer
      /\ store[i].expires_at = issued[i].expires_at
  BY <1>1 DEF TypeOK, DeadlineInv, LeaseInv, GoodRecord
<1>3. SUFFICES \E t \in Task : /\ Become(w, t) /\ LocalTask(t)
                               /\ t.at = "remove" => now > issued[t.id].expires_at
  BY <1>1, DeadlineFrame DEF DeadlineInv
<1>4. CASE \E isPoll \in BOOLEAN : FindExpired(w, i, isPoll)
  <2> PICK isPoll \in BOOLEAN : FindExpired(w, i, isPoll)
    BY <1>4
  <2> DEFINE t == [at |-> "remove", id |-> i, poll |-> isPoll]
  <2>1. t \in Task /\ LocalTask(t)
    BY DEF Task, RemoveTask, LocalTask
  <2>2. now > issued[t.id].expires_at
    BY <1>2 DEF FindExpired, Stale, IsExpired
  <2> QED BY <2>1, <2>2 DEF FindExpired
<1> DEFINE policy == [at |-> "policy", id |-> i, request |-> store[i].request]
<1>5. policy \in Task /\ LocalTask(policy) /\ policy.at # "remove"
  BY <1>2 DEF Task, PolicyTask, Record, LocalTask
<1>6. CASE ResumePending(w, i)
  BY <1>2, <1>5, <1>6 DEF ResumePending
<1>7. CASE \E c \in Code : BeginInteraction(w, i, c)
  <2> DEFINE t == [at |-> "consume", id |-> i, record |-> Consumed(store[i])]
  <2>1. t \in Task
    BY <1>2, ConsumedType DEF Task, WriteTask
  <2>2. Consumed(store[i]).federation = NoServer
    BY <1>2 DEF Consumed, Record
  <2>3. LocalTask(t) /\ t.at # "remove"
    BY <2>2 DEF LocalTask
  <2> QED BY <1>7, <2>1, <2>3 DEF BeginInteraction
<1>8. CASE CallbackError(w, i)
  <2> PICK f \in Failure :
         Become(w, [at |-> "complete", id |-> i, outcome |-> Error(f)])
    BY <1>8 DEF CallbackError
  <2> DEFINE t == [at |-> "complete", id |-> i, outcome |-> Error(f)]
  <2>1. t \in Task /\ LocalTask(t) /\ t.at # "remove"
    BY DEF Task, CompleteTask, Outcome, ErrorSnapshot, Error, LocalTask
  <2> QED BY <1>8, <2>1 DEF CallbackError
<1>9. CASE CallbackReturned(w, i)
  BY <1>2, <1>5, <1>9 DEF CallbackReturned
<1> QED BY <1>4, <1>6, <1>7, <1>8, <1>9 DEF Arrive

LEMMA ProceedDeadline ==
  ASSUME TypeOK, LeaseInv, DeadlineInv, "federate" \notin Decisions,
         NEW w \in Worker, Proceed(w), ~RemovePending(w)
  PROVE  DeadlineInv'
<1> DEFINE i == task[w].id
<1>1. UNCHANGED <<now, issued, polled>>
  BY DEF Proceed, DecideGrant, DecideDeny, DecideDefer, DecideFederate,
         DecideFail, FederatedToken, FederatedDeferred, FederatedError,
         FederatedGone, FederatedFail, CompletePending, ReloadPending,
         SavePending, ConsumeCode, history
<1>2. LocalTask(task[w]) /\ task[w] \in Task
  BY DEF DeadlineInv, TypeOK
<1> DEFINE Step(t) == t \in Task /\ Become(w, t) /\ LocalTask(t) /\ t.at # "remove"
<1>3. ASSUME store' = store, \E t : Step(t)
      PROVE  DeadlineInv'
  BY <1>1, <1>3, DeadlineFrame DEF DeadlineInv
<1>4. CASE DecideGrant(w) \/ DecideDeny(w) \/ DecideDefer(w) \/ DecideFail(w)
  <2>1. i \in Id /\ task[w].request \in Request
    BY <1>4, TaskKinds DEF TypeOK, DecideGrant, DecideDeny, DecideDefer,
                           DecideFail, PolicyTask
  <2>2. ASSUME NEW o \in Outcome
        PROVE  [at |-> "complete", id |-> i, outcome |-> o] \in Task
    BY <2>1 DEF Task, CompleteTask
  <2>3. AuthToken(Minted(task[w].request)) \in Outcome /\ \A f \in Failure : Error(f) \in Outcome
    BY <2>1, MintedType DEF Outcome, TokenSnapshot, ErrorSnapshot, AuthToken, Error
  <2>4. [at |-> "reload", id |-> i, edit |-> "defer"] \in Task
    BY <2>1 DEF Task, DeferTask
  <2>5. store' = store
    BY <1>4 DEF DecideGrant, DecideDeny, DecideDefer, DecideFail
  <2>6. ASSUME NEW o \in Outcome,
               Become(w, [at |-> "complete", id |-> i, outcome |-> o])
        PROVE  \E t : Step(t)
    BY <2>2, <2>6 DEF LocalTask
  <2>7. \E t : Step(t)
    <3>1. CASE DecideGrant(w)
      BY <2>3, <2>6, <3>1 DEF DecideGrant
    <3>2. CASE DecideDeny(w)
      BY <2>3, <2>6, <3>2 DEF DecideDeny
    <3>3. CASE DecideDefer(w) \/ DecideFail(w)
      BY <2>4, <3>3, IdleType, LocalIdle DEF DecideDefer, DecideFail, LocalTask
    <3> QED BY <1>4, <3>1, <3>2, <3>3
  <2> QED BY <1>3, <2>5, <2>7
<1>5. CASE ReloadPending(w)
  <2>1. task[w] \in DeferTask /\ i \in Id
    BY <1>2, <1>5, TaskKinds DEF TypeOK, ReloadPending, LocalTask, DeferTask,
                                 FederateTask, RedeferTask
  <2>2. store' = store
    BY <1>5 DEF ReloadPending
  <2>3. CASE store[i] = NoRecord
    BY <1>3, <1>5, <2>2, <2>3, IdleType, LocalIdle DEF ReloadPending
  <2>4. CASE store[i] # NoRecord
    <3> DEFINE rec == Edited(store[i], task[w])
               t == [at |-> "save", id |-> i, record |-> rec]
    <3>1. store[i] \in Record /\ store[i].federation = NoServer
      BY <2>1, <2>4 DEF TypeOK, DeadlineInv
    <3>2. rec \in Record
      BY <2>1, <3>1, EditedType
    <3>3. rec = Deferred(store[i])
      BY <2>1 DEF Edited, DeferTask
    <3>4. rec.federation = NoServer
      BY <3>1, <3>3 DEF Deferred, Record
    <3>5. Become(w, t)
      BY <1>5, <2>4 DEF ReloadPending
    <3> HIDE DEF rec
    <3>6. t \in Task /\ LocalTask(t) /\ t.at # "remove"
      BY <2>1, <3>2, <3>4 DEF Task, WriteTask, LocalTask
    <3> QED BY <1>3, <2>2, <3>5, <3>6
  <2> QED BY <2>3, <2>4
<1>6. CASE CompletePending(w)
  <2>1. i \in Id /\ task[w].outcome \in Outcome
    BY <1>6, TaskKinds DEF TypeOK, CompletePending, CompleteTask
  <2>2. CASE store[i] = NoRecord
    <3>1. store' = store
      BY <1>6, <2>2 DEF CompletePending, Complete
    <3> QED BY <1>3, <1>6, <3>1, IdleType, LocalIdle DEF CompletePending
  <2>3. CASE store[i] # NoRecord
    <3> DEFINE rec == [store[i] EXCEPT !.snapshot = task[w].outcome]
    <3>1. store' = [store EXCEPT ![i] = rec]
      BY <1>6, <2>3 DEF CompletePending, Complete
    <3>2. store[i] \in Record /\ store[i].federation = NoServer
      BY <2>1, <2>3 DEF TypeOK, DeadlineInv
    <3>3. rec \in Record /\ rec.federation = NoServer /\ rec # NoRecord
      BY <2>1, <3>2, RecordAssumption DEF Record, Snapshot
    <3> HIDE DEF rec
    <3>4. \A j \in Id : store'[j] = NoRecord => store[j] = NoRecord
      BY <3>1, <3>3 DEF TypeOK
    <3>5. \A j \in Id : store'[j] # NoRecord => store'[j].federation = NoServer
      BY <3>1, <3>3 DEF TypeOK, DeadlineInv
    <3> QED BY <1>1, <1>6, <3>4, <3>5, IdleType, LocalIdle, DeadlineFrame
            DEF CompletePending
  <2> QED BY <2>2, <2>3
<1>7. CASE SavePending(w) \/ ConsumeCode(w)
  <2>1. /\ i \in Id /\ task[w].record \in Record
        /\ task[w].at \in {"save", "consume"}
    BY <1>7, TaskKinds DEF TypeOK, SavePending, ConsumeCode, WriteTask
  <2>2. task[w].record.federation = NoServer /\ task[w].record # NoRecord
    BY <1>2, <2>1, RecordAssumption DEF LocalTask
  <2>3. store' = [store EXCEPT ![i] = task[w].record] /\ Become(w, Idle)
    BY <1>7 DEF SavePending, ConsumeCode, Insert
  <2>4. \A j \in Id : store'[j] = NoRecord => store[j] = NoRecord
    BY <2>2, <2>3 DEF TypeOK
  <2>5. \A j \in Id : store'[j] # NoRecord => store'[j].federation = NoServer
    BY <2>2, <2>3 DEF TypeOK, DeadlineInv
  <2> QED BY <1>1, <2>3, <2>4, <2>5, IdleType, LocalIdle, DeadlineFrame
<1>8. ~DecideFederate(w)
  BY DEF DecideFederate
<1>9. task[w].at # "federated"
  BY <1>2 DEF LocalTask
<1> QED BY <1>4, <1>5, <1>6, <1>7, <1>8, <1>9
        DEF Proceed, FederatedToken, FederatedDeferred, FederatedError,
            FederatedGone, FederatedFail

LEMMA RemoveDeadline ==
  ASSUME TypeOK, LeaseInv, DeadlineInv, NEW w \in Worker, RemovePending(w)
  PROVE  DeadlineInv'
<1> DEFINE i == task[w].id
<1>1. i \in Id /\ task[w].at = "remove"
  BY TaskKinds DEF TypeOK, RemovePending, RemoveTask
<1>2. issued[i] # NoLease /\ now > issued[i].expires_at
  BY <1>1 DEF LeaseInv, GoodTask, DeadlineInv, Idle
<1>3. /\ store' = [store EXCEPT ![i] = NoRecord]
      /\ UNCHANGED <<now, issued>>
      /\ Become(w, Idle)
  BY DEF RemovePending, Remove
<1>4. \A j \in Id : polled'[j] = polled[j] \/ j = i
  BY <1>1 DEF RemovePending, TypeOK
<1>5. \A v \in Worker : task'[v] = task[v] \/ task'[v] = Idle
  BY <1>3 DEF Become, TypeOK
<1>6. \A v \in Worker : LocalTask(task[v])'
  <2>1. \A v \in Worker : LocalTask(task'[v])
    BY <1>5, LocalIdle DEF DeadlineInv
  <2> QED BY <2>1 DEF LocalTask
<1>7. \A v \in Worker : task'[v].at = "remove" =>
        now' > issued'[task'[v].id].expires_at
  BY <1>3, <1>5, LocalIdle DEF DeadlineInv
<1>8. \A j \in Id : store'[j] = store[j] \/ (j = i /\ store'[j] = NoRecord)
  BY <1>1, <1>3 DEF TypeOK
<1> QED BY <1>2, <1>3, <1>4, <1>6, <1>7, <1>8 DEF DeadlineInv

LEMMA TickDeadline ==
  ASSUME TypeOK, LeaseInv, DeadlineInv, Tick
  PROVE  DeadlineInv'
<1>1. now \in Nat /\ now' = now + 1
  BY TimeAssumption DEF TypeOK, Tick
<1>2. \A i \in Id : issued[i] # NoLease => issued[i].expires_at \in Nat
  BY DEF TypeOK, Lease
<1>3. \A w \in Worker : task[w].at = "remove" => issued[task[w].id].expires_at \in Nat
  <2> SUFFICES ASSUME NEW w \in Worker, task[w].at = "remove"
               PROVE  issued[task[w].id].expires_at \in Nat
    OBVIOUS
  <2>1. task[w].id \in Id
    BY TaskKinds DEF TypeOK, RemoveTask
  <2>2. issued[task[w].id] # NoLease
    BY DEF LeaseInv, GoodTask, Idle
  <2> QED BY <1>2, <2>1, <2>2
<1>4. UNCHANGED <<store, task, issued, polled>>
  BY DEF Tick, history
<1>5. \A w \in Worker : LocalTask(task[w])'
  BY <1>4 DEF DeadlineInv, LocalTask
<1> QED BY <1>1, <1>2, <1>3, <1>4, <1>5 DEF DeadlineInv

LEMMA PollDeadline ==
  ASSUME TypeOK, LeaseInv, DeadlineInv, NEW i \in Id, PollPending(i)
  PROVE  DeadlineInv'
<1>1. UNCHANGED <<now, store, task, issued>> /\ issued[i] # NoLease
  BY DEF PollPending
<1>2. \A j \in Id : polled'[j] = polled[j] \/ j = i
  BY DEF PollPending, TypeOK
<1>3. polled'[i] = "gone" => store[i] = NoRecord
  BY DEF PollPending, PollOutcome, TypeOK, Record, Snapshot, WaitingSnapshot,
         Outcome, TokenSnapshot, ErrorSnapshot
<1>4. polled'[i] = "gone" => now > issued[i].expires_at
  BY <1>1, <1>3 DEF DeadlineInv
<1>5. \A w \in Worker : LocalTask(task[w])'
  BY <1>1 DEF DeadlineInv, LocalTask
<1> QED BY <1>1, <1>2, <1>4, <1>5 DEF DeadlineInv

LEMMA DeadlineInvariant ==
  ASSUME "federate" \notin Decisions
  PROVE  Spec => []DeadlineInv
<1>1. Init => DeadlineInv
  BY LocalIdle DEF Init, DeadlineInv
<1>2. TypeOK /\ LeaseInv /\ DeadlineInv /\ [Next]_vars => DeadlineInv'
  <2> SUFFICES ASSUME TypeOK, LeaseInv, DeadlineInv, [Next]_vars
               PROVE  DeadlineInv'
    OBVIOUS
  <2>1. CASE Tick
    BY <2>1, TickDeadline
  <2>2. CASE \E i \in Id : ExchangeToken(i)
    BY <2>2, ExchangeTokenDeadline
  <2>3. CASE \E i \in Id : PollPending(i)
    BY <2>3, PollDeadline
  <2>4. CASE \E w \in Worker : Proceed(w)
    BY <2>4, ProceedDeadline, RemoveDeadline
  <2>5. CASE \E w \in Worker, i \in Id : Arrive(w, i)
    BY <2>5, ArriveDeadline
  <2>6. CASE UNCHANGED vars
    BY <2>6 DEF vars, DeadlineInv, LocalTask
  <2> QED BY <2>1, <2>2, <2>3, <2>4, <2>5, <2>6 DEF Next
<1> QED BY <1>1, <1>2, TypeCorrect, LeaseInvariant, PTL DEF Spec

\* With a policy that decides by itself, 410 on a pending URL means that its
\* deadline has passed, however many requests race on it.
THEOREM GoneMeansDeadline ==
  ASSUME "federate" \notin Decisions
  PROVE  Spec => []GoneOnlyAfterDeadline
<1>1. DeadlineInv => GoneOnlyAfterDeadline
  BY DEF DeadlineInv, GoneOnlyAfterDeadline
<1> QED BY <1>1, DeadlineInvariant, PTL

\* ... and 410 is then the last word: no stale save brings the record back.
THEOREM GoneStays ==
  ASSUME "federate" \notin Decisions
  PROVE  Spec => GoneIsFinal
<1>1. TypeOK /\ LeaseInv /\ DeadlineInv /\ [Next]_vars
        => [\A i \in Id : GoneStep(i)]_vars
  BY DeadlineStepHolds DEF DeadlineStep, GoneStep, DeadlineInv
<1> QED BY <1>1, TypeCorrect, LeaseInvariant, DeadlineInvariant, PTL
        DEF Spec, GoneIsFinal

-----------------------------------------------------------------------------
(* The refinement of PendingPromise *)

\* The deadline that PendingPromise reads, as a function of `issued`.
LEMMA DeadlineOfType ==
  ASSUME TypeOK, NEW i \in Id, issued[i] # NoLease
  PROVE  /\ DeadlineOf(i) = issued[i].expires_at
         /\ DeadlineOf(i) \in Nat
         /\ DeadlineOf(i) # NoLease
  BY RecordAssumption DEF TypeOK, Lease, DeadlineOf

\* A step that only moves requests and records is invisible to the client.
LEMMA QuietStep ==
  ASSUME UNCHANGED <<now, issued, polled>>
  PROVE  UNCHANGED PendingURL!vars
  BY DEF PendingURL!vars, DeadlineOf

LEMMA OpenStep ==
  ASSUME TypeOK, NEW i \in Id, ExchangeToken(i)
  PROVE  PendingURL!Open(i)
<1>1. PICK r \in Request, f \in AccessServer \cup {NoServer},
           u \in {"none", "https", "other"}, c \in Code \cup {NoCode} :
        CreatePending(i, NewRecord(r, f, u, c))
  BY DEF ExchangeToken, CreateDeferredPersonResponse,
         CreateFederatedDeferredResponse,
         CreateResourceInitiatedDeferredResponse, Request
<1> DEFINE lease == [request |-> r, expires_at |-> now + TTL]
<1>2. /\ issued[i] = NoLease
      /\ issued' = [issued EXCEPT ![i] = lease]
      /\ UNCHANGED <<now, polled>>
  BY <1>1 DEF CreatePending, NewRecord
<1>3. issued'[i] = lease /\ lease # NoLease
  <2>1. lease \in Lease
    BY TimeAssumption DEF Lease, TypeOK
  <2> QED BY <1>2, <2>1, RecordAssumption DEF TypeOK
<1>4. \A j \in Id : j # i => issued'[j] = issued[j]
  BY <1>2 DEF TypeOK
<1>5. DeadlineOf(i) = NoLease /\ DeadlineOf(i)' = now + TTL
  BY <1>2, <1>3 DEF DeadlineOf
<1>6. \A j \in Id : j # i => DeadlineOf(j)' = DeadlineOf(j)
  BY <1>4 DEF DeadlineOf
<1> QED BY <1>2, <1>5, <1>6 DEF PendingURL!Open

LEMMA PollStep ==
  ASSUME TypeOK, LeaseInv, DeadlineInv, NEW i \in Id, PollPending(i)
  PROVE  PendingURL!Poll(i)
<1>1. issued[i] # NoLease /\ UNCHANGED <<now, issued>>
  BY DEF PollPending
<1>2. DeadlineOf(i) # NoLease /\ DeadlineOf(i) = issued[i].expires_at
  BY <1>1, DeadlineOfType
<1>3. CASE store[i] = NoRecord
  <2>1. now > DeadlineOf(i)
    BY <1>1, <1>2, <1>3 DEF DeadlineInv
  <2>2. polled' = [polled EXCEPT ![i] = "gone"]
    BY <1>3 DEF PollPending
  <2> QED BY <1>1, <1>2, <2>1, <2>2 DEF PendingURL!Poll, DeadlineOf
<1>4. CASE store[i] # NoRecord
  <2>1. store[i].expires_at = DeadlineOf(i)
    BY <1>2, <1>4 DEF LeaseInv, GoodRecord
  <2>2. ~(now > DeadlineOf(i))
    BY <1>4, <2>1 DEF PollPending, Stale, IsExpired
  <2>3. PollOutcome(store[i].snapshot) \in PendingURL!LiveAnswer
    BY <1>4 DEF PollOutcome, PendingURL!LiveAnswer, TypeOK, Record, Snapshot,
                WaitingSnapshot, Outcome, TokenSnapshot, ErrorSnapshot
  <2>4. polled' = [polled EXCEPT ![i] = PollOutcome(store[i].snapshot)]
    BY <1>4 DEF PollPending
  <2> QED BY <1>1, <1>2, <2>2, <2>3, <2>4 DEF PendingURL!Poll, DeadlineOf
<1> QED BY <1>3, <1>4

\* The removal of an expired record is the poll that found it, answered.
LEMMA RemoveStep ==
  ASSUME TypeOK, LeaseInv, DeadlineInv, NEW w \in Worker, RemovePending(w)
  PROVE  [PendingURL!Next]_(PendingURL!vars)
<1> DEFINE i == task[w].id
<1>1. i \in Id /\ issued[i] # NoLease
  <2>1. task[w] \in RemoveTask
    BY TaskKinds DEF TypeOK, RemovePending
  <2>2. GoodTask(task[w]) /\ task[w] # Idle
    BY DEF LeaseInv, RemovePending, Idle
  <2> QED BY <2>1, <2>2 DEF GoodTask, RemoveTask
<1>2. UNCHANGED <<now, issued>>
  BY DEF RemovePending
<1>3. CASE task[w].poll
  <2>1. DeadlineOf(i) # NoLease /\ now > DeadlineOf(i)
    BY <1>1, DeadlineOfType DEF DeadlineInv, RemovePending
  <2>2. polled' = [polled EXCEPT ![i] = "gone"]
    BY <1>3 DEF RemovePending
  <2>3. PendingURL!Poll(i)
    BY <1>1, <1>2, <2>1, <2>2 DEF PendingURL!Poll, DeadlineOf
  <2> QED BY <1>1, <2>3 DEF PendingURL!Next
<1>4. CASE ~task[w].poll
  <2>1. UNCHANGED polled
    BY <1>4 DEF RemovePending
  <2> QED BY <1>2, <2>1, QuietStep
<1> QED BY <1>3, <1>4

LEMMA ImplementsStep ==
  ASSUME TypeOK, LeaseInv, DeadlineInv, [Next]_vars
  PROVE  [PendingURL!Next]_(PendingURL!vars)
<1>1. CASE Tick
  BY <1>1 DEF Tick, history, PendingURL!Next, PendingURL!Tick, DeadlineOf
<1>2. CASE \E i \in Id : ExchangeToken(i)
  BY <1>2, OpenStep DEF PendingURL!Next
<1>3. CASE \E i \in Id : PollPending(i)
  BY <1>3, PollStep DEF PendingURL!Next
<1>4. CASE \E w \in Worker : Proceed(w)
  <2> PICK w \in Worker : Proceed(w)
    BY <1>4
  <2>1. CASE RemovePending(w)
    BY <2>1, RemoveStep
  <2>2. CASE ~RemovePending(w)
    <3>1. UNCHANGED <<now, issued, polled>>
      BY <2>2 DEF Proceed, DecideGrant, DecideDeny, DecideDefer, DecideFederate,
             DecideFail, FederatedToken, FederatedDeferred, FederatedError,
             FederatedGone, FederatedFail, CompletePending, ReloadPending,
             SavePending, ConsumeCode, history
    <3> QED BY <3>1, QuietStep
  <2> QED BY <2>1, <2>2
<1>5. CASE \E w \in Worker, i \in Id : Arrive(w, i)
  <2>1. UNCHANGED <<now, issued, polled>>
    BY <1>5 DEF Arrive, FindExpired, ResumePending, BeginInteraction,
                CallbackError, CallbackReturned, history
  <2> QED BY <2>1, QuietStep
<1>6. CASE UNCHANGED vars
  BY <1>6, QuietStep DEF vars
<1> QED BY <1>1, <1>2, <1>3, <1>4, <1>5, <1>6 DEF Next

\* Whatever requests race on the store, the client of a pending URL sees the
\* abstract one: poll_auth_pending, resume_pending, begin_interaction and the
\* callback implement PendingPromise, when the policy does not federate.
THEOREM KeepsPromise ==
  ASSUME "federate" \notin Decisions
  PROVE  Spec => Promise
<1>1. Init => PendingURL!Init
  BY DEF Init, PendingURL!Init, DeadlineOf
<1>2. TypeOK /\ LeaseInv /\ DeadlineInv /\ [Next]_vars
        => [PendingURL!Next]_(PendingURL!vars)
  BY ImplementsStep
<1> QED BY <1>1, <1>2, TypeCorrect, LeaseInvariant, DeadlineInvariant, PTL
        DEF Spec, Promise, PendingURL!Spec

=============================================================================
