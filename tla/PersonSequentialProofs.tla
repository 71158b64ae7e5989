----------------------- MODULE PersonSequentialProofs -----------------------
(* Theorems about PersonPending for a server whose requests take turns:    *)
(* any number of them at once, but no two at work on the same record; any  *)
(* number of pending requests, agents, codes and Access Servers, any       *)
(* lifetime and any policy.                                                *)
EXTENDS PersonPendingProofs

-----------------------------------------------------------------------------
(* Steps that leave the store alone *)

\* A slot that has nothing in hand, or is about to remove.
LEMMA NothingInHand ==
  /\ InTurn(Idle)
  /\ \A t : t.at = "remove" => InTurn(t)
  BY DEF InTurn, Idle

LEMMA TaskId ==
  ASSUME NEW t \in Task, t # Idle
  PROVE  t.id \in Id
  BY DEF Task, PolicyTask, FederatedTask, CompleteTask, DeferTask, FederateTask,
         RedeferTask, WriteTask, RemoveTask

\* The request goes on, or another one begins.
LEMMA TakesTurn ==
  ASSUME TypeOK, TurnInv, NEW w \in Worker, NEW t, Become(w, t),
         UNCHANGED <<store, issued, polled, redeemed>>,
         t # Idle => issued[t.id] # NoLease, InTurn(t)
  PROVE  TurnInv'
<1>1. task'[w] = t /\ \A v \in Worker : v # w => task'[v] = task[v]
  BY DEF TypeOK, Become
<1>2. \A k : InTurn(k) => InTurn(k)'
  BY DEF InTurn, Settled
<1>3. \A v \in Worker : (task'[v] # Idle => issued'[task'[v].id] # NoLease) /\ InTurn(task[v])'
  BY <1>1, <1>2 DEF TurnInv
<1>4. (\A i \in Id : store[i] # NoRecord => issued[i] # NoLease /\ Settled(i, store[i]))'
  BY DEF TurnInv, Settled
<1> QED BY <1>3, <1>4 DEF TurnInv

\* So for what has an id and is in turn.
LEMMA StaysInTurn ==
  ASSUME TypeOK, TurnInv, NEW w \in Worker, NEW t \in Task, Become(w, t),
         UNCHANGED <<store, issued, polled, redeemed>>,
         task[w] # Idle, t = Idle \/ t.id = task[w].id, InTurn(t)
  PROVE  TurnInv'
<1>1. t # Idle => issued[t.id] # NoLease
  BY DEF TurnInv
<1> QED BY <1>1, TakesTurn

-----------------------------------------------------------------------------
(* A request arrives *)

LEMMA ArriveInTurn ==
  ASSUME TypeOK, TurnInv, NEW w \in Worker, NEW i \in Id, Arrive(w, i)
  PROVE  TurnInv'
<1>1. UNCHANGED <<store, issued, polled, redeemed>>
  BY DEF Arrive, FindExpired, ResumePending, BeginInteraction, CallbackError,
         CallbackReturned, history
<1>2. store[i] # NoRecord => issued[i] # NoLease /\ Settled(i, store[i]) /\ store[i] \in Record
  BY DEF TypeOK, TurnInv
<1>3. CASE \E isPoll \in BOOLEAN : FindExpired(w, i, isPoll)
  <2> PICK isPoll \in BOOLEAN : FindExpired(w, i, isPoll)
    BY <1>3
  <2> DEFINE t == [at |-> "remove", id |-> i, poll |-> isPoll]
  <2>1. Become(w, t) /\ store[i] # NoRecord
    BY DEF FindExpired, Stale
  <2>2. t.at = "remove" /\ t.id = i
    OBVIOUS
  <2> HIDE DEF t
  <2> QED BY <1>1, <1>2, <2>1, <2>2, NothingInHand, TakesTurn
<1>4. CASE ResumePending(w, i)
  <2>1. store[i] # NoRecord
    BY <1>4 DEF ResumePending, Live
  <2>2. CASE store[i].federation = NoServer
    <3> DEFINE t == [at |-> "policy", id |-> i, request |-> store[i].request]
    <3>1. Become(w, t)
      BY <1>4, <2>2 DEF ResumePending
    <3>2. t.at = "policy" /\ t.id = i
      OBVIOUS
    <3> HIDE DEF t
    <3>3. InTurn(t)
      BY <2>1, <2>2, <3>2 DEF InTurn
    <3> QED BY <1>1, <1>2, <2>1, <3>1, <3>2, <3>3, TakesTurn
  <2>3. CASE store[i].federation # NoServer
    <3> DEFINE t == [at |-> "federated", id |-> i, request |-> store[i].request,
                     server |-> store[i].federation]
    <3>1. Become(w, t)
      BY <1>4, <2>3 DEF ResumePending
    <3>2. t.at = "federated" /\ t.id = i /\ t.server = store[i].federation
      OBVIOUS
    <3> HIDE DEF t
    <3>3. InTurn(t)
      BY <2>1, <3>2 DEF InTurn
    <3> QED BY <1>1, <1>2, <2>1, <3>1, <3>2, <3>3, TakesTurn
  <2> QED BY <2>2, <2>3
<1>5. CASE \E c \in Code : BeginInteraction(w, i, c)
  <2> PICK c \in Code : BeginInteraction(w, i, c)
    BY <1>5
  <2> DEFINE rec == Consumed(store[i])
             t == [at |-> "consume", id |-> i, record |-> rec]
  <2>1. Become(w, t) /\ store[i] # NoRecord /\ store[i].ps_interaction_code = c
          /\ ~store[i].interaction_code_consumed
    BY DEF BeginInteraction, FindCode
  <2>2. store[i].ps_interaction_code # NoCode
    BY <2>1, CodeAssumption
  <2>3. store[i].federation = NoServer /\ redeemed[i] = 0
    BY <1>2, <2>1, <2>2 DEF Settled
  <2>4. rec.interaction_code_consumed /\ rec.federation = NoServer
    BY <1>2, <2>1, <2>3 DEF Consumed, Record
  <2>5. t.at = "consume" /\ t.id = i /\ t.record = rec
    OBVIOUS
  <2> HIDE DEF t, rec
  <2>6. InTurn(t)
    BY <2>1, <2>3, <2>4, <2>5 DEF InTurn, Kept, Settled
  <2> QED BY <1>1, <1>2, <2>1, <2>5, <2>6, TakesTurn
<1>6. CASE CallbackError(w, i)
  <2> PICK f \in Failure : Become(w, [at |-> "complete", id |-> i, outcome |-> Error(f)])
    BY <1>6 DEF CallbackError
  <2> DEFINE t == [at |-> "complete", id |-> i, outcome |-> Error(f)]
  <2>1. Become(w, t) /\ store[i] # NoRecord
    BY <1>6 DEF CallbackError, Live
  <2>2. t.at = "complete" /\ t.id = i /\ t.outcome.state = "error"
    BY DEF Error
  <2> HIDE DEF t
  <2>3. InTurn(t)
    BY <2>1, <2>2 DEF InTurn
  <2> QED BY <1>1, <1>2, <2>1, <2>2, <2>3, TakesTurn
<1>7. CASE CallbackReturned(w, i)
  <2>1. store[i] # NoRecord
    BY <1>7 DEF CallbackReturned, Live
  <2>2. CASE store[i].federation = NoServer
    <3> DEFINE t == [at |-> "policy", id |-> i, request |-> store[i].request]
    <3>1. Become(w, t)
      BY <1>7, <2>2 DEF CallbackReturned
    <3>2. t.at = "policy" /\ t.id = i
      OBVIOUS
    <3> HIDE DEF t
    <3>3. InTurn(t)
      BY <2>1, <2>2, <3>2 DEF InTurn
    <3> QED BY <1>1, <1>2, <2>1, <3>1, <3>2, <3>3, TakesTurn
  <2>3. CASE store[i].federation # NoServer
    <3>1. Become(w, Idle)
      BY <1>7, <2>3 DEF CallbackReturned
    <3> QED BY <1>1, <3>1, NothingInHand, TakesTurn
  <2> QED BY <2>2, <2>3
<1> QED BY <1>3, <1>4, <1>5, <1>6, <1>7 DEF Arrive

-----------------------------------------------------------------------------
(* A policy decision, and the Access Server's answer *)

\* Outcomes for a record of this server, errors, and tokens of the right issuer.
LEMMA CompleteInTurn ==
  ASSUME NEW i, NEW o, store[i] # NoRecord,
         \/ store[i].federation = NoServer
         \/ o.state # "token"
         \/ o.token.iss = store[i].federation
  PROVE  InTurn([at |-> "complete", id |-> i, outcome |-> o])
  BY DEF InTurn

\* What comes after the verification of an Access Server's token.
LEMMA VerifiedInTurn ==
  ASSUME NEW i, NEW t, NEW server, NEW request, store[i] # NoRecord,
         store[i].federation \in {NoServer, server}
  PROVE  /\ InTurn(AfterVerification(i, t, server, request))
         /\ \/ AfterVerification(i, t, server, request) = Idle
            \/ AfterVerification(i, t, server, request).id = i
<1>1. CASE Verified(t, server, request)
  <2>1. AuthToken(t).token.iss = server
    BY <1>1 DEF AuthToken, Verified
  <2>2. InTurn([at |-> "complete", id |-> i, outcome |-> AuthToken(t)])
    BY <2>1, CompleteInTurn
  <2> QED BY <1>1, <2>2 DEF AfterVerification
<1>2. CASE ~Verified(t, server, request)
  BY <1>2, NothingInHand DEF AfterVerification
<1> QED BY <1>1, <1>2

LEMMA DecideInTurn ==
  ASSUME TypeOK, TurnInv, NEW w \in Worker,
         \/ DecideGrant(w) \/ DecideDeny(w) \/ DecideDefer(w)
         \/ DecideFederate(w) \/ DecideFail(w)
  PROVE  TurnInv'
<1> DEFINE i == task[w].id
<1>1. task[w].at = "policy" /\ UNCHANGED <<store, issued, polled, redeemed>>
  BY DEF DecideGrant, DecideDeny, DecideDefer, DecideFederate, DecideFail, history
<1>2. task[w] # Idle /\ InTurn(task[w])
  BY <1>1 DEF Idle, TurnInv
<1>3. store[i] # NoRecord /\ store[i].federation = NoServer
  BY <1>1, <1>2 DEF InTurn
<1>4. \E t \in Task : Become(w, t) /\ (t = Idle \/ t.id = i) /\ InTurn(t)
  <2>0. task[w] \in PolicyTask
    BY <1>1, TaskKinds DEF TypeOK
  <2>1. i \in Id /\ task[w].request \in Request
    BY <2>0 DEF PolicyTask
  <2>2. CASE DecideGrant(w)
    <3> DEFINE o == AuthToken(Minted(task[w].request))
               t == [at |-> "complete", id |-> i, outcome |-> o]
    <3>1. t \in Task
      BY <2>1, MintedType DEF Task, CompleteTask, Outcome, TokenSnapshot, AuthToken
    <3>2. InTurn(t)
      BY <1>3, CompleteInTurn
    <3>3. Become(w, t) /\ t.id = i
      BY <2>2 DEF DecideGrant
    <3> QED BY <3>1, <3>2, <3>3
  <2>3. CASE DecideDeny(w)
    <3> PICK f \in Failure : Become(w, [at |-> "complete", id |-> i, outcome |-> Error(f)])
      BY <2>3 DEF DecideDeny
    <3> DEFINE t == [at |-> "complete", id |-> i, outcome |-> Error(f)]
    <3>1. t \in Task
      BY <2>1 DEF Task, CompleteTask, Outcome, ErrorSnapshot, Error
    <3>2. InTurn(t)
      BY <1>3, CompleteInTurn
    <3> QED BY <3>1, <3>2
  <2>4. CASE DecideDefer(w)
    <3> DEFINE t == [at |-> "reload", id |-> i, edit |-> "defer"]
    <3>1. t \in Task
      BY <2>1 DEF Task, DeferTask
    <3>2. InTurn(t)
      BY <1>3 DEF InTurn
    <3>3. Become(w, t) /\ t.id = i
      BY <2>4 DEF DecideDefer
    <3> QED BY <3>1, <3>2, <3>3
  <2>5. CASE DecideFederate(w)
    <3>1. CASE Become(w, [at |-> "reload", id |-> i, edit |-> "federate",
                             request |-> task[w].request])
      <4> DEFINE t == [at |-> "reload", id |-> i, edit |-> "federate",
                       request |-> task[w].request]
      <4>1. t \in Task
        BY <2>1 DEF Task, FederateTask
      <4>2. InTurn(t)
        BY <1>3 DEF InTurn
      <4>3. Become(w, t) /\ t.id = i
        BY <3>1
      <4> QED BY <4>1, <4>2, <4>3
    <3>2. ASSUME NEW k \in Token,
                 Become(w, AfterVerification(i, k, task[w].request.aud,
                                                task[w].request))
          PROVE  \E t \in Task : Become(w, t) /\ (t = Idle \/ t.id = i) /\ InTurn(t)
      <4> DEFINE t == AfterVerification(i, k, task[w].request.aud, task[w].request)
      <4>1. t \in Task
        BY <2>1, AfterVerificationType
      <4>2. InTurn(t) /\ (t = Idle \/ t.id = i)
        BY <1>3, VerifiedInTurn
      <4>3. Become(w, t)
        BY <3>2
      <4> HIDE DEF t
      <4> QED BY <4>1, <4>2, <4>3
    <3>3. CASE Become(w, Idle)
      BY <3>3, IdleType, NothingInHand
    <3> QED BY <2>5, <3>1, <3>2, <3>3 DEF DecideFederate
  <2>6. CASE DecideFail(w)
    BY <2>6, IdleType, NothingInHand DEF DecideFail
  <2> QED BY <2>2, <2>3, <2>4, <2>5, <2>6
<1>5. PICK t \in Task : Become(w, t) /\ (t = Idle \/ t.id = i) /\ InTurn(t)
  BY <1>4
<1> QED BY <1>1, <1>2, <1>5, StaysInTurn

LEMMA FederatedInTurn ==
  ASSUME TypeOK, TurnInv, NEW w \in Worker,
         \/ FederatedToken(w) \/ FederatedDeferred(w) \/ FederatedError(w)
         \/ FederatedGone(w) \/ FederatedFail(w)
  PROVE  TurnInv'
<1> DEFINE i == task[w].id
<1>1. task[w].at = "federated" /\ UNCHANGED <<store, issued, polled, redeemed>>
  BY DEF FederatedToken, FederatedDeferred, FederatedError, FederatedGone,
         FederatedFail, history
<1>2. task[w] # Idle /\ InTurn(task[w])
  BY <1>1 DEF Idle, TurnInv
<1>3. store[i] # NoRecord /\ store[i].federation = task[w].server
  BY <1>1, <1>2 DEF InTurn
<1>4. \E t \in Task : Become(w, t) /\ (t = Idle \/ t.id = i) /\ InTurn(t)
  <2>0. task[w] \in FederatedTask
    BY <1>1, TaskKinds DEF TypeOK
  <2>1. i \in Id /\ task[w].server \in AccessServer
    BY <2>0 DEF FederatedTask
  <2>2. CASE FederatedToken(w)
    <3> PICK k \in Token : Become(w, AfterVerification(i, k, task[w].server,
                                                          task[w].request))
      BY <2>2 DEF FederatedToken
    <3> DEFINE t == AfterVerification(i, k, task[w].server, task[w].request)
    <3>1. t \in Task
      BY <2>1, AfterVerificationType
    <3>2. InTurn(t) /\ (t = Idle \/ t.id = i)
      BY <1>3, VerifiedInTurn
    <3>3. Become(w, t)
      OBVIOUS
    <3> HIDE DEF t
    <3> QED BY <3>1, <3>2, <3>3
  <2>3. CASE FederatedDeferred(w)
    <3> DEFINE t == [at |-> "reload", id |-> i, edit |-> "redefer",
                     server |-> task[w].server]
    <3>1. t \in Task
      BY <2>1 DEF Task, RedeferTask
    <3>2. InTurn(t)
      BY <1>3 DEF InTurn
    <3>3. Become(w, t) /\ t.id = i
      BY <2>3 DEF FederatedDeferred
    <3> QED BY <3>1, <3>2, <3>3
  <2>4. CASE FederatedError(w)
    <3> PICK f \in Failure : Become(w, [at |-> "complete", id |-> i, outcome |-> Error(f)])
      BY <2>4 DEF FederatedError
    <3> DEFINE t == [at |-> "complete", id |-> i, outcome |-> Error(f)]
    <3>1. t \in Task
      BY <2>1 DEF Task, CompleteTask, Outcome, ErrorSnapshot, Error
    <3>2. Error(f).state # "token"
      BY DEF Error
    <3>3. InTurn(t)
      BY <1>3, <3>2, CompleteInTurn
    <3> QED BY <3>1, <3>3
  <2>5. CASE FederatedGone(w)
    <3> DEFINE t == [at |-> "remove", id |-> i, poll |-> FALSE]
    <3>1. t \in Task
      BY <2>1 DEF Task, RemoveTask
    <3>2. InTurn(t)
      BY NothingInHand
    <3>3. Become(w, t) /\ t.id = i
      BY <2>5 DEF FederatedGone
    <3> QED BY <3>1, <3>2, <3>3
  <2>6. CASE FederatedFail(w)
    BY <2>6, IdleType, NothingInHand DEF FederatedFail
  <2> QED BY <2>2, <2>3, <2>4, <2>5, <2>6
<1>5. PICK t \in Task : Become(w, t) /\ (t = Idle \/ t.id = i) /\ InTurn(t)
  BY <1>4
<1> QED BY <1>1, <1>2, <1>5, StaysInTurn

-----------------------------------------------------------------------------
(* Writes *)

\* An edit keeps who decides, and leaves nothing of the user's part in a
\* record that goes, or stays, with an Access Server.
LEMMA EditSettled ==
  ASSUME NEW i, NEW r \in Record, Settled(i, r),
         NEW t \in DeferTask \cup FederateTask \cup RedeferTask,
         r.federation = IF t.edit = "redefer" THEN t.server ELSE NoServer
  PROVE  Kept(r, Edited(r, t)) /\ Settled(i, Edited(r, t))
<1>1. Deferred(r).snapshot.state # "token"
  BY DEF Deferred, Record, Waiting
<1>2. /\ Deferred(r).federation = r.federation
      /\ Deferred(r).ps_interaction_code = r.ps_interaction_code
      /\ Deferred(r).resource_interaction = r.resource_interaction
      /\ Deferred(r).interaction_code_consumed = r.interaction_code_consumed
  BY DEF Deferred, Record
<1>3. CASE t \in DeferTask
  BY <1>1, <1>2, <1>3 DEF DeferTask, Edited, Kept, Settled
<1>4. CASE t \in FederateTask
  <2>1. t.edit = "federate" /\ r.federation = NoServer
    BY <1>4 DEF FederateTask
  <2> DEFINE e == Federated(r, t.request)
  <2>2. Edited(r, t) = e
    BY <2>1 DEF Edited
  <2>3. /\ e.ps_interaction_code = NoCode
        /\ e.resource_interaction = "none"
        /\ e.snapshot.state # "token"
    BY <1>1 DEF Federated, Deferred, Record, Waiting
  <2> HIDE DEF e
  <2> QED BY <2>1, <2>2, <2>3 DEF Kept, Settled
<1>5. CASE t \in RedeferTask
  <2>1. t.edit = "redefer" /\ r.federation = t.server
    BY <1>5 DEF RedeferTask
  <2> DEFINE e == Redeferred(r, t.server)
  <2>2. Edited(r, t) = e
    BY <2>1 DEF Edited
  <2>3. /\ e.federation = r.federation
        /\ e.ps_interaction_code = r.ps_interaction_code
        /\ e.resource_interaction = r.resource_interaction
        /\ e.interaction_code_consumed = r.interaction_code_consumed
        /\ e.snapshot.state # "token"
    BY <1>1, <2>1 DEF Redeferred, Deferred, Record, Waiting
  <2> HIDE DEF e
  <2> QED BY <2>2, <2>3 DEF Kept, Settled
<1> QED BY <1>3, <1>4, <1>5

LEMMA ReloadInTurn ==
  ASSUME TypeOK, TurnInv, NEW w \in Worker, ReloadPending(w)
  PROVE  TurnInv'
<1> DEFINE i == task[w].id
           rec == Edited(store[i], task[w])
           t == [at |-> "save", id |-> i, record |-> rec]
<1>1. task[w].at = "reload" /\ UNCHANGED <<store, issued, polled, redeemed>>
  BY DEF ReloadPending, history
<1>2. task[w] # Idle /\ InTurn(task[w])
  BY <1>1 DEF Idle, TurnInv
<1>3. task[w] \in DeferTask \cup FederateTask \cup RedeferTask
  BY <1>1, TaskKinds DEF TypeOK
<1>4. i \in Id
  BY <1>3 DEF DeferTask, FederateTask, RedeferTask
<1>5. /\ store[i] # NoRecord /\ store[i] \in Record /\ Settled(i, store[i])
      /\ store[i].federation = IF task[w].edit = "redefer"
                               THEN task[w].server ELSE NoServer
  BY <1>1, <1>2, <1>4 DEF InTurn, TypeOK, TurnInv
<1>6. Kept(store[i], rec) /\ Settled(i, rec)
  BY <1>3, <1>5, EditSettled
<1>7. rec \in Record
  BY <1>3, <1>5, EditedType
<1>8. Become(w, t)
  BY <1>5 DEF ReloadPending
<1>9. t.at = "save" /\ t.id = i /\ t.record = rec
  OBVIOUS
<1>10. t \in Task
  BY <1>4, <1>7 DEF Task, WriteTask
<1> HIDE DEF t, rec
<1>11. InTurn(t)
  BY <1>5, <1>6, <1>9 DEF InTurn
<1> QED BY <1>1, <1>2, <1>8, <1>9, <1>10, <1>11, StaysInTurn

\* The write that ends a request.  Nobody else is at work on the record.
LEMMA WriteInTurn ==
  ASSUME TypeOK, TurnInv, TakingTurns, NEW w \in Worker, NEW i \in Id, NEW r,
         task[w] # Idle, task[w].id = i,
         store' = [store EXCEPT ![i] = r], Become(w, Idle), UNCHANGED issued,
         issued[i] # NoLease,
         \A j \in Id : j # i => polled'[j] = polled[j] /\ redeemed'[j] = redeemed[j],
         polled'[i] = "gone" => r = NoRecord, redeemed'[i] <= 1,
         r # NoRecord => Settled(i, r),
         r # NoRecord => redeemed'[i] = redeemed[i] \/ r.interaction_code_consumed
  PROVE  TurnInv'
<1>1. store'[i] = r /\ \A j \in Id : j # i => store'[j] = store[j]
  BY DEF TypeOK
<1>2. task'[w] = Idle /\ \A v \in Worker : v # w => task'[v] = task[v]
  BY DEF TypeOK, Become
<1>3. ASSUME NEW v \in Worker
      PROVE  (task'[v] # Idle => issued'[task'[v].id] # NoLease) /\ InTurn(task[v])'
  <2>1. CASE task'[v] = Idle
    BY <2>1 DEF InTurn, Idle
  <2>2. CASE task'[v] # Idle
    <3>1. v # w /\ task'[v] = task[v] /\ task[v] # Idle
      BY <1>2, <2>2
    <3>2. task[v].id \in Id /\ task[v].id # i
      BY <3>1, TaskId DEF TypeOK, TakingTurns
    <3>3. /\ store'[task[v].id] = store[task[v].id]
          /\ redeemed'[task[v].id] = redeemed[task[v].id]
      BY <1>1, <3>2
    <3>4. issued[task[v].id] # NoLease /\ InTurn(task[v])
      BY <3>1 DEF TurnInv
    <3> QED BY <3>1, <3>3, <3>4 DEF InTurn, Settled
  <2> QED BY <2>1, <2>2
<1>4. ASSUME NEW j \in Id, store'[j] # NoRecord
      PROVE  (issued[j] # NoLease /\ Settled(j, store[j]))'
  <2>1. CASE j = i
    BY <1>1, <1>4, <2>1 DEF Settled
  <2>2. CASE j # i
    <3>1. issued[j] # NoLease /\ Settled(j, store[j])
      BY <1>1, <1>4, <2>2 DEF TurnInv
    <3> QED BY <1>1, <2>2, <3>1 DEF Settled
  <2> QED BY <2>1, <2>2
<1>5. \A j \in Id : issued'[j] = NoLease => redeemed'[j] = 0
  BY DEF TurnInv
<1>6. \A j \in Id : redeemed'[j] <= 1
  BY DEF TurnInv
<1>7. \A j \in Id : polled'[j] = "gone" => issued'[j] # NoLease /\ store'[j] = NoRecord
  BY <1>1 DEF TurnInv
<1> QED BY <1>3, <1>4, <1>5, <1>6, <1>7 DEF TurnInv

LEMMA EndInTurn ==
  ASSUME TypeOK, TurnInv, TakingTurns, NEW w \in Worker,
         \/ RemovePending(w) \/ CompletePending(w)
         \/ SavePending(w) \/ ConsumeCode(w)
  PROVE  TurnInv'
<1> DEFINE i == task[w].id
<1>1. /\ task[w] # Idle /\ InTurn(task[w]) /\ issued[i] # NoLease
      /\ UNCHANGED issued /\ Become(w, Idle)
  BY DEF Idle, TurnInv, RemovePending, CompletePending, SavePending, ConsumeCode, history
<1>2. i \in Id
  BY <1>1, TaskId DEF TypeOK
<1>3. redeemed[i] <= 1 /\ (polled[i] = "gone" => store[i] = NoRecord)
  BY <1>2 DEF TurnInv
<1>4. CASE RemovePending(w)
  <2>1. store' = [store EXCEPT ![i] = NoRecord] /\ UNCHANGED redeemed
    BY <1>4 DEF RemovePending, Remove
  <2>2. \A j \in Id : j # i => polled'[j] = polled[j]
    BY <1>2, <1>4 DEF RemovePending, TypeOK
  <2> QED BY <1>1, <1>2, <1>3, <2>1, <2>2, WriteInTurn
<1>5. CASE CompletePending(w)
  <2> PICK o : o = task[w].outcome
    OBVIOUS
  <2>1. store[i] # NoRecord /\ store[i] \in Record /\ Settled(i, store[i])
    BY <1>1, <1>2, <1>5 DEF CompletePending, InTurn, TypeOK, TurnInv
  <2> PICK r : r = [store[i] EXCEPT !.snapshot = o]
    OBVIOUS
  <2>2. store' = [store EXCEPT ![i] = r] /\ UNCHANGED <<polled, redeemed>>
    BY <1>5, <2>1 DEF CompletePending, Complete, history
  <2>3. store[i].federation # NoServer /\ o.state = "token" =>
          o.token.iss = store[i].federation
    BY <1>1, <1>5 DEF CompletePending, InTurn
  <2>4. /\ r.federation = store[i].federation
        /\ r.ps_interaction_code = store[i].ps_interaction_code
        /\ r.resource_interaction = store[i].resource_interaction
        /\ r.interaction_code_consumed = store[i].interaction_code_consumed
        /\ r.snapshot = o
    BY <2>1 DEF Record
  <2>5. Settled(i, r)
    BY <2>1, <2>3, <2>4 DEF Settled
  <2> QED BY <1>1, <1>2, <1>3, <2>1, <2>2, <2>5, WriteInTurn
<1>6. CASE SavePending(w)
  <2> PICK r : r = task[w].record
    OBVIOUS
  <2>1. store[i] # NoRecord /\ Settled(i, r)
    BY <1>1, <1>6 DEF SavePending, InTurn
  <2>2. store' = [store EXCEPT ![i] = r] /\ UNCHANGED <<polled, redeemed>>
    BY <1>6 DEF SavePending, Insert, history
  <2> QED BY <1>1, <1>2, <1>3, <2>1, <2>2, WriteInTurn
<1>7. CASE ConsumeCode(w)
  <2> PICK r : r = task[w].record
    OBVIOUS
  <2>1. /\ store[i] # NoRecord /\ Settled(i, r)
        /\ redeemed[i] = 0 /\ r.interaction_code_consumed
    BY <1>1, <1>7 DEF ConsumeCode, InTurn
  <2>2. store' = [store EXCEPT ![i] = r] /\ UNCHANGED polled
    BY <1>7 DEF ConsumeCode, Insert
  <2>3. redeemed'[i] <= 1 /\ \A j \in Id : j # i => redeemed'[j] = redeemed[j]
    BY <1>2, <1>7, <2>1 DEF ConsumeCode, TypeOK
  <2> QED BY <1>1, <1>2, <1>3, <2>1, <2>2, <2>3, WriteInTurn
<1> QED BY <1>4, <1>5, <1>6, <1>7

-----------------------------------------------------------------------------
(* Steps that need no slot *)

\* A new id has no request in hand, and its code has not been redeemed.
LEMMA ExchangeInTurn ==
  ASSUME TypeOK, TurnInv, NEW i \in Id, ExchangeToken(i)
  PROVE  TurnInv'
<1>1. PICK r \in Request, f \in AccessServer \cup {NoServer},
           u \in {"none", "https", "other"}, c \in Code \cup {NoCode} :
        /\ CreatePending(i, NewRecord(r, f, u, c))
        /\ f # NoServer => u = "none" /\ c = NoCode
  BY DEF ExchangeToken, CreateDeferredPersonResponse,
         CreateFederatedDeferredResponse,
         CreateResourceInitiatedDeferredResponse, Request
<1>2. PICK rec : rec = NewRecord(r, f, u, c)
  OBVIOUS
<1>3. /\ rec.federation = f /\ rec.ps_interaction_code = c
      /\ rec.resource_interaction = u /\ rec.snapshot.state # "token"
  BY <1>2 DEF NewRecord, Waiting
<1>4. rec \in Record /\ rec.request \in Request /\ rec.expires_at \in Nat
  <2>1. now \in Nat
    BY TimeAssumption DEF TypeOK
  <2> QED BY <1>2, <2>1, NewRecordType
<1>5. PICK lease : lease = [request |-> rec.request, expires_at |-> rec.expires_at]
  OBVIOUS
<1>6. lease # NoLease
  BY <1>4, <1>5, RecordAssumption DEF Lease
<1>7. /\ issued[i] = NoLease /\ store' = [store EXCEPT ![i] = rec]
      /\ issued' = [issued EXCEPT ![i] = lease]
      /\ UNCHANGED <<now, task, polled, redeemed>>
  BY <1>1, <1>2, <1>5 DEF CreatePending, Insert
<1>8. /\ store'[i] = rec /\ issued'[i] = lease
      /\ \A j \in Id : j # i => store'[j] = store[j] /\ issued'[j] = issued[j]
  BY <1>7 DEF TypeOK
<1>9. redeemed[i] = 0 /\ Settled(i, rec)
  BY <1>1, <1>3, <1>7 DEF TurnInv, Settled
<1>10. ASSUME NEW j \in Id, store'[j] # NoRecord
       PROVE  (issued[j] # NoLease /\ Settled(j, store[j]))'
  <2>1. CASE j = i
    BY <1>6, <1>7, <1>8, <1>9, <2>1 DEF Settled
  <2>2. CASE j # i
    BY <1>7, <1>8, <1>10, <2>2 DEF TurnInv, Settled
  <2> QED BY <2>1, <2>2
<1>11. ASSUME NEW w \in Worker
       PROVE  (task[w] # Idle => issued[task[w].id] # NoLease)' /\ InTurn(task[w])'
  <2>1. CASE task[w] = Idle
    BY <1>7, <2>1 DEF InTurn, Idle
  <2>2. CASE task[w] # Idle
    <3>1. issued[task[w].id] # NoLease /\ InTurn(task[w])
      BY <2>2 DEF TurnInv
    <3>2. task[w].id \in Id
      BY <2>2 DEF TypeOK, Task, PolicyTask, FederatedTask, CompleteTask, DeferTask,
                  FederateTask, RedeferTask, WriteTask, RemoveTask
    <3>3. store'[task[w].id] = store[task[w].id] /\ issued'[task[w].id] = issued[task[w].id]
      BY <1>7, <1>8, <3>1, <3>2
    <3> QED BY <1>7, <3>1, <3>3 DEF InTurn, Settled
  <2> QED BY <2>1, <2>2
<1>12. \A j \in Id : (issued[j] = NoLease => redeemed[j] = 0)' /\ redeemed'[j] <= 1
  BY <1>6, <1>7, <1>8 DEF TurnInv
<1>13. \A j \in Id : (polled[j] = "gone" => issued[j] # NoLease /\ store[j] = NoRecord)'
  BY <1>7, <1>8 DEF TurnInv
<1> QED BY <1>10, <1>11, <1>12, <1>13 DEF TurnInv

\* A poll says Gone only of a record that is not there.
LEMMA PollInTurn ==
  ASSUME TypeOK, TurnInv, NEW i \in Id, PollPending(i)
  PROVE  TurnInv'
<1>1. issued[i] # NoLease /\ UNCHANGED <<store, task, issued, redeemed>>
  BY DEF PollPending
<1>2. store[i] # NoRecord => PollOutcome(store[i].snapshot) # "gone"
  BY DEF TypeOK, Record, Snapshot, WaitingSnapshot, Outcome, TokenSnapshot,
         ErrorSnapshot, PollOutcome
<1>3. polled'[i] = "gone" => store[i] = NoRecord
  BY <1>2 DEF PollPending, TypeOK
<1>4. \A j \in Id : j # i => polled'[j] = polled[j]
  BY DEF PollPending, TypeOK
<1>5. \A j \in Id : (polled[j] = "gone" => issued[j] # NoLease /\ store[j] = NoRecord)'
  BY <1>1, <1>3, <1>4 DEF TurnInv
<1> QED BY <1>1, <1>5 DEF TurnInv, InTurn, Settled

\* What a request has in hand is the record as it still is.
LEMMA TurnStep == TypeOK /\ TurnInv /\ TakingTurns /\ [Next]_vars => TurnInv'
<1> SUFFICES ASSUME TypeOK, TurnInv, TakingTurns, [Next]_vars PROVE TurnInv'
  OBVIOUS
<1>1. CASE Tick
  BY <1>1 DEF Tick, history, TurnInv, InTurn, Settled
<1>2. CASE \E i \in Id : ExchangeToken(i) \/ PollPending(i)
  BY <1>2, ExchangeInTurn, PollInTurn
<1>3. CASE \E w \in Worker : Proceed(w)
  BY <1>3, DecideInTurn, FederatedInTurn, ReloadInTurn, EndInTurn DEF Proceed
<1>4. CASE \E w \in Worker, i \in Id : Arrive(w, i)
  BY <1>4, ArriveInTurn
<1>5. CASE UNCHANGED vars
  BY <1>5 DEF vars, TurnInv, InTurn, Settled
<1> QED BY <1>1, <1>2, <1>3, <1>4, <1>5 DEF Next

LEMMA TurnTypes == TurnSpec => []TypeOK
<1>1. [Next /\ TakingTurns']_vars => [Next]_vars
  OBVIOUS
<1> QED BY <1>1, TypeCorrect, PTL DEF TurnSpec, Spec

LEMMA TurnInvariant == TurnSpec => [](TurnInv /\ TakingTurns)
<1>1. Init => TurnInv /\ TakingTurns
  BY DEF Init, TurnInv, InTurn, TakingTurns, Idle
<1>2. TypeOK /\ (TurnInv /\ TakingTurns) /\ [Next /\ TakingTurns']_vars
        => (TurnInv /\ TakingTurns)'
  <2>1. CASE UNCHANGED vars
    BY <2>1, TurnStep DEF vars, TakingTurns
  <2> QED BY <2>1, TurnStep
<1> QED BY <1>1, <1>2, TurnTypes, PTL DEF TurnSpec

\* A server that has one request at a time takes turns.
THEOREM OneAtATime ==
  ASSUME NEW only, Worker = {only}
  PROVE  Spec => TurnSpec
<1>1. [Next]_vars => [Next /\ TakingTurns']_vars
  BY DEF TakingTurns
<1> QED BY <1>1, PTL DEF Spec, TurnSpec

-----------------------------------------------------------------------------
(* What a request has in hand is what one step makes of its record *)

LEMMA HandIdle == Hand(Idle)
  BY DEF Hand, Idle

\* The request goes on, or another one begins.
LEMMA TakesInHand ==
  ASSUME TypeOK, HandInv, NEW w \in Worker, NEW t, Become(w, t), Hand(t),
         UNCHANGED <<now, store>>
  PROVE  HandInv'
<1>1. task'[w] = t /\ \A v \in Worker : v # w => task'[v] = task[v]
  BY DEF TypeOK, Become
<1>2. \A k : Hand(k) => Hand(k)'
  BY DEF Hand, Service!Stale
<1> QED BY <1>1, <1>2 DEF HandInv

\* An outcome is a decision about the record when its token is in order.
LEMMA OutcomeDecided ==
  ASSUME NEW i \in Id, NEW o, store[i] \in Record,
         o.state = "token" => /\ o.token.agent = store[i].request.agent
                              /\ o.token.iss \in Service!Issuers(store[i])
  PROVE  Hand([at |-> "complete", id |-> i, outcome |-> o])
<1> PICK r : r = [store[i] EXCEPT !.snapshot = o]
  OBVIOUS
<1>1. /\ r.request = store[i].request /\ r.expires_at = store[i].expires_at
      /\ r.federation = store[i].federation
      /\ r.ps_interaction_code = store[i].ps_interaction_code
      /\ r.resource_interaction = store[i].resource_interaction
      /\ r.interaction_code_consumed = store[i].interaction_code_consumed
      /\ r.snapshot = o
  BY DEF Record
<1>2. Service!Decided(store[i], r)
  BY <1>1 DEF Service!Decided, Service!SameInteraction
<1> QED BY <1>2 DEF Hand

LEMMA ErrorDecided ==
  ASSUME NEW i \in Id, NEW f, store[i] \in Record
  PROVE  Hand([at |-> "complete", id |-> i, outcome |-> Error(f)])
<1>1. Error(f).state # "token"
  BY DEF Error
<1> QED BY <1>1, OutcomeDecided

LEMMA VerifiedDecided ==
  ASSUME NEW i \in Id, NEW k, NEW server, NEW request, store[i] \in Record,
         request.agent = store[i].request.agent, server \in Service!Issuers(store[i])
  PROVE  Hand(AfterVerification(i, k, server, request))
<1>1. CASE Verified(k, server, request)
  <2>1. /\ AuthToken(k).token.agent = store[i].request.agent
        /\ AuthToken(k).token.iss \in Service!Issuers(store[i])
    BY <1>1 DEF AuthToken, Verified
  <2> QED BY <1>1, <2>1, OutcomeDecided DEF AfterVerification
<1>2. CASE ~Verified(k, server, request)
  BY <1>2, HandIdle DEF AfterVerification
<1> QED BY <1>1, <1>2

LEMMA ArriveInHand ==
  ASSUME TypeOK, HandInv, NEW w \in Worker, NEW i \in Id, Arrive(w, i)
  PROVE  HandInv'
<1>1. UNCHANGED <<now, store>>
  BY DEF Arrive, FindExpired, ResumePending, BeginInteraction, CallbackError,
         CallbackReturned
<1>2. store[i] # NoRecord => store[i] \in Record
  BY DEF TypeOK
<1>3. CASE \E isPoll \in BOOLEAN : FindExpired(w, i, isPoll)
  <2> PICK isPoll \in BOOLEAN : FindExpired(w, i, isPoll)
    BY <1>3
  <2> PICK t : t = [at |-> "remove", id |-> i, poll |-> isPoll]
    OBVIOUS
  <2>1. Become(w, t) /\ store[i] # NoRecord /\ Service!Stale(i)
    BY DEF FindExpired, Stale, IsExpired, Service!Stale
  <2>2. Hand(t)
    BY <2>1 DEF Hand
  <2> QED BY <1>1, <2>1, <2>2, TakesInHand
<1>4. CASE ResumePending(w, i) \/ CallbackReturned(w, i)
  <2>1. \E t : Become(w, t) /\ t.at \in {"policy", "federated", "idle"}
    <3>1. CASE store[i].federation = NoServer
      <4> PICK t : t = [at |-> "policy", id |-> i, request |-> store[i].request]
        OBVIOUS
      <4>1. Become(w, t) /\ t.at = "policy"
        BY <1>4, <3>1 DEF ResumePending, CallbackReturned
      <4> QED BY <4>1
    <3>2. CASE store[i].federation # NoServer /\ ResumePending(w, i)
      <4> PICK t : t = [at |-> "federated", id |-> i, request |-> store[i].request,
                        server |-> store[i].federation]
        OBVIOUS
      <4>1. Become(w, t) /\ t.at = "federated"
        BY <3>2 DEF ResumePending
      <4> QED BY <4>1
    <3>3. CASE store[i].federation # NoServer /\ CallbackReturned(w, i)
      <4>1. Become(w, Idle) /\ Idle.at = "idle"
        BY <3>3 DEF CallbackReturned, Idle
      <4> QED BY <4>1
    <3> QED BY <1>4, <3>1, <3>2, <3>3
  <2>2. PICK t : Become(w, t) /\ t.at \in {"policy", "federated", "idle"}
    BY <2>1
  <2>3. Hand(t)
    BY <2>2 DEF Hand
  <2> QED BY <1>1, <2>2, <2>3, TakesInHand
<1>5. CASE \E c \in Code : BeginInteraction(w, i, c)
  <2> PICK c \in Code : BeginInteraction(w, i, c)
    BY <1>5
  <2> PICK r : r = Consumed(store[i])
    OBVIOUS
  <2> PICK t : t = [at |-> "consume", id |-> i, record |-> r]
    OBVIOUS
  <2>1. /\ Become(w, t) /\ store[i] # NoRecord
        /\ store[i].ps_interaction_code # NoCode /\ ~store[i].interaction_code_consumed
    BY CodeAssumption DEF BeginInteraction, FindCode
  <2>2. store[i] \in Record
    BY <1>2, <2>1
  <2>3. r = [store[i] EXCEPT !.interaction_code_consumed = TRUE,
                           !.snapshot = r.snapshot]
    BY <2>2 DEF Consumed, Record
  <2>4. \/ r.snapshot = store[i].snapshot
        \/ store[i].snapshot.state = "waiting" /\ r.snapshot.state = "waiting"
    BY <2>2 DEF Consumed, Record, Waiting
  <2>5. Service!Spent(store[i], r)
    BY <2>1, <2>3, <2>4 DEF Service!Spent
  <2>6. Hand(t)
    BY <2>5 DEF Hand
  <2> QED BY <1>1, <2>1, <2>6, TakesInHand
<1>6. CASE CallbackError(w, i)
  <2> PICK f \in Failure : Become(w, [at |-> "complete", id |-> i, outcome |-> Error(f)])
    BY <1>6 DEF CallbackError
  <2>1. Hand([at |-> "complete", id |-> i, outcome |-> Error(f)])
    BY <1>2, <1>6, ErrorDecided DEF CallbackError, Live
  <2> QED BY <1>1, <2>1, TakesInHand
<1> QED BY <1>3, <1>4, <1>5, <1>6 DEF Arrive

LEMMA DecideInHand ==
  ASSUME TypeOK, LeaseInv, TurnInv, HandInv, NEW w \in Worker,
         \/ DecideGrant(w) \/ DecideDeny(w) \/ DecideDefer(w)
         \/ DecideFederate(w) \/ DecideFail(w)
  PROVE  HandInv'
<1> PICK i : i = task[w].id
  OBVIOUS
<1>1. task[w].at = "policy" /\ UNCHANGED <<now, store>>
  BY DEF DecideGrant, DecideDeny, DecideDefer, DecideFederate, DecideFail
<1>2. task[w] \in PolicyTask
  BY <1>1, TaskKinds DEF TypeOK
<1>3. i \in Id
  BY <1>2 DEF PolicyTask
<1>4. store[i] # NoRecord /\ store[i].federation = NoServer
  BY <1>1 DEF TurnInv, InTurn
<1>5. store[i] \in Record /\ store[i].request = task[w].request
  BY <1>1, <1>3, <1>4 DEF TypeOK, LeaseInv, GoodRecord, GoodTask
<1>6. /\ PersonServer \in Service!Issuers(store[i])
      /\ task[w].request.aud \in Service!Issuers(store[i])
  BY <1>4, <1>5 DEF Service!Issuers
<1>7. CASE DecideGrant(w)
  <2> PICK o : o = AuthToken(Minted(task[w].request))
    OBVIOUS
  <2>1. o.token.agent = store[i].request.agent /\ o.token.iss \in Service!Issuers(store[i])
    BY <1>5, <1>6 DEF AuthToken, Minted
  <2>2. Become(w, [at |-> "complete", id |-> i, outcome |-> o])
    BY <1>7 DEF DecideGrant
  <2> QED BY <1>1, <1>3, <1>5, <2>1, <2>2, OutcomeDecided, TakesInHand
<1>8. CASE DecideDeny(w)
  <2> PICK f \in Failure : Become(w, [at |-> "complete", id |-> i, outcome |-> Error(f)])
    BY <1>8 DEF DecideDeny
  <2>1. Hand([at |-> "complete", id |-> i, outcome |-> Error(f)])
    BY <1>3, <1>5, ErrorDecided
  <2> QED BY <1>1, <2>1, TakesInHand
<1>9. CASE DecideDefer(w)
  <2>1. Become(w, [at |-> "reload", id |-> i, edit |-> "defer"])
    BY <1>9 DEF DecideDefer
  <2>2. Hand([at |-> "reload", id |-> i, edit |-> "defer"])
    BY DEF Hand
  <2> QED BY <1>1, <2>1, <2>2, TakesInHand
<1>10. CASE DecideFederate(w)
  <2> PICK t : t = [at |-> "reload", id |-> i, edit |-> "federate",
                    request |-> task[w].request]
    OBVIOUS
  <2>1. Hand(t)
    BY DEF Hand
  <2>2. ASSUME NEW k \in Token,
               Become(w, AfterVerification(i, k, task[w].request.aud, task[w].request))
        PROVE  HandInv'
    <3>1. Hand(AfterVerification(i, k, task[w].request.aud, task[w].request))
      BY <1>3, <1>5, <1>6, VerifiedDecided
    <3> QED BY <1>1, <2>2, <3>1, TakesInHand
  <2>3. \/ Become(w, t)
        \/ \E k \in Token :
             Become(w, AfterVerification(i, k, task[w].request.aud, task[w].request))
        \/ Become(w, Idle)
    BY <1>10 DEF DecideFederate
  <2> QED BY <1>1, <2>1, <2>2, <2>3, HandIdle, TakesInHand
<1>11. CASE DecideFail(w)
  BY <1>1, <1>11, HandIdle, TakesInHand DEF DecideFail
<1> QED BY <1>7, <1>8, <1>9, <1>10, <1>11

LEMMA FederatedInHand ==
  ASSUME TypeOK, LeaseInv, TurnInv, HandInv, NEW w \in Worker,
         \/ FederatedToken(w) \/ FederatedDeferred(w) \/ FederatedError(w)
         \/ FederatedGone(w) \/ FederatedFail(w)
  PROVE  HandInv'
<1> PICK i : i = task[w].id
  OBVIOUS
<1>1. task[w].at = "federated" /\ UNCHANGED <<now, store>>
  BY DEF FederatedToken, FederatedDeferred, FederatedError, FederatedGone, FederatedFail
<1>2. task[w] \in FederatedTask
  BY <1>1, TaskKinds DEF TypeOK
<1>3. i \in Id /\ task[w].server # NoServer
  BY <1>2, ServerAssumption DEF FederatedTask
<1>4. store[i] # NoRecord /\ store[i].federation = task[w].server
  BY <1>1 DEF TurnInv, InTurn
<1>5. store[i] \in Record /\ store[i].request = task[w].request
  BY <1>1, <1>3, <1>4 DEF TypeOK, LeaseInv, GoodRecord, GoodTask
<1>6. task[w].server \in Service!Issuers(store[i])
  BY <1>3, <1>4 DEF Service!Issuers
<1>7. CASE FederatedToken(w)
  <2> PICK k \in Token : Become(w, AfterVerification(i, k, task[w].server,
                                                        task[w].request))
    BY <1>7 DEF FederatedToken
  <2>1. Hand(AfterVerification(i, k, task[w].server, task[w].request))
    BY <1>3, <1>5, <1>6, VerifiedDecided
  <2> QED BY <1>1, <2>1, TakesInHand
<1>8. CASE FederatedDeferred(w)
  <2> PICK t : t = [at |-> "reload", id |-> i, edit |-> "redefer",
                    server |-> task[w].server]
    OBVIOUS
  <2>1. Become(w, t) /\ Hand(t)
    BY <1>8 DEF FederatedDeferred, Hand
  <2> QED BY <1>1, <2>1, TakesInHand
<1>9. CASE FederatedError(w)
  <2> PICK f \in Failure : Become(w, [at |-> "complete", id |-> i, outcome |-> Error(f)])
    BY <1>9 DEF FederatedError
  <2>1. Hand([at |-> "complete", id |-> i, outcome |-> Error(f)])
    BY <1>3, <1>5, ErrorDecided
  <2> QED BY <1>1, <2>1, TakesInHand
<1>10. CASE FederatedGone(w)
  <2> PICK t : t = [at |-> "remove", id |-> i, poll |-> FALSE]
    OBVIOUS
  <2>1. Become(w, t) /\ Hand(t)
    BY <1>3, <1>4, <1>10 DEF FederatedGone, Hand
  <2> QED BY <1>1, <2>1, TakesInHand
<1>11. CASE FederatedFail(w)
  BY <1>1, <1>11, HandIdle, TakesInHand DEF FederatedFail
<1> QED BY <1>7, <1>8, <1>9, <1>10, <1>11

\* A deferral, a federation and a second deferral, of the record as it is.
LEMMA EditDecided ==
  ASSUME NEW i \in Id, NEW t \in Task, t.at = "reload", store[i] \in Record,
         store[i].federation = IF t.edit = "redefer" THEN t.server ELSE NoServer,
         t.edit = "federate" => t.request = store[i].request
  PROVE  Service!Decided(store[i], Edited(store[i], t))
<1> PICK e : e = Edited(store[i], t)
  OBVIOUS
<1>1. t \in DeferTask \cup FederateTask \cup RedeferTask
  BY TaskKinds
<1>2. CASE t \in DeferTask
  <2>1. e = [store[i] EXCEPT !.snapshot = Waiting("pending")]
    BY <1>2 DEF DeferTask, Edited, Deferred
  <2>2. e.snapshot.state # "token"
    BY <2>1 DEF Record, Waiting
  <2> QED BY <2>1, <2>2 DEF Record, Service!Decided, Service!SameInteraction
<1>3. CASE t \in FederateTask
  <2>1. t.edit = "federate" /\ e = Federated(store[i], t.request)
    BY <1>3 DEF FederateTask, Edited
  <2>2. /\ e.request = store[i].request /\ e.expires_at = store[i].expires_at
        /\ e.federation = store[i].request.aud
        /\ e.ps_interaction_code = NoCode /\ e.resource_interaction = "none"
        /\ e.snapshot.state = "waiting"
    BY <2>1 DEF Federated, Deferred, Record, Waiting
  <2>3. store[i].federation = NoServer
    BY <2>1
  <2> QED BY <2>2, <2>3 DEF Service!Decided, Service!HandedOver
<1>4. CASE t \in RedeferTask
  <2>1. t.edit = "redefer" /\ e = Redeferred(store[i], t.server)
    BY <1>4 DEF RedeferTask, Edited
  <2>2. /\ e.request = store[i].request /\ e.expires_at = store[i].expires_at
        /\ e.federation = t.server
        /\ e.ps_interaction_code = store[i].ps_interaction_code
        /\ e.resource_interaction = store[i].resource_interaction
        /\ e.interaction_code_consumed = store[i].interaction_code_consumed
        /\ e.snapshot.state = "waiting"
    BY <2>1 DEF Redeferred, Deferred, Record, Waiting
  <2>3. store[i].federation = t.server
    BY <2>1
  <2> QED BY <2>2, <2>3 DEF Service!Decided, Service!SameInteraction
<1> QED BY <1>1, <1>2, <1>3, <1>4

LEMMA ReloadInHand ==
  ASSUME TypeOK, LeaseInv, TurnInv, HandInv, NEW w \in Worker, ReloadPending(w)
  PROVE  HandInv'
<1> PICK i : i = task[w].id
  OBVIOUS
<1>1. task[w].at = "reload" /\ UNCHANGED <<now, store>>
  BY DEF ReloadPending
<1>2. task[w] \in DeferTask \cup FederateTask \cup RedeferTask /\ task[w] \in Task
  BY <1>1, TaskKinds DEF TypeOK
<1>3. i \in Id
  BY <1>2 DEF DeferTask, FederateTask, RedeferTask
<1>4. /\ store[i] # NoRecord
      /\ store[i].federation = IF task[w].edit = "redefer"
                               THEN task[w].server ELSE NoServer
  BY <1>1 DEF TurnInv, InTurn
<1>5. store[i] \in Record
  BY <1>3, <1>4 DEF TypeOK
<1>6. task[w].edit = "federate" => task[w].request = store[i].request
  BY <1>1, <1>3, <1>4 DEF LeaseInv, GoodRecord, GoodTask
<1> PICK e : e = Edited(store[i], task[w])
  OBVIOUS
<1>7. Service!Decided(store[i], e)
  BY <1>1, <1>2, <1>3, <1>4, <1>5, <1>6, EditDecided
<1> PICK t : t = [at |-> "save", id |-> i, record |-> e]
  OBVIOUS
<1>8. Become(w, t)
  BY <1>4 DEF ReloadPending
<1>9. Hand(t)
  BY <1>7 DEF Hand
<1> QED BY <1>1, <1>8, <1>9, TakesInHand

\* A write to one record leaves what others have in hand.
LEMMA OthersInHand ==
  ASSUME TypeOK, HandInv, NEW i \in Id, NEW r, NEW v \in Worker,
         store' = [store EXCEPT ![i] = r], UNCHANGED now,
         task'[v] = task[v], task[v] # Idle, task[v].id # i
  PROVE  Hand(task[v])'
<1>1. task[v].id \in Id
  BY TaskId DEF TypeOK
<1>2. store'[task[v].id] = store[task[v].id]
  BY <1>1 DEF TypeOK
<1>3. Hand(task[v])
  BY DEF HandInv
<1> QED BY <1>2, <1>3 DEF Hand, Service!Stale

LEMMA EndInHand ==
  ASSUME TypeOK, HandInv, TakingTurns, NEW w \in Worker,
         \/ RemovePending(w) \/ CompletePending(w)
         \/ SavePending(w) \/ ConsumeCode(w)
  PROVE  HandInv'
<1> PICK i : i = task[w].id
  OBVIOUS
<1>1. task[w] # Idle /\ Become(w, Idle) /\ UNCHANGED now
  BY DEF Idle, RemovePending, CompletePending, SavePending, ConsumeCode
<1>2. i \in Id
  BY <1>1, TaskId DEF TypeOK
<1>3. \E r : store' = [store EXCEPT ![i] = r]
  <2>1. CASE RemovePending(w)
    BY <2>1 DEF RemovePending, Remove
  <2>2. CASE SavePending(w) \/ ConsumeCode(w)
    BY <2>2 DEF SavePending, ConsumeCode, Insert
  <2>3. CASE CompletePending(w) /\ store[i] = NoRecord
    <3>1. store' = [store EXCEPT ![i] = NoRecord]
      BY <1>2, <2>3 DEF CompletePending, Complete, TypeOK
    <3> QED BY <3>1
  <2>4. CASE CompletePending(w) /\ store[i] # NoRecord
    <3> PICK r : r = [store[i] EXCEPT !.snapshot = task[w].outcome]
      OBVIOUS
    <3>1. store' = [store EXCEPT ![i] = r]
      BY <2>4 DEF CompletePending, Complete
    <3> QED BY <3>1
  <2> QED BY <2>1, <2>2, <2>3, <2>4
<1>4. PICK r : store' = [store EXCEPT ![i] = r]
  BY <1>3
<1>5. ASSUME NEW v \in Worker
      PROVE  Hand(task[v])'
  <2>1. task'[w] = Idle /\ (v # w => task'[v] = task[v])
    BY <1>1 DEF TypeOK, Become
  <2>2. CASE task'[v] = Idle
    BY <2>2 DEF Hand, Idle
  <2>3. CASE task'[v] # Idle
    <3>1. v # w /\ task'[v] = task[v] /\ task[v] # Idle
      BY <2>1, <2>3
    <3>2. task[v].id # i
      BY <1>1, <3>1 DEF TakingTurns
    <3> QED BY <1>1, <1>2, <1>4, <3>1, <3>2, OthersInHand
  <2> QED BY <2>2, <2>3
<1> QED BY <1>5 DEF HandInv

\* A new id has no request in hand.
LEMMA ExchangeInHand ==
  ASSUME TypeOK, TurnInv, HandInv, NEW i \in Id, ExchangeToken(i)
  PROVE  HandInv'
<1>1. \E r : store' = [store EXCEPT ![i] = r]
  BY DEF ExchangeToken, CreateDeferredPersonResponse, CreatePending, Insert,
         CreateFederatedDeferredResponse, CreateResourceInitiatedDeferredResponse
<1>2. PICK r : store' = [store EXCEPT ![i] = r]
  BY <1>1
<1>3. issued[i] = NoLease /\ UNCHANGED <<now, task>>
  BY DEF ExchangeToken, CreateDeferredPersonResponse, CreatePending,
         CreateFederatedDeferredResponse, CreateResourceInitiatedDeferredResponse
<1>4. ASSUME NEW v \in Worker
      PROVE  Hand(task[v])'
  <2>1. CASE task[v] = Idle
    BY <1>3, <2>1 DEF Hand, Idle
  <2>2. CASE task[v] # Idle
    <3>1. task[v].id # i
      BY <1>3, <2>2 DEF TurnInv
    <3> QED BY <1>2, <1>3, <2>2, <3>1, OthersInHand
  <2> QED BY <2>1, <2>2
<1> QED BY <1>4 DEF HandInv

\* Time passes: what was stale still is.
LEMMA TickInHand ==
  ASSUME TypeOK, TurnInv, HandInv, Tick
  PROVE  HandInv'
<1>1. now \in Nat /\ now' = now + 1 /\ UNCHANGED <<store, task>>
  BY TimeAssumption DEF TypeOK, Tick
<1>2. ASSUME NEW v \in Worker
      PROVE  Hand(task[v])'
  <2>1. Hand(task[v])
    BY DEF HandInv
  <2>2. CASE task[v].at = "remove" /\ Service!Stale(task[v].id)
    <3>1. task[v] \in RemoveTask
      BY <2>2, TaskKinds DEF TypeOK
    <3>2. store[task[v].id] \in Record
      BY <2>2, <3>1 DEF RemoveTask, TypeOK, Service!Stale
    <3>3. store[task[v].id].expires_at \in Nat
      BY <3>2 DEF Record
    <3>4. Service!Stale(task[v].id)'
      BY <1>1, <2>2, <3>3 DEF Service!Stale
    <3> QED BY <1>1, <2>1, <2>2, <3>4 DEF Hand
  <2>3. CASE ~(task[v].at = "remove" /\ Service!Stale(task[v].id))
    BY <1>1, <2>1, <2>3 DEF Hand
  <2> QED BY <2>2, <2>3
<1> QED BY <1>2 DEF HandInv

LEMMA HandStep ==
  TypeOK /\ LeaseInv /\ TurnInv /\ TakingTurns /\ HandInv /\ [Next]_vars => HandInv'
<1> SUFFICES ASSUME TypeOK, LeaseInv, TurnInv, TakingTurns, HandInv, [Next]_vars
             PROVE  HandInv'
  OBVIOUS
<1>1. CASE Tick
  BY <1>1, TickInHand
<1>2. CASE \E i \in Id : ExchangeToken(i)
  BY <1>2, ExchangeInHand
<1>3. CASE \E i \in Id : PollPending(i)
  BY <1>3 DEF PollPending, HandInv, Hand, Service!Stale
<1>4. CASE \E w \in Worker : Proceed(w)
  BY <1>4, DecideInHand, FederatedInHand, ReloadInHand, EndInHand DEF Proceed
<1>5. CASE \E w \in Worker, i \in Id : Arrive(w, i)
  BY <1>5, ArriveInHand
<1>6. CASE UNCHANGED vars
  BY <1>6 DEF vars, HandInv, Hand, Service!Stale
<1> QED BY <1>1, <1>2, <1>3, <1>4, <1>5, <1>6 DEF Next

LEMMA TurnLease == TurnSpec => []LeaseInv
<1>1. [Next /\ TakingTurns']_vars => [Next]_vars
  OBVIOUS
<1> QED BY <1>1, LeaseInvariant, PTL DEF TurnSpec, Spec

LEMMA HandInvariant == TurnSpec => []HandInv
<1>1. Init => HandInv
  BY DEF Init, HandInv, Hand, Idle
<1>2. TypeOK /\ LeaseInv /\ (TurnInv /\ TakingTurns) /\ HandInv
        /\ [Next /\ TakingTurns']_vars => HandInv'
  BY HandStep
<1> QED BY <1>1, <1>2, TurnTypes, TurnLease, TurnInvariant, PTL DEF TurnSpec

-----------------------------------------------------------------------------
(* What the invariant says to the users, the agent and the Access Server *)

\* When requests take turns, a code lets a user in once, also while other
\* records with the same code are at work: what deferrals and federations save
\* over a record (defer.rs, federation_pending.rs) does not make a spent code
\* good again.
THEOREM CodeIsSingleUse == TurnSpec => []CodeSingleUse
<1>1. TurnInv => CodeSingleUse
  BY DEF TurnInv, CodeSingleUse
<1> QED BY <1>1, TurnInvariant, PTL

\* ... the token of a federated record is the one its Access Server signed.
THEOREM AccessServerDecides == TurnSpec => []FederatedDecidedByAccessServer
<1>1. TurnInv => FederatedDecidedByAccessServer
  BY DEF TurnInv, Settled, FederatedDecidedByAccessServer
<1> QED BY <1>1, TurnInvariant, PTL

\* ... and no code or interaction url is left in it
\* (create_federated_deferred_response).
THEOREM FederationIsClean == TurnSpec => []FederationClearsInteraction
<1>1. TurnInv => FederationClearsInteraction
  BY DEF TurnInv, Settled, FederationClearsInteraction
<1> QED BY <1>1, TurnInvariant, PTL

\* A write replaces a record by one that goes to the same Access Server.
LEMMA StoreStep ==
  ASSUME TypeOK, TurnInv, [Next]_vars, NEW i \in Id,
         store[i] # NoRecord, store'[i] # NoRecord
  PROVE  Kept(store[i], store'[i])
<1>1. CASE UNCHANGED store
  BY <1>1 DEF Kept
<1>2. CASE ExchangeToken(i)
  BY <1>2 DEF ExchangeToken, CreateDeferredPersonResponse, CreatePending, TurnInv,
              CreateFederatedDeferredResponse, CreateResourceInitiatedDeferredResponse
<1>3. ASSUME NEW j \in Id, j # i, ExchangeToken(j)
      PROVE  Kept(store[i], store'[i])
  <2>1. store'[i] = store[i]
    BY <1>3 DEF ExchangeToken, CreateDeferredPersonResponse, CreatePending, Insert, TypeOK,
                CreateFederatedDeferredResponse, CreateResourceInitiatedDeferredResponse
  <2> QED BY <2>1 DEF Kept
<1>4. CASE \E w \in Worker : RemovePending(w)
  BY <1>4 DEF RemovePending, Remove, Kept, TypeOK
<1>5. CASE \E w \in Worker : CompletePending(w)
  <2> PICK w \in Worker : CompletePending(w)
    BY <1>5
  <2>1. store[i] \in Record
    BY DEF TypeOK
  <2>2. store'[i].federation = store[i].federation
    BY <2>1 DEF CompletePending, Complete, TypeOK, Record
  <2> QED BY <2>2 DEF Kept
<1>6. CASE \E w \in Worker : SavePending(w) \/ ConsumeCode(w)
  <2> PICK w \in Worker : SavePending(w) \/ ConsumeCode(w)
    BY <1>6
  <2>1. task[w].at \in {"save", "consume"}
        /\ store' = [store EXCEPT ![task[w].id] = task[w].record]
    BY DEF SavePending, ConsumeCode, Insert
  <2>2. CASE i = task[w].id
    <3>1. Kept(store[i], task[w].record)
      BY <2>1, <2>2 DEF TurnInv, InTurn
    <3>2. store'[i] = task[w].record
      BY <2>1, <2>2 DEF TypeOK
    <3> QED BY <3>1, <3>2 DEF Kept
  <2>3. CASE i # task[w].id
    <3>1. store'[i] = store[i]
      BY <2>1, <2>3 DEF TypeOK
    <3> QED BY <3>1 DEF Kept
  <2> QED BY <2>2, <2>3
<1>7. \/ UNCHANGED store
      \/ \E j \in Id : ExchangeToken(j)
      \/ \E w \in Worker : RemovePending(w)
      \/ \E w \in Worker : CompletePending(w)
      \/ \E w \in Worker : SavePending(w) \/ ConsumeCode(w)
  BY DEF Next, vars, Tick, PollPending, Proceed, Arrive, DecideGrant, DecideDeny,
         DecideDefer, DecideFederate, DecideFail, FederatedToken, FederatedDeferred,
         FederatedError, FederatedGone, FederatedFail, ReloadPending, FindExpired,
         ResumePending, BeginInteraction, CallbackError, CallbackReturned, history
<1> QED BY <1>1, <1>2, <1>3, <1>4, <1>5, <1>6, <1>7

\* ... so a request handed to an Access Server stays with it.
THEOREM FederationStays == TurnSpec => FederationSticks
<1>1. TypeOK /\ TurnInv /\ [Next /\ TakingTurns']_vars
        => [\A i \in Id :
              store[i] # NoRecord /\ store'[i] # NoRecord
                /\ store[i].federation # NoServer
                => store'[i].federation = store[i].federation]_vars
  BY StoreStep DEF Kept
<1> QED BY <1>1, TurnTypes, TurnInvariant, PTL DEF TurnSpec, FederationSticks

\* A step that polls or removes can only add a Gone.
LEMMA GoneInTurn ==
  ASSUME TypeOK, TurnInv, [Next]_vars, NEW i \in Id,
         polled[i] = "gone"
  PROVE  polled'[i] = "gone"
<1>1. store[i] = NoRecord
  BY DEF TurnInv
<1>2. CASE \E j \in Id : PollPending(j)
  BY <1>1, <1>2 DEF PollPending, TypeOK
<1>3. CASE \E w \in Worker : RemovePending(w)
  BY <1>3 DEF RemovePending, TypeOK
<1>4. \/ UNCHANGED polled
      \/ \E j \in Id : PollPending(j)
      \/ \E w \in Worker : RemovePending(w)
  BY DEF Next, vars, Tick, ExchangeToken, CreateDeferredPersonResponse, CreatePending,
         CreateFederatedDeferredResponse, CreateResourceInitiatedDeferredResponse,
         Proceed, Arrive, DecideGrant, DecideDeny, CompletePending, SavePending,
         ConsumeCode, DecideDefer, DecideFederate, DecideFail, FederatedToken,
         FederatedDeferred, FederatedError, FederatedGone, FederatedFail,
         ReloadPending, FindExpired, ResumePending, BeginInteraction, CallbackError,
         CallbackReturned, history
<1> QED BY <1>2, <1>3, <1>4

\* With any policy, one that federates included, 410 is the last answer of a
\* pending URL: when requests take turns, no save brings back a record
\* that was removed.
THEOREM GoneStaysInTurn == TurnSpec => GoneIsFinal
<1>1. TypeOK /\ TurnInv /\ [Next /\ TakingTurns']_vars => [\A i \in Id : GoneStep(i)]_vars
  BY GoneInTurn DEF GoneStep
<1> QED BY <1>1, TurnTypes, TurnInvariant, PTL DEF TurnSpec, GoneIsFinal

-----------------------------------------------------------------------------
(* Refinement: a request in several steps does what PersonService does in one *)

\* A new pending request.
LEMMA ExchangeOpens ==
  ASSUME TypeOK, NEW i \in Id, ExchangeToken(i)
  PROVE  Service!Open(i)
<1>1. PICK r \in Request, f \in AccessServer \cup {NoServer},
           u \in {"none", "https", "other"}, c \in Code \cup {NoCode} :
        /\ CreatePending(i, NewRecord(r, f, u, c))
        /\ f # NoServer => f = r.aud /\ u = "none" /\ c = NoCode
  BY DEF ExchangeToken, CreateDeferredPersonResponse, CreateFederatedDeferredResponse,
         CreateResourceInitiatedDeferredResponse, Request
<1> PICK rec : rec = NewRecord(r, f, u, c)
  OBVIOUS
<1>2. Service!Opened(rec)
  BY <1>1 DEF Service!Opened, NewRecord, Waiting
<1>3. rec.request \in Request /\ rec.expires_at \in Nat
  <2>1. now \in Nat
    BY TimeAssumption DEF TypeOK
  <2> QED BY <2>1, NewRecordType DEF Record
<1> PICK lease : lease = [request |-> rec.request, expires_at |-> rec.expires_at]
  OBVIOUS
<1>4. lease # NoLease
  BY <1>3, RecordAssumption DEF Lease
<1>5. /\ issued[i] = NoLease /\ store' = [store EXCEPT ![i] = rec]
      /\ issued' = [issued EXCEPT ![i] = lease]
      /\ UNCHANGED <<now, polled, redeemed>>
  BY <1>1 DEF CreatePending, Insert
<1>6. store'[i] = rec /\ store' = [store EXCEPT ![i] = store'[i]]
  BY <1>5 DEF TypeOK
<1>7. {j \in Id : issued'[j] # NoLease} = {j \in Id : issued[j] # NoLease} \cup {i}
  BY <1>4, <1>5 DEF TypeOK
<1> QED BY <1>2, <1>5, <1>6, <1>7 DEF Service!Open

\* The write that ends a request is its one step.
LEMMA EndIsOneStep ==
  ASSUME TypeOK, TurnInv, HandInv, NEW w \in Worker,
         \/ RemovePending(w) \/ CompletePending(w)
         \/ SavePending(w) \/ ConsumeCode(w)
  PROVE  \E i \in Id : Service!Decide(i) \/ Service!Redeem(i) \/ Service!Remove(i)
<1> PICK i : i = task[w].id
  OBVIOUS
<1>1. task[w] # Idle /\ UNCHANGED <<now, issued>> /\ Hand(task[w]) /\ InTurn(task[w])
  BY DEF Idle, RemovePending, CompletePending, SavePending, ConsumeCode, history,
         HandInv, TurnInv
<1>2. i \in Id
  BY <1>1, TaskId DEF TypeOK
<1>3. {j \in Id : issued'[j] # NoLease} = {j \in Id : issued[j] # NoLease}
  BY <1>1
<1>4. CASE RemovePending(w)
  <2>1. /\ store[i] # NoRecord
        /\ Service!Stale(i) \/ (~task[w].poll /\ store[i].federation # NoServer)
    BY <1>1, <1>4 DEF RemovePending, Hand
  <2>2. /\ store' = [store EXCEPT ![i] = NoRecord] /\ UNCHANGED redeemed
        /\ polled' = IF task[w].poll THEN [polled EXCEPT ![i] = "gone"] ELSE polled
    BY <1>4 DEF RemovePending, Remove
  <2>3. Service!Remove(i)
    BY <1>1, <1>3, <2>1, <2>2 DEF Service!Remove
  <2> QED BY <1>2, <2>3
<1>5. CASE CompletePending(w)
  <2> PICK r : r = [store[i] EXCEPT !.snapshot = task[w].outcome]
    OBVIOUS
  <2>1. store[i] # NoRecord /\ Service!Decided(store[i], r)
    BY <1>1, <1>5 DEF CompletePending, InTurn, Hand
  <2>2. store' = [store EXCEPT ![i] = r] /\ UNCHANGED <<polled, redeemed>>
    BY <1>5, <2>1 DEF CompletePending, Complete, history
  <2>3. r \in Record
    <3>1. task[w].outcome \in Snapshot
      BY <1>5, TaskKinds DEF TypeOK, CompletePending, CompleteTask, Snapshot
    <3>2. store[i] \in Record
      BY <1>2, <2>1 DEF TypeOK
    <3> QED BY <3>1, <3>2 DEF Record
  <2>4. store'[i] = r /\ store' = [store EXCEPT ![i] = store'[i]] /\ r # NoRecord
    BY <1>2, <2>2, <2>3, RecordAssumption DEF TypeOK
  <2>5. Service!Decide(i)
    BY <1>1, <1>3, <2>1, <2>2, <2>4 DEF Service!Decide
  <2> QED BY <1>2, <2>5
<1>6. CASE SavePending(w) \/ ConsumeCode(w)
  <2> PICK r : r = task[w].record
    OBVIOUS
  <2>1. store[i] # NoRecord
    BY <1>1, <1>6 DEF SavePending, ConsumeCode, InTurn
  <2>2. store' = [store EXCEPT ![i] = r] /\ UNCHANGED polled
    BY <1>6 DEF SavePending, ConsumeCode, Insert, history
  <2>3. r \in Record
    BY <1>6, TaskKinds DEF TypeOK, SavePending, ConsumeCode, WriteTask
  <2>4. store'[i] = r /\ store' = [store EXCEPT ![i] = store'[i]] /\ r # NoRecord
    BY <1>2, <2>2, <2>3, RecordAssumption DEF TypeOK
  <2>5. CASE SavePending(w)
    <3>1. Service!Decided(store[i], r) /\ UNCHANGED redeemed
      BY <1>1, <2>5 DEF SavePending, Hand, history
    <3>2. Service!Decide(i)
      BY <1>1, <1>3, <2>1, <2>2, <2>4, <3>1 DEF Service!Decide
    <3> QED BY <1>2, <3>2
  <2>6. CASE ConsumeCode(w)
    <3>1. Service!Spent(store[i], r)
      BY <1>1, <2>6 DEF ConsumeCode, Hand
    <3>2. \E n \in {0, 1} : redeemed' = [redeemed EXCEPT ![i] = redeemed[i] + n]
      <4>1. redeemed[i] \in Int /\ redeemed[i] + 0 = redeemed[i]
        BY <1>2 DEF TypeOK
      <4>2. \/ redeemed' = [redeemed EXCEPT ![i] = redeemed[i] + 1]
            \/ redeemed' = [redeemed EXCEPT ![i] = redeemed[i] + 0]
        BY <2>6, <4>1 DEF ConsumeCode
      <4> QED BY <4>2
    <3>3. Service!Redeem(i)
      BY <1>1, <1>3, <2>1, <2>2, <2>4, <3>1, <3>2 DEF Service!Redeem
    <3> QED BY <1>2, <3>3
  <2> QED BY <1>6, <2>5, <2>6
<1> QED BY <1>4, <1>5, <1>6

LEMMA PollIsPoll ==
  ASSUME TypeOK, NEW i \in Id, PollPending(i)
  PROVE  Service!Poll(i)
<1>1. issued[i] # NoLease /\ UNCHANGED <<now, store, issued, redeemed>>
  BY DEF PollPending
<1>2. ~Service!Stale(i)
  BY DEF PollPending, Stale, IsExpired, Service!Stale
<1>3. polled' = [polled EXCEPT ![i] = Service!Answer(i)]
  BY DEF PollPending, PollOutcome, Service!Answer
<1> QED BY <1>1, <1>2, <1>3 DEF Service!Poll

\* Everything before the last write is not seen in the store.
LEMMA ServiceStep ==
  TypeOK /\ TurnInv /\ HandInv /\ [Next]_vars => [Service!Next]_(Service!vars)
<1> SUFFICES ASSUME TypeOK, TurnInv, HandInv, [Next]_vars
             PROVE  [Service!Next]_(Service!vars)
  OBVIOUS
<1>1. CASE Tick
  <2>1. {j \in Id : issued'[j] # NoLease} = {j \in Id : issued[j] # NoLease}
    BY <1>1 DEF Tick, history
  <2> QED BY <1>1, <2>1 DEF Tick, history, Service!Next, Service!Tick
<1>2. CASE \E i \in Id : ExchangeToken(i)
  BY <1>2, ExchangeOpens DEF Service!Next
<1>3. CASE \E i \in Id : PollPending(i)
  BY <1>3, PollIsPoll DEF Service!Next
<1>4. CASE \E w \in Worker : RemovePending(w) \/ CompletePending(w)
                              \/ SavePending(w) \/ ConsumeCode(w)
  BY <1>4, EndIsOneStep DEF Service!Next
<1>5. CASE UNCHANGED <<now, store, issued, polled, redeemed>>
  BY <1>5 DEF Service!vars
<1>6. \/ Tick \/ (\E i \in Id : ExchangeToken(i)) \/ (\E i \in Id : PollPending(i))
      \/ \E w \in Worker : RemovePending(w) \/ CompletePending(w)
                             \/ SavePending(w) \/ ConsumeCode(w)
      \/ UNCHANGED <<now, store, issued, polled, redeemed>>
  BY DEF Next, vars, Proceed, Arrive, DecideGrant, DecideDeny, DecideDefer, DecideFederate,
         DecideFail, FederatedToken, FederatedDeferred, FederatedError, FederatedGone,
         FederatedFail, ReloadPending, FindExpired, ResumePending, BeginInteraction,
         CallbackError, CallbackReturned, history
<1> QED BY <1>1, <1>2, <1>3, <1>4, <1>5, <1>6

\* The multi-step requests of a server whose requests take turns are each
\* one step on their record: no deferral, federation, completion or
\* redemption (defer.rs, federation_pending.rs, mod.rs) undoes another, or
\* is based on a record that has changed or gone since it was loaded.
THEOREM RequestsAreOneStep == TurnSpec => OneStepEach
<1>1. Init => Service!Init
  BY DEF Init, Service!Init
<1>2. TypeOK /\ (TurnInv /\ TakingTurns) /\ HandInv /\ [Next /\ TakingTurns']_vars
        => [Service!Next]_(Service!vars)
  BY ServiceStep
<1> QED BY <1>1, <1>2, TurnTypes, TurnInvariant, HandInvariant, PTL
        DEF TurnSpec, OneStepEach, Service!Spec

=============================================================================
