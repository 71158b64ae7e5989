-------------------------- MODULE FederationProofs --------------------------
(* Theorems about Federation: any number of requests at the Person Server  *)
(* against any number of handlers of the Access Server.                    *)
EXTENDS Federation, AccessPendingProofs

-----------------------------------------------------------------------------
(* Types, and the Access Server's part of each step *)

LEMMA ClientKinds ==
  ASSUME NEW s \in ClientState
  PROVE  /\ s.at = "exchange" => s \in Exchanging
         /\ s.at \in {"post", "poll"} => s \in Asking
         /\ s.at = "pause" => s \in Pausing
         /\ s.at = "told" => s \in Told
         /\ s.at \in Awaiting => s.via \in Handler
  BY DEF ClientState, Ready, Exchanging, Asking, Pausing, Told, Awaiting

\* Every step is one of the Access Server, or leaves it alone.
LEMMA AccessSteps ==
  ASSUME TypeOK, [Next]_vars
  PROVE  [AccessNext]_accessVars
<1>1. CASE Time
  BY <1>1 DEF Time, AccessNext
<1>2. ASSUME NEW h \in Handler, Serve(h) \/ Drop(h)
      PROVE  AccessNext
  BY <1>2 DEF Serve, Drop, AccessNext
<1>3. ASSUME NEW c \in Client, NEW h \in Handler, Send(c, h)
      PROVE  AccessNext
  <2>1. CASE ClientExchange(c, h)
    BY <2>1 DEF ClientExchange, Arrive, AccessNext
  <2>2. CASE \E i \in Id : ClientPost(c, h, i)
    BY <2>2 DEF ClientPost, Arrive, AccessNext
  <2>3. CASE ClientPoll(c, h)
    <3>1. client[c].id \in Id
      BY <2>3, ClientKinds DEF ClientPoll, TypeOK, Pausing
    <3> QED BY <2>3, <3>1 DEF ClientPoll, Arrive, AccessNext
  <2> QED BY <1>3, <2>1, <2>2, <2>3 DEF Send
<1>4. ASSUME NEW c \in Client, Hear(c)
      PROVE  AccessNext
  <2>1. client[c].at \in Awaiting /\ Release(client[c].via)
    BY <1>4 DEF Hear, HearExchange, HearPost, HearPoll, Responds, Awaiting
  <2>2. client[c].via \in Handler
    BY <2>1, ClientKinds DEF TypeOK
  <2> QED BY <2>1, <2>2 DEF AccessNext
<1>5. ASSUME NEW c \in Client, HearBusy(c) \/ Lose(c) \/ TimeOut(c) \/ Return(c)
      PROVE  UNCHANGED accessVars
  BY <1>5 DEF HearBusy, Lose, TimeOut, Return
<1>6. CASE UNCHANGED vars
  BY <1>6 DEF vars
<1> QED BY <1>1, <1>2, <1>3, <1>4, <1>5, <1>6 DEF Next

LEMMA ToldType ==
  ASSUME NEW o \in {"token", "deferred", "denied", "gone", "failed"},
         NEW i \in Id \cup {None}
  PROVE  [at |-> "told", outcome |-> o, id |-> i] \in ClientState
  BY DEF ClientState, Told

LEMMA OutcomeTypes ==
  ASSUME NEW r \in Response
  PROVE  /\ ExchangeOutcome(r) \in {"token", "deferred", "failed"}
         /\ PollPendingOutcome(r) \in {"token", "deferred", "denied", "gone", "failed"}
         /\ ExchangeOutcome(r) = "deferred" => r.location \in Id
         /\ PollPendingOutcome(r) = "deferred" => r.location \in Id
  BY DEF ExchangeOutcome, PollPendingOutcome, ParseDeferred, Response

\* The response a client reads.
LEMMA ResponseRead ==
  ASSUME TypeOK, NEW c \in Client, NEW stage \in Awaiting, Responds(c, stage)
  PROVE  /\ client[c].via \in Handler
         /\ ResponseTo(c) \in Response
         /\ stage \in {"post", "poll"} => client[c].id \in Id
  BY ClientKinds, TaskKinds DEF Responds, ResponseTo, TypeOK, AccessTypeOK,
                                RespondTask, Asking, Awaiting

LEMMA StepType ==
  ASSUME TypeOK, [Next]_vars
  PROVE  TypeOK'
<1>1. AccessTypeOK'
  BY AccessSteps, AccessStepType DEF TypeOK
<1> DEFINE T == client' \in [Client -> ClientState] /\ known' \in SUBSET Id
<1>2. ASSUME NEW c \in Client, NEW s \in ClientState,
             client' = [client EXCEPT ![c] = s], UNCHANGED known
      PROVE  T
  BY <1>2 DEF TypeOK
<1>3. ASSUME NEW c \in Client, NEW h \in Handler, Send(c, h)
      PROVE  T
  <2>1. CASE ClientExchange(c, h)
    <3>1. [at |-> "exchange", via |-> h] \in ClientState
      BY DEF ClientState, Exchanging
    <3> QED BY <1>2, <2>1, <3>1 DEF ClientExchange
  <2>2. CASE \E i \in Id : ClientPost(c, h, i)
    <3> PICK i \in Id : ClientPost(c, h, i)
      BY <2>2
    <3>1. [at |-> "post", via |-> h, id |-> i] \in ClientState
      BY DEF ClientState, Asking
    <3> QED BY <1>2, <3>1 DEF ClientPost
  <2>3. CASE ClientPoll(c, h)
    <3>1. client[c].id \in Id
      BY <2>3, ClientKinds DEF ClientPoll, TypeOK, Pausing
    <3>2. [at |-> "poll", via |-> h, id |-> client[c].id] \in ClientState
      BY <3>1 DEF ClientState, Asking
    <3> QED BY <1>2, <2>3, <3>2 DEF ClientPoll
  <2> QED BY <1>3, <2>1, <2>2, <2>3 DEF Send
<1>4. ASSUME NEW c \in Client, HearExchange(c)
      PROVE  T
  <2>1. ResponseTo(c) \in Response
    BY <1>4, ResponseRead DEF HearExchange, Awaiting
  <2> DEFINE r == ResponseTo(c)
             o == ExchangeOutcome(r)
  <2>2. r.location \in Id \cup {None}
    BY <2>1 DEF Response
  <2>3. o \in {"token", "deferred", "failed"} /\ (o = "deferred" => r.location \in Id)
    BY <2>1, OutcomeTypes
  <2>4. client' = [client EXCEPT ![c] = [at |-> "told", outcome |-> o, id |-> r.location]]
        /\ Keep(o, r)
    BY <1>4 DEF HearExchange, Tell
  <2> HIDE DEF r, o
  <2>5. [at |-> "told", outcome |-> o, id |-> r.location] \in ClientState
    BY <2>2, <2>3, ToldType
  <2> QED BY <2>3, <2>4, <2>5 DEF TypeOK, Keep
<1>5. ASSUME NEW c \in Client, HearPost(c)
      PROVE  T
  <2>1. client[c].id \in Id
    BY <1>5, ResponseRead DEF HearPost, Awaiting
  <2>2. [at |-> "pause", id |-> client[c].id] \in ClientState
    BY <2>1 DEF ClientState, Pausing
  <2>3. \A o \in {"token", "failed"} :
          [at |-> "told", outcome |-> o, id |-> client[c].id] \in ClientState
    BY <2>1, ToldType
  <2> QED BY <1>2, <1>5, <2>2, <2>3 DEF HearPost, Tell
<1>6. ASSUME NEW c \in Client, HearPoll(c)
      PROVE  T
  <2>1. ResponseTo(c) \in Response /\ client[c].id \in Id
    BY <1>6, ResponseRead DEF HearPoll, Awaiting
  <2> DEFINE r == ResponseTo(c)
             o == PollPendingOutcome(r)
  <2>2. o \in {"token", "deferred", "denied", "gone", "failed"}
        /\ (o = "deferred" => r.location \in Id)
    BY <2>1, OutcomeTypes
  <2>3. client' = [client EXCEPT ![c] = [at |-> "told", outcome |-> o, id |-> client[c].id]]
        /\ Keep(o, r)
    BY <1>6 DEF HearPoll, Tell
  <2> HIDE DEF r, o
  <2>4. [at |-> "told", outcome |-> o, id |-> client[c].id] \in ClientState
    BY <2>1, <2>2, ToldType
  <2> QED BY <2>2, <2>3, <2>4 DEF TypeOK, Keep
<1>7. ASSUME NEW c \in Client, HearBusy(c) \/ TimeOut(c)
      PROVE  T
  <2>1. client[c].id \in Id
    BY <1>7, ClientKinds DEF HearBusy, TimeOut, TypeOK, Asking, Pausing
  <2>2. [at |-> "pause", id |-> client[c].id] \in ClientState
    BY <2>1 DEF ClientState, Pausing
  <2>3. [at |-> "told", outcome |-> "failed", id |-> client[c].id] \in ClientState
    BY <2>1, ToldType
  <2>4. HearBusy(c) => client' = [client EXCEPT ![c] = [at |-> "pause", id |-> client[c].id]]
    BY DEF HearBusy, TypeOK
  <2> QED BY <1>2, <1>7, <2>2, <2>3, <2>4 DEF HearBusy, TimeOut, Tell
<1>8. ASSUME NEW c \in Client, Lose(c) \/ Return(c)
      PROVE  T
  <2>1. Ready \in ClientState
    BY DEF ClientState
  <2>2. [at |-> "told", outcome |-> "failed", id |-> None] \in ClientState
    BY ToldType
  <2> QED BY <1>2, <1>8, <2>1, <2>2 DEF Lose, Return, Tell
<1>9. ASSUME UNCHANGED clientVars
      PROVE  T
  BY <1>9 DEF clientVars, TypeOK
<1>10. T
  BY <1>3, <1>4, <1>5, <1>6, <1>7, <1>8, <1>9
     DEF Next, Time, Serve, Drop, Hear, vars
<1> QED BY <1>1, <1>10 DEF TypeOK

\* Every state of the two servers is well typed; a client that posts or polls
\* always has a pending url of the Access Server in hand.
THEOREM TypeCorrect == Spec => []TypeOK
<1>1. Init => TypeOK
  BY InitType DEF Init, TypeOK, ClientState
<1>2. TypeOK /\ [Next]_vars => TypeOK'
  BY StepType
<1> QED BY <1>1, <1>2, PTL DEF Spec

LEMMA AccessInvariant == Spec => []AccessInv
<1>1. Init => AccessInv
  BY InitInv DEF Init
<1>2. TypeOK /\ AccessInv /\ [Next]_vars => AccessInv'
  BY AccessSteps, AccessStepInv
<1> QED BY <1>1, <1>2, TypeCorrect, PTL DEF Spec

\* What Person Servers send, and when, does not change what the Access
\* Server's pending URLs promise.
THEOREM KeepsPromise == Spec => Promise
<1>1. Init => AccessInit
  BY DEF Init
<1>2. TypeOK /\ [Next]_vars => [AccessNext]_accessVars
  BY AccessSteps
<1> QED BY <1>1, <1>2, TypeCorrect, AccessKeepsPromise, PTL DEF Spec, AccessSpec

-----------------------------------------------------------------------------
(* What the Person Server hears *)

Inv == TypeOK /\ AccessInv /\ HeardInv

\* What is recorded of a pending url is never taken back, and time goes on.
LEMMA HistoryGrows ==
  ASSUME AccessTypeOK, [AccessNext]_accessVars, NEW i \in Id
  PROVE  /\ decided[i] \subseteq decided'[i]
         /\ deadline[i] # None => deadline'[i] = deadline[i]
         /\ deadline[i] # None /\ now > deadline[i] => now' > deadline[i]
<1>1. now \in Nat /\ (deadline[i] # None => deadline[i] \in Nat)
  BY NowIsNat DEF AccessTypeOK
<1>2. CASE Tick
  BY <1>1, <1>2 DEF Tick, accessHistory
<1>3. ASSUME NEW h \in Handler, Arrive(h) \/ Release(h)
      PROVE  UNCHANGED <<now, deadline, decided>>
  BY <1>3 DEF Arrive, ExchangeToken, PollPending, ResumePending, FindExpired,
              Release, accessHistory
<1>4. ASSUME NEW h \in Handler, Proceed(h)
      PROVE  /\ UNCHANGED now
             /\ decided[i] \subseteq decided'[i]
             /\ deadline[i] # None => deadline'[i] = deadline[i]
  <2>1. CASE \E j \in Id : EvaluateDefer(h, j)
    BY <2>1 DEF EvaluateDefer, AccessTypeOK
  <2>2. CASE CompletePending(h)
    BY <2>2 DEF CompletePending, AccessTypeOK
  <2>3. CASE \/ EvaluateGrant(h) \/ EvaluateDeny(h) \/ EvaluateFail(h)
             \/ RemovePending(h) \/ ReloadPending(h) \/ SavePending(h)
    BY <2>3 DEF EvaluateGrant, EvaluateDeny, EvaluateFail, RemovePending,
                ReloadPending, SavePending, accessHistory
  <2>4. CASE DecideGrant(h) \/ DecideDeny(h) \/ DecideDefer(h) \/ DecideFail(h)
    BY <2>4, DecideType DEF accessHistory
  <2> QED BY <1>4, <2>1, <2>2, <2>3, <2>4 DEF Proceed
<1>5. CASE UNCHANGED accessVars
  BY <1>5 DEF accessVars
<1> QED BY <1>1, <1>2, <1>3, <1>4, <1>5 DEF AccessNext

\* A handler's step leaves the other handlers alone.
LEMMA OneHandler ==
  ASSUME AccessTypeOK, NEW h \in Handler, NEW g \in Handler, g # h,
         Arrive(h) \/ Proceed(h) \/ Release(h)
  PROVE  task'[g] = task[g]
<1>1. CASE Arrive(h)
  BY <1>1 DEF Arrive, ExchangeToken, PollPending, ResumePending, FindExpired,
              Respond, Become, AccessTypeOK
<1>2. CASE Release(h)
  BY <1>2 DEF Release, Become, AccessTypeOK
<1>3. CASE \/ EvaluateGrant(h) \/ EvaluateDeny(h) \/ EvaluateFail(h)
           \/ \E i \in Id : EvaluateDefer(h, i)
  BY <1>3 DEF EvaluateGrant, EvaluateDeny, EvaluateFail, EvaluateDefer,
              Respond, Become, AccessTypeOK
<1>4. CASE DecideGrant(h) \/ DecideDeny(h) \/ DecideDefer(h) \/ DecideFail(h)
  BY <1>4 DEF DecideGrant, DecideDeny, DecideDefer, DecideFail, Decide,
              Respond, Become, AccessTypeOK
<1>5. CASE \/ RemovePending(h) \/ CompletePending(h)
           \/ ReloadPending(h) \/ SavePending(h)
  BY <1>5 DEF RemovePending, CompletePending, ReloadPending, SavePending,
              Respond, Become, AccessTypeOK
<1> QED BY <1>1, <1>2, <1>3, <1>4, <1>5 DEF Proceed

\* A client that does not move, whose handler does not either, stays good.
LEMMA StaysGood ==
  ASSUME Inv, [Next]_vars, NEW c \in Client, client'[c] = client[c],
         client[c].at \in Awaiting => task'[client[c].via] = task[client[c].via]
  PROVE  Good(client[c], task[client[c].via])'
<1> DEFINE s == client[c]
           t == task[client[c].via]
<1>1. Good(s, t) /\ s \in ClientState
  BY DEF Inv, HeardInv, TypeOK
<1>2. s.at \in {"post", "poll", "pause"} => s.id \in Id
  BY <1>1, ClientKinds DEF Asking, Pausing
<1>3. s.at = "told" /\ s.id # None => s.id \in Id
  BY <1>1, ClientKinds DEF Told
<1>4. \A i \in Id :
        /\ decided[i] \subseteq decided'[i]
        /\ deadline[i] # None => deadline'[i] = deadline[i]
        /\ deadline[i] # None /\ now > deadline[i] => now' > deadline[i]
  BY HistoryGrows, AccessSteps DEF Inv, TypeOK
<1>5. CASE s.at = "exchange"
  BY <1>1, <1>5 DEF Good, ExchangeServed, Awaiting
<1>6. CASE s.at = "post"
  BY <1>1, <1>2, <1>4, <1>6 DEF Good, PostServed, Awaiting
<1>7. CASE s.at = "poll"
  BY <1>1, <1>2, <1>4, <1>7 DEF Good, PollServed, TrueOf, Awaiting
<1>8. CASE s.at = "pause"
  BY <1>1, <1>2, <1>4, <1>8 DEF Good
<1>9. CASE s.at = "told"
  BY <1>1, <1>3, <1>4, <1>9 DEF Good
<1>10. CASE s.at = "ready"
  BY <1>10 DEF Good
<1> QED BY <1>1, <1>5, <1>6, <1>7, <1>8, <1>9, <1>10
        DEF ClientState, Ready, Exchanging, Asking, Pausing, Told

LEMMA StatusOf ==
  /\ \A k \in Token : Granted(k).status = 200 /\ Granted(k).location = None
  /\ \A i \in Id : DeferCreated(i).status = 202
  /\ Denied.status = 403 /\ Gone.status = 410 /\ ServerError.status = 500
  BY DEF Granted, DeferCreated, Denied, Gone, ServerError, Plain

\* A handler that has its response waits for it to be sent.
LEMMA NotResponding ==
  ASSUME NEW h \in Handler, Proceed(h)
  PROVE  task[h].at # "respond"
  BY DEF Proceed, EvaluateGrant, EvaluateDeny, EvaluateFail, EvaluateDefer,
         RemovePending, DecideGrant, DecideDeny, DecideDefer, DecideFail, Decide,
         CompletePending, ReloadPending, SavePending

\* What the Access Server's handler does for an exchange.
LEMMA ExchangeGoesOn ==
  ASSUME AccessTypeOK, NEW h \in Handler, Proceed(h), ExchangeServed(task[h])
  PROVE  ExchangeServed(task'[h])
<1>1. task[h].at = "evaluate"
  BY NotResponding DEF ExchangeServed
<1>2. EvaluateGrant(h) \/ EvaluateDeny(h) \/ EvaluateFail(h)
        \/ \E i \in Id : EvaluateDefer(h, i)
  BY <1>1 DEF Proceed, RemovePending, DecideGrant, DecideDeny, DecideDefer,
              DecideFail, Decide, CompletePending, ReloadPending, SavePending
<1>3. PICK r \in Response : Respond(h, r) /\ (r.status = 200 => r.location = None)
  BY <1>2, ResponseTypes, StatusOf
     DEF EvaluateGrant, EvaluateDeny, EvaluateFail, EvaluateDefer
<1>4. task'[h] = [at |-> "respond", response |-> r]
  BY <1>3, RespondType DEF AccessTypeOK
<1> QED BY <1>3, <1>4 DEF ExchangeServed

\* What it does for a post: it ends with a token only if that was decided.
LEMMA PostGoesOn ==
  ASSUME AccessTypeOK, NEW h \in Handler, Proceed(h), NEW i \in Id,
         task[h].at \in Opened, task[h].id = i
  PROVE  PostServed(task[h], i)'
<1>1. CASE DecideGrant(h) \/ DecideDeny(h)
  <2>1. PICK o \in Outcome :
          Become(h, [at |-> "complete", id |-> i, outcome |-> o])
    BY <1>1 DEF DecideGrant, DecideDeny, Decide, Outcome, TokenSnapshot,
                ErrorSnapshot, AuthToken, Error
  <2>2. task'[h] = [at |-> "complete", id |-> i, outcome |-> o]
    BY <2>1 DEF Become, AccessTypeOK
  <2> QED BY <2>2 DEF PostServed, Opened
<1>2. CASE DecideDefer(h)
  <2>1. task'[h] = [at |-> "reload", id |-> i]
    BY <1>2 DEF DecideDefer, Become, AccessTypeOK
  <2> QED BY <2>1 DEF PostServed, Opened
<1>3. ASSUME NEW r \in Response, Respond(h, r),
             r.status = 200 => \E k \in Token : AuthToken(k) \in decided'[i]
      PROVE  PostServed(task[h], i)'
  <2>1. task'[h] = [at |-> "respond", response |-> r]
    BY <1>3, RespondType DEF AccessTypeOK
  <2> QED BY <1>3, <2>1 DEF PostServed
<1>4. CASE DecideFail(h)
  BY <1>3, <1>4, ResponseTypes, StatusOf DEF DecideFail
<1>5. CASE CompletePending(h)
  <2>1. task[h] \in CompleteTask
    BY <1>5, TaskKinds DEF CompletePending, AccessTypeOK
  <2> DEFINE o == task[h].outcome
  <2>2. o \in Outcome /\ o \in decided'[i] /\ Respond(h, OutcomeResponse(o))
    BY <1>5, <2>1 DEF CompletePending, CompleteTask, AccessTypeOK
  <2>3. OutcomeResponse(o) \in Response
    BY <2>2, ResponseTypes
  <2>4. OutcomeResponse(o).status = 200 => \E k \in Token : AuthToken(k) = o
    <3>1. CASE o \in TokenSnapshot
      BY <3>1 DEF TokenSnapshot, AuthToken
    <3>2. CASE o \in ErrorSnapshot
      BY <3>2, StatusOf DEF OutcomeResponse, ErrorSnapshot
    <3> QED BY <2>2, <3>1, <3>2 DEF Outcome
  <2> QED BY <1>3, <2>2, <2>3, <2>4
<1>6. CASE ReloadPending(h)
  <2>1. CASE store[i] = NoRecord
    BY <1>3, <1>6, <2>1, ResponseTypes, StatusOf DEF ReloadPending
  <2>2. CASE store[i] # NoRecord
    <3>1. task'[h] = [at |-> "save", id |-> i, record |-> Deferred(store[i])]
      BY <1>6, <2>2 DEF ReloadPending, Become, AccessTypeOK
    <3> QED BY <3>1 DEF PostServed, Opened
  <2> QED BY <2>1, <2>2
<1>7. CASE SavePending(h)
  BY <1>3, <1>7, ResponseTypes, StatusOf DEF SavePending
<1>8. CASE RemovePending(h)
  BY <1>3, <1>8, ResponseTypes, StatusOf DEF RemovePending
<1>9. ~(\/ EvaluateGrant(h) \/ EvaluateDeny(h) \/ EvaluateFail(h)
        \/ \E j \in Id : EvaluateDefer(h, j))
  BY DEF Opened, EvaluateGrant, EvaluateDeny, EvaluateFail, EvaluateDefer
<1> QED BY <1>1, <1>2, <1>4, <1>5, <1>6, <1>7, <1>8, <1>9 DEF Proceed

\* What it does for a poll of an expired record.
LEMMA PollGoesOn ==
  ASSUME AccessInv, NEW h \in Handler, Proceed(h), NEW i \in Id,
         task[h].at = "remove", task[h].id = i
  PROVE  PollServed(task[h], i)'
<1>1. RemovePending(h)
  BY DEF Proceed, EvaluateGrant, EvaluateDeny, EvaluateFail, EvaluateDefer,
         DecideGrant, DecideDeny, DecideDefer, DecideFail, Decide,
         CompletePending, ReloadPending, SavePending
<1>2. now > deadline[i] /\ UNCHANGED <<now, deadline>>
  BY <1>1 DEF RemovePending, AccessInv, RecordInv
<1>3. task'[h] = [at |-> "respond", response |-> Gone]
  BY <1>1, ResponseTypes, RespondType DEF RemovePending, AccessInv, AccessTypeOK
<1> QED BY <1>2, <1>3, StatusOf DEF PollServed, TrueOf

LEMMA ServeGood ==
  ASSUME Inv, NEW h \in Handler, Serve(h), NEW c \in Client
  PROVE  Good(client[c], task[client[c].via])'
<1> DEFINE s == client[c]
<1>1. Good(s, task[s.via]) /\ s \in ClientState /\ client'[c] = s /\ Proceed(h)
  BY DEF Inv, HeardInv, TypeOK, Serve, clientVars
<1>2. AccessTypeOK /\ AccessInv /\ [Next]_vars
  BY DEF Inv, TypeOK, Next
<1>3. s.at \in Awaiting => s.via \in Handler
  BY <1>1, ClientKinds
<1>4. CASE ~(s.at \in Awaiting /\ s.via = h)
  BY <1>1, <1>2, <1>3, <1>4, OneHandler, StaysGood
<1>5. CASE s.at = "exchange" /\ s.via = h
  <2>1. ExchangeServed(task'[h])
    BY <1>1, <1>2, <1>5, ExchangeGoesOn DEF Good
  <2> QED BY <1>1, <1>5, <2>1 DEF Good, ExchangeServed
<1>6. ASSUME NEW i \in Id, i = s.id, s.at \in {"post", "poll"}
      PROVE  deadline'[i] # None
  <2>1. deadline[i] # None
    BY <1>1, <1>6 DEF Good
  <2> QED BY <1>2, <1>6, <2>1, HistoryGrows, AccessSteps DEF Inv
<1>7. CASE s.at = "post" /\ s.via = h
  <2> PICK i \in Id : i = s.id
    BY <1>1, <1>7, ClientKinds DEF Asking
  <2>1. task[h].at \in Opened /\ task[h].id = i
    BY <1>1, <1>7, NotResponding DEF Good, PostServed
  <2>2. PostServed(task[h], i)'
    BY <1>1, <1>2, <2>1, PostGoesOn
  <2>3. deadline'[i] # None
    BY <1>6, <1>7
  <2> QED BY <1>1, <1>7, <2>2, <2>3 DEF Good
<1>8. CASE s.at = "poll" /\ s.via = h
  <2> PICK i \in Id : i = s.id
    BY <1>1, <1>8, ClientKinds DEF Asking
  <2>1. task[h].at = "remove" /\ task[h].id = i
    BY <1>1, <1>8, NotResponding DEF Good, PollServed
  <2>2. PollServed(task[h], i)'
    BY <1>1, <1>2, <2>1, PollGoesOn
  <2>3. deadline'[i] # None
    BY <1>6, <1>8
  <2> QED BY <1>1, <1>8, <2>2, <2>3 DEF Good
<1> QED BY <1>4, <1>5, <1>7, <1>8 DEF Awaiting

LEMMA Busy ==
  ASSUME Inv, NEW c \in Client, client[c].at \in Awaiting
  PROVE  client[c].via \in Handler /\ task[client[c].via] # Idle
<1>1. Good(client[c], task[client[c].via]) /\ client[c] \in ClientState
  BY DEF Inv, HeardInv, TypeOK
<1>2. task[client[c].via].at # "idle"
  BY <1>1 DEF Good, ExchangeServed, PostServed, PollServed, Opened, Awaiting
<1> QED BY <1>1, <1>2, ClientKinds DEF Idle

\* A step in which one client moves, and no handler another one awaits.
LEMMA OneClient ==
  ASSUME Inv, [Next]_vars, NEW c \in Client, NEW s,
         client' = [client EXCEPT ![c] = s],
         \A d \in Client : d # c /\ client[d].at \in Awaiting
           => task'[client[d].via] = task[client[d].via],
         s.at \in Awaiting => \A d \in Client :
           d # c /\ client[d].at \in Awaiting => client[d].via # s.via,
         Good(client[c], task[client[c].via])'
  PROVE  HeardInv'
<1>1. client'[c] = s /\ \A d \in Client : d # c => client'[d] = client[d]
  BY DEF Inv, TypeOK
<1>2. ASSUME NEW d \in Client, d # c
      PROVE  Good(client[d], task[client[d].via])'
  BY <1>1, <1>2, StaysGood
<1>3. OwnHandler'
  <2>1. OwnHandler
    BY DEF Inv, HeardInv
  <2> QED BY <1>1, <2>1 DEF OwnHandler
<1> QED BY <1>2, <1>3 DEF HeardInv

\* What the Access Server answers a poll at once is true of its record.
LEMMA PollAnswer ==
  ASSUME AccessInv, NEW h \in Handler, NEW i \in Id, PollPending(h, i)
  PROVE  PollServed(task[h], i)' /\ deadline'[i] # None
<1>1. deadline[i] # None /\ UNCHANGED <<now, deadline, decided>>
  BY DEF PollPending
<1>2. AccessTypeOK
  BY DEF AccessInv
<1>3. CASE Live(i)
  <2> DEFINE s == store[i].snapshot
  <2>1. s \in Snapshot /\ (s.state # "waiting" => s \in decided[i])
    BY <1>3 DEF Live, AccessInv, DecidedInv, AccessTypeOK, Record
  <2>2. Respond(h, PollResponse(s))
    BY <1>3 DEF PollPending
  <2>3. task'[h] = [at |-> "respond", response |-> PollResponse(s)]
    BY <1>2, <2>1, <2>2, ResponseTypes, RespondType DEF AccessTypeOK
  <2> DEFINE r == PollResponse(s)
  <2>4. task'[h].at = "respond" /\ task'[h].response = r
    BY <2>3
  <2> HIDE DEF r
  <2>5. CASE s \in WaitingSnapshot
    <3>1. r.status = 202
      BY <2>5 DEF r, WaitingSnapshot, PollResponse, Plain
    <3> QED BY <1>1, <2>4, <3>1 DEF PollServed, TrueOf
  <2>6. CASE s \in TokenSnapshot
    <3>1. r.status = 200
      BY <2>6, StatusOf DEF r, TokenSnapshot, PollResponse
    <3>2. PICK k \in Token : s = AuthToken(k)
      BY <2>6 DEF TokenSnapshot, AuthToken
    <3>3. AuthToken(k) \in decided'[i]
      BY <1>1, <2>1, <2>6, <3>2 DEF TokenSnapshot
    <3> QED BY <1>1, <2>4, <3>1, <3>3 DEF PollServed, TrueOf
  <2>7. CASE s \in ErrorSnapshot
    <3>1. PICK f \in Failure : s = Error(f)
      BY <2>7 DEF ErrorSnapshot, Error
    <3>2. r.status = f /\ f \in PollingStatus
      BY <3>1, FailureAssumption DEF r, PollResponse, Error, Plain
    <3>3. Error(f) \in decided'[i]
      BY <1>1, <2>1, <2>7, <3>1 DEF ErrorSnapshot
    <3> QED BY <1>1, <2>4, <3>2, <3>3 DEF PollServed, TrueOf, PollingStatus
  <2>8. PollServed(task[h], i)'
    BY <2>1, <2>5, <2>6, <2>7 DEF Snapshot, Outcome
  <2> QED BY <1>1, <2>8
<1>4. CASE ~Live(i)
  <2>1. store[i] = NoRecord
    BY <1>4 DEF PollPending, Live, Stale
  <2>2. now > deadline[i]
    BY <1>1, <2>1 DEF AccessInv, RecordInv
  <2>3. Respond(h, Gone)
    BY <1>4 DEF PollPending
  <2>4. task'[h] = [at |-> "respond", response |-> Gone]
    BY <1>2, <2>3, ResponseTypes, RespondType DEF AccessTypeOK
  <2> QED BY <1>1, <2>2, <2>4, StatusOf DEF PollServed, TrueOf
<1> QED BY <1>3, <1>4

\* An expired record was created with a deadline.
LEMMA ExpiredFound ==
  ASSUME AccessInv, NEW h \in Handler, NEW i \in Id, NEW b \in BOOLEAN,
         FindExpired(h, i, b)
  PROVE  /\ deadline'[i] # None
         /\ task'[h] = [at |-> "remove", id |-> i, poll |-> b]
<1>1. deadline[i] # None /\ UNCHANGED deadline
  BY DEF FindExpired, Stale, AccessInv, RecordInv, accessHistory
<1>2. task'[h] = [at |-> "remove", id |-> i, poll |-> b]
  BY DEF FindExpired, Become, AccessInv, AccessTypeOK
<1> QED BY <1>1, <1>2

LEMMA PostAnswer ==
  ASSUME AccessInv, NEW h \in Handler, NEW i \in Id, ResumePending(h, i)
  PROVE  PostServed(task[h], i)' /\ deadline'[i] # None
<1>1. deadline'[i] # None
  BY DEF ResumePending, accessHistory
<1>2. CASE Live(i)
  <2>1. task'[h] = [at |-> "policy", id |-> i]
    BY <1>2 DEF ResumePending, Become, AccessInv, AccessTypeOK
  <2> QED BY <1>1, <2>1 DEF PostServed, Opened
<1>3. CASE ~Live(i)
  <2>1. Respond(h, Gone)
    BY <1>3 DEF ResumePending
  <2>2. task'[h] = [at |-> "respond", response |-> Gone]
    BY <2>1, ResponseTypes, RespondType DEF AccessInv, AccessTypeOK
  <2> QED BY <1>1, <2>2, StatusOf DEF PostServed
<1> QED BY <1>2, <1>3

LEMMA SendGood ==
  ASSUME Inv, NEW c \in Client, NEW h \in Handler, Send(c, h)
  PROVE  HeardInv'
<1>1. AccessTypeOK /\ AccessInv /\ [Next]_vars
  BY DEF Inv, TypeOK, Next
<1>2. ASSUME NEW s, client' = [client EXCEPT ![c] = s], s.via = h,
             task[h] = Idle, Arrive(h),
             Good(client[c], task[client[c].via])'
      PROVE  HeardInv'
  <2>1. ASSUME NEW d \in Client, client[d].at \in Awaiting
        PROVE  client[d].via # h /\ task'[client[d].via] = task[client[d].via]
    BY <1>1, <1>2, <2>1, Busy, OneHandler
  <2>2. [Next]_vars
    BY <1>1
  <2>3. \A d \in Client : d # c /\ client[d].at \in Awaiting => client[d].via # s.via
    BY <1>2, <2>1
  <2> QED BY <1>2, <2>1, <2>2, <2>3, OneClient
<1>3. ASSUME NEW s, client' = [client EXCEPT ![c] = s]
      PROVE  client'[c] = s
  BY <1>3 DEF Inv, TypeOK
<1>4. CASE ClientExchange(c, h)
  <2> DEFINE s == [at |-> "exchange", via |-> h]
  <2>1. client' = [client EXCEPT ![c] = s] /\ client'[c] = s
    BY <1>3, <1>4 DEF ClientExchange
  <2>2. task'[h] = [at |-> "evaluate"] /\ task[h] = Idle /\ Arrive(h)
    BY <1>1, <1>4 DEF ClientExchange, ExchangeToken, Become, AccessTypeOK, Arrive
  <2>3. Good(client[c], task[client[c].via])'
    BY <2>1, <2>2 DEF Good, ExchangeServed
  <2>4. s.via = h
    OBVIOUS
  <2> HIDE DEF s
  <2> QED BY <1>2, <2>1, <2>2, <2>3, <2>4
<1>5. ASSUME NEW i \in Id, ClientPost(c, h, i)
      PROVE  HeardInv'
  <2> DEFINE s == [at |-> "post", via |-> h, id |-> i]
  <2>1. client' = [client EXCEPT ![c] = s] /\ client'[c] = s
    BY <1>3, <1>5 DEF ClientPost
  <2>2. task[h] = Idle /\ Arrive(h)
    BY <1>5 DEF ClientPost, ResumePending, FindExpired, Arrive
  <2>3. PostServed(task[h], i)' /\ deadline'[i] # None
    <3>1. CASE ResumePending(h, i)
      BY <1>1, <3>1, PostAnswer
    <3>2. CASE FindExpired(h, i, FALSE)
      <4>1. deadline'[i] # None /\ task'[h] = [at |-> "remove", id |-> i, poll |-> FALSE]
        BY <1>1, <3>2, ExpiredFound
      <4> QED BY <4>1 DEF PostServed, Opened
    <3> QED BY <1>5, <3>1, <3>2 DEF ClientPost
  <2>4. Good(client[c], task[client[c].via])'
    BY <2>1, <2>3 DEF Good
  <2>5. s.via = h
    OBVIOUS
  <2> HIDE DEF s
  <2> QED BY <1>2, <2>1, <2>2, <2>4, <2>5
<1>6. CASE ClientPoll(c, h)
  <2> PICK i \in Id : i = client[c].id
    BY <1>6, ClientKinds DEF ClientPoll, Inv, TypeOK, Pausing
  <2> DEFINE s == [at |-> "poll", via |-> h, id |-> i]
  <2>1. client' = [client EXCEPT ![c] = s] /\ client'[c] = s
    BY <1>3, <1>6 DEF ClientPoll
  <2>2. task[h] = Idle /\ Arrive(h)
    BY <1>6 DEF ClientPoll, PollPending, FindExpired, Arrive
  <2>3. PollServed(task[h], i)' /\ deadline'[i] # None
    <3>1. CASE PollPending(h, i)
      BY <1>1, <3>1, PollAnswer
    <3>2. CASE FindExpired(h, i, TRUE)
      <4>1. deadline'[i] # None /\ task'[h] = [at |-> "remove", id |-> i, poll |-> TRUE]
        BY <1>1, <3>2, ExpiredFound
      <4> QED BY <4>1 DEF PollServed
    <3> QED BY <1>6, <3>1, <3>2 DEF ClientPoll
  <2>4. Good(client[c], task[client[c].via])'
    BY <2>1, <2>3 DEF Good
  <2>5. s.via = h
    OBVIOUS
  <2> HIDE DEF s
  <2> QED BY <1>2, <2>1, <2>2, <2>4, <2>5
<1> QED BY <1>4, <1>5, <1>6 DEF Send

\* A response that is heard is true: what the client makes of it, too.
LEMMA HearGood ==
  ASSUME Inv, NEW c \in Client, Hear(c)
  PROVE  HeardInv'
<1> DEFINE h == client[c].via
           r == ResponseTo(c)
<1>1. AccessTypeOK /\ [Next]_vars
  BY DEF Inv, TypeOK, Next
<1>2. Responds(c, "exchange") \/ Responds(c, "post") \/ Responds(c, "poll")
  BY DEF Hear, HearExchange, HearPost, HearPoll
<1>3. client[c].at \in Awaiting /\ h \in Handler /\ r \in Response /\ Release(h)
        /\ task[h].at = "respond" /\ task[h].response = r
  BY <1>2, ResponseRead DEF Responds, ResponseTo, Awaiting, Inv
<1>4. ASSUME NEW d \in Client, d # c, client[d].at \in Awaiting
      PROVE  task'[client[d].via] = task[client[d].via]
  <2>1. client[d].via # h
    BY <1>3, <1>4 DEF Inv, HeardInv, OwnHandler
  <2> QED BY <1>1, <1>3, <1>4, <2>1, Busy, OneHandler
<1>6. UNCHANGED <<now, deadline, decided>>
  BY <1>3 DEF Release, accessHistory
<1>7. Good(client[c], task[h])
  BY DEF Inv, HeardInv
<1> HIDE DEF h, r
<1>8. ASSUME NEW s, client' = [client EXCEPT ![c] = s], s.at \notin Awaiting,
             Good(client[c], task[client[c].via])'
      PROVE  HeardInv'
  BY <1>1, <1>4, <1>8, OneClient
<1>9. ASSUME NEW s, client' = [client EXCEPT ![c] = s]
      PROVE  client'[c] = s
  BY <1>9 DEF Inv, TypeOK
<1>10. CASE HearExchange(c)
  <2> DEFINE o == ExchangeOutcome(r)
             s == [at |-> "told", outcome |-> o, id |-> r.location]
  <2>1. client' = [client EXCEPT ![c] = s]
    BY <1>10 DEF HearExchange, Tell, r
  <2>2. ExchangeServed(task[h])
    BY <1>7, <1>10 DEF HearExchange, Responds, Good
  <2>3. o = "token" => r.location = None
    <3>1. o = "token" => r.status = 200
      BY DEF ExchangeOutcome, ParseDeferred
    <3> QED BY <1>3, <2>2, <3>1 DEF ExchangeServed
  <2>4. o \in {"token", "deferred", "failed"}
    BY <1>3, OutcomeTypes
  <2>5. s.at = "told" /\ s.outcome = o /\ s.id = r.location
    OBVIOUS
  <2> HIDE DEF o, s
  <2>6. Good(client[c], task[client[c].via])'
    BY <1>9, <2>1, <2>3, <2>4, <2>5 DEF Good
  <2> QED BY <1>8, <2>1, <2>5, <2>6 DEF Awaiting
<1>11. CASE HearPost(c)
  <2> PICK i \in Id : i = client[c].id
    BY <1>11, ResponseRead DEF HearPost, Awaiting, Inv
  <2>1. client[c].at = "post"
    BY <1>11 DEF HearPost, Responds
  <2>2. deadline[i] # None
          /\ (r.status = 200 => \E k \in Token : AuthToken(k) \in decided[i])
    BY <1>3, <1>7, <2>1 DEF Good, PostServed, Opened
  <2>3. CASE r.status \in PollAfterPost
    <3> DEFINE s == [at |-> "pause", id |-> i]
    <3>1. client' = [client EXCEPT ![c] = s]
      BY <1>11, <2>3 DEF HearPost, r
    <3>2. s.at = "pause" /\ s.id = i
      OBVIOUS
    <3> HIDE DEF s
    <3>3. Good(client[c], task[client[c].via])'
      BY <1>6, <1>9, <2>2, <3>1, <3>2 DEF Good
    <3> QED BY <1>8, <3>1, <3>2, <3>3 DEF Awaiting
  <2>4. CASE r.status \notin PollAfterPost
    <3> DEFINE o == IF r.status = 200 THEN "token" ELSE "failed"
               s == [at |-> "told", outcome |-> o, id |-> i]
    <3>1. client' = [client EXCEPT ![c] = s]
      BY <1>11, <2>4 DEF HearPost, Tell, r
    <3>2. s.at = "told" /\ s.outcome = o /\ s.id = i
      OBVIOUS
    <3>3. (o = "token" => r.status = 200) /\ o \in {"token", "failed"}
      OBVIOUS
    <3> HIDE DEF o, s
    <3>4. Good(client[c], task[client[c].via])'
      BY <1>6, <1>9, <2>2, <3>1, <3>2, <3>3 DEF Good
    <3> QED BY <1>8, <3>1, <3>2, <3>4 DEF Awaiting
  <2> QED BY <2>3, <2>4
<1>12. CASE HearPoll(c)
  <2> PICK i \in Id : i = client[c].id
    BY <1>12, ResponseRead DEF HearPoll, Awaiting, Inv
  <2> DEFINE o == PollPendingOutcome(r)
             s == [at |-> "told", outcome |-> o, id |-> i]
  <2>1. client[c].at = "poll"
    BY <1>12 DEF HearPoll, Responds
  <2>2. deadline[i] # None /\ TrueOf(i, r)
    BY <1>3, <1>7, <2>1 DEF Good, PollServed
  <2>3. client' = [client EXCEPT ![c] = s]
    BY <1>12 DEF HearPoll, Tell, r
  <2>4. s.at = "told" /\ s.outcome = o /\ s.id = i
    OBVIOUS
  <2>5. /\ o = "token" => r.status = 200
        /\ o = "denied" => r.status = 403
        /\ o = "gone" => r.status = 410
    BY <1>3 DEF PollPendingOutcome, ParseDeferred, Response, Status, PollingStatus
  <2> HIDE DEF o, s
  <2>6. /\ o = "token" => \E k \in Token : AuthToken(k) \in decided[i]
        /\ o = "denied" => Error(403) \in decided[i]
        /\ o = "gone" => now > deadline[i] \/ Error(410) \in decided[i]
    BY <2>2, <2>5 DEF TrueOf
  <2>7. /\ o = "token" => \E k \in Token : AuthToken(k) \in decided'[i]
        /\ o = "denied" => Error(403) \in decided'[i]
        /\ o = "gone" => now' > deadline'[i] \/ Error(410) \in decided'[i]
        /\ deadline'[i] # None
    BY <1>6, <2>2, <2>6
  <2>8. client'[c] = s
    BY <1>9, <2>3
  <2>9. Good(client[c], task[client[c].via])'
    BY <2>4, <2>7, <2>8 DEF Good
  <2> QED BY <1>8, <2>3, <2>4, <2>9 DEF Awaiting
<1> QED BY <1>10, <1>11, <1>12 DEF Hear

\* The steps in which no response is heard.
LEMMA SilentGood ==
  ASSUME Inv, NEW c \in Client, HearBusy(c) \/ Lose(c) \/ TimeOut(c) \/ Return(c)
  PROVE  HeardInv'
<1>1. [Next]_vars /\ UNCHANGED <<task, now, deadline, decided>>
  BY DEF Next, HearBusy, Lose, TimeOut, Return, accessVars
<1>2. Good(client[c], task[client[c].via])
  BY DEF Inv, HeardInv
<1>3. ASSUME NEW s, client' = [client EXCEPT ![c] = s], s.at \notin Awaiting,
             client'[c] = s => Good(client[c], task[client[c].via])'
      PROVE  HeardInv'
  <2>1. client'[c] = s
    BY <1>3 DEF Inv, TypeOK
  <2> QED BY <1>1, <1>3, <2>1, OneClient
<1>4. CASE HearBusy(c)
  <2> DEFINE s == [at |-> "pause", id |-> client[c].id]
  <2>1. client' = [client EXCEPT ![c] = s] /\ client[c].at = "poll"
    BY <1>4 DEF HearBusy, Inv, TypeOK
  <2>2. s.at = "pause" /\ s.id = client[c].id
    OBVIOUS
  <2> HIDE DEF s
  <2>3. client'[c] = s => Good(client[c], task[client[c].via])'
    BY <1>1, <1>2, <2>1, <2>2 DEF Good
  <2> QED BY <1>3, <2>1, <2>2, <2>3 DEF Awaiting
<1>5. ASSUME NEW i, Tell(c, "failed", i)
      PROVE  HeardInv'
  <2> DEFINE s == [at |-> "told", outcome |-> "failed", id |-> i]
  <2>1. client' = [client EXCEPT ![c] = s]
    BY <1>5 DEF Tell
  <2>2. s.at = "told" /\ s.outcome = "failed"
    OBVIOUS
  <2> HIDE DEF s
  <2>3. client'[c] = s => Good(client[c], task[client[c].via])'
    BY <2>2 DEF Good
  <2> QED BY <1>3, <2>1, <2>2, <2>3 DEF Awaiting
<1>6. CASE Return(c)
  <2>1. client' = [client EXCEPT ![c] = Ready] /\ Ready.at = "ready"
    BY <1>6 DEF Return, Ready
  <2>2. client'[c] = Ready => Good(client[c], task[client[c].via])'
    BY <2>1 DEF Good
  <2> QED BY <1>3, <2>1, <2>2 DEF Awaiting
<1> QED BY <1>4, <1>5, <1>6 DEF Lose, TimeOut

LEMMA GoodStep ==
  ASSUME Inv, [Next]_vars
  PROVE  HeardInv'
<1>1. ASSUME UNCHANGED client,
             \A c \in Client : client[c].at \in Awaiting
               => task'[client[c].via] = task[client[c].via]
      PROVE  HeardInv'
  <2>1. \A c \in Client : Good(client[c], task[client[c].via])'
    BY <1>1, StaysGood
  <2>2. OwnHandler'
    BY <1>1 DEF Inv, HeardInv, OwnHandler
  <2> QED BY <2>1, <2>2 DEF HeardInv
<1>2. CASE Time
  BY <1>1, <1>2 DEF Time, Tick, clientVars
<1>3. ASSUME NEW h \in Handler, Serve(h)
      PROVE  HeardInv'
  <2>1. \A c \in Client : Good(client[c], task[client[c].via])'
    BY <1>3, ServeGood
  <2>2. OwnHandler'
    BY <1>3 DEF Serve, clientVars, Inv, HeardInv, OwnHandler
  <2> QED BY <2>1, <2>2 DEF HeardInv
<1>4. ASSUME NEW h \in Handler, Drop(h)
      PROVE  HeardInv'
  <2>1. ASSUME NEW c \in Client, client[c].at \in Awaiting
        PROVE  task'[client[c].via] = task[client[c].via]
    <3>1. client[c].via # h /\ client[c].via \in Handler
      BY <1>4, <2>1, Busy DEF Drop, Listening
    <3> QED BY <1>4, <3>1, OneHandler DEF Drop, Inv, TypeOK
  <2>2. UNCHANGED client
    BY <1>4 DEF Drop, clientVars
  <2> QED BY <1>1, <2>1, <2>2
<1>5. CASE UNCHANGED vars
  BY <1>1, <1>5 DEF vars, accessVars, clientVars
<1> QED BY <1>2, <1>3, <1>4, <1>5, SendGood, HearGood, SilentGood DEF Next

\* Whatever the Person Server is told of a pending url was decided on it, or
\* its deadline has passed: for any number of requests that race on it.
THEOREM HeardAsDecided == Spec => []HeardIsDecided
<1>1. Init => HeardInv
  <2> SUFFICES ASSUME Init PROVE HeardInv
    OBVIOUS
  <2>1. \A c \in Client : client[c].at = "ready"
    BY DEF Init, Ready
  <2> QED BY <2>1 DEF HeardInv, OwnHandler, Good, Awaiting
<1>2. TypeOK /\ AccessInv /\ HeardInv /\ [Next]_vars => HeardInv'
  BY GoodStep DEF Inv
<1>3. TypeOK /\ HeardInv => HeardIsDecided
  BY DEF HeardInv, Good, HeardIsDecided
<1> QED BY <1>1, <1>2, <1>3, TypeCorrect, AccessInvariant, PTL DEF Spec

=============================================================================
