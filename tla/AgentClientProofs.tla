------------------------- MODULE AgentClientProofs -------------------------
(* Theorems about AgentClient, for every number of calls and every value   *)
(* of its bounds.                                                          *)
EXTENDS AgentClient, TLAPS

-----------------------------------------------------------------------------
(* Calls *)

\* A call is in a state of the kind its `at` says: what handle_inner keeps in
\* its locals across an await.
LEMMA StateKinds ==
  ASSUME NEW s \in State
  PROVE  /\ s.at = "sent" => s \in Sent
         /\ s.at = "answered" => s \in Answered
         /\ s.at = "minted" => s \in Minted
  BY DEF State, Waiting, Sent, Answered, Minted, Idle, Ready

\* The states without a payload: no request in flight and no answer to read.
LEMMA WaitingStates ==
  /\ Idle \in State /\ Idle.at = "idle"
  /\ Ready \in State /\ Ready.at = "next"
  /\ [at |-> "begin"] \in State
  /\ [at |-> "exchange"] \in State
  BY DEF State, Waiting, Idle, Ready

\* A credential is not the agent's signature (the variants of
\* AgentAuthAttempt).
LEMMA Credentials ==
  /\ Agent \in Attempt
  /\ \A e \in Epoch :
       /\ AuthOf(e) \in Attempt /\ AuthOf(e) \in Credential /\ AuthOf(e) # Agent
       /\ OpaqueOf(e) \in Attempt /\ OpaqueOf(e) \in Credential
       /\ OpaqueOf(e) # Agent
  /\ \A a \in Attempt : a # Agent => a \in Credential /\ a.epoch \in Epoch
  BY DEF Attempt, Agent, Credential, AuthOf, OpaqueOf

\* A well-typed state leaves `call` well typed.
LEMMA GoType ==
  ASSUME TypeOK, NEW c \in Call, NEW s \in State, Go(c, s)
  PROVE  call' \in [Call -> State]
  BY DEF TypeOK, Go

\* A request that is sent (send_wrapped) leaves `call` well typed.
LEMMA SendType ==
  ASSUME TypeOK, NEW c \in Call, NEW p \in Purpose, NEW a \in Attempt,
         Send(c, p, a)
  PROVE  call' \in [Call -> State]
<1>1. [at |-> "sent", for |-> p, attempt |-> a] \in State
  BY DEF State, Sent
<1> QED BY <1>1, GoType DEF Send

\* The answer to a request is well typed and leaves the rest alone.
LEMMA ReplyType ==
  ASSUME TypeOK, NEW c \in Call,
         NEW s \in {"ok", "accepted", "refused", "unauthorized"},
         NEW a \in Epoch \cup {None}, NEW b \in BOOLEAN,
         Reply(c, s, a, b)
  PROVE  TypeOK'
<1> DEFINE answered ==
      [at |-> "answered", for |-> call[c].for, attempt |-> call[c].attempt,
       answer |-> [status |-> s, access |-> a, challenge |-> b]]
<1>1. call[c] \in Sent
  BY StateKinds DEF TypeOK, Reply
<1>2. answered \in State
  BY <1>1 DEF State, Sent, Answered, Answer
<1>3. call' \in [Call -> State]
  <2> HIDE DEF answered
  <2>1. Go(c, answered)
    BY DEF Reply, answered
  <2> QED BY <1>2, <2>1, GoType
<1> QED BY <1>3 DEF TypeOK, Reply, environment, cache, history

\* observe_response leaves the cache well typed, whatever it is given.
LEMMA ObservedType ==
  ASSUME TypeOK, NEW c \in Call, NEW p \in Purpose, Observe(c, p)
  PROVE  /\ call[c] \in Answered
         /\ auth' \in [epoch : Epoch, aged : BOOLEAN] \cup {None}
         /\ opaque' \in Epoch \cup {None}
         /\ epoch' = epoch /\ ages' = ages /\ tried' = tried /\ posts' = posts
<1>1. call[c] \in Answered
  BY StateKinds DEF TypeOK, Observe
<1>2. call[c].answer.access \in Epoch \cup {None}
  BY <1>1 DEF Answered, Answer
<1>3. Observed(call[c].attempt, call[c].answer)
  BY DEF Observe
<1>4. /\ auth' \in {auth, None}
      /\ opaque' \in {opaque, None, call[c].answer.access}
  BY <1>3 DEF Observed
<1> QED BY <1>1, <1>2, <1>4 DEF TypeOK, Observe, environment

-----------------------------------------------------------------------------
(* Type correctness *)

\* Each step of the middleware and of the resource keeps TypeOK.
LEMMA TypeStep == TypeOK /\ [Next]_vars => TypeOK'
<1> SUFFICES ASSUME TypeOK, [Next]_vars PROVE TypeOK'
  OBVIOUS
<1> USE WaitingStates
<1>1. CASE UNCHANGED vars
  BY <1>1 DEF TypeOK, vars
<1>2. CASE Revoke
  BY <1>2, BoundAssumption DEF TypeOK, Revoke, cache, history, Epoch
<1>3. CASE Age
  <2>1. auth \in [epoch : Epoch, aged : BOOLEAN]
    BY <1>3 DEF TypeOK, Age, Usable
  <2>2. auth' \in [epoch : Epoch, aged : BOOLEAN]
    BY <1>3, <2>1 DEF Age
  <2>3. ages' \in 0..MaxAges
    BY <1>3, BoundAssumption DEF TypeOK, Age
  <2> QED BY <1>3, <2>2, <2>3 DEF TypeOK, Age, history
<1>4. ASSUME NEW c \in Call, SeedOpaque(c) PROVE TypeOK'
  <2>1. 0 \in Epoch
    BY BoundAssumption DEF Epoch
  <2>2. call' \in [Call -> State]
    BY <1>4, GoType DEF SeedOpaque
  <2> QED BY <1>4, <2>1, <2>2 DEF TypeOK, SeedOpaque, environment
<1>5. ASSUME NEW c \in Call, BeginAuthorizeAttempt(c) PROVE TypeOK'
  <2>1. call' \in [Call -> State]
    BY <1>5, GoType DEF BeginAuthorizeAttempt
  <2> QED BY <1>5, <2>1
       DEF TypeOK, BeginAuthorizeAttempt, environment, cache, history
<1>6. ASSUME NEW c \in Call, TryProactiveAuthorize(c) PROVE TypeOK'
  <2>1. call' \in [Call -> State]
    BY <1>6, GoType, SendType, Credentials DEF TryProactiveAuthorize, Purpose
  <2>2. posts' \in 0..2
    BY <1>6 DEF TypeOK, TryProactiveAuthorize
  <2> QED BY <1>6, <2>1, <2>2 DEF TypeOK, TryProactiveAuthorize, environment
<1>7. ASSUME NEW c \in Call, NextAttempt(c) PROVE TypeOK'
  <2>1. Usable(auth) => auth.epoch \in Epoch
    BY DEF TypeOK, Usable
  <2>2. call' \in [Call -> State]
    BY <1>7, <2>1, SendType, Credentials DEF TypeOK, NextAttempt, Purpose
  <2> QED BY <1>7, <2>2 DEF TypeOK, NextAttempt, environment, history
<1>8. ASSUME NEW c \in Call, AuthorizeAnswered(c) PROVE TypeOK'
  <2>1. Observe(c, "authorize")
    BY <1>8 DEF AuthorizeAnswered
  <2>2. call' \in [Call -> State]
    BY <1>8, GoType, SendType, Credentials DEF AuthorizeAnswered, Purpose
  <2> QED BY <1>8, <2>1, <2>2, ObservedType
       DEF TypeOK, AuthorizeAnswered, Purpose
<1>9. ASSUME NEW c \in Call, AuthorizePolled(c) PROVE TypeOK'
  <2>1. Observe(c, "authorize_poll")
    BY <1>9 DEF AuthorizePolled
  <2>2. call' \in [Call -> State]
    BY <1>9, GoType DEF AuthorizePolled
  <2> QED BY <1>9, <2>1, <2>2, ObservedType DEF TypeOK, AuthorizePolled, Purpose
<1>10. ASSUME NEW c \in Call, RequestAnswered(c) PROVE TypeOK'
  <2> DEFINE attempt == call[c].attempt
             step == Step(attempt, call[c].answer)
  <2>1. Observe(c, "request")
    BY <1>10 DEF RequestAnswered
  <2>2. call[c] \in Answered /\ attempt \in Attempt
    BY <2>1, ObservedType DEF Purpose, Answered
  <2>3. step \in {"Finish", "RetryWithOpaque", "Invalidate", "PollDeferred",
                  "ExchangeToken"}
    BY <2>2 DEF Step, Answered, Answer
  <2>4. call' \in [Call -> State]
    BY <1>10, <2>2, <2>3, GoType, SendType DEF RequestAnswered, Purpose
  <2>5. step = "Invalidate" => attempt \in Credential
    BY <2>2, Credentials DEF Step, Answered, Answer
  <2>6. rejected' \in [Call -> SUBSET Credential]
    BY <1>10, <2>5 DEF TypeOK, RequestAnswered
  <2> QED BY <1>10, <2>1, <2>4, <2>6, ObservedType
       DEF TypeOK, RequestAnswered, Purpose
<1>11. ASSUME NEW c \in Call, RequestPolled(c) PROVE TypeOK'
  <2>1. Observe(c, "poll")
    BY <1>11 DEF RequestPolled
  <2>2. call' \in [Call -> State]
    BY <1>11, GoType DEF RequestPolled
  <2> QED BY <1>11, <2>1, <2>2, ObservedType DEF TypeOK, RequestPolled, Purpose
<1>12. ASSUME NEW c \in Call, RecordAuthToken(c) PROVE TypeOK'
  <2>1. call[c].epoch \in Epoch
    BY <1>12, StateKinds DEF TypeOK, RecordAuthToken, Minted
  <2>2. call' \in [Call -> State]
    BY <1>12, GoType DEF RecordAuthToken
  <2> QED BY <1>12, <2>1, <2>2 DEF TypeOK, RecordAuthToken, environment, history
<1>13. ASSUME NEW c \in Call, NEW a \in {None, epoch}, Accept(c, a) PROVE TypeOK'
  BY <1>13, ReplyType DEF TypeOK, Accept
<1>14. ASSUME NEW c \in Call, Reject(c) PROVE TypeOK'
  BY <1>14, ReplyType DEF Reject
<1>15. ASSUME NEW c \in Call, Challenge(c) PROVE TypeOK'
  BY <1>15, ReplyType DEF Challenge
<1>16. ASSUME NEW c \in Call, Defer(c) PROVE TypeOK'
  BY <1>16, ReplyType DEF Defer
<1>17. ASSUME NEW c \in Call, Refuse(c) PROVE TypeOK'
  BY <1>17, ReplyType DEF Refuse
<1>18. ASSUME NEW c \in Call, ExchangeToken(c) PROVE TypeOK'
  <2>1. [at |-> "minted", epoch |-> epoch] \in State
    BY DEF TypeOK, State, Minted
  <2>2. call' \in [Call -> State]
    BY <1>18, <2>1, GoType DEF ExchangeToken
  <2> QED BY <1>18, <2>2 DEF TypeOK, ExchangeToken, environment, cache, history
<1>19. ASSUME NEW c \in Call, Fail(c) PROVE TypeOK'
  <2>1. call' \in [Call -> State]
    BY <1>19, GoType DEF Fail
  <2> QED BY <1>19, <2>1 DEF TypeOK, Fail, environment, cache, history
<1> QED
  BY <1>1, <1>2, <1>3, <1>4, <1>5, <1>6, <1>7, <1>8, <1>9, <1>10, <1>11, <1>12,
     <1>13, <1>14, <1>15, <1>16, <1>17, <1>18, <1>19
     DEF Next, Environment, Client, Serve

\* The cache and every call keep their type: among them, that what is read
\* back after an await is a request, an answer or a token of the right kind.
THEOREM TypeCorrect == Spec => []TypeOK
<1>1. Init => TypeOK
  <2> SUFFICES ASSUME Init PROVE TypeOK
    OBVIOUS
  <2>1. epoch \in Epoch /\ ages \in 0..MaxAges
    BY BoundAssumption DEF Init, Epoch
  <2>2. call \in [Call -> State]
    BY WaitingStates DEF Init
  <2>3. rejected \in [Call -> SUBSET Credential]
    BY DEF Init
  <2>4. auth \in [epoch : Epoch, aged : BOOLEAN] \cup {None}
    BY DEF Init
  <2>5. posts \in 0..2 /\ denied \subseteq Call
    BY DEF Init
  <2>6. tried \in BOOLEAN
    BY Zenon DEF Init
  <2>7. opaque \in Epoch \cup {None}
    BY DEF Init
  <2> QED BY <2>1, <2>2, <2>3, <2>4, <2>5, <2>6, <2>7 DEF TypeOK
<1> QED BY <1>1, TypeStep, PTL DEF Spec

-----------------------------------------------------------------------------
(* The authorization endpoint *)

\* What begin_authorize_attempt relies on: an origin that is not in
\* authorize_tried has never been asked.
OnceInv == posts <= 1 /\ (~tried => posts = 0)

\* However many calls begin at once, the authorization endpoint is called at
\* most once: authorize_tried is set under the lock, before the call.
THEOREM AuthorizeIsOnce == Spec => []AuthorizeOnce
<1>1. Init => OnceInv
  BY DEF Init, OnceInv
<1>2. TypeOK /\ OnceInv /\ [Next]_vars => OnceInv'
  <2> SUFFICES ASSUME TypeOK, OnceInv, [Next]_vars PROVE OnceInv'
    OBVIOUS
  <2> USE DEF OnceInv
  <2>1. CASE UNCHANGED <<tried, posts>>
    BY <2>1
  <2>2. ASSUME NEW c \in Call, TryProactiveAuthorize(c) PROVE OnceInv'
    BY <2>2 DEF TryProactiveAuthorize
  <2>3. CASE Environment
    BY <2>1, <2>3 DEF Environment, Revoke, Age, cache, history
  <2>4. ASSUME NEW c \in Call, SeedOpaque(c) PROVE OnceInv'
    <3>1. UNCHANGED <<tried, posts>>
      BY <2>4 DEF TypeOK, SeedOpaque
    <3> QED BY <2>1, <3>1
  <2>5. ASSUME NEW c \in Call, Client(c) PROVE OnceInv'
    <3>1. TryProactiveAuthorize(c) \/ UNCHANGED <<tried, posts>>
      BY <2>5 DEF Client, BeginAuthorizeAttempt, NextAttempt, AuthorizeAnswered,
         AuthorizePolled, RequestAnswered, RequestPolled, Observe,
         RecordAuthToken, cache, history
    <3> QED BY <2>1, <2>2, <3>1
  <2>6. ASSUME NEW c \in Call, Serve(c) PROVE OnceInv'
    <3>1. UNCHANGED <<tried, posts>>
      BY <2>6 DEF Serve, Accept, Reject, Challenge, Defer, Refuse, Reply,
         ExchangeToken, Fail, cache, history
    <3> QED BY <2>1, <3>1
  <2> QED BY <2>1, <2>3, <2>4, <2>5, <2>6 DEF Next, vars
<1>3. OnceInv => AuthorizeOnce
  BY DEF OnceInv, AuthorizeOnce
<1> QED BY <1>1, <1>2, <1>3, TypeCorrect, PTL DEF Spec

-----------------------------------------------------------------------------
(* Epochs *)

\* A call that moves to a state that is within the epochs issued so far.
LEMMA GoPassed ==
  ASSUME TypeOK, EpochInv, NEW c \in Call, NEW s, Go(c, s), Passed(s),
         epoch' = epoch
  PROVE  \A d \in Call : Passed(call[d])'
<1> SUFFICES ASSUME NEW d \in Call PROVE Passed(call[d])'
  OBVIOUS
<1>1. Passed(s)'
  BY DEF Passed
<1>2. Passed(call[d])
  BY DEF EpochInv
<1>3. CASE d = c
  BY <1>1, <1>3 DEF TypeOK, Go, Passed
<1>4. CASE d # c
  BY <1>2, <1>4 DEF TypeOK, Go, Passed
<1> QED BY <1>3, <1>4

\* What a request in flight presents, and what an answer brings, was issued.
LEMMA SendPassed ==
  ASSUME NEW p, NEW a, a # Agent => a.epoch <= epoch
  PROVE  Passed([at |-> "sent", for |-> p, attempt |-> a])
  BY DEF Passed

LEMMA WaitingPassed ==
  /\ Passed(Idle)
  /\ Passed(Ready)
  /\ Passed([at |-> "begin"])
  /\ Passed([at |-> "exchange"])
  BY DEF Passed, Idle, Ready

\* An answer of the resource.  What is rejected is of an epoch that passed.
LEMMA ReplyPassed ==
  ASSUME TypeOK, EpochInv, NEW c \in Call,
         NEW s, NEW a \in {None, epoch}, NEW b, Reply(c, s, a, b),
         s = "unauthorized" /\ Presented(c) # Agent => Presented(c).epoch # epoch
  PROVE  EpochInv'
<1> DEFINE answered ==
      [at |-> "answered", for |-> call[c].for, attempt |-> call[c].attempt,
       answer |-> [status |-> s, access |-> a, challenge |-> b]]
<1>1. call[c] \in Sent /\ Passed(call[c])
  BY StateKinds DEF TypeOK, Reply, EpochInv
<1>2. call[c].attempt # Agent =>
        /\ call[c].attempt.epoch <= epoch
        /\ call[c].attempt.epoch \in Nat /\ epoch \in Nat
  BY <1>1, Credentials, BoundAssumption DEF Passed, Sent, TypeOK, Epoch
<1>3. call[c].for = "request" => Presented(c) = call[c].attempt
  BY DEF Presented, Polling
<1>4. Passed(answered)
  BY <1>2, <1>3, BoundAssumption DEF Passed, TypeOK, Epoch
<1>5. \A d \in Call : Passed(call[d])'
  <2> HIDE DEF answered
  <2>1. Go(c, answered) /\ epoch' = epoch
    BY DEF Reply, answered, environment
  <2> QED BY <1>4, <2>1, GoPassed
<1> QED BY <1>5 DEF EpochInv, Reply, environment, cache, history

\* observe_response puts nothing into the cache but what an answer brought.
LEMMA ObservedPassed ==
  ASSUME TypeOK, EpochInv, NEW c \in Call, NEW p \in Purpose, Observe(c, p)
  PROVE  /\ epoch' = epoch
         /\ (auth # None => auth.epoch <= epoch)'
         /\ (opaque # None => opaque <= epoch)'
<1>1. call[c] \in Answered /\ Passed(call[c])
  BY ObservedType DEF EpochInv
<1>2. call[c].answer.access # None => call[c].answer.access <= epoch
  BY <1>1 DEF Passed, Answered
<1>3. /\ auth' \in {auth, None}
      /\ opaque' \in {opaque, None, call[c].answer.access}
  BY DEF Observe, Observed
<1> QED BY <1>2, <1>3 DEF EpochInv, Observe, environment

\* Each step keeps what is known within the epochs issued so far.
LEMMA EpochStep == TypeOK /\ EpochInv /\ [Next]_vars => EpochInv'
<1> SUFFICES ASSUME TypeOK, EpochInv, [Next]_vars PROVE EpochInv'
  OBVIOUS
<1> USE WaitingPassed
<1>1. CASE UNCHANGED vars
  BY <1>1 DEF EpochInv, Passed, vars
<1>2. CASE Revoke
  <2>1. \A e \in Epoch : (e <= epoch => e <= epoch') /\ (e < epoch => e < epoch')
    BY <1>2, BoundAssumption DEF Revoke, TypeOK, Epoch
  <2>2. ASSUME NEW d \in Call PROVE Passed(call[d])'
    <3>1. Passed(call[d]) /\ call'[d] = call[d]
      BY <1>2 DEF Revoke, EpochInv
    <3>2. CASE call[d].at = "sent"
      <4>1. call[d].attempt # Agent => call[d].attempt.epoch \in Epoch
        BY <3>2, StateKinds, Credentials DEF TypeOK, Sent
      <4> QED BY <2>1, <3>1, <3>2, <4>1 DEF Passed
    <3>3. CASE call[d].at = "answered"
      <4>1. /\ call[d].attempt # Agent => call[d].attempt.epoch \in Epoch
            /\ call[d].answer.access # None => call[d].answer.access \in Epoch
        BY <3>3, StateKinds, Credentials DEF TypeOK, Answered, Answer
      <4> QED BY <2>1, <3>1, <3>3, <4>1 DEF Passed
    <3>4. CASE call[d].at = "minted"
      <4>1. call[d].epoch \in Epoch
        BY <3>4, StateKinds DEF TypeOK, Minted
      <4> QED BY <2>1, <3>1, <3>4, <4>1 DEF Passed
    <3> QED BY <3>1, <3>2, <3>3, <3>4 DEF Passed
  <2>3. ASSUME NEW d \in Call, NEW r \in rejected[d] PROVE r.epoch < epoch'
    BY <2>1, Credentials DEF TypeOK, EpochInv, Credential
  <2>4. (auth # None => auth.epoch <= epoch)' /\ (opaque # None => opaque <= epoch)'
    BY <1>2, <2>1 DEF TypeOK, EpochInv, Revoke, cache
  <2>5. rejected' = rejected
    BY <1>2 DEF Revoke, history
  <2> QED BY <2>2, <2>3, <2>4, <2>5 DEF EpochInv
<1>3. CASE Age
  <2>1. auth'.epoch = auth.epoch
    BY <1>3 DEF Age, Usable, TypeOK
  <2> QED BY <1>3, <2>1 DEF EpochInv, Passed, Age, Usable, history
<1>4. ASSUME NEW c \in Call, SeedOpaque(c) PROVE EpochInv'
  <2>1. \A d \in Call : Passed(call[d])'
    BY <1>4, GoPassed DEF SeedOpaque, environment
  <2>2. (opaque # None => opaque <= epoch)'
    BY <1>4, BoundAssumption DEF SeedOpaque, environment, EpochInv, TypeOK, Epoch
  <2>3. \A d \in Call : rejected'[d] \subseteq rejected[d]
    BY <1>4 DEF SeedOpaque, TypeOK
  <2> QED BY <1>4, <2>1, <2>2, <2>3 DEF EpochInv, SeedOpaque, environment
<1>5. ASSUME NEW c \in Call, BeginAuthorizeAttempt(c) PROVE EpochInv'
  <2>1. \A d \in Call : Passed(call[d])'
    BY <1>5, GoPassed DEF BeginAuthorizeAttempt, environment
  <2> QED BY <1>5, <2>1
       DEF EpochInv, BeginAuthorizeAttempt, environment, cache, history
<1>6. ASSUME NEW c \in Call, TryProactiveAuthorize(c) PROVE EpochInv'
  <2>1. \A d \in Call : Passed(call[d])'
    BY <1>6, GoPassed, SendPassed DEF TryProactiveAuthorize, Send, environment
  <2> QED BY <1>6, <2>1 DEF EpochInv, TryProactiveAuthorize, environment
<1>7. ASSUME NEW c \in Call, NextAttempt(c) PROVE EpochInv'
  <2> DEFINE attempt == IF Usable(auth) THEN AuthOf(auth.epoch)
                        ELSE IF opaque # None THEN OpaqueOf(opaque) ELSE Agent
  <2>1. attempt # Agent => attempt.epoch <= epoch
    BY DEF EpochInv, Usable, AuthOf, OpaqueOf
  <2>2. \A d \in Call : Passed(call[d])'
    <3> HIDE DEF attempt
    <3>1. Send(c, "request", attempt) /\ epoch' = epoch
      BY <1>7 DEF NextAttempt, attempt, environment
    <3> QED BY <2>1, <3>1, GoPassed, SendPassed DEF Send
  <2> QED BY <1>7, <2>2 DEF EpochInv, NextAttempt, environment, history
<1>8. ASSUME NEW c \in Call, AuthorizeAnswered(c) PROVE EpochInv'
  <2>1. Observe(c, "authorize") /\ rejected' = rejected
    BY <1>8 DEF AuthorizeAnswered
  <2>2. epoch' = epoch
    BY <2>1, ObservedPassed DEF Purpose
  <2>3. \A d \in Call : Passed(call[d])'
    BY <1>8, <2>2, GoPassed, SendPassed DEF AuthorizeAnswered, Send
  <2> QED BY <2>1, <2>3, ObservedPassed DEF EpochInv, Purpose
<1>9. ASSUME NEW c \in Call, AuthorizePolled(c) PROVE EpochInv'
  <2>1. Observe(c, "authorize_poll") /\ rejected' = rejected
    BY <1>9 DEF AuthorizePolled
  <2>2. epoch' = epoch
    BY <2>1, ObservedPassed DEF Purpose
  <2>3. \A d \in Call : Passed(call[d])'
    BY <1>9, <2>2, GoPassed DEF AuthorizePolled
  <2> QED BY <2>1, <2>3, ObservedPassed DEF EpochInv, Purpose
<1>10. ASSUME NEW c \in Call, RequestAnswered(c) PROVE EpochInv'
  <2> DEFINE attempt == call[c].attempt
             step == Step(attempt, call[c].answer)
  <2>1. Observe(c, "request")
    BY <1>10 DEF RequestAnswered
  <2>2. call[c] \in Answered /\ Passed(call[c]) /\ epoch' = epoch
    BY <2>1, ObservedType, ObservedPassed DEF Purpose, EpochInv
  <2>3. attempt # Agent => attempt.epoch <= epoch
    BY <2>2 DEF Passed, Answered
  <2>4. step \in {"Finish", "RetryWithOpaque", "Invalidate", "PollDeferred",
                  "ExchangeToken"}
    BY <2>2 DEF Step, Answered, Answer
  <2>5. Passed([at |-> "sent", for |-> "poll", attempt |-> attempt])
    BY <2>3, SendPassed
  <2>6. \A d \in Call : Passed(call[d])'
    BY <1>10, <2>2, <2>4, <2>5, GoPassed DEF RequestAnswered, Send
  <2>7. step = "Invalidate" => attempt.epoch < epoch
    <3>1. call[c].for = "request" /\ call[c].at = "answered"
      BY <2>1 DEF Observe
    <3>2. step = "Invalidate" =>
            call[c].answer.status = "unauthorized" /\ attempt # Agent
      BY <2>2 DEF Step, Answered, Answer
    <3> QED BY <2>2, <3>1, <3>2 DEF Passed
  <2>8. \A d \in Call : \A r \in rejected'[d] : r.epoch < epoch
    BY <1>10, <2>7 DEF RequestAnswered, EpochInv, TypeOK
  <2> QED BY <2>1, <2>2, <2>6, <2>8, ObservedPassed DEF EpochInv, Purpose
<1>11. ASSUME NEW c \in Call, RequestPolled(c) PROVE EpochInv'
  <2>1. Observe(c, "poll") /\ rejected' = rejected
    BY <1>11 DEF RequestPolled
  <2>2. epoch' = epoch
    BY <2>1, ObservedPassed DEF Purpose
  <2>3. \A d \in Call : Passed(call[d])'
    BY <1>11, <2>2, GoPassed DEF RequestPolled
  <2> QED BY <2>1, <2>3, ObservedPassed DEF EpochInv, Purpose
<1>12. ASSUME NEW c \in Call, RecordAuthToken(c) PROVE EpochInv'
  <2>1. \A d \in Call : Passed(call[d])'
    BY <1>12, GoPassed DEF RecordAuthToken, environment
  <2>2. call[c].epoch <= epoch
    BY <1>12 DEF RecordAuthToken, EpochInv, Passed
  <2> QED BY <1>12, <2>1, <2>2 DEF EpochInv, RecordAuthToken, environment, history
<1>13. ASSUME NEW c \in Call, Serve(c) PROVE EpochInv'
  <2>1. ASSUME NEW a \in {None, epoch}, Accept(c, a) PROVE EpochInv'
    BY <2>1, ReplyPassed DEF Accept
  <2>2. CASE Reject(c)
    BY <2>2, ReplyPassed DEF Reject
  <2>3. CASE Challenge(c)
    BY <2>3, ReplyPassed DEF Challenge
  <2>4. CASE Defer(c)
    BY <2>4, ReplyPassed DEF Defer
  <2>5. CASE Refuse(c)
    BY <2>5, ReplyPassed DEF Refuse
  <2>6. CASE ExchangeToken(c)
    <3>1. Passed([at |-> "minted", epoch |-> epoch])
      BY BoundAssumption DEF Passed, TypeOK, Epoch
    <3>2. \A d \in Call : Passed(call[d])'
      BY <2>6, <3>1, GoPassed DEF ExchangeToken, environment
    <3> QED BY <2>6, <3>2
         DEF EpochInv, ExchangeToken, environment, cache, history
  <2>7. CASE Fail(c)
    <3>1. \A d \in Call : Passed(call[d])'
      BY <2>7, GoPassed DEF Fail, environment
    <3> QED BY <2>7, <3>1 DEF EpochInv, Fail, environment, cache, history
  <2> QED BY <1>13, <2>1, <2>2, <2>3, <2>4, <2>5, <2>6, <2>7 DEF Serve
<1> QED
  BY <1>1, <1>2, <1>3, <1>4, <1>5, <1>6, <1>7, <1>8, <1>9, <1>10, <1>11, <1>12,
     <1>13 DEF Next, Environment, Client

\* Of any number of concurrent calls: nothing that the cache or a call holds
\* is ahead of the resource, and whatever was answered 401 belongs to an epoch
\* that has passed, so it never becomes good again.
THEOREM EpochInvariant == Spec => []EpochInv
<1>1. Init => EpochInv
  BY WaitingPassed DEF Init, EpochInv
<1> QED BY <1>1, EpochStep, TypeCorrect, PTL DEF Spec

-----------------------------------------------------------------------------
(* One call at a time *)

\* What the current epoch issues was never rejected.
LEMMA CurrentIsFresh ==
  ASSUME EpochInv, TypeOK, NEW c \in Call
  PROVE  AuthOf(epoch) \notin rejected[c] /\ OpaqueOf(epoch) \notin rejected[c]
  BY BoundAssumption DEF EpochInv, TypeOK, Epoch, AuthOf, OpaqueOf

\* An answer brings an opaque token of the current epoch or none.
LEMMA ReplyFresh ==
  ASSUME TypeOK, EpochInv, FreshInv, NEW c \in Call,
         NEW s, NEW a \in {None, epoch}, NEW b, Reply(c, s, a, b)
  PROVE  FreshInv'
<1> DEFINE answered ==
      [at |-> "answered", for |-> call[c].for, attempt |-> call[c].attempt,
       answer |-> [status |-> s, access |-> a, challenge |-> b]]
<1> SUFFICES ASSUME NEW d \in Call
             PROVE  (/\ auth # None => AuthOf(auth.epoch) \notin rejected[d]
                     /\ opaque # None => OpaqueOf(opaque) \notin rejected[d]
                     /\ call[d].at = "minted" => AuthOf(call[d].epoch) \notin rejected[d]
                     /\ call[d].at = "answered" /\ call[d].answer.access # None =>
                          OpaqueOf(call[d].answer.access) \notin rejected[d]
                     /\ call[d].at = "sent" /\ call[d].for = "request" =>
                          call[d].attempt \notin rejected[d])'
  BY DEF FreshInv
<1>1. UNCHANGED <<auth, opaque, rejected>>
  BY DEF Reply, cache, history
<1>2. CASE d = c
  <2>1. call'[d] = answered
    BY <1>2 DEF Reply, Go, TypeOK
  <2> QED BY <1>1, <2>1, CurrentIsFresh DEF FreshInv
<1>3. CASE d # c
  <2>1. call'[d] = call[d]
    BY <1>3 DEF Reply, Go, TypeOK
  <2> QED BY <1>1, <2>1 DEF FreshInv
<1> QED BY <1>2, <1>3

\* Steps other than SeedOpaque and RequestAnswered leave `rejected` alone, and
\* what they put into the cache or send is fresh.
LEMMA FreshStep ==
  ASSUME NEW c \in Call, Call = {c}
  PROVE  TypeOK /\ EpochInv /\ FreshInv /\ [Next]_vars => FreshInv'
<1> SUFFICES ASSUME TypeOK, EpochInv, FreshInv, [Next]_vars PROVE FreshInv'
  OBVIOUS
<1> USE DEF FreshInv
<1>1. CASE UNCHANGED vars
  BY <1>1 DEF vars
<1>2. CASE Revoke
  BY <1>2 DEF Revoke, cache, history
<1>3. CASE Age
  <2>1. auth'.epoch = auth.epoch
    BY <1>3 DEF Age, Usable, TypeOK
  <2> QED BY <1>3, <2>1 DEF Age, Usable, history
<1>4. CASE SeedOpaque(c)
  <2>1. rejected'[c] = {} /\ call'[c].at = "begin"
    BY <1>4 DEF SeedOpaque, Go, TypeOK
  <2> QED BY <2>1
<1>5. CASE BeginAuthorizeAttempt(c)
  <2>1. call'[c].at = "next"
    BY <1>5 DEF BeginAuthorizeAttempt, Go, TypeOK, Ready
  <2> QED BY <1>5, <2>1 DEF BeginAuthorizeAttempt, cache, history
<1>6. CASE TryProactiveAuthorize(c)
  <2>1. \/ call'[c].at = "next"
        \/ call'[c].at = "sent" /\ call'[c].for = "authorize"
    BY <1>6 DEF TryProactiveAuthorize, Send, Go, TypeOK, Ready
  <2> QED BY <1>6, <2>1 DEF TryProactiveAuthorize
<1>7. CASE NextAttempt(c)
  <2> DEFINE attempt == IF Usable(auth) THEN AuthOf(auth.epoch)
                        ELSE IF opaque # None THEN OpaqueOf(opaque) ELSE Agent
  <2>1. Agent \notin rejected[c]
    BY DEF TypeOK, Agent, Credential
  <2>2. attempt \notin rejected[c]
    BY <2>1 DEF Usable
  <2>3. call'[c].at = "sent" /\ call'[c].attempt = attempt
    BY <1>7 DEF NextAttempt, Send, Go, TypeOK
  <2>4. (auth' # None => auth' = auth) /\ UNCHANGED <<opaque, rejected>>
    BY <1>7 DEF NextAttempt, history
  <2> HIDE DEF attempt
  <2> QED BY <2>2, <2>3, <2>4
<1>8. CASE AuthorizeAnswered(c)
  <2>1. Observe(c, "authorize") /\ rejected' = rejected
    BY <1>8 DEF AuthorizeAnswered
  <2>2. \/ call'[c].at = "next"
        \/ call'[c].at = "sent" /\ call'[c].for = "authorize_poll"
    BY <1>8 DEF AuthorizeAnswered, Send, Go, TypeOK, Ready
  <2> QED BY <2>1, <2>2 DEF Observe, Observed, NewOpaque
<1>9. CASE AuthorizePolled(c)
  <2>1. Observe(c, "authorize_poll") /\ rejected' = rejected
    BY <1>9 DEF AuthorizePolled
  <2>2. call'[c].at = "next"
    BY <1>9 DEF AuthorizePolled, Go, TypeOK, Ready
  <2> QED BY <2>1, <2>2 DEF Observe, Observed, NewOpaque
<1>10. CASE RequestAnswered(c)
  <2> DEFINE attempt == call[c].attempt
             answer == call[c].answer
             step == Step(attempt, answer)
  <2>1. Observe(c, "request") /\ call[c] \in Answered
    BY <1>10, ObservedType DEF RequestAnswered, Purpose
  <2>2. step \in {"Finish", "RetryWithOpaque", "Invalidate", "PollDeferred",
                  "ExchangeToken"}
    BY <2>1 DEF Step, Answered, Answer
  <2>3. /\ call'[c].at \notin {"minted", "answered"}
        /\ call'[c].at = "sent" => call'[c].for = "poll"
    <3>1. \/ call'[c] \in {Idle, Ready, [at |-> "exchange"]}
          \/ call'[c] = [at |-> "sent", for |-> "poll", attempt |-> attempt]
      BY <1>10, <2>2 DEF RequestAnswered, Send, Go, TypeOK
    <3> QED BY <3>1, WaitingStates
  <2>4. CASE step = "Invalidate"
    <3>1. answer.status = "unauthorized" /\ attempt # Agent
      BY <2>1, <2>4 DEF Step, Answered, Answer
    <3>2. attempt \in Credential /\ rejected'[c] = rejected[c] \cup {attempt}
      BY <1>10, <2>1, <2>4, <3>1, Credentials DEF RequestAnswered, TypeOK, Answered
    <3>3. /\ auth' = IF attempt.kind = "auth" THEN None ELSE auth
          /\ opaque' = IF attempt.kind = "opaque" THEN None ELSE opaque
      BY <2>1, <3>1 DEF Observe, Observed
    <3>4. auth' # None => AuthOf(auth'.epoch) # attempt
      BY <3>2, <3>3 DEF AuthOf, Credential
    <3>5. opaque' # None => OpaqueOf(opaque') # attempt
      BY <3>2, <3>3 DEF OpaqueOf, Credential
    <3> QED BY <2>3, <3>2, <3>3, <3>4, <3>5
  <2>5. CASE step # "Invalidate"
    <3>1. rejected' = rejected
      BY <1>10, <2>5 DEF RequestAnswered
    <3> QED BY <2>1, <2>3, <3>1 DEF Observe, Observed, NewOpaque
  <2> QED BY <2>4, <2>5
<1>11. CASE RequestPolled(c)
  <2>1. Observe(c, "poll") /\ rejected' = rejected
    BY <1>11 DEF RequestPolled
  <2>2. call'[c].at \in {"next", "idle"}
    BY <1>11, WaitingStates DEF RequestPolled, Go, TypeOK
  <2> QED BY <2>1, <2>2 DEF Observe, Observed, NewOpaque
<1>12. CASE RecordAuthToken(c)
  <2>1. call'[c].at = "next" /\ auth'.epoch = call[c].epoch
    BY <1>12, WaitingStates DEF RecordAuthToken, Go, TypeOK
  <2> QED BY <1>12, <2>1 DEF RecordAuthToken, history
<1>13. CASE Serve(c)
  <2>1. ASSUME NEW a \in {None, epoch}, Accept(c, a) PROVE FreshInv'
    BY <2>1, ReplyFresh DEF Accept
  <2>2. CASE Reject(c) \/ Challenge(c) \/ Defer(c) \/ Refuse(c)
    BY <2>2, ReplyFresh DEF Reject, Challenge, Defer, Refuse
  <2>3. CASE ExchangeToken(c)
    <3>1. call'[c] = [at |-> "minted", epoch |-> epoch]
      BY <2>3 DEF ExchangeToken, Go, TypeOK
    <3> QED BY <2>3, <3>1, CurrentIsFresh DEF ExchangeToken, cache, history
  <2>4. CASE Fail(c)
    <3>1. call'[c].at = "idle"
      BY <2>4, WaitingStates DEF Fail, Go, TypeOK
    <3> QED BY <2>4, <3>1 DEF Fail, cache, history
  <2> QED BY <1>13, <2>1, <2>2, <2>3, <2>4 DEF Serve
<1> QED
  BY <1>1, <1>2, <1>3, <1>4, <1>5, <1>6, <1>7, <1>8, <1>9, <1>10, <1>11, <1>12,
     <1>13 DEF Next, Environment, Client

\* A client that makes one call at a time never presents a credential again
\* that was answered 401 to the call: what observe_response drops is the very
\* credential that next_attempt found, and what comes later was issued later.
THEOREM RejectedIsNotReused ==
  ASSUME NEW c \in Call, Call = {c}
  PROVE  Spec => []RejectedNotReused
<1>1. Init => FreshInv
  BY WaitingStates DEF Init, FreshInv
<1>2. FreshInv => RejectedNotReused
  BY DEF FreshInv, RejectedNotReused
<1> QED BY <1>1, <1>2, FreshStep, TypeCorrect, EpochInvariant, PTL DEF Spec

=============================================================================
