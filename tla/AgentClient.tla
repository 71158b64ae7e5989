----------------------------- MODULE AgentClient -----------------------------
(***************************************************************************)
(* The agent's HTTP client: the credential cache AgentAuth (crate aauth,   *)
(* agent/auth.rs) and the middleware that drives it (crate aauth-reqwest,  *)
(* middleware/agent.rs), for one resource origin and one configured Person *)
(* Server.  Entries of other origins are never read or written.            *)
(*                                                                         *)
(* The calls an application makes run concurrently and share the cache     *)
(* behind a mutex that is never held across an await.  An answer is        *)
(* decided by the resource in one step and observed by the client in       *)
(* another, so answers may be old, and out of order, when they are seen.   *)
(*                                                                         *)
(* A credential is known by the epoch it was issued in.  The resource      *)
(* accepts those of the current epoch: a new epoch is an expiry or a       *)
(* revocation of everything issued before.                                 *)
(***************************************************************************)
EXTENDS Naturals

CONSTANTS
  Call,      \* slots for the application's calls
  Seeded,    \* AgentOptions.opaque_token is set
  MaxEpoch,  \* bound: the credentials are revoked so often
  MaxAges,   \* bound: a cached token nears its expiry so often
  None       \* no credential

ASSUME BoundAssumption == MaxEpoch \in Nat /\ MaxAges \in Nat /\ Seeded \in BOOLEAN

Epoch == 0..MaxEpoch

ASSUME NoneAssumption == None \notin Epoch

VARIABLES
  epoch,   \* the epoch whose credentials the resource accepts
  ages,    \* how often a cached token has neared its expiry
  auth,    \* token_cache: a token's epoch, and whether its last minute began
  opaque,  \* opaque_cache: a token's epoch
  tried,   \* authorize_tried contains the origin
  call,    \* Call -> where the call is
  \* History, read by the properties only:
  posts,     \* how often the authorization endpoint was called, up to 2
  rejected,  \* Call -> credentials the resource answered 401 in this call
  denied     \* calls whose pending URL ended without success

vars == <<epoch, ages, auth, opaque, tried, call, posts, rejected, denied>>

-----------------------------------------------------------------------------
(* Requests, answers, and where a call is *)

Agent == [kind |-> "agent"]
Credential == [kind : {"auth", "opaque"}, epoch : Epoch]
AuthOf(e) == [kind |-> "auth", epoch |-> e]
OpaqueOf(e) == [kind |-> "opaque", epoch |-> e]
Attempt == {Agent} \cup Credential

\* access is the opaque token of an AAuth-Access header, challenge an
\* AAuth-Requirement with a resource token.
Answer ==
  [status : {"ok", "accepted", "refused", "unauthorized"},
   access : Epoch \cup {None},
   challenge : BOOLEAN]

\* What a request in flight is for.
Purpose == {"authorize", "authorize_poll", "request", "poll"}

Idle == [at |-> "idle"]
Ready == [at |-> "next"]
Waiting ==
  [at : {"begin", "exchange"}] \cup {Idle, Ready}
Sent == [at : {"sent"}, for : Purpose, attempt : Attempt]
Answered ==
  [at : {"answered"}, for : Purpose, attempt : Attempt, answer : Answer]
Minted == [at : {"minted"}, epoch : Epoch]
State == Waiting \cup Sent \cup Answered \cup Minted

TypeOK ==
  /\ epoch \in Epoch
  /\ ages \in 0..MaxAges
  /\ auth \in [epoch : Epoch, aged : BOOLEAN] \cup {None}
  /\ opaque \in Epoch \cup {None}
  /\ tried \in BOOLEAN
  /\ call \in [Call -> State]
  /\ posts \in 0..2
  /\ rejected \in [Call -> SUBSET Credential]
  /\ denied \subseteq Call

Init ==
  /\ epoch = 0
  /\ ages = 0
  /\ auth = None
  /\ opaque = None
  /\ tried = FALSE
  /\ call = [c \in Call |-> Idle]
  /\ posts = 0
  /\ rejected = [c \in Call |-> {}]
  /\ denied = {}

Go(c, state) == call' = [call EXCEPT ![c] = state]
Send(c, purpose, attempt) ==
  Go(c, [at |-> "sent", for |-> purpose, attempt |-> attempt])

environment == <<epoch, ages>>
cache == <<auth, opaque, tried>>
history == <<posts, rejected, denied>>

-----------------------------------------------------------------------------
(* The call begins: handle_inner, then try_proactive_authorize.  A Faulty   *)
(* form of a definition is a mistake the properties are expected to notice; *)
(* no specification here uses one.                                         *)

SeedOpaque(c) ==
  /\ call[c] = Idle
  /\ opaque' = IF Seeded /\ opaque = None THEN 0 ELSE opaque
  /\ Go(c, [at |-> "begin"])
  /\ rejected' = [rejected EXCEPT ![c] = {}]
  /\ denied' = denied \ {c}
  /\ UNCHANGED <<environment, auth, tried, posts>>

\* Looking at the cache and at authorize_tried is one step, under the lock.
BeginAuthorizeAttempt(c) ==
  /\ call[c].at = "begin"
  /\ opaque # None \/ tried
  /\ Go(c, Ready)
  /\ UNCHANGED <<environment, cache, history>>

\* The attempt is recorded only when its answer has come.
FaultyTryProactiveAuthorize(c) ==
  /\ call[c].at = "begin"
  /\ opaque = None /\ ~tried
  /\ Send(c, "authorize", Agent)
  /\ posts' = IF posts < 2 THEN posts + 1 ELSE posts
  /\ UNCHANGED <<environment, cache, rejected, denied>>

\* The metadata may be missing or name no authorization endpoint.
TryProactiveAuthorize(c) ==
  /\ call[c].at = "begin"
  /\ opaque = None /\ ~tried
  /\ tried' = TRUE
  /\ \/ /\ Send(c, "authorize", Agent)
        /\ posts' = IF posts < 2 THEN posts + 1 ELSE posts
     \/ /\ Go(c, Ready)
        /\ UNCHANGED posts
  /\ UNCHANGED <<environment, auth, opaque, rejected, denied>>

-----------------------------------------------------------------------------
(* next_attempt: a cached auth token, else an opaque token, else the       *)
(* agent's signature alone.  A token in its last minute is dropped.        *)

\* The margin on the wrong side.
FaultyUsable(token) == token # None /\ token.aged
Usable(token) == token # None /\ ~token.aged

NextAttempt(c) ==
  /\ call[c] = Ready
  /\ auth' = IF Usable(auth) THEN auth ELSE None
  /\ Send(c, "request",
       IF Usable(auth) THEN AuthOf(auth.epoch)
       ELSE IF opaque # None THEN OpaqueOf(opaque)
       ELSE Agent)
  /\ UNCHANGED <<environment, opaque, tried, history>>

-----------------------------------------------------------------------------
(* The resource answers, and time passes there. *)

Reply(c, status, access, challenge) ==
  /\ call[c].at = "sent"
  /\ Go(c, [at |-> "answered", for |-> call[c].for, attempt |-> call[c].attempt,
            answer |-> [status |-> status, access |-> access,
                        challenge |-> challenge]])
  /\ UNCHANGED <<environment, cache, history>>

Polling(c) == call[c].for \in {"authorize_poll", "poll"}

\* A poll of a pending URL carries the agent's signature, whatever the
\* request it belongs to presented.
Presented(c) == IF Polling(c) THEN Agent ELSE call[c].attempt

\* With or without a new opaque token.
Accept(c, access) ==
  /\ call[c].at = "sent"
  /\ Presented(c) # Agent => Presented(c).epoch = epoch
  /\ access \in {None, epoch}
  /\ Reply(c, "ok", access, FALSE)

\* A credential that is no longer good.
Reject(c) ==
  /\ call[c].at = "sent"
  /\ Presented(c) # Agent
  /\ Presented(c).epoch # epoch
  /\ Reply(c, "unauthorized", None, FALSE)

Challenge(c) ==
  /\ call[c].at = "sent"
  /\ Presented(c) = Agent
  /\ Reply(c, "unauthorized", None, TRUE)

Defer(c) ==
  /\ call[c].at = "sent"
  /\ ~Polling(c)
  /\ Reply(c, "accepted", None, FALSE)

\* 403, 408, 410 or 500 to a request or a poll; 401 without a challenge to
\* one that presents no credential.
Refuse(c) ==
  /\ call[c].at = "sent"
  /\ \/ Reply(c, "refused", None, FALSE)
     \/ Presented(c) = Agent /\ Reply(c, "unauthorized", None, FALSE)

Revoke ==
  /\ epoch < MaxEpoch
  /\ epoch' = epoch + 1
  /\ UNCHANGED <<ages, cache, call, history>>

\* The cached token enters the last minute of its expires_in.
Age ==
  /\ Usable(auth)
  /\ ages < MaxAges
  /\ ages' = ages + 1
  /\ auth' = [auth EXCEPT !.aged = TRUE]
  /\ UNCHANGED <<epoch, opaque, tried, call, history>>

-----------------------------------------------------------------------------
(* observe_response: what it does to the cache, and the step it returns. *)

NewOpaque(answer) == answer.access # None /\ answer.access # opaque

\* The rejected credential stays in the cache.
FaultyObserved(attempt, answer) ==
  /\ opaque' = IF NewOpaque(answer) THEN answer.access ELSE opaque
  /\ UNCHANGED auth

\* 401 drops the cache entry of the attempt's kind, whichever token it
\* holds by now; any other answer may bring a new opaque token.
Observed(attempt, answer) ==
  IF answer.status = "unauthorized"
  THEN /\ auth' = IF attempt.kind = "auth" THEN None ELSE auth
       /\ opaque' = IF attempt.kind = "opaque" THEN None ELSE opaque
  ELSE /\ opaque' = IF NewOpaque(answer) THEN answer.access ELSE opaque
       /\ UNCHANGED auth

Step(attempt, answer) ==
  CASE answer.status = "accepted" -> "PollDeferred"
    [] answer.status \in {"ok", "refused"} ->
         IF NewOpaque(answer) /\ attempt = Agent THEN "RetryWithOpaque" ELSE "Finish"
    [] answer.status = "unauthorized" /\ attempt # Agent -> "Invalidate"
    [] answer.status = "unauthorized" /\ attempt = Agent ->
         IF answer.challenge THEN "ExchangeToken" ELSE "Finish"

Observe(c, purpose) ==
  /\ call[c].at = "answered"
  /\ call[c].for = purpose
  /\ Observed(call[c].attempt, call[c].answer)
  /\ UNCHANGED <<environment, tried, posts>>

\* The proactive authorization: a challenge or a refusal is ignored.
AuthorizeAnswered(c) ==
  /\ Observe(c, "authorize")
  /\ IF Step(Agent, call[c].answer) = "PollDeferred"
     THEN Send(c, "authorize_poll", Agent) ELSE Go(c, Ready)
  /\ UNCHANGED <<rejected, denied>>

AuthorizePolled(c) ==
  /\ Observe(c, "authorize_poll")
  /\ Go(c, Ready)
  /\ UNCHANGED <<rejected, denied>>

\* The request itself: the loop's match on the step.
RequestAnswered(c) ==
  LET attempt == call[c].attempt
      step == Step(attempt, call[c].answer) IN
  /\ Observe(c, "request")
  /\ CASE step = "Finish" -> Go(c, Idle)
       [] step \in {"RetryWithOpaque", "Invalidate"} -> Go(c, Ready)
       [] step = "PollDeferred" -> Send(c, "poll", attempt)
       [] step = "ExchangeToken" -> Go(c, [at |-> "exchange"])
  /\ rejected' = IF step = "Invalidate"
                 THEN [rejected EXCEPT ![c] = @ \cup {attempt}] ELSE rejected
  /\ UNCHANGED denied

\* The pending URL's last answer: Finish means to send the request again.
RequestPolled(c) ==
  /\ Observe(c, "poll")
  /\ IF Step(call[c].attempt, call[c].answer) \in {"Finish", "RetryWithOpaque"}
     THEN Go(c, Ready) ELSE Go(c, Idle)
  /\ denied' = IF call[c].answer.status = "refused" THEN denied \cup {c} ELSE denied
  /\ UNCHANGED rejected

-----------------------------------------------------------------------------
(* The exchange of the resource token for an auth token. *)

ExchangeToken(c) ==
  /\ call[c].at = "exchange"
  /\ Go(c, [at |-> "minted", epoch |-> epoch])
  /\ UNCHANGED <<environment, cache, history>>

\* Cached without its expiry.
FaultyRecordAuthToken(c) ==
  /\ call[c].at = "minted"
  /\ auth' = [epoch |-> call[c].epoch, aged |-> None]
  /\ Go(c, Ready)
  /\ UNCHANGED <<environment, opaque, tried, history>>

RecordAuthToken(c) ==
  /\ call[c].at = "minted"
  /\ auth' = [epoch |-> call[c].epoch, aged |-> FALSE]
  /\ Go(c, Ready)
  /\ UNCHANGED <<environment, opaque, tried, history>>

\* A transport error, a poll that runs out of time, a challenge or a token
\* that does not verify: the call ends with an error.
Fail(c) ==
  /\ call[c].at \in {"sent", "exchange", "minted"}
  /\ Go(c, Idle)
  /\ UNCHANGED <<environment, cache, history>>

-----------------------------------------------------------------------------
\* The client's own steps.
Client(c) ==
  \/ BeginAuthorizeAttempt(c)
  \/ TryProactiveAuthorize(c)
  \/ NextAttempt(c)
  \/ AuthorizeAnswered(c)
  \/ AuthorizePolled(c)
  \/ RequestAnswered(c)
  \/ RequestPolled(c)
  \/ RecordAuthToken(c)

\* Whatever a resource and a Person Server may do.
Serve(c) ==
  \/ Accept(c, None)
  \/ Accept(c, epoch)
  \/ Reject(c)
  \/ Challenge(c)
  \/ Defer(c)
  \/ Refuse(c)
  \/ ExchangeToken(c)
  \/ Fail(c)

\* Revocations and expiries.
Environment == Revoke \/ Age

Next ==
  \/ Environment
  \/ \E c \in Call : SeedOpaque(c) \/ Client(c) \/ Serve(c)

Spec == Init /\ [][Next]_vars

-----------------------------------------------------------------------------
(* The inductive strengthening of RejectedNotReused.  Of any number of      *)
(* calls: nothing is issued ahead of its epoch, and what is rejected is of  *)
(* an epoch that has passed.                                               *)

Passed(state) ==
  /\ state.at \in {"sent", "answered"} /\ state.attempt # Agent =>
       state.attempt.epoch <= epoch
  /\ state.at = "answered" =>
       /\ state.answer.access # None => state.answer.access <= epoch
       /\ state.for = "request" /\ state.answer.status = "unauthorized"
            /\ state.attempt # Agent => state.attempt.epoch < epoch
  /\ state.at = "minted" => state.epoch <= epoch

EpochInv ==
  /\ auth # None => auth.epoch <= epoch
  /\ opaque # None => opaque <= epoch
  /\ \A c \in Call : Passed(call[c])
  /\ \A c \in Call : \A r \in rejected[c] : r.epoch < epoch

(* Of a single call: no credential it could still present was rejected.     *)

FreshInv ==
  \A c \in Call :
    /\ auth # None => AuthOf(auth.epoch) \notin rejected[c]
    /\ opaque # None => OpaqueOf(opaque) \notin rejected[c]
    /\ call[c].at = "minted" => AuthOf(call[c].epoch) \notin rejected[c]
    /\ call[c].at = "answered" /\ call[c].answer.access # None =>
         OpaqueOf(call[c].answer.access) \notin rejected[c]
    /\ call[c].at = "sent" /\ call[c].for = "request" =>
         call[c].attempt \notin rejected[c]

-----------------------------------------------------------------------------
(* Safety *)

\* The authorization endpoint is called at most once for an origin, however
\* many calls begin at the same time (agent.rs: "POST authorize once").
AuthorizeOnce == posts <= 1

\* Of a client that makes one call at a time: a call never presents again a
\* credential that was answered 401 to it, so each round of the middleware's
\* loop is a new attempt (observe_response drops what next_attempt found).
RejectedNotReused ==
  \A c \in Call :
    call[c].at = "sent" /\ call[c].for = "request" =>
      call[c].attempt \notin rejected[c]

\* draft-hardt-oauth-aauth-protocol.md:2221: a denial on the pending URL is
\* surfaced to the user, so the call ends (agent.rs takes the step Finish of a
\* 403 or 410 for a grant and sends the request again).
DenialSurfaces == \A c \in denied : call[c] = Idle

-----------------------------------------------------------------------------
(* Liveness.  A resource and a Person Server whose user agrees: a request   *)
(* without a credential is accepted, challenged or deferred, a challenge    *)
(* leads to a token and a deferral to an opaque token, and a credential of  *)
(* the current epoch is accepted.  Each answers in the end, and the client  *)
(* takes its own steps.                                                     *)

Agree(c) ==
  \/ ~Polling(c) /\ Accept(c, None)
  \/ Accept(c, epoch)
  \/ Reject(c)
  \/ ~Polling(c) /\ Challenge(c)
  \/ call[c].attempt = Agent /\ Defer(c)

AgreeingNext ==
  \/ Environment
  \/ \E c \in Call : SeedOpaque(c) \/ Client(c) \/ ExchangeToken(c)
                     \/ (call[c].at = "sent" /\ Agree(c))

Fairness ==
  \A c \in Call :
    /\ WF_vars(Client(c))
    /\ WF_vars(ExchangeToken(c))
    /\ WF_vars(call[c].at = "sent" /\ Agree(c))

AgreeingSpec == Init /\ [][AgreeingNext]_vars /\ Fairness

\* Every call ends, whatever the concurrent calls do to the shared cache: no
\* livelock of calls that drop each other's fresh credentials (the loop of
\* handle_inner counts no rounds).
CallEnds == \A c \in Call : call[c] # Idle ~> call[c] = Idle

=============================================================================
