---------------------------- MODULE PersonPending ----------------------------
(***************************************************************************)
(* The Person Server's token service, PolicyPersonTokenService (crate      *)
(* aauth-policy, person/), over a pending store shared by every request.   *)
(*                                                                         *)
(* Each HTTP request runs in a task of its own.  A Worker is a slot for a  *)
(* task that needs more than one step: it loads a record, awaits a policy  *)
(* or the Access Server, and writes later, while the other tasks go on.    *)
(* A request that reaches the store at most once is a single step and      *)
(* needs no slot.  A request that changes no state at all (an immediate    *)
(* grant, a denial, a lookup of an unknown id) is a stuttering step.       *)
(***************************************************************************)
EXTENDS PendingStore, FiniteSets

CONSTANTS
  Worker,        \* slots for requests in flight
  Id,            \* pending ids generate_pending_id can return
  Code,          \* codes generate_code can return
  Agent,         \* agents: agent token, claims and key
  AccessServer,  \* Access Server urls, the possible `aud` of a resource token
  PersonServer,  \* this server, as the issuer of a token
  Decisions,     \* what the configured policy may decide
  TTL,           \* pending_ttl_secs, in ticks
  MaxTime,       \* bound: the clock stops here
  NoServer,      \* federation: None
  NoCode,        \* ps_interaction_code: None
  NoLease        \* an id that was never issued

\* A token request as the service keeps it: who asks, and the Access Server
\* its resource token names.
Request == [agent : Agent, aud : AccessServer]
Lease == [request : Request, expires_at : Nat]

ASSUME TimeAssumption == TTL \in Nat /\ MaxTime \in Nat
ASSUME PolicyAssumption ==
  Decisions \subseteq {"grant", "deny", "defer", "federate"}
ASSUME TokenAssumption ==
  Token = [iss : AccessServer \cup {PersonServer}, agent : Agent]
ASSUME ServerAssumption == PersonServer \notin AccessServer /\ NoServer \notin AccessServer
ASSUME CodeAssumption == NoCode \notin Code

-----------------------------------------------------------------------------
VARIABLES
  now,       \* the clock that created_at and is_expired read
  store,     \* the pending store: Id -> record or NoRecord
  task,      \* Worker -> what the request in that slot does next
  \* History, read by the properties only:
  issued,    \* Id -> the request and deadline the id was created with
  polled,    \* Id -> the last answer to a GET of the pending URL
  redeemed   \* Id -> how often its interaction code was accepted, up to 2

history == <<issued, polled, redeemed>>
vars == <<now, store, task, issued, polled, redeemed>>

-----------------------------------------------------------------------------
(* Types *)

Record ==
  [request : Request,
   federation : AccessServer \cup {NoServer},
   resource_interaction : {"none", "https", "other"},
   ps_interaction_code : Code \cup {NoCode},
   interaction_code_consumed : BOOLEAN,
   expires_at : Nat,
   snapshot : Snapshot]

ASSUME RecordAssumption ==
  NoRecord \notin Record /\ NoLease \notin Lease /\ NoLease \notin Nat

(* What the request in a slot has loaded and does next. *)

Idle == [at |-> "idle"]
PolicyTask == [at : {"policy"}, id : Id, request : Request]
FederatedTask ==
  [at : {"federated"}, id : Id, request : Request, server : AccessServer]
CompleteTask == [at : {"complete"}, id : Id, outcome : Outcome]
DeferTask == [at : {"reload"}, id : Id, edit : {"defer"}]
FederateTask ==
  [at : {"reload"}, id : Id, edit : {"federate"}, request : Request]
RedeferTask ==
  [at : {"reload"}, id : Id, edit : {"redefer"}, server : AccessServer]
WriteTask == [at : {"save", "consume"}, id : Id, record : Record]
RemoveTask == [at : {"remove"}, id : Id, poll : BOOLEAN]

Task ==
  {Idle} \cup PolicyTask \cup FederatedTask \cup CompleteTask
    \cup DeferTask \cup FederateTask \cup RedeferTask
    \cup WriteTask \cup RemoveTask

Answer == {"none", "pending", "token", "error", "gone"}

\* The state every variable is in, whatever the requests in flight.
TypeOK ==
  /\ now \in 0..MaxTime
  /\ store \in [Id -> Record \cup {NoRecord}]
  /\ task \in [Worker -> Task]
  /\ issued \in [Id -> Lease \cup {NoLease}]
  /\ polled \in [Id -> Answer]
  /\ redeemed \in [Id -> 0..2]

Init ==
  /\ now = 0
  /\ store = [i \in Id |-> NoRecord]
  /\ task = [w \in Worker |-> Idle]
  /\ issued = [i \in Id |-> NoLease]
  /\ polled = [i \in Id |-> "none"]
  /\ redeemed = [i \in Id |-> 0]

-----------------------------------------------------------------------------
(* Building and editing records *)

NewRecord(request, federation, interaction, code) ==
  [request |-> request,
   federation |-> federation,
   resource_interaction |-> interaction,
   ps_interaction_code |-> code,
   interaction_code_consumed |-> FALSE,
   expires_at |-> now + TTL,
   snapshot |-> Waiting("pending")]

(* Next to a definition, a Faulty form of it is a mistake the properties are *)
(* expected to notice; no specification here uses one.                      *)

\* A deferral that starts the record over.
FaultyDeferredAfresh(record) ==
  [record EXCEPT !.snapshot = Waiting("pending"),
                 !.interaction_code_consumed = FALSE]

\* A deferral that grants a new time to live.
FaultyDeferredLonger(record) ==
  [record EXCEPT !.snapshot = Waiting("pending"), !.expires_at = now + TTL]

\* update_person_pending_defer: a new requirement, the rest as it was.
Deferred(record) == [record EXCEPT !.snapshot = Waiting("pending")]

\* The record is rebuilt as if new.
FaultyFederatedAnew(record, request) ==
  NewRecord(request, request.aud, "none", NoCode)

\* Only the federation is set in the old context.
FaultyFederatedInPlace(record, request) ==
  [Deferred(record) EXCEPT !.federation = request.aud]

\* create_federated_deferred_response with an existing id: the whole context
\* is replaced by one built from the caller's copy of the request.
Federated(record, request) ==
  [Deferred(record) EXCEPT
     !.request = request,
     !.federation = request.aud,
     !.resource_interaction = "none",
     !.ps_interaction_code = NoCode,
     !.interaction_code_consumed = FALSE]

FaultyRedeferredLocally(record, server) ==
  [Deferred(record) EXCEPT !.federation = NoServer]

\* The Access Server asked for one more step.  The pending URL it named is
\* not kept: nothing in this module tells two such urls apart.
Redeferred(record, server) == [Deferred(record) EXCEPT !.federation = server]

Edited(record, t) ==
  CASE t.edit = "defer" -> Deferred(record)
    [] t.edit = "federate" -> Federated(record, t.request)
    [] t.edit = "redefer" -> Redeferred(record, t.server)

\* The user's arrival restarts the clock.
FaultyConsumedLonger(record) ==
  [record EXCEPT !.interaction_code_consumed = TRUE, !.expires_at = now + TTL]

\* What begin_interaction writes back.
Consumed(record) ==
  [record EXCEPT
     !.interaction_code_consumed = TRUE,
     !.snapshot = IF @.state = "waiting" THEN Waiting("interacting") ELSE @]

\* The user is let in: redirected to an https resource interaction, or shown
\* the pending page.  Other urls fail the request after the code is spent.
Accepted(record) ==
  IF record.resource_interaction = "none"
  THEN record.snapshot.state = "waiting"
  ELSE record.resource_interaction = "https"

\* Tokens: what mint_person_auth signs, and what verify_federated_auth_token
\* lets through.
Minted(request) == [iss |-> PersonServer, agent |-> request.agent]
FaultyVerifiedIssuer(token, server, request) == token.iss = server
Verified(token, server, request) ==
  token.iss = server /\ token.agent = request.agent

\* verify_federated_auth_token comes before the caller may store the token;
\* one that fails ends the request with 401.
AfterVerification(id, token, server, request) ==
  IF Verified(token, server, request)
  THEN [at |-> "complete", id |-> id, outcome |-> AuthToken(token)]
  ELSE Idle

Live(i) == store[i] # NoRecord /\ ~IsExpired(store[i], now)
Stale(i) == store[i] # NoRecord /\ IsExpired(store[i], now)

Become(w, t) == task' = [task EXCEPT ![w] = t]

-----------------------------------------------------------------------------
(* exchange_token.  Only the branches that create a record change state.   *)

\* Ids that may come up again.
FaultyCreatePendingTwice(i, record) ==
  /\ store[i] = NoRecord
  /\ store' = Insert(store, i, record)
  /\ issued' = [issued EXCEPT ![i] =
       [request |-> record.request, expires_at |-> record.expires_at]]
  /\ UNCHANGED <<now, task, polled, redeemed>>

\* Pending ids are 128 random bits: an id is never drawn twice.  Codes are
\* drawn without looking at the codes in use.
CreatePending(i, record) ==
  /\ issued[i] = NoLease
  /\ store' = Insert(store, i, record)
  /\ issued' = [issued EXCEPT ![i] =
       [request |-> record.request, expires_at |-> record.expires_at]]
  /\ UNCHANGED <<now, task, polled, redeemed>>

CreateDeferredPersonResponse(i, request) ==
  /\ "defer" \in Decisions
  /\ CreatePending(i, NewRecord(request, NoServer, "none", NoCode))

CreateFederatedDeferredResponse(i, request) ==
  /\ "federate" \in Decisions
  /\ CreatePending(i, NewRecord(request, request.aud, "none", NoCode))

CreateResourceInitiatedDeferredResponse(i, request, url, code) ==
  CreatePending(i, NewRecord(request, NoServer, url, code))

ExchangeToken(i) ==
  \E r \in Request :
    \/ CreateDeferredPersonResponse(i, r)
    \/ CreateFederatedDeferredResponse(i, r)
    \/ \E url \in {"https", "other"}, c \in Code :
         CreateResourceInitiatedDeferredResponse(i, r, url, c)

-----------------------------------------------------------------------------
(* poll_pending: load, then answer or remove. *)

PollPending(i) ==
  /\ issued[i] # NoLease
  /\ ~Stale(i)
  /\ polled' = [polled EXCEPT ![i] =
       IF store[i] = NoRecord THEN "gone" ELSE PollOutcome(store[i].snapshot)]
  /\ UNCHANGED <<now, store, task, issued, redeemed>>

\* Every operation that loads an expired record removes it in a second step.
FindExpired(w, i, isPoll) ==
  /\ task[w] = Idle
  /\ Stale(i)
  /\ Become(w, [at |-> "remove", id |-> i, poll |-> isPoll])
  /\ UNCHANGED <<now, store, history>>

RemovePending(w) ==
  /\ task[w].at = "remove"
  /\ store' = Remove(store, task[w].id)
  /\ polled' = IF task[w].poll
               THEN [polled EXCEPT ![task[w].id] = "gone"] ELSE polled
  /\ Become(w, Idle)
  /\ UNCHANGED <<now, issued, redeemed>>

-----------------------------------------------------------------------------
(* resume_pending: the load, then the policy or the Access Server.  The    *)
(* snapshot is not looked at: a completed record is resumed like any other. *)

ResumePending(w, i) ==
  /\ task[w] = Idle
  /\ Live(i)
  /\ Become(w,
       IF store[i].federation = NoServer
       THEN [at |-> "policy", id |-> i, request |-> store[i].request]
       ELSE [at |-> "federated", id |-> i, request |-> store[i].request,
             server |-> store[i].federation])
  /\ UNCHANGED <<now, store, history>>

(* policy.resume or policy.evaluate answers: apply_person_pending_decision. *)

DecideGrant(w) ==
  /\ task[w].at = "policy"
  /\ "grant" \in Decisions
  /\ Become(w, [at |-> "complete", id |-> task[w].id,
                outcome |-> AuthToken(Minted(task[w].request))])
  /\ UNCHANGED <<now, store, history>>

DecideDeny(w) ==
  /\ task[w].at = "policy"
  /\ "deny" \in Decisions
  /\ \E f \in Failure :
       Become(w, [at |-> "complete", id |-> task[w].id, outcome |-> Error(f)])
  /\ UNCHANGED <<now, store, history>>

DecideDefer(w) ==
  /\ task[w].at = "policy"
  /\ "defer" \in Decisions
  /\ Become(w, [at |-> "reload", id |-> task[w].id, edit |-> "defer"])
  /\ UNCHANGED <<now, store, history>>

\* federate_to_access_server: a token, a deferral, or an error (401).
DecideFederate(w) ==
  /\ task[w].at = "policy"
  /\ "federate" \in Decisions
  /\ \/ Become(w, [at |-> "reload", id |-> task[w].id, edit |-> "federate",
                   request |-> task[w].request])
     \/ \E t \in Token :
          Become(w, AfterVerification(task[w].id, t, task[w].request.aud,
                                      task[w].request))
     \/ Become(w, Idle)
  /\ UNCHANGED <<now, store, history>>

\* The policy or the minter returns an error: 500, nothing written.
DecideFail(w) ==
  /\ task[w].at = "policy"
  /\ Become(w, Idle)
  /\ UNCHANGED <<now, store, history>>

-----------------------------------------------------------------------------
(* handle_federated_pending_post: the Access Server's answer to the posted *)
(* input and, when that carries no token, to the poll that follows.        *)

FederatedToken(w) ==
  /\ task[w].at = "federated"
  /\ \E t \in Token :
       Become(w, AfterVerification(task[w].id, t, task[w].server,
                                   task[w].request))
  /\ UNCHANGED <<now, store, history>>

\* The server's own url is recorded as the one to go back to.
FaultyFederatedDeferredHere(w) ==
  /\ task[w].at = "federated"
  /\ Become(w, [at |-> "reload", id |-> task[w].id, edit |-> "redefer",
                server |-> PersonServer])
  /\ UNCHANGED <<now, store, history>>

FederatedDeferred(w) ==
  /\ task[w].at = "federated"
  /\ Become(w, [at |-> "reload", id |-> task[w].id, edit |-> "redefer",
                server |-> task[w].server])
  /\ UNCHANGED <<now, store, history>>

\* A denial by the Access Server, or a cancelled request.
FederatedError(w) ==
  /\ task[w].at = "federated"
  /\ \E f \in Failure :
       Become(w, [at |-> "complete", id |-> task[w].id, outcome |-> Error(f)])
  /\ UNCHANGED <<now, store, history>>

FederatedGone(w) ==
  /\ task[w].at = "federated"
  /\ Become(w, [at |-> "remove", id |-> task[w].id, poll |-> FALSE])
  /\ UNCHANGED <<now, store, history>>

\* A call that fails or runs out of time: 502, nothing written.
FederatedFail(w) ==
  /\ task[w].at = "federated"
  /\ Become(w, Idle)
  /\ UNCHANGED <<now, store, history>>

-----------------------------------------------------------------------------
(* The writes that end a request. *)

CompletePending(w) ==
  /\ task[w].at = "complete"
  /\ store' = Complete(store, task[w].id, task[w].outcome)
  /\ Become(w, Idle)
  /\ UNCHANGED <<now, history>>

\* A deferral loads the record again (expired or not) ...
ReloadPending(w) ==
  /\ task[w].at = "reload"
  /\ LET i == task[w].id IN
       Become(w, IF store[i] = NoRecord THEN Idle
                 ELSE [at |-> "save", id |-> i,
                       record |-> Edited(store[i], task[w])])
  /\ UNCHANGED <<now, store, history>>

\* ... and saves the edited copy over whatever is there by then.
SavePending(w) ==
  /\ task[w].at = "save"
  /\ store' = Insert(store, task[w].id, task[w].record)
  /\ Become(w, Idle)
  /\ UNCHANGED <<now, history>>

-----------------------------------------------------------------------------
(* begin_interaction: find_if, then the save of the consumed copy. *)

FindCode(i, code) ==
  /\ store[i] # NoRecord
  /\ store[i].ps_interaction_code = code
  /\ ~store[i].interaction_code_consumed

BeginInteraction(w, i, code) ==
  /\ task[w] = Idle
  /\ FindCode(i, code)
  /\ Live(i)
  /\ Become(w, [at |-> "consume", id |-> i, record |-> Consumed(store[i])])
  /\ UNCHANGED <<now, store, history>>

ConsumeCode(w) ==
  /\ task[w].at = "consume"
  /\ store' = Insert(store, task[w].id, task[w].record)
  /\ redeemed' = [redeemed EXCEPT ![task[w].id] =
       IF Accepted(task[w].record) /\ @ < 2 THEN @ + 1 ELSE @]
  /\ Become(w, Idle)
  /\ UNCHANGED <<now, issued, polled>>

-----------------------------------------------------------------------------
(* resolve_interaction_callback *)

CallbackError(w, i) ==
  /\ task[w] = Idle
  /\ Live(i)
  /\ \E f \in Failure :
       Become(w, [at |-> "complete", id |-> i, outcome |-> Error(f)])
  /\ UNCHANGED <<now, store, history>>

\* The policy decides on federated records as well.
FaultyCallbackReturnedAny(w, i) ==
  /\ task[w] = Idle
  /\ Live(i)
  /\ Become(w, [at |-> "policy", id |-> i, request |-> store[i].request])
  /\ UNCHANGED <<now, store, history>>

\* A federated record answers 502; any other goes to policy.evaluate.
CallbackReturned(w, i) ==
  /\ task[w] = Idle
  /\ Live(i)
  /\ Become(w,
       IF store[i].federation = NoServer
       THEN [at |-> "policy", id |-> i, request |-> store[i].request]
       ELSE Idle)
  /\ UNCHANGED <<now, store, history>>

-----------------------------------------------------------------------------
Tick ==
  /\ now < MaxTime
  /\ now' = now + 1
  /\ UNCHANGED <<store, task, history>>

\* A request in flight takes its next step.
Proceed(w) ==
  \/ RemovePending(w)
  \/ DecideGrant(w)
  \/ DecideDeny(w)
  \/ DecideDefer(w)
  \/ DecideFederate(w)
  \/ DecideFail(w)
  \/ FederatedToken(w)
  \/ FederatedDeferred(w)
  \/ FederatedError(w)
  \/ FederatedGone(w)
  \/ FederatedFail(w)
  \/ CompletePending(w)
  \/ ReloadPending(w)
  \/ SavePending(w)
  \/ ConsumeCode(w)

\* A request for the pending id i arrives in slot w.
Arrive(w, i) ==
  \/ \E isPoll \in BOOLEAN : FindExpired(w, i, isPoll)
  \/ ResumePending(w, i)
  \/ \E c \in Code : BeginInteraction(w, i, c)
  \/ CallbackError(w, i)
  \/ CallbackReturned(w, i)

Next ==
  \/ Tick
  \/ \E i \in Id : ExchangeToken(i) \/ PollPending(i)
  \/ \E w \in Worker : Proceed(w)
  \/ \E w \in Worker, i \in Id : Arrive(w, i)

Spec == Init /\ [][Next]_vars

-----------------------------------------------------------------------------
(* The inductive strengthening of LeaseKept and TokenForRequest: what is    *)
(* true of the stored records is true of every copy a request has in hand.  *)

GoodToken(i, t) ==
  /\ t.agent = issued[i].request.agent
  /\ t.iss \in {PersonServer, issued[i].request.aud}

GoodSnapshot(i, s) == s.state = "token" => GoodToken(i, s.token)

GoodRecord(i, r) ==
  /\ issued[i] # NoLease
  /\ r.request = issued[i].request
  /\ r.expires_at = issued[i].expires_at
  /\ r.federation \in {NoServer, issued[i].request.aud}
  /\ GoodSnapshot(i, r.snapshot)

GoodTask(t) ==
  /\ t # Idle => issued[t.id] # NoLease
  /\ t.at \in {"policy", "federated"} => t.request = issued[t.id].request
  /\ t.at = "federated" => t.server = issued[t.id].request.aud
  /\ t.at = "complete" => GoodSnapshot(t.id, t.outcome)
  /\ t.at = "reload" =>
       /\ t.edit = "federate" => t.request = issued[t.id].request
       /\ t.edit = "redefer" => t.server = issued[t.id].request.aud
  /\ t.at \in {"save", "consume"} => GoodRecord(t.id, t.record)

LeaseInv ==
  /\ \A i \in Id : store[i] # NoRecord => GoodRecord(i, store[i])
  /\ \A w \in Worker : GoodTask(task[w])

(* The same for GoneOnlyAfterDeadline, of a policy that never federates:    *)
(* records disappear, and removals are under way, only past the deadline.   *)

LocalTask(t) ==
  /\ t.at # "federated"
  /\ t.at = "reload" => t.edit = "defer"
  /\ t.at \in {"save", "consume"} => t.record.federation = NoServer

DeadlineInv ==
  /\ \A i \in Id : issued[i] # NoLease /\ store[i] = NoRecord =>
       now > issued[i].expires_at
  /\ \A i \in Id : polled[i] = "gone" =>
       issued[i] # NoLease /\ now > issued[i].expires_at
  /\ \A i \in Id : store[i] # NoRecord => store[i].federation = NoServer
  /\ \A w \in Worker : LocalTask(task[w])
  /\ \A w \in Worker : task[w].at = "remove" =>
       now > issued[task[w].id].expires_at

(* And for the properties of a server whose requests take turns: what a     *)
(* request has in hand is the record as it still is, and its own edit of it. *)

Kept(r, s) == r.federation # NoServer => s.federation = r.federation

\* A federated record is the Access Server's, and a code that can be found
\* has not been redeemed.
Settled(i, r) ==
  /\ r.federation # NoServer =>
       /\ r.ps_interaction_code = NoCode /\ r.resource_interaction = "none"
       /\ (r.snapshot.state = "token" => r.snapshot.token.iss = r.federation)
  /\ r.ps_interaction_code # NoCode /\ ~r.interaction_code_consumed => redeemed[i] = 0

InTurn(t) ==
  /\ t.at \notin {"idle", "remove"} => store[t.id] # NoRecord
  /\ t.at = "policy" => store[t.id].federation = NoServer
  /\ t.at = "federated" => store[t.id].federation = t.server
  /\ t.at = "complete" /\ store[t.id].federation # NoServer /\ t.outcome.state = "token" =>
       t.outcome.token.iss = store[t.id].federation
  /\ t.at = "reload" =>
       store[t.id].federation = IF t.edit = "redefer" THEN t.server ELSE NoServer
  /\ t.at \in {"save", "consume"} =>
       Kept(store[t.id], t.record) /\ Settled(t.id, t.record)
  /\ t.at = "consume" => redeemed[t.id] = 0 /\ t.record.interaction_code_consumed

TurnInv ==
  /\ \A i \in Id : store[i] # NoRecord => issued[i] # NoLease /\ Settled(i, store[i])
  /\ \A i \in Id : issued[i] = NoLease => redeemed[i] = 0
  /\ \A i \in Id : redeemed[i] <= 1
  /\ \A i \in Id : polled[i] = "gone" => issued[i] # NoLease /\ store[i] = NoRecord
  /\ \A w \in Worker : task[w] # Idle => issued[task[w].id] # NoLease
  /\ \A w \in Worker : InTurn(task[w])

-----------------------------------------------------------------------------
(* Properties of every schedule. *)

\* A stored record keeps the request and the deadline its pending id was
\* issued with: no deferral, federation, redemption or stale save
\* (defer.rs, federation_pending.rs, mod.rs) moves it to another agent or
\* gives it more time.
LeaseKept ==
  \A i \in Id : store[i] # NoRecord =>
    /\ issued[i] # NoLease
    /\ store[i].request = issued[i].request
    /\ store[i].expires_at = issued[i].expires_at

\* The token a pending URL hands out is for the agent that opened it, and is
\* signed by this server or by the Access Server its resource token names,
\* whatever tokens the Access Server sends (verify_federated_auth_token).
TokenForRequest ==
  \A i \in Id : store[i] # NoRecord /\ store[i].snapshot.state = "token" =>
    /\ store[i].snapshot.token.agent = issued[i].request.agent
    /\ store[i].snapshot.token.iss \in {PersonServer, issued[i].request.aud}

\* Past its deadline a pending URL has one new answer, 410 Gone, even when a
\* request that loaded the record earlier saves it back after its removal
\* (poll_auth_pending against save).
DeadlineStep(i) ==
  issued[i] # NoLease /\ now > issued[i].expires_at /\ polled'[i] # polled[i]
    => polled'[i] = "gone"
DeadlineHolds == [][\A i \in Id : DeadlineStep(i)]_vars

\* A polling client is told 410 only when the deadline has passed.  A policy
\* that federates is the exception: an Access Server's Gone removes the
\* record early.
GoneOnlyAfterDeadline ==
  \A i \in Id : polled[i] = "gone" =>
    issued[i] # NoLease /\ now > issued[i].expires_at

\* A pending URL that answered 410 never answers anything else, although
\* saves do not check that the record is still there (memory.rs save).
GoneStep(i) == polled[i] = "gone" => polled'[i] = "gone"
GoneIsFinal == [][\A i \in Id : GoneStep(i)]_vars

\* The pending URLs of a server whose policy does not federate keep the
\* promise of PendingPromise: opened once, live until the deadline, gone and
\* nothing else past it, whatever the requests in flight do to the store.
DeadlineOf(i) == IF issued[i] = NoLease THEN NoLease ELSE issued[i].expires_at
PendingURL == INSTANCE PendingPromise WITH
  None <- NoLease, deadline <- [i \in Id |-> DeadlineOf(i)], answer <- polled
Promise == PendingURL!Spec

-----------------------------------------------------------------------------
(* Properties of a server whose requests take turns: while one is at work  *)
(* on a record no other begins with the same record.                       *)

TakingTurns ==
  \A v, w \in Worker :
    task[v] # Idle /\ task[w] # Idle /\ task[v].id = task[w].id => v = w

TurnSpec == Init /\ [][Next /\ TakingTurns']_vars

\* An interaction code lets a user in once (records.rs: "single-use"):
\* deferring or federating the record again does not revive it.
CodeSingleUse == \A i \in Id : redeemed[i] <= 1

\* A pending request handed to an Access Server stays with that server
\* while its record lives.
FederationSticks ==
  [][\A i \in Id :
       store[i] # NoRecord /\ store'[i] # NoRecord
         /\ store[i].federation # NoServer
         => store'[i].federation = store[i].federation]_vars

\* ... its token is the Access Server's, never one minted here: the
\* interaction callback and the resume both look at `federation` first.
FederatedDecidedByAccessServer ==
  \A i \in Id : store[i] # NoRecord /\ store[i].federation # NoServer
      /\ store[i].snapshot.state = "token"
    => store[i].snapshot.token.iss = store[i].federation

\* ... and its interaction code is gone, so no user can be sent to the
\* resource for it (create_federated_deferred_response).
FederationClearsInteraction ==
  \A i \in Id : store[i] # NoRecord /\ store[i].federation # NoServer =>
    store[i].ps_interaction_code = NoCode /\ store[i].resource_interaction = "none"

\* A request that takes several steps with the store, and awaits a policy or
\* the Access Server between them, does to its record what PersonService does
\* in one: no deferral undoes a redemption, no decision is about a record
\* that has changed or gone, whatever happens to other records meanwhile.
Service == INSTANCE PersonService WITH opened <- {i \in Id : issued[i] # NoLease}
OneStepEach == Service!Spec

\* Its inductive strengthening, beside LeaseInv and TurnInv: what a request
\* has in hand is what one step makes of the record as it still is.
Hand(t) ==
  /\ t.at = "complete" =>
       Service!Decided(store[t.id], [store[t.id] EXCEPT !.snapshot = t.outcome])
  /\ t.at = "save" => Service!Decided(store[t.id], t.record)
  /\ t.at = "consume" => Service!Spent(store[t.id], t.record)
  /\ t.at = "remove" =>
       /\ store[t.id] # NoRecord
       /\ Service!Stale(t.id) \/ (~t.poll /\ store[t.id].federation # NoServer)

HandInv == \A w \in Worker : Hand(task[w])

-----------------------------------------------------------------------------
(* What the protocol document asks for and the code does not do. *)

\* draft-hardt-oauth-aauth-protocol.md:940: an approval resolves the agent's
\* pending request; a record that holds the token does not go back to
\* waiting before its deadline (a save overwrites a completion it never saw).
ApprovalResolves ==
  [][\A i \in Id :
       store[i] # NoRecord /\ store[i].snapshot.state = "token"
         /\ store'[i] # NoRecord
         => store'[i].snapshot.state # "waiting"]_vars

-----------------------------------------------------------------------------
(* Liveness.  A request in flight is a future its runtime keeps polling:   *)
(* its awaits are on the policy and on an Access Server client that gives  *)
(* up at a deadline.  The clock advances.  The client polls for ever, and  *)
(* a poll that has to remove a record is served in the end, for the        *)
(* runtime starts a task for every request: strong fairness, because here  *)
(* the slots may be taken and freed by others in the meantime.             *)

Fairness ==
  /\ WF_vars(Tick)
  /\ \A w \in Worker : WF_vars(Proceed(w))
  /\ \A i \in Id : WF_vars(PollPending(i))
  /\ \A i \in Id : SF_vars(\E w \in Worker : FindExpired(w, i, TRUE))

LiveSpec == Spec /\ Fairness

\* A client that keeps polling a pending URL is told 410 in the end and from
\* then on: no schedule of deferrals keeps a record alive past its deadline.
\* (Deadlines the bounded clock reaches.)
EventuallyGone ==
  \A i \in Id :
    (issued[i] # NoLease /\ issued[i].expires_at < MaxTime)
      ~> [](polled[i] = "gone")

=============================================================================
