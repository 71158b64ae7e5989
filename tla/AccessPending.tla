---------------------------- MODULE AccessPending ----------------------------
(***************************************************************************)
(* The Access Server's token service, PolicyAccessTokenService (crate      *)
(* aauth-policy, access/service.rs), and the status its routes answer with *)
(* (crate aauth-axum, access/routes.rs and respond.rs).                    *)
(*                                                                         *)
(* A Handler is a slot for a request in flight.  It steps once per store   *)
(* call and per answer of the policy, and ends with an HTTP response that  *)
(* stays in the slot until it is sent or the connection is lost.           *)
(*                                                                         *)
(* The parties of a request are left out: a context is stored and read as  *)
(* a whole, and never edited.  So is a request the route refuses before it *)
(* reaches the service.                                                    *)
(***************************************************************************)
EXTENDS PendingStore

CONSTANTS
  Handler,    \* slots for requests in flight
  Id,         \* pending ids generate_pending_id can return
  Decisions,  \* what the configured policy may decide
  TTL,        \* pending_ttl_secs, in ticks
  MaxTime,    \* bound: the clock stops here
  None        \* no deadline, no pending url, no token

ASSUME TimeAssumption == TTL \in Nat /\ MaxTime \in Nat
ASSUME PolicyAssumption == Decisions \subseteq {"grant", "deny", "defer"}
ASSUME NoneAssumption == None \notin Nat /\ None \notin Id /\ None \notin Token

VARIABLES
  now,       \* the clock
  store,     \* the pending store: Id -> record or NoRecord
  task,      \* Handler -> what the request in that slot does next
  \* History, read by the properties only:
  deadline,  \* Id -> until when the record it was created with lives
  polled,    \* Id -> the last outcome of a poll
  decided    \* Id -> every outcome the policy gave it

accessHistory == <<deadline, polled, decided>>
accessVars == <<now, store, task, deadline, polled, decided>>

-----------------------------------------------------------------------------
(* Types *)

Record == [expires_at : Nat, snapshot : Snapshot]
ASSUME RecordAssumption == NoRecord \notin Record

\* A response: its status, its Location header and the token in its body.
Status == {200, 202, 500} \cup PollingStatus
Response ==
  [status : Status, location : Id \cup {None}, token : Token \cup {None}]

Idle == [at |-> "idle"]
EvaluateTask == [at : {"evaluate"}]
RecordTask == [at : {"policy", "reload"}, id : Id]
CompleteTask == [at : {"complete"}, id : Id, outcome : Outcome]
SaveTask == [at : {"save"}, id : Id, record : Record]
RemoveTask == [at : {"remove"}, id : Id, poll : BOOLEAN]
RespondTask == [at : {"respond"}, response : Response]

Task ==
  {Idle} \cup EvaluateTask \cup RecordTask \cup CompleteTask \cup SaveTask
    \cup RemoveTask \cup RespondTask

AccessTypeOK ==
  /\ now \in 0..MaxTime
  /\ store \in [Id -> Record \cup {NoRecord}]
  /\ task \in [Handler -> Task]
  /\ deadline \in [Id -> Nat \cup {None}]
  /\ polled \in [Id -> {"none", "pending", "token", "error", "gone"}]
  /\ decided \in [Id -> SUBSET Outcome]

AccessInit ==
  /\ now = 0
  /\ store = [i \in Id |-> NoRecord]
  /\ task = [h \in Handler |-> Idle]
  /\ deadline = [i \in Id |-> None]
  /\ polled = [i \in Id |-> "none"]
  /\ decided = [i \in Id |-> {}]

-----------------------------------------------------------------------------
(* Records and responses *)

NewRecord == [expires_at |-> now + TTL, snapshot |-> Waiting("pending")]

\* A Faulty definition is a mistake the properties are expected to notice; no
\* specification uses one.
FaultyDeferredLonger(record) ==
  [record EXCEPT !.snapshot = Waiting("pending"), !.expires_at = now + TTL]

\* update_access_pending_defer: a new requirement, the rest as it was.
Deferred(record) == [record EXCEPT !.snapshot = Waiting("pending")]

Plain(status) == [status |-> status, location |-> None, token |-> None]
Granted(t) == [Plain(200) EXCEPT !.token = t]
DeferCreated(i) == [Plain(202) EXCEPT !.location = i]
Denied == Plain(403)
Gone == Plain(410)
ServerError == Plain(500)

\* Only what creates or renews a deferral names the pending url: the answer
\* to a poll (DeferWaiting) has no Location header.
PollResponse(snapshot) ==
  CASE snapshot.state = "waiting" -> Plain(202)
    [] snapshot.state = "token" -> Granted(snapshot.token)
    [] snapshot.state = "error" -> Plain(snapshot.failure)

\* What the answer to a completed resume says: every denial is 403 here.
OutcomeResponse(outcome) ==
  IF outcome.state = "token" THEN Granted(outcome.token) ELSE Denied

Become(h, t) == task' = [task EXCEPT ![h] = t]
Respond(h, r) == Become(h, [at |-> "respond", response |-> r])

Live(i) == store[i] # NoRecord /\ ~IsExpired(store[i], now)
Stale(i) == store[i] # NoRecord /\ IsExpired(store[i], now)

-----------------------------------------------------------------------------
(* exchange_token: the policy evaluates the request. *)

ExchangeToken(h) ==
  /\ task[h] = Idle
  /\ Become(h, [at |-> "evaluate"])
  /\ UNCHANGED <<now, store, accessHistory>>

EvaluateGrant(h) ==
  /\ task[h].at = "evaluate"
  /\ "grant" \in Decisions
  /\ \E t \in Token : Respond(h, Granted(t))
  /\ UNCHANGED <<now, store, accessHistory>>

EvaluateDeny(h) ==
  /\ task[h].at = "evaluate"
  /\ "deny" \in Decisions
  /\ Respond(h, Denied)
  /\ UNCHANGED <<now, store, accessHistory>>

\* create_deferred_access_response.  Ids are 128 random bits and never come
\* up again.
EvaluateDefer(h, i) ==
  /\ task[h].at = "evaluate"
  /\ "defer" \in Decisions
  /\ deadline[i] = None
  /\ store' = Insert(store, i, NewRecord)
  /\ deadline' = [deadline EXCEPT ![i] = now + TTL]
  /\ Respond(h, DeferCreated(i))
  /\ UNCHANGED <<now, polled, decided>>

\* The policy or the minter fails.
EvaluateFail(h) ==
  /\ task[h].at = "evaluate"
  /\ Respond(h, ServerError)
  /\ UNCHANGED <<now, store, accessHistory>>

-----------------------------------------------------------------------------
(* poll_pending *)

PollPending(h, i) ==
  /\ task[h] = Idle
  /\ deadline[i] # None
  /\ ~Stale(i)
  /\ Respond(h, IF Live(i) THEN PollResponse(store[i].snapshot) ELSE Gone)
  /\ polled' = [polled EXCEPT ![i] =
       IF Live(i) THEN PollOutcome(store[i].snapshot) ELSE "gone"]
  /\ UNCHANGED <<now, store, deadline, decided>>

\* A poll or a resume that loads an expired record removes it.
FindExpired(h, i, isPoll) ==
  /\ task[h] = Idle
  /\ Stale(i)
  /\ Become(h, [at |-> "remove", id |-> i, poll |-> isPoll])
  /\ UNCHANGED <<now, store, accessHistory>>

RemovePending(h) ==
  /\ task[h].at = "remove"
  /\ store' = Remove(store, task[h].id)
  /\ polled' = IF task[h].poll
               THEN [polled EXCEPT ![task[h].id] = "gone"] ELSE polled
  /\ Respond(h, Gone)
  /\ UNCHANGED <<now, deadline, decided>>

-----------------------------------------------------------------------------
(* resume_pending: the load, the policy, the write. *)

ResumePending(h, i) ==
  /\ task[h] = Idle
  /\ deadline[i] # None
  /\ ~Stale(i)
  /\ IF Live(i) THEN Become(h, [at |-> "policy", id |-> i])
                ELSE Respond(h, Gone)
  /\ UNCHANGED <<now, store, accessHistory>>

Decide(h, outcome) ==
  /\ task[h].at = "policy"
  /\ Become(h, [at |-> "complete", id |-> task[h].id, outcome |-> outcome])
  /\ UNCHANGED <<now, store, accessHistory>>

DecideGrant(h) == "grant" \in Decisions /\ \E t \in Token : Decide(h, AuthToken(t))

DecideDeny(h) == "deny" \in Decisions /\ \E f \in Failure : Decide(h, Error(f))

DecideDefer(h) ==
  /\ task[h].at = "policy"
  /\ "defer" \in Decisions
  /\ Become(h, [at |-> "reload", id |-> task[h].id])
  /\ UNCHANGED <<now, store, accessHistory>>

DecideFail(h) ==
  /\ task[h].at = "policy"
  /\ Respond(h, ServerError)
  /\ UNCHANGED <<now, store, accessHistory>>

\* The answer is given although the record may be gone by now.
CompletePending(h) ==
  /\ task[h].at = "complete"
  /\ LET i == task[h].id
         outcome == task[h].outcome IN
       /\ store' = Complete(store, i, outcome)
       /\ decided' = [decided EXCEPT ![i] = @ \cup {outcome}]
       /\ Respond(h, OutcomeResponse(outcome))
  /\ UNCHANGED <<now, deadline, polled>>

ReloadPending(h) ==
  /\ task[h].at = "reload"
  /\ LET i == task[h].id IN
       IF store[i] = NoRecord THEN Respond(h, Gone)
       ELSE Become(h, [at |-> "save", id |-> i, record |-> Deferred(store[i])])
  /\ UNCHANGED <<now, store, accessHistory>>

SavePending(h) ==
  /\ task[h].at = "save"
  /\ store' = Insert(store, task[h].id, task[h].record)
  /\ Respond(h, DeferCreated(task[h].id))
  /\ UNCHANGED <<now, accessHistory>>

-----------------------------------------------------------------------------
\* The response is sent; or the connection is lost, and the runtime drops the
\* handler at the await it is at.
Release(h) ==
  /\ task[h] # Idle
  /\ Become(h, Idle)
  /\ UNCHANGED <<now, store, accessHistory>>

Tick ==
  /\ now < MaxTime
  /\ now' = now + 1
  /\ UNCHANGED <<store, task, accessHistory>>

\* A request of the Person Server reaches the slot h.
Arrive(h) ==
  \/ ExchangeToken(h)
  \/ \E i \in Id : PollPending(h, i) \/ ResumePending(h, i)
  \/ \E i \in Id, isPoll \in BOOLEAN : FindExpired(h, i, isPoll)

\* A request in flight goes on.
Proceed(h) ==
  \/ EvaluateGrant(h)
  \/ EvaluateDeny(h)
  \/ \E i \in Id : EvaluateDefer(h, i)
  \/ EvaluateFail(h)
  \/ RemovePending(h)
  \/ DecideGrant(h)
  \/ DecideDeny(h)
  \/ DecideDefer(h)
  \/ DecideFail(h)
  \/ CompletePending(h)
  \/ ReloadPending(h)
  \/ SavePending(h)

AccessNext == Tick \/ \E h \in Handler : Arrive(h) \/ Proceed(h) \/ Release(h)

AccessSpec == AccessInit /\ [][AccessNext]_accessVars

-----------------------------------------------------------------------------
(* The inductive strengthening of Promise: a record, and every copy of it, *)
(* has the deadline its id was issued with, and a record disappears, or is *)
(* about to, only past that deadline.                                      *)

Opened == {"policy", "reload", "complete", "save", "remove"}

RecordInv ==
  /\ \A i \in Id : store[i] # NoRecord =>
       deadline[i] # None /\ store[i].expires_at = deadline[i]
  /\ \A i \in Id : deadline[i] # None /\ store[i] = NoRecord =>
       now > deadline[i]
  /\ \A h \in Handler : task[h].at \in Opened => deadline[task[h].id] # None
  /\ \A h \in Handler : task[h].at = "save" =>
       task[h].record.expires_at = deadline[task[h].id]
  /\ \A h \in Handler : task[h].at = "remove" => now > deadline[task[h].id]

\* A completed record holds an outcome the policy gave it, and what a
\* deferral is about to save is waiting.
DecidedInv ==
  /\ \A i \in Id : store[i] # NoRecord /\ store[i].snapshot.state # "waiting"
       => store[i].snapshot \in decided[i]
  /\ \A h \in Handler : task[h].at = "save" =>
       task[h].record.snapshot.state = "waiting"

-----------------------------------------------------------------------------
\* The pending URLs of the Access Server keep the promise of PendingPromise,
\* however many posts of the Person Server race on one record: a deferral
\* never extends the deadline, and a save after the removal does not reopen
\* the URL (access/service.rs update_access_pending_defer).
PendingURL == INSTANCE PendingPromise WITH answer <- polled
Promise == PendingURL!Spec

=============================================================================
