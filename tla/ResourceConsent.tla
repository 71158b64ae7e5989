--------------------------- MODULE ResourceConsent ---------------------------
(***************************************************************************)
(* A resource that manages its own authorization: the service              *)
(* PolicyResourceAccessService and the opaque tokens it issues (crate      *)
(* aauth-policy, resource/{service,opaque}.rs), and what the routes and    *)
(* the layer answer for it (crate aauth-axum, resource/{routes,layer}.rs   *)
(* and respond.rs).                                                        *)
(*                                                                         *)
(* Records of a resource are completed by its application, when the user   *)
(* has come to the interaction url: the service has no resume, and the     *)
(* policy's is never called.  Both stores live in memory, so a restart     *)
(* empties them.  All is for one agent: an opaque token is known by the    *)
(* life of the process, the epoch, it was issued in.                       *)
(***************************************************************************)
EXTENDS PendingStore

CONSTANTS
  Handler,    \* slots for polls in flight
  MaxDefer,   \* bound: so many deferred requests are known at a time
  Decisions,  \* what the configured policy may decide
  TTL,        \* pending_ttl_secs, in ticks
  MaxEpoch,   \* bound: the resource restarts so often
  None        \* no requirement, no token

ASSUME TTLAssumption == TTL \in Nat /\ MaxEpoch \in Nat /\ MaxDefer \in Nat
ASSUME TokenAssumption == Token = 0..MaxEpoch
ASSUME NoneAssumption == None \notin Int
ASSUME PolicyAssumption == Decisions \subseteq {"grant", "deny", "interaction", "clarification"}

\* A pending id is random and never comes up again.  Here one whose time has
\* passed, and which nobody knows any more, is drawn again for a new one, so
\* that requests are deferred without end.
Id == 1..MaxDefer

VARIABLES
  epoch,     \* the process life: the opaque store holds the tokens of this one
  store,     \* the pending store: Id -> record or NoRecord
  task,      \* Handler -> what the poll in that slot does next
  \* History, read by the properties only:
  life,      \* Id -> the time its pending url has left, removed or not
  over       \* ids over before their time: their grant was answered to a
             \* poll, the application declared them gone, or a restart lost them

resourceHistory == <<life, over>>
resourceVars == <<epoch, store, task, life, over>>

-----------------------------------------------------------------------------
(* Types.  expires_at is relative to the present, which is 0. *)

Life == -1..TTL
Requirement == {"interaction", "clarification"}
Record ==
  [expires_at : Life, requirement : Requirement,
   snapshot : Snapshot]
ASSUME RecordAssumption == NoRecord \notin Record

\* A response to a poll: its status, the requirement and the AAuth-Access
\* header.
Response ==
  [status : {200, 202} \cup PollingStatus, requirement : Requirement \cup {None},
   access : Token \cup {None}]

Idle == [at |-> "idle"]
Task ==
  {Idle} \cup [at : {"remove", "respond"}, id : Id, response : Response]

ResourceTypeOK ==
  /\ epoch \in Token
  /\ store \in [Id -> Record \cup {NoRecord}]
  /\ task \in [Handler -> Task]
  /\ life \in [Id -> Life \cup {None}]
  /\ over \in SUBSET Id

ResourceInit ==
  /\ epoch = 0
  /\ store = [i \in Id |-> NoRecord]
  /\ task = [h \in Handler |-> Idle]
  /\ life = [i \in Id |-> None]
  /\ over = {}

-----------------------------------------------------------------------------
(* consent_for_agent: the layer, or the authorization endpoint, asks for a *)
(* verified agent.  What it answers is the caller's affair.                *)

Unknown(i) ==
  \/ life[i] = None
  \/ life[i] \notin Nat /\ \A h \in Handler : task[h] # Idle => task[h].id # i

\* create_deferred_resource_response.  The record of an id that is drawn again
\* is out of reach and past its time, if it is still there.
ConsentDefer(i) ==
  /\ Unknown(i)
  /\ \E requirement \in Decisions \cap Requirement :
       store' = Insert(store, i, [expires_at |-> TTL, requirement |-> requirement,
                                  snapshot |-> Waiting("pending")])
  /\ life' = [life EXCEPT ![i] = TTL]
  /\ over' = over \ {i}
  /\ UNCHANGED <<epoch, task>>

\* validate_opaque
FaultyValidateOpaque(token) == token \in Token
ValidateOpaque(token) == token = epoch

-----------------------------------------------------------------------------
(* poll_pending *)

Plain(status) == [status |-> status, requirement |-> None, access |-> None]

\* The answer a record's snapshot makes.
Answer(record) ==
  LET s == record.snapshot IN
  CASE s.state = "waiting" -> [Plain(202) EXCEPT !.requirement = record.requirement]
    [] s.state = "token" -> [Plain(200) EXCEPT !.access = s.token]
    [] s.state = "error" -> Plain(s.failure)

Expired(record) == IsExpired(record, 0)

Gone(i) == [at |-> "respond", id |-> i, response |-> Plain(410)]

\* poll_auth_pending loads the record; an expired one is removed, and so is
\* one whose grant is on its way to the agent.
FaultyLoaded(i) ==
  IF store[i] = NoRecord THEN Gone(i)
  ELSE [at |-> "remove", id |-> i,
        response |-> IF Expired(store[i]) THEN Plain(410) ELSE Answer(store[i])]

Loaded(i) ==
  IF store[i] = NoRecord THEN Gone(i)
  ELSE IF Expired(store[i]) THEN [Gone(i) EXCEPT !.at = "remove"]
  ELSE [at |-> IF store[i].snapshot.state = "token" THEN "remove" ELSE "respond",
        id |-> i, response |-> Answer(store[i])]

PollPending(h, i) ==
  /\ task[h] = Idle
  /\ life[i] # None
  /\ task' = [task EXCEPT ![h] = Loaded(i)]
  /\ UNCHANGED <<epoch, store, resourceHistory>>

RemovePending(h) ==
  /\ task[h].at = "remove"
  /\ store' = Remove(store, task[h].id)
  /\ task' = [task EXCEPT ![h].at = "respond"]
  /\ over' = IF task[h].response.status = 200 THEN over \cup {task[h].id} ELSE over
  /\ UNCHANGED <<epoch, life>>

\* The response is sent, or nobody waits for it any more.
Release(h) ==
  /\ task[h] # Idle
  /\ task' = [task EXCEPT ![h] = Idle]
  /\ UNCHANGED <<epoch, store, resourceHistory>>

-----------------------------------------------------------------------------
(* The application: it issues a token for the agent of a record and        *)
(* completes the record with it, or completes it with an error, when the   *)
(* user has answered.  A user answers once.                                *)

Unanswered(i) == store[i] # NoRecord /\ store[i].snapshot.state = "waiting"

Approve(i) ==
  /\ Unanswered(i)
  /\ store' = Complete(store, i, AuthToken(epoch))
  /\ UNCHANGED <<epoch, task, resourceHistory>>

Reject(i) ==
  /\ Unanswered(i)
  /\ \E f \in Failure :
       /\ store' = Complete(store, i, Error(f))
       /\ over' = IF f = 410 THEN over \cup {i} ELSE over
  /\ UNCHANGED <<epoch, task, life>>

\* The process restarts: what was in memory is lost, and every connection.
Restart ==
  /\ epoch < MaxEpoch
  /\ epoch' = epoch + 1
  /\ store' = [i \in Id |-> NoRecord]
  /\ task' = [h \in Handler |-> Idle]
  /\ over' = {i \in Id : life[i] \in Nat}
  /\ UNCHANGED life

Aged(t) == IF t \in Nat THEN t - 1 ELSE t

ResourceTick ==
  /\ store' = [i \in Id |-> IF store[i] = NoRecord THEN NoRecord
                            ELSE [store[i] EXCEPT !.expires_at = Aged(@)]]
  /\ life' = [i \in Id |-> Aged(life[i])]
  /\ over' = {i \in over : life'[i] \in Nat}
  /\ UNCHANGED <<epoch, task>>

ResourceNext ==
  \/ \E i \in Id : ConsentDefer(i) \/ Approve(i) \/ Reject(i)
  \/ \E h \in Handler : RemovePending(h) \/ Release(h)
  \/ \E h \in Handler, i \in Id : PollPending(h, i)
  \/ Restart
  \/ ResourceTick

ResourceSpec == ResourceInit /\ [][ResourceNext]_resourceVars

-----------------------------------------------------------------------------
(* The inductive strengthening of GoneExplained and of what the client     *)
(* relies on: a record has the time its pending url has, a missing record  *)
(* is over, and every token that is on its way is of this epoch.           *)

Closed(i) == life[i] # None /\ (life[i] < 0 \/ i \in over)

LifeInv ==
  /\ \A i \in Id : store[i] # NoRecord => store[i].expires_at = life[i]
  /\ \A i \in Id : life[i] # None /\ store[i] = NoRecord => Closed(i)
  /\ \A i \in Id : store[i] # NoRecord /\ store[i].snapshot = Error(410) => Closed(i)
  /\ \A h \in Handler : task[h] # Idle =>
       /\ life[task[h].id] # None
       /\ task[h].response.status = 410 => Closed(task[h].id)
       /\ task[h].at = "remove" /\ task[h].response.status # 200 =>
            /\ task[h].response.status = 410
            /\ life[task[h].id] < 0

EpochInv ==
  /\ \A i \in Id : store[i] # NoRecord /\ store[i].snapshot.state = "token" =>
       store[i].snapshot.token = epoch
  /\ \A h \in Handler : task[h] # Idle =>
       task[h].response.access = IF task[h].response.status = 200 THEN epoch ELSE None

-----------------------------------------------------------------------------
\* A poll is told 410 only of a request whose time has passed, whose grant
\* another poll was given, which the application ended so, or which a restart
\* lost: poll_pending removes nothing else, however polls, the user's answer
\* and the expiry interleave (service.rs:141, traits.rs poll_auth_pending).
GoneExplained ==
  \A h \in Handler :
    task[h] # Idle /\ task[h].response.status = 410 =>
      life[task[h].id] < 0 \/ task[h].id \in over

\* A grant leaves the store before its time only into the hands of a poll:
\* what poll_pending loaded and what it removes are not the same record state
\* (service.rs poll_pending loads, then removes).
GrantKept ==
  [][\A i \in Id :
       store[i] # NoRecord /\ store[i].snapshot.state = "token" /\ store'[i] = NoRecord
       => \/ Expired(store[i])
          \/ Restart
          \/ \E h \in Handler :
               task[h].at = "remove" /\ task[h].id = i /\ task[h].response.access # None
    ]_resourceVars

=============================================================================
