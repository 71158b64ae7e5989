--------------------------- MODULE ResourceManaged ---------------------------
(***************************************************************************)
(* The agent's calls of a resource that manages its own authorization      *)
(* (crate aauth-axum, examples/resource_managed.rs, is such a pair): the   *)
(* middleware and its cache of AgentClient, with the polling loops of      *)
(* DeferredPoll, against the service, routes and layer of ResourceConsent. *)
(*                                                                         *)
(* A poll may be answered 503 by a gateway, be delivered a second time, or *)
(* lose its connection; what has reached the resource goes on there.       *)
(***************************************************************************)
EXTENDS ResourceConsent

CONSTANTS
  Call,              \* slots for the application's calls
  MaxPoll,           \* the options of the polling loop: see DeferredPoll
  DefaultPoll,
  PendingCap,
  BusyCap,
  HasClarification

ASSUME PollAssumption ==
  /\ MaxPoll \in Nat \cup {None}
  /\ DefaultPoll \in Nat /\ PendingCap \in Nat /\ BusyCap \in Nat
  /\ HasClarification \in BOOLEAN
  /\ None \notin Nat

VARIABLES
  \* AgentClient.  There are no auth tokens here, and none grows old.
  ages, auth, opaque, tried, call, posts, rejected, denied,
  loop,      \* DeferredPoll
  prompted,  \* the pending requests whose user on_interaction was called for
  deferral,  \* Call -> Location and requirement of the last 202 to its requests
  via        \* Call -> the handler its poll is with, None if it has none

Client == INSTANCE AgentClient WITH Seeded <- FALSE, MaxAges <- 0
Poll == INSTANCE DeferredPoll WITH Url <- Id

clientVars == <<ages, auth, opaque, tried, call, posts, rejected, denied>>
vars == <<resourceVars, clientVars, loop, prompted, deferral, via>>

TypeOK ==
  /\ ResourceTypeOK
  /\ Client!TypeOK
  /\ Poll!LoopTypeOK
  /\ prompted \in SUBSET Id
  /\ deferral \in [Call -> [location : Id, requirement : Requirement] \cup {None}]
  /\ via \in [Call -> Handler \cup {None}]

Init ==
  /\ ResourceInit
  /\ Client!Init
  /\ Poll!LoopInit
  /\ prompted = {}
  /\ deferral = [c \in Call |-> None]
  /\ via = [c \in Call |-> None]

-----------------------------------------------------------------------------
(* A request of the agent at the resource: at the layer, or at the         *)
(* authorization endpoint, which asks the same service.                    *)

Asks(c) ==
  /\ call[c].at = "sent"
  /\ call[c].for \in {"authorize", "request"}

\* Without an opaque token the agent's signature alone is presented.
AsksConsent(c) == Asks(c) /\ call[c].attempt = Client!Agent

\* No call polls it, or is about to.
Forgotten(i) ==
  \A c \in Call :
    /\ loop[c] # Poll!Off => loop[c].url # i
    /\ deferral[c] # None => deferral[c].location # i

\* The lowest id, as it makes no difference which.
Drawn(i) ==
  /\ Unknown(i) /\ Forgotten(i)
  /\ \A j \in 1..(i - 1) : ~(Unknown(j) /\ Forgotten(j))

Deferred(c, i) ==
  /\ AsksConsent(c)
  /\ Drawn(i)
  /\ ConsentDefer(i)
  /\ Client!Reply(c, "accepted", None, FALSE)
  /\ deferral' = [deferral EXCEPT ![c] =
       [location |-> i, requirement |-> store'[i].requirement]]
  /\ prompted' = prompted \ {i}
  /\ UNCHANGED <<loop, via>>

\* The policy grants or denies, or the store fails.
Answered(c) ==
  /\ AsksConsent(c)
  /\ \/ "grant" \in Decisions /\ Client!Reply(c, "ok", epoch, FALSE)
     \/ Client!Reply(c, "refused", None, FALSE)
  /\ UNCHANGED <<resourceVars, loop, prompted, deferral, via>>

\* The layer validates an opaque token before anything else.
Validated(c) ==
  /\ Asks(c)
  /\ call[c].attempt.kind = "opaque"
  /\ Client!Reply(c, IF ValidateOpaque(call[c].attempt.epoch) THEN "ok" ELSE "unauthorized",
                  None, FALSE)
  /\ UNCHANGED <<resourceVars, loop, prompted, deferral, via>>

-----------------------------------------------------------------------------
(* The client's own steps. *)

Begin(c) == Client!SeedOpaque(c) /\ UNCHANGED <<resourceVars, loop, prompted, deferral, via>>

\* What does not concern a pending url.
Step(c) ==
  /\ \/ Client!BeginAuthorizeAttempt(c)
     \/ Client!TryProactiveAuthorize(c)
     \/ Client!NextAttempt(c)
     \/ Client!AuthorizePolled(c)
     \/ Client!RequestPolled(c)
  /\ UNCHANGED <<resourceVars, loop, prompted, deferral, via>>

\* A deferral is polled from here on.
ReadAnswer(c) ==
  /\ Client!AuthorizeAnswered(c) \/ Client!RequestAnswered(c)
  /\ IF call[c].answer.status = "accepted"
     THEN LET i == deferral[c].location IN
          /\ Poll!Start(c, i)
          /\ prompted' = IF deferral[c].requirement = "interaction"
                         THEN prompted \cup {i} ELSE prompted
     ELSE UNCHANGED <<loop, prompted>>
  /\ deferral' = [deferral EXCEPT ![c] = None]
  /\ UNCHANGED <<resourceVars, via>>

-----------------------------------------------------------------------------
(* The polling loop of a call. *)

SendPoll(c, h) ==
  /\ Poll!SendPoll(c)
  /\ PollPending(h, loop[c].url)
  /\ via' = [via EXCEPT ![c] = h]
  /\ UNCHANGED <<clientVars, prompted, deferral>>

\* The network delivers the poll again.  The answer goes nowhere, so one that
\* removes nothing leaves no trace.
Duplicate(c, h) ==
  /\ loop[c].at = "polling"
  /\ PollPending(h, loop[c].url)
  /\ task'[h].at = "remove"
  /\ UNCHANGED <<clientVars, loop, prompted, deferral, via>>

\* The headers of a 202: Retry-After is always 0.
Reading(response) ==
  Poll!Reading(response.status, IF response.status = 202 THEN 0 ELSE None,
               response.requirement)

\* What the middleware sees of the loop's last response.
LastStatus(response) == IF response.status = 200 THEN "ok" ELSE "refused"

HearPoll(c) ==
  /\ loop[c].at = "polling"
  /\ via[c] # None
  /\ task[via[c]].at = "respond"
  /\ LET response == task[via[c]].response
         reading == Reading(response) IN
       /\ Poll!Hear(c, reading)
       /\ IF Poll!Ends(reading)
          THEN Client!Reply(c, LastStatus(response), response.access, FALSE)
          ELSE UNCHANGED clientVars
       /\ prompted' = IF Poll!Prompts(reading)
                      THEN prompted \cup {loop[c].url} ELSE prompted
  /\ Release(via[c])
  /\ via' = [via EXCEPT ![c] = None]
  /\ UNCHANGED deferral

\* A gateway answers 503 for the resource.
HearBusy(c) ==
  /\ loop[c].at = "polling"
  /\ Poll!Hear(c, Poll!Reading(503, None, None))
  /\ via' = [via EXCEPT ![c] = None]
  /\ UNCHANGED <<resourceVars, clientVars, prompted, deferral>>

\* The pending url takes no POST: 405, which the loop does not look at.
HearAnswer(c) ==
  /\ Poll!HearAnswer(c)
  /\ UNCHANGED <<resourceVars, clientVars, prompted, deferral, via>>

Wake(c) == Poll!Wake(c) /\ UNCHANGED <<resourceVars, clientVars, prompted, deferral, via>>

EndWithError(c) ==
  /\ Poll!Abandon(c)
  /\ Client!Fail(c)
  /\ via' = [via EXCEPT ![c] = None]
  /\ UNCHANGED <<resourceVars, prompted, deferral>>

TimeOut(c) == Poll!TimedOut(c) /\ EndWithError(c)

\* The connection fails.
Lose(c) == Poll!Awaits(c) /\ EndWithError(c)

\* It has failed: the resource is not the one it was opened to.
Broken(c) == loop[c].at = "polling" /\ via[c] = None /\ EndWithError(c)

LoseRequest(c) ==
  /\ Asks(c)
  /\ Client!Fail(c)
  /\ UNCHANGED <<resourceVars, loop, prompted, deferral, via>>

-----------------------------------------------------------------------------
(* The resource and the world. *)

FinishPoll(h) == RemovePending(h) /\ UNCHANGED <<clientVars, loop, prompted, deferral, via>>

\* The response to nobody.
Drop(h) ==
  /\ \A c \in Call : via[c] # h
  /\ Release(h)
  /\ UNCHANGED <<clientVars, loop, prompted, deferral, via>>

\* The user comes to the interaction url.
Interact(i) ==
  /\ i \in prompted
  /\ Approve(i) \/ Reject(i)
  /\ UNCHANGED <<clientVars, loop, prompted, deferral, via>>

Crash ==
  /\ Restart
  /\ via' = [c \in Call |-> None]
  /\ UNCHANGED <<clientVars, loop, prompted, deferral>>

Tick ==
  /\ ResourceTick
  /\ Poll!LoopTick
  /\ UNCHANGED <<clientVars, prompted, deferral, via>>

Serve(c) == Answered(c) \/ Validated(c) \/ \E i \in Id : Deferred(c, i)

CallStep(c) ==
  \/ Begin(c)
  \/ Step(c)
  \/ ReadAnswer(c)
  \/ Serve(c)
  \/ LoseRequest(c)

LoopStep(c) ==
  \/ \E h \in Handler : SendPoll(c, h) \/ Duplicate(c, h)
  \/ HearPoll(c)
  \/ HearBusy(c)
  \/ HearAnswer(c)
  \/ Wake(c)
  \/ TimeOut(c)
  \/ Lose(c)
  \/ Broken(c)

Next ==
  \/ Crash
  \/ Tick
  \/ \E h \in Handler : FinishPoll(h) \/ Drop(h)
  \/ \E i \in Id : Interact(i)
  \/ \E c \in Call : CallStep(c) \/ LoopStep(c)

Spec == Init /\ [][Next]_vars

-----------------------------------------------------------------------------
(* The inductive strengthening of ClientSpec, beside EpochInv: a loop      *)
(* belongs to a call whose poll is in flight, and a call that has yet to   *)
(* read a 202 knows its Location.                                          *)

PollingInv ==
  \A c \in Call :
    /\ loop[c] # Poll!Off => call[c].at = "sent" /\ Client!Polling(c)
    /\ call[c].at = "answered" /\ call[c].answer.status = "accepted" =>
         deferral[c].location \in Id

-----------------------------------------------------------------------------
\* A resource of this kind is one of the environments AgentClient allows for:
\* whatever polls, restarts and lost answers do, an opaque token that reaches
\* the cache is one the resource accepts at that moment, and only such a token
\* is let in (layer.rs, validate_opaque; middleware/agent.rs).  What is proved
\* of AgentClient holds of it.
ClientSpec == Client!Spec

-----------------------------------------------------------------------------
(* Liveness.  The runtime runs the future of each call and the handlers of  *)
(* the resource, the clock goes on, and a connection to a process that is   *)
(* gone is noticed.  The network need not be reliable: a poll may be        *)
(* answered 503 for ever.                                                   *)

\* What the future of a call does next, when it waits for nobody.
Future(c) ==
  \/ Step(c)
  \/ ReadAnswer(c)
  \/ HearPoll(c)
  \/ HearAnswer(c)
  \/ Wake(c)
  \/ TimeOut(c)
  \/ Broken(c)

Fairness ==
  /\ WF_vars(Tick)
  /\ \A h \in Handler : WF_vars(FinishPoll(h))
  /\ \A c \in Call : WF_vars(Future(c)) /\ WF_vars(Serve(c))

LiveSpec == Spec /\ Fairness

\* A call ends, unless the resource defers it again and again: with a user who
\* never answers, a resource that restarts and forgets the request, and a gateway
\* that is always busy, as the deadline of a polling loop is never moved
\* (deferred.rs poll_deferred_with).  The exception is real.  A poll's 403 or 410
\* has the request sent again, and deferred anew (middleware/agent.rs
\* handle_inner), so a user who refuses each time keeps a call going for ever,
\* and so does one who never answers, where a record lives shorter than the loop
\* polls.
DeferredAgain(c) == call[c].at = "answered" /\ call[c].answer.status = "accepted"

CallEnds == \A c \in Call : []<>(call[c].at = "idle") \/ []<>DeferredAgain(c)

=============================================================================
