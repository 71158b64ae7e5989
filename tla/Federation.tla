----------------------------- MODULE Federation -----------------------------
(***************************************************************************)
(* A Person Server's calls of an Access Server: the HTTP client (crate     *)
(* aauth-reqwest, access_client.rs) and the two places that use it         *)
(* (aauth, person_server/federation.rs, and aauth-policy,                  *)
(* person/federation_pending.rs), against the Access Server of             *)
(* AccessPending, response by response.                                    *)
(*                                                                         *)
(* A Client is a request at the Person Server that is awaiting the Access  *)
(* Server.  Several may be about the same pending url: every post of the   *)
(* agent's input starts another.  Any connection may be lost at any time,  *)
(* before or after the Access Server has acted, and what acts on goes on.  *)
(***************************************************************************)
EXTENDS AccessPending

CONSTANT Client  \* requests at the Person Server

VARIABLES
  client,  \* Client -> where its call of the Access Server is
  known    \* the Access Server's pending urls that the Person Server holds

clientVars == <<client, known>>
vars == <<accessVars, clientVars>>

-----------------------------------------------------------------------------
(* Types *)

Ready == [at |-> "ready"]
Exchanging == [at : {"exchange"}, via : Handler]
Asking == [at : {"post", "poll"}, via : Handler, id : Id]
Pausing == [at : {"pause"}, id : Id]
Told ==
  [at : {"told"}, outcome : {"token", "deferred", "denied", "gone", "failed"},
   id : Id \cup {None}]

ClientState == {Ready} \cup Exchanging \cup Asking \cup Pausing \cup Told

TypeOK ==
  /\ AccessTypeOK
  /\ client \in [Client -> ClientState]
  /\ known \in SUBSET Id

Init ==
  /\ AccessInit
  /\ client = [c \in Client |-> Ready]
  /\ known = {}

-----------------------------------------------------------------------------
(* What the client makes of a response. *)

\* parse_deferred_response: without a Location header, an error.
ParseDeferred(response) ==
  IF response.location = None THEN "failed" ELSE "deferred"

ExchangeOutcome(response) ==
  CASE response.status = 200 -> "token"
    [] response.status = 202 -> ParseDeferred(response)
    [] OTHER -> "failed"

\* Every refusal is a denial.
FaultyPollOutcome(response) ==
  CASE response.status = 200 -> "token"
    [] response.status = 202 -> ParseDeferred(response)
    [] OTHER -> "denied"

PollPendingOutcome(response) ==
  CASE response.status = 200 -> "token"
    [] response.status = 202 -> ParseDeferred(response)
    [] response.status = 403 -> "denied"
    [] response.status = 410 -> "gone"
    [] OTHER -> "failed"

\* resume_pending returns these to its caller as None: the poll will tell.
PollAfterPost == {202, 403, 410}

Tell(c, outcome, i) ==
  client' = [client EXCEPT ![c] = [at |-> "told", outcome |-> outcome, id |-> i]]

\* Whatever the response was, its location is kept.
FaultyKeep(outcome, response) == known' = known \cup {response.location}

\* The url of a new deferral is kept with the pending record.
Keep(outcome, response) ==
  known' = IF outcome = "deferred" THEN known \cup {response.location} ELSE known

-----------------------------------------------------------------------------
(* A request reaches the Access Server. *)

ClientExchange(c, h) ==
  /\ client[c] = Ready
  /\ ExchangeToken(h)
  /\ client' = [client EXCEPT ![c] = [at |-> "exchange", via |-> h]]
  /\ UNCHANGED known

\* The agent posted input to a federated record: it is posted on.
ClientPost(c, h, i) ==
  /\ client[c] = Ready
  /\ i \in known
  /\ ResumePending(h, i) \/ FindExpired(h, i, FALSE)
  /\ client' = [client EXCEPT ![c] = [at |-> "post", via |-> h, id |-> i]]
  /\ UNCHANGED known

ClientPoll(c, h) ==
  /\ client[c].at = "pause"
  /\ LET i == client[c].id IN
       /\ PollPending(h, i) \/ FindExpired(h, i, TRUE)
       /\ client' = [client EXCEPT ![c] = [at |-> "poll", via |-> h, id |-> i]]
  /\ UNCHANGED known

-----------------------------------------------------------------------------
(* A response arrives. *)

Responds(c, stage) ==
  /\ client[c].at = stage
  /\ task[client[c].via].at = "respond"
  /\ Release(client[c].via)

ResponseTo(c) == task[client[c].via].response

HearExchange(c) ==
  /\ Responds(c, "exchange")
  /\ LET r == ResponseTo(c)
         outcome == ExchangeOutcome(r) IN
       Tell(c, outcome, r.location) /\ Keep(outcome, r)

HearPost(c) ==
  /\ Responds(c, "post")
  /\ LET status == ResponseTo(c).status
         i == client[c].id IN
       IF status \in PollAfterPost
       THEN client' = [client EXCEPT ![c] = [at |-> "pause", id |-> i]]
       ELSE Tell(c, IF status = 200 THEN "token" ELSE "failed", i)
  /\ UNCHANGED known

HearPoll(c) ==
  /\ Responds(c, "poll")
  /\ LET r == ResponseTo(c)
         outcome == PollPendingOutcome(r) IN
       Tell(c, outcome, client[c].id) /\ Keep(outcome, r)

-----------------------------------------------------------------------------
(* No response arrives. *)

Awaiting == {"exchange", "post", "poll"}

\* A gateway answers 503 for the Access Server: the loop waits and goes on.
HearBusy(c) ==
  /\ client[c].at = "poll"
  /\ client' = [client EXCEPT ![c] = [at |-> "pause", id |-> @.id]]
  /\ UNCHANGED <<accessVars, known>>

\* The connection fails (DeferredError::Transport), or a gateway answers an
\* error of its own.
Lose(c) ==
  /\ client[c].at \in Awaiting
  /\ Tell(c, "failed", None)
  /\ UNCHANGED <<accessVars, known>>

\* The deadline is looked at only when a response has been read.
FaultyTimeOut(c) ==
  /\ client[c].at = "poll"
  /\ task[client[c].via].at = "respond"
  /\ Tell(c, "failed", client[c].id)
  /\ UNCHANGED <<accessVars, known>>

\* The deadline of the loop has passed; it is looked at before every poll.
TimeOut(c) ==
  /\ client[c].at = "pause"
  /\ Tell(c, "failed", client[c].id)
  /\ UNCHANGED <<accessVars, known>>

\* The Person Server's request ends.
Return(c) ==
  /\ client[c].at = "told"
  /\ client' = [client EXCEPT ![c] = Ready]
  /\ UNCHANGED <<accessVars, known>>

-----------------------------------------------------------------------------
Listening(c, h) == client[c].at \in Awaiting /\ client[c].via = h

\* Nobody listens any more: the response goes nowhere, or the handler is
\* dropped before it comes to one.
Drop(h) ==
  /\ \A c \in Client : ~Listening(c, h)
  /\ Release(h)
  /\ UNCHANGED clientVars

Serve(h) == Proceed(h) /\ UNCHANGED clientVars
Time == Tick /\ UNCHANGED clientVars

Send(c, h) ==
  \/ ClientExchange(c, h)
  \/ \E i \in Id : ClientPost(c, h, i)
  \/ ClientPoll(c, h)

Hear(c) == HearExchange(c) \/ HearPost(c) \/ HearPoll(c)

Next ==
  \/ Time
  \/ \E h \in Handler : Serve(h) \/ Drop(h)
  \/ \E c \in Client, h \in Handler : Send(c, h)
  \/ \E c \in Client : Hear(c) \/ HearBusy(c) \/ Lose(c) \/ TimeOut(c) \/ Return(c)

Spec == Init /\ [][Next]_vars

-----------------------------------------------------------------------------
(* The inductive strengthening of HeardIsDecided: a client listens to a    *)
(* handler of its own, which is at work on the client's pending url or has *)
(* an answer that is true of it; and what the client was told is true.     *)

TrueOf(i, response) ==
  /\ response.status = 200 => \E t \in Token : AuthToken(t) \in decided[i]
  /\ response.status = 403 => Error(403) \in decided[i]
  /\ response.status = 410 => now > deadline[i] \/ Error(410) \in decided[i]

ExchangeServed(t) ==
  \/ t.at = "evaluate"
  \/ t.at = "respond" /\ (t.response.status = 200 => t.response.location = None)

PostServed(t, i) ==
  \/ t.at \in Opened /\ t.id = i
  \/ /\ t.at = "respond"
     /\ t.response.status = 200 => \E k \in Token : AuthToken(k) \in decided[i]

PollServed(t, i) ==
  \/ t.at = "remove" /\ t.id = i
  \/ t.at = "respond" /\ TrueOf(i, t.response)

\* A client in the state s whose handler's task is t.
Good(s, t) ==
  /\ s.at = "exchange" => ExchangeServed(t)
  /\ s.at = "post" => PostServed(t, s.id)
  /\ s.at = "poll" => PollServed(t, s.id)
  /\ s.at \in {"post", "poll", "pause"} => deadline[s.id] # None
  /\ s.at = "told" /\ s.id # None =>
       /\ s.outcome = "token" => \E k \in Token : AuthToken(k) \in decided[s.id]
       /\ s.outcome = "denied" => Error(403) \in decided[s.id]
       /\ s.outcome = "gone" =>
            /\ deadline[s.id] # None
            /\ now > deadline[s.id] \/ Error(410) \in decided[s.id]

OwnHandler ==
  \A c, d \in Client :
    client[c].at \in Awaiting /\ client[d].at \in Awaiting
      /\ client[c].via = client[d].via => c = d

HeardInv ==
  OwnHandler /\ \A c \in Client : Good(client[c], task[client[c].via])

-----------------------------------------------------------------------------
\* What the Person Server is told of a pending url is what the Access Server
\* decided on it, or that its deadline has passed: statuses (polling_status
\* and 403 in respond.rs) and their reading (access_client.rs poll_pending)
\* fit together, whichever request's decision a poll happens to see.
HeardIsDecided ==
  \A c \in Client : client[c].at = "told" /\ client[c].id # None =>
    LET i == client[c].id
        outcome == client[c].outcome IN
    /\ outcome = "token" => \E t \in Token : AuthToken(t) \in decided[i]
    /\ outcome = "denied" => Error(403) \in decided[i]
    /\ outcome = "gone" => now > deadline[i] \/ Error(410) \in decided[i]

\* access_client.rs:36: a poll comes to "a terminal/re-defer outcome".  A
\* poll that reads 202 tells its caller of the deferral.
RedeferralHeard ==
  [][\A c \in Client :
       HearPoll(c) /\ ResponseTo(c).status = 202
         => client'[c].outcome = "deferred"]_vars

-----------------------------------------------------------------------------
(* Liveness.  Handlers are futures the runtime keeps polling, and a policy *)
(* answers.  A response that is there arrives, unless the connection is    *)
(* lost.  The loop's deadline is a moment of the clock: once past, the     *)
(* loop finds it so at every look, hence strong fairness of TimeOut.       *)

Fairness ==
  /\ \A h \in Handler : WF_vars(Serve(h))
  /\ \A c \in Client : WF_vars(Hear(c)) /\ SF_vars(TimeOut(c))

LiveSpec == Spec /\ Fairness

\* A call of the Access Server comes to an outcome, whatever the gateway, the
\* policy and the other requests on the same url do: no handler waits for a
\* record another one removed, and no poll loop outlives its deadline.
CallReturns ==
  \A c \in Client : client[c].at \in Awaiting \cup {"pause"} ~> client[c].at = "told"

=============================================================================
