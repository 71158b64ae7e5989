------------------------------ MODULE TokenFlow ------------------------------
(***************************************************************************)
(* How an agent comes to an auth token and uses it (crates aauth-reqwest,  *)
(* middleware/agent.rs and token_exchange.rs; aauth-axum, resource/layer.rs *)
(* and the routes of both servers): the resource's challenge, the exchange *)
(* at the Person Server, federation, deferral, the cache, and every check  *)
(* of Tokens on the way, under each of the ways the examples wire the four *)
(* parties together.                                                       *)
(*                                                                         *)
(* One call of the application at a time; AgentClient has several.  Each   *)
(* request is a single step of the server that handles it: what happens    *)
(* when requests interleave there is in PersonPending, AccessPending and   *)
(* Federation.  Between two steps time may go by and the agent's key may   *)
(* be rotated by its provider.                                             *)
(***************************************************************************)
EXTENDS Tokens

CONSTANTS
  Caller,       \* the call
  Margin,       \* find_cached_token drops a token that has no more than this left
  DefaultPoll,  \* DEFAULT_MAX_POLL_DURATION, of the polling loop
  PendingCap, BusyCap,  \* caps of its backoff
  TTL,          \* pending_ttl_secs of both servers
  MaxSlack      \* bound: so long may a call's messages be on their way

\* A token the agent has just been given outlives the way to the resource.
ASSUME FlowAssumption ==
  /\ Margin \in Nat /\ DefaultPoll \in Nat /\ PendingCap \in Nat /\ BusyCap \in Nat
  /\ TTL \in Nat /\ MaxSlack \in Nat
  /\ Margin < AuthLife

VARIABLES
  wiring,      \* how the four parties are set up
  key,         \* the key the agent's provider hands out
  call,        \* what the call does next
  cached,      \* the agent's token for the resource, and what is left of it
  loop,        \* DeferredPoll: the call's polling loop
  person,      \* the call's pending record at the Person Server
  access,      \* and the key of the agent in the one at the Access Server
  slack,       \* how much longer the call's messages may be on their way
  \* History, read by the properties only:
  held,        \* how long the last minted token was on its way to the cache
  flight,      \* how long the last request has been on its way
  failed,      \* the checks of the last verification that failed
  mismatched   \* how often a check failed for the agent's key, up to MaxKey + 1

history == <<held, flight, failed, mismatched>>
servers == <<person, access>>
vars == <<wiring, key, call, cached, loop, person, access, slack, history>>

Policy == INSTANCE Policies

\* None is none of the values of an option.
ASSUME OptionAssumption ==
  /\ None \notin Policy!PendingInput
  /\ None \notin [token : AuthClaims, left : 0..AuthLife]

Poll == INSTANCE DeferredPoll WITH
  Call <- {Caller}, Url <- {"pending"}, MaxPoll <- None, HasClarification <- TRUE

-----------------------------------------------------------------------------
(* Types *)

Wiring ==
  [mode : {"identity", "optional", "asserted", "federated"},
   person : Policy!PersonTokenPolicy, access : Policy!AccessTokenPolicy, claim : BOOLEAN]

\* A response of a token endpoint, and the snapshot of a pending record: an
\* auth token, a requirement, or a refusal.
Answer ==
  [status : {200}, token : AuthClaims, requirement : {None}]
  \cup [status : {202}, token : {None}, requirement : Policy!Requirement]
  \cup [status : {401, 403, 410, 500, 502}, token : {None}, requirement : {None}]

Idle == [at |-> "idle"]
Attempt == [at |-> "attempt"]
Call ==
  {Idle, Attempt}
  \cup [at : {"sent"}, token : AuthClaims \cup {None}, signed : Key]
  \cup [at : {"challenged"}, token : ResourceClaims]
  \cup [at : {"verified", "polling"}, token : ResourceClaims, jkt : Key]
  \cup [at : {"exchange"}, token : ResourceClaims, jkt : Key, signed : Key]
  \cup [at : {"exchanged"}, token : ResourceClaims, jkt : Key, answer : Answer]

PersonRecord ==
  [expires_at : -1..TTL, agent : Key, own : BOOLEAN, federated : BOOLEAN,
   snapshot : Answer]

TypeOK ==
  /\ wiring \in Wiring
  /\ key \in Key
  /\ call \in Call
  /\ cached \in [token : AuthClaims, left : 0..AuthLife] \cup {None}
  /\ Poll!LoopTypeOK
  /\ person \in PersonRecord \cup {None}
  /\ access \in Key \cup {None}
  /\ slack \in 0..MaxSlack
  /\ held \in Nat /\ flight \in Nat
  /\ failed \in SUBSET Check
  /\ mismatched \in 0..(MaxKey + 1)

\* The examples, and the policies each server can be given.
Wired(w) ==
  /\ w.mode \in {"identity", "optional"} => w.person = "always" /\ w.claim
  /\ w.mode = "federated" => w.claim
  /\ w.mode # "federated" => w.access = "always"

Init ==
  /\ wiring \in {w \in Wiring : Wired(w)}
  /\ key = 0
  /\ call = Idle
  /\ cached = None
  /\ Poll!LoopInit
  /\ person = None /\ access = None
  /\ slack = MaxSlack
  /\ held = 0 /\ flight = 0 /\ failed = {} /\ mismatched = 0

-----------------------------------------------------------------------------
\* Without a ps claim in its token the agent has its Person Server configured.
\* The provider keeps the token fresh: it does not expire on the way.
AgentTokenFor(k) == AgentToken(k, IF wiring.claim THEN "person" ELSE None)

\* A request signed with the key k presents an auth token or the agent's own.
Presented(token, k) == IF token = None THEN AgentTokenFor(k) ELSE token

KeyChecks == {"KeyBindingFailed", "AgentJktMismatch"}

\* A verification came to these failing checks.
Note(checks) ==
  /\ failed' = checks
  /\ mismatched' = IF checks \cap KeyChecks # {} /\ mismatched <= MaxKey
                   THEN mismatched + 1 ELSE mismatched

-----------------------------------------------------------------------------
(* The application calls, and the middleware chooses what to present.      *)

Begin ==
  /\ call = Idle
  /\ call' = Attempt
  /\ slack' = MaxSlack
  /\ failed' = {}
  /\ UNCHANGED <<wiring, key, cached, loop, servers, held, flight, mismatched>>

FaultyFindCachedToken == cached # None

FindCachedToken == cached # None /\ cached.left > Margin

\* The request is signed with the key of the moment, whatever the token says.
NextAttempt ==
  /\ call = Attempt
  /\ call' = [at |-> "sent", token |-> IF FindCachedToken THEN cached.token ELSE None,
              signed |-> key]
  /\ cached' = IF FindCachedToken THEN cached ELSE None
  /\ flight' = 0 /\ failed' = {}
  /\ UNCHANGED <<wiring, key, loop, servers, slack, held, mismatched>>

-----------------------------------------------------------------------------
(* The resource's layer. *)

Ok == [status |-> 200, challenge |-> None]
Unauthorized == [status |-> 401, challenge |-> None]

LayerChecks(token, thumbprint) ==
  VerifyToken(token, thumbprint)
    \cup (IF token.typ = "auth" THEN VerifyAuthTokenBinding(token, "resource") ELSE {})

Audience(token) ==
  ResolveResourceTokenAudience(
    token, IF wiring.mode = "federated" THEN "access" ELSE None, "person")

\* Once the checks have passed.
LayerDecides(token, thumbprint) ==
  IF wiring.mode = "identity" THEN (IF token.typ = "agent" THEN Ok ELSE Unauthorized)
  ELSE IF wiring.mode = "optional" \/ token.typ = "auth" THEN Ok
  ELSE [Unauthorized EXCEPT
          !.challenge = SignResourceToken(Audience(token), token.agent, thumbprint)]

(* observe_response, of a request that presented the auth token, if any. *)

\* The rejected token stays where it is.
FaultyCachedAfter(token, response) == cached

CachedAfter(token, response) ==
  IF response.status = 401 /\ token # None THEN None ELSE cached

ObserveResponse(token, response) ==
  IF response.status # 401 THEN Idle
  ELSE IF token # None THEN Attempt
  ELSE IF response.challenge # None
  THEN [at |-> "challenged", token |-> response.challenge]
  ELSE Idle

ResourceAnswers ==
  /\ call.at = "sent"
  /\ LET token == Presented(call.token, call.signed)
         checks == LayerChecks(token, call.signed)
         response == IF checks # {} THEN Unauthorized ELSE LayerDecides(token, call.signed)
     IN /\ Note(checks)
        /\ cached' = CachedAfter(call.token, response)
        /\ call' = ObserveResponse(call.token, response)
  /\ UNCHANGED <<wiring, key, loop, servers, slack, held, flight>>

-----------------------------------------------------------------------------
(* The exchange, at the agent. *)

\* The challenge is checked against the key of the moment, and the Person
\* Server resolved.
VerifyChallenge ==
  /\ call.at = "challenged"
  /\ LET checks == VerifyResourceChallenge(call.token, "resource", Agent, key)
         server == ResolvePersonServerUrl(IF wiring.claim THEN None ELSE "person",
                                          AgentTokenFor(key))
     IN /\ Note(checks)
        /\ call' = IF checks # {} \/ server = None THEN Idle
                   ELSE [at |-> "verified", token |-> call.token, jkt |-> key]
  /\ UNCHANGED <<wiring, key, cached, loop, servers, slack, held, flight>>

\* The server's metadata has been fetched; the post is signed.
SendExchange ==
  /\ call.at = "verified"
  /\ call' = [at |-> "exchange", token |-> call.token, jkt |-> call.jkt, signed |-> key]
  /\ UNCHANGED <<wiring, key, cached, loop, servers, slack, history>>

\* A token has arrived: it is cached if it passes.
Receive(token) ==
  LET checks == VerifyClientAuthToken(token, "resource", call.token.aud, Agent, call.jkt) IN
  /\ Note(checks)
  /\ IF checks # {} THEN call' = Idle /\ cached' = cached
     ELSE call' = Attempt /\ cached' = [token |-> token, left |-> AuthLife]

HearExchange ==
  /\ call.at = "exchanged"
  /\ IF call.answer.status = 200
     THEN Receive(call.answer.token) /\ UNCHANGED loop
     ELSE /\ IF call.answer.status = 202
             THEN /\ call' = [at |-> "polling", token |-> call.token, jkt |-> call.jkt]
                  /\ Poll!Start(Caller, "pending")
             ELSE call' = Idle /\ UNCHANGED loop
          /\ UNCHANGED <<cached, failed, mismatched>>
  /\ UNCHANGED <<wiring, key, servers, slack, held, flight>>

-----------------------------------------------------------------------------
(* What the servers decide. *)

Granted(token) == [status |-> 200, token |-> token, requirement |-> None]
DeferredFor(requirement) ==
  [status |-> 202, token |-> None, requirement |-> requirement]
Refused(status) == [status |-> status, token |-> None, requirement |-> None]

\* The Access Server's token, once the Person Server has verified it, or how
\* else the Access Server's decision is taken; what it is when refused.
Federated(decision, agent, refusal) ==
  IF decision \in Policy!Requirement THEN DeferredFor(decision)
  ELSE IF decision # "grant" THEN Refused(refusal)
  ELSE LET token == MintAccessAuth(agent) IN
       IF VerifyFederatedAuthToken(token, "access", "resource", agent) = {}
       THEN Granted(token) ELSE Refused(401)

\* federate_to_access_server: what goes wrong there is unauthorized.
FederateToAccessServer(agent, resource_token) ==
  IF FromExchange(agent, resource_token) # {} THEN Refused(401)
  ELSE Federated(Policy!AccessDecides(wiring.access, None), agent, 401)

\* apply_person_decision and apply_person_pending_decision.
ApplyPersonDecision(decision, agent, resource_token) ==
  CASE decision = "grant" -> Granted(MintPersonAuth(agent))
    [] decision = "federate" -> FederateToAccessServer(agent, resource_token)
    [] decision = "deny" -> Refused(403)
    [] decision = "error" -> Refused(500)
    [] OTHER -> DeferredFor(decision)

\* A new token is on its way.
Minted(answer) == IF answer.status = 200 THEN held' = 0 ELSE UNCHANGED held

\* The record the Access Server has when federation was deferred.
AccessAfter(decision, answer, k) ==
  IF decision = "federate" /\ answer.status = 202
  THEN k ELSE access

-----------------------------------------------------------------------------
(* The Person Server's token endpoint. *)

PersonAnswers ==
  /\ call.at = "exchange"
  /\ LET k == call.signed
         own == call.token.aud = "person"
         checks == VerifyTokenRequest(AgentTokenFor(k), k, call.token)
         decision == IF checks # {} THEN "error"
                     ELSE Policy!PersonDecides(wiring.person, None, own)
         answer == IF checks # {} THEN Refused(401)
                   ELSE ApplyPersonDecision(decision, AgentTokenFor(k), call.token)
     IN /\ Note(checks)
        /\ Minted(answer)
        /\ call' = [at |-> "exchanged", token |-> call.token, jkt |-> call.jkt,
                    answer |-> answer]
        /\ person' = IF answer.status = 202
                     THEN [expires_at |-> TTL, agent |-> k, own |-> own,
                           federated |-> decision = "federate", snapshot |-> answer]
                     ELSE person
        /\ access' = AccessAfter(decision, answer, k)
  /\ UNCHANGED <<wiring, key, cached, loop, slack, flight>>

-----------------------------------------------------------------------------
(* Its pending url.  A record is looked at only while the call polls it.   *)

Pending == call.at = "polling" /\ person # None
Live == Pending /\ person.expires_at >= 0

\* A token or an error is stored, a deferral replaces the requirement;
\* unauthorized and a failed call leave the record as it is.
PersonAfter(answer, federated) ==
  IF answer.status \in {200, 202, 403}
  THEN [person EXCEPT !.snapshot = answer, !.federated = federated]
  ELSE person

Decide(decision) ==
  LET answer == ApplyPersonDecision(decision, AgentTokenFor(person.agent), call.token) IN
  /\ Minted(answer)
  /\ person' = PersonAfter(answer, decision = "federate" /\ answer.status = 202)
  /\ access' = AccessAfter(decision, answer, person.agent)

\* handle_federated_pending_post: the input is posted on.
PostOn(input) ==
  LET agent == AgentTokenFor(access)
      answer == Federated(Policy!AccessDecides(wiring.access, input), agent, 502) IN
  /\ Minted(answer)
  /\ person' = PersonAfter(answer, TRUE)
  /\ UNCHANGED access

\* resume_pending
Resume(input) ==
  IF ~Live THEN person' = None /\ UNCHANGED <<access, held>>
  ELSE IF person.federated THEN PostOn(input)
  ELSE Decide(Policy!PersonDecides(wiring.person, input, person.own))

\* Somebody posts to it: the application, or the page the user was sent to.
PostPending(body) ==
  /\ Live
  /\ Resume(Policy!ParsePendingPostBody(body))
  /\ UNCHANGED <<wiring, key, call, cached, loop, slack, flight, failed, mismatched>>

\* The browser comes back from the interaction, with an error or without.
InteractionCallback(error) ==
  /\ Live
  /\ IF error THEN person' = PersonAfter(Refused(403), person.federated)
                   /\ UNCHANGED <<access, held>>
     ELSE ~person.federated /\ Decide(Policy!PersonDecides(wiring.person, None, person.own))
  /\ UNCHANGED <<wiring, key, call, cached, loop, slack, flight, failed, mismatched>>

-----------------------------------------------------------------------------
(* The polling loop. *)

SendPoll ==
  /\ Poll!SendPoll(Caller)
  /\ UNCHANGED <<wiring, key, call, cached, servers, slack, history>>

\* The loop is over: nobody asks for the records any more.
Forget == person' = None /\ access' = None

PollAnswer == IF Live THEN person.snapshot ELSE Refused(410)

HearPoll ==
  LET answer == PollAnswer
      reading == Poll!Reading(answer.status, IF answer.status = 202 THEN 0 ELSE None,
                              answer.requirement) IN
  /\ Poll!Hear(Caller, reading)
  /\ IF Poll!Ends(reading)
     THEN /\ Forget
          /\ IF answer.status = 200 THEN Receive(answer.token)
             ELSE call' = Idle /\ UNCHANGED <<cached, failed, mismatched>>
     ELSE UNCHANGED <<call, cached, servers, failed, mismatched>>
  /\ UNCHANGED <<wiring, key, slack, held, flight>>

\* A gateway answers 503 for the Person Server.
HearBusy ==
  /\ Poll!Hear(Caller, Poll!Reading(503, None, None))
  /\ UNCHANGED <<wiring, key, call, cached, servers, slack, history>>

\* on_clarification answers, and the answer is posted.
AnswerClarification ==
  /\ Poll!HearAnswer(Caller)
  /\ Resume("clarification")
  /\ UNCHANGED <<wiring, key, call, cached, slack, flight, failed, mismatched>>

Wake ==
  /\ Poll!Wake(Caller)
  /\ UNCHANGED <<wiring, key, call, cached, servers, slack, history>>

EndWithError ==
  /\ call' = Idle
  /\ loop' = [loop EXCEPT ![Caller] = Poll!Off]
  /\ Forget
  /\ UNCHANGED <<wiring, key, cached, slack, history>>

TimeOut == Poll!TimedOut(Caller) /\ EndWithError

\* A connection fails; so may the fetch of the Person Server's metadata.
OnItsWay ==
  call.at \in {"sent", "verified", "exchange", "exchanged"} \/ Poll!Awaits(Caller)
Lose == OnItsWay /\ EndWithError

-----------------------------------------------------------------------------
(* The world *)

Rotate ==
  /\ key < MaxKey
  /\ key' = key + 1
  /\ UNCHANGED <<wiring, call, cached, loop, servers, slack, history>>

\* Time goes by for the token an answer or a request carries.
OlderAnswer(answer) ==
  IF answer.token = None THEN answer ELSE [answer EXCEPT !.token = Older(@)]

CallLater ==
  IF call.at \in {"idle", "attempt"} THEN call
  ELSE LET c == IF call.token = None THEN call ELSE [call EXCEPT !.token = Older(@)] IN
       IF call.at = "exchanged" THEN [c EXCEPT !.answer = OlderAnswer(@)] ELSE c

CachedLater == IF cached = None THEN None
  ELSE [token |-> Older(cached.token), left |-> Poll!Less(cached.left)]

PersonLater == IF person = None THEN None
  ELSE [person EXCEPT !.expires_at = IF @ < 0 THEN @ ELSE @ - 1,
                      !.snapshot = OlderAnswer(@)]

\* Between calls, before the deadline of a polling loop and while it sleeps,
\* time is the world's; else a message is on its way.
Unhurried ==
  \/ call.at = "idle"
  \/ call.at = "polling" /\ (loop[Caller].left > 0 \/ loop[Caller].nap > 0)

OnItsWayToCache ==
  \/ call.at = "exchanged" /\ call.answer.status = 200
  \/ Pending /\ person.snapshot.status = 200

Tick ==
  /\ Unhurried \/ slack > 0
  /\ slack' = IF call.at = "idle" THEN MaxSlack ELSE IF Unhurried THEN slack ELSE slack - 1
  /\ call' = CallLater
  /\ cached' = CachedLater
  /\ Poll!LoopTick
  /\ person' = PersonLater
  /\ held' = IF OnItsWayToCache THEN held + 1 ELSE IF cached = None THEN 0 ELSE held
  /\ flight' = IF call.at = "sent" THEN flight + 1 ELSE 0
  /\ UNCHANGED <<wiring, key, access, failed, mismatched>>

Next ==
  \/ Begin
  \/ NextAttempt
  \/ ResourceAnswers
  \/ VerifyChallenge
  \/ SendExchange
  \/ PersonAnswers
  \/ HearExchange
  \/ \E body \in Policy!PendingPostBody \cup {None} : PostPending(body)
  \/ \E error \in BOOLEAN : InteractionCallback(error)
  \/ SendPoll
  \/ HearPoll
  \/ HearBusy
  \/ AnswerClarification
  \/ Wake
  \/ TimeOut
  \/ Lose
  \/ Rotate
  \/ Tick

Spec == Init /\ [][Next]_vars

-----------------------------------------------------------------------------
(* The inductive strengthening of the properties below. *)

\* A call that was challenged has no token: there is one at most.
SingleToken ==
  /\ call.at \in {"challenged", "verified", "exchange", "exchanged", "polling"} => cached = None
  /\ call.at = "sent" => (call.token = None <=> cached = None)
  /\ loop[Caller] # Poll!Off => call.at = "polling"
  /\ person # None =>
       \/ call.at = "polling"
       \/ call.at = "exchanged" /\ call.answer.status = 202 /\ person.snapshot.status = 202

\* What is held was made after the last check of a key that failed.
KeysInOrder ==
  /\ mismatched <= key
  /\ cached # None => mismatched <= cached.token.cnf /\ cached.token.cnf <= key
  /\ call.at = "sent" =>
       /\ mismatched <= call.signed /\ call.signed <= key
       /\ call.token # None => mismatched <= call.token.cnf /\ call.token.cnf <= call.signed
  /\ call.at = "challenged" =>
       mismatched <= call.token.agent_jkt /\ call.token.agent_jkt <= key
  /\ \/ call.at \in {"verified", "exchange", "polling"}
     \/ call.at = "exchanged" /\ call.answer.status \in {200, 202}
     => /\ call.token.agent_jkt = call.jkt
        /\ mismatched <= call.jkt /\ call.jkt <= key
  /\ call.at = "exchange" => call.jkt <= call.signed /\ call.signed <= key

\* A token that was minted for the call is for its key, by the server its
\* resource token names, and as old as its way is long.
FitsCall(answer) ==
  answer.status = 200 =>
    /\ answer.token.cnf = call.jkt
    /\ answer.token.iss = call.token.aud
    /\ answer.token.exp >= AuthLife - held

AnswersFit ==
  /\ call.at = "exchanged" =>
       /\ FitsCall(call.answer)
       /\ call.answer.status = 401 => failed # {}
  /\ person # None =>
       /\ FitsCall(person.snapshot)
       /\ person.agent = call.jkt
       /\ person.own <=> call.token.aud = "person"
       /\ person.federated => ~person.own /\ access = call.jkt

\* The cache counts from a token's arrival.
AgesAgree ==
  /\ cached # None /\ cached.left > 0 => cached.token.exp >= cached.left - held
  /\ call.at = "sent" /\ call.token # None =>
       call.token.exp >= Margin + 1 - held - flight

-----------------------------------------------------------------------------
\* What one party mints the others accept, whatever the wiring and the
\* policies and however the token came about: of all the checks on the way
\* (verify.rs, context.rs) only those of time and of the agent's key ever
\* fail, and an exchange is unauthorized for no other reason, such as an
\* Access Server's token that does not pass (federation.rs).
ChecksAgree ==
  /\ failed \subseteq {"Expired", "Jwt"} \cup KeyChecks
  /\ call.at = "exchanged" /\ call.answer.status = 401 => failed # {}

\* A rotation of the agent's key spoils one token at most: the one in the
\* cache, or the one a call is after (agent.rs:298, signing.rs:30 and auth.rs
\* observe_response read the key, and drop the token, at different times).
RotationCostsOnce == mismatched <= key

\* find_cached_token counts from the arrival of a token, the resource from its
\* minting (auth.rs:555, verify.rs:58).  A cached token is found expired only
\* if all its ways together took longer than the margin and the skew.
HeldTooLong ==
  call.at = "sent" /\ call.token # None /\ Expired(call.token)
    => held + flight > Margin + Skew

-----------------------------------------------------------------------------
(* Liveness.  The runtime runs the futures and the clock goes on.  Users,  *)
(* applications and the network owe nothing; the time a call's messages    *)
(* may take is bounded, or a slow network could let each token expire.     *)

Fairness ==
  /\ WF_vars(Tick)
  /\ WF_vars(NextAttempt)
  /\ WF_vars(ResourceAnswers)
  /\ WF_vars(VerifyChallenge)
  /\ WF_vars(SendExchange)
  /\ WF_vars(PersonAnswers)
  /\ WF_vars(HearExchange)
  /\ WF_vars(SendPoll)
  /\ WF_vars(HearPoll)
  /\ WF_vars(AnswerClarification)
  /\ WF_vars(Wake)
  /\ WF_vars(TimeOut)

LiveSpec == Spec /\ Fairness

\* Every call ends: with a user who never answers, a requirement nobody can
\* meet, rotated keys and expired tokens.  Each round of the loop in
\* handle_inner drops what was refused, so the next is another.
CallEnds == call.at # "idle" ~> call.at = "idle"

=============================================================================
