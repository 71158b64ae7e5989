-------------------------- MODULE TokenFlowProofs --------------------------
(* Theorems about TokenFlow, for any number of keys, any lifetimes, skew,  *)
(* margin and polling options, any wiring and any of the policies.         *)
EXTENDS TokenFlow, TLAPS

-----------------------------------------------------------------------------
(* Tokens *)

\* The types without the polling loop, whose times no property here reads.
FlowTypes ==
  /\ wiring \in Wiring
  /\ key \in Key
  /\ call \in Call
  /\ cached \in [token : AuthClaims, left : 0..AuthLife] \cup {None}
  /\ person \in PersonRecord \cup {None}
  /\ access \in Key \cup {None}
  /\ held \in Nat /\ flight \in Nat
  /\ mismatched \in Nat
  /\ loop = [c \in {Caller} |-> loop[c]]

LEMMA KeyType == Key \subseteq Nat
  BY LifeAssumption DEF Key

\* What mint.rs and the two minters put into a token.
LEMMA MintTypes ==
  ASSUME NEW k \in Key
  PROVE  /\ MintPersonAuth(AgentTokenFor(k)) \in AuthClaims
         /\ MintPersonAuth(AgentTokenFor(k)).cnf = k
         /\ MintPersonAuth(AgentTokenFor(k)).iss = "person"
         /\ MintPersonAuth(AgentTokenFor(k)).exp = AuthLife
         /\ MintAccessAuth(AgentTokenFor(k)) \in AuthClaims
         /\ MintAccessAuth(AgentTokenFor(k)).cnf = k
         /\ MintAccessAuth(AgentTokenFor(k)).iss = "access"
         /\ MintAccessAuth(AgentTokenFor(k)).exp = AuthLife
<1>1. AgentTokenFor(k).agent = Agent /\ AgentTokenFor(k).cnf = k
  BY DEF AgentTokenFor, AgentToken
<1>2. AuthLife \in Time(AuthLife)
  BY LifeAssumption DEF Time
<1>3. MintPersonAuth(AgentTokenFor(k)) =
        [typ |-> "auth", iss |-> "person", dwk |-> "aauth-person.json", kid |-> "person",
         aud |-> "resource", agent |-> Agent, cnf |-> k, exp |-> AuthLife]
  BY <1>1 DEF MintPersonAuth, MintPersonAuthJwt, EncodeAuthJwt
<1>4. MintAccessAuth(AgentTokenFor(k)) =
        [typ |-> "auth", iss |-> "access", dwk |-> "aauth-access.json", kid |-> "access",
         aud |-> "resource", agent |-> Agent, cnf |-> k, exp |-> AuthLife]
  BY <1>1 DEF MintAccessAuth, MintAccessAuthJwt, EncodeAuthJwt
<1> QED BY <1>2, <1>3, <1>4 DEF AuthClaims

\* A unit of time for a token.
LEMMA OlderAuth ==
  ASSUME NEW t \in AuthClaims
  PROVE  /\ Older(t) \in AuthClaims
         /\ Older(t).cnf = t.cnf /\ Older(t).iss = t.iss
         /\ t.exp \in Int /\ t.cnf \in Key /\ t.cnf \in Nat
         /\ Older(t).exp \in Int /\ Older(t).exp >= t.exp - 1
<1> DEFINE e == IF t.exp < -Skew THEN t.exp ELSE t.exp - 1
<1>1. t.exp \in Time(AuthLife) /\ t.cnf \in Key
  BY DEF AuthClaims
<1>2. e \in Time(AuthLife) /\ e \in Int /\ e >= t.exp - 1 /\ t.exp \in Int
  BY <1>1, LifeAssumption DEF Time
<1>3. Older(t) = [t EXCEPT !.exp = e]
  BY DEF Older
<1> HIDE DEF e
<1>4. Older(t) \in AuthClaims /\ Older(t).cnf = t.cnf /\ Older(t).iss = t.iss
        /\ Older(t).exp = e
  BY <1>2, <1>3 DEF AuthClaims
<1> QED BY <1>1, <1>2, <1>4, KeyType

LEMMA OlderResource ==
  ASSUME NEW t \in ResourceClaims
  PROVE  /\ Older(t) \in ResourceClaims
         /\ Older(t).agent_jkt = t.agent_jkt /\ Older(t).aud = t.aud
<1> DEFINE e == IF t.exp < -Skew THEN t.exp ELSE t.exp - 1
<1>1. t.exp \in Time(ResourceLife)
  BY DEF ResourceClaims
<1>2. e \in Time(ResourceLife)
  BY <1>1, LifeAssumption DEF Time
<1>3. Older(t) = [t EXCEPT !.exp = e]
  BY DEF Older
<1> HIDE DEF e
<1> QED BY <1>2, <1>3 DEF ResourceClaims

-----------------------------------------------------------------------------
(* Verification *)

\* The checks that may ever fail: those of time and of the agent's key.
Timely == {"Expired", "Jwt"}

LEMMA FailsMember ==
  ASSUME NEW holds, NEW check, NEW x
  PROVE  x \in Fails(holds, check) <=> ~holds /\ x = check
  BY DEF Fails

\* An issuer's document and key are found for every token that is minted.
LEMMA VerifiedTimely ==
  ASSUME NEW t, t.dwk = Document[t.iss], t.kid = t.iss
  PROVE  Verified(t) \subseteq Timely
  BY DEF Verified, FetchDecodingKey, VerifyWithKey, Fails, Timely

LEMMA Issuers ==
  /\ \A t \in AuthClaims :
       t.typ = "auth" /\ t.dwk = Document[t.iss] /\ t.kid = t.iss /\ t.aud = "resource"
         /\ t.agent = Agent /\ t.iss \in {"person", "access"}
  /\ \A t \in ResourceClaims :
       t.typ = "resource" /\ t.dwk = Document[t.iss] /\ t.kid = t.iss
         /\ t.iss = "resource" /\ t.dwk = "aauth-resource.json" /\ t.agent = Agent
         /\ t.aud \in {"person", "access"} /\ t.agent_jkt \in Key
  /\ \A k \in Key :
       LET t == AgentTokenFor(k) IN
       t.typ = "agent" /\ t.dwk = Document[t.iss] /\ t.kid = t.iss
         /\ t.dwk = "aauth-agent.json" /\ t.agent = Agent /\ t.cnf = k
         /\ t.ps \in {"person", None}
  BY DEF AuthClaims, ResourceClaims, AgentTokenFor, AgentToken, Document

\* The layer, of an auth token.
LEMMA LayerOfAuth ==
  ASSUME NEW t \in AuthClaims, NEW k
  PROVE  /\ LayerChecks(t, k) \subseteq Timely \cup {"KeyBindingFailed"}
         /\ t.cnf = k => LayerChecks(t, k) \subseteq Timely
<1>1. Verified(t) \subseteq Timely
  BY Issuers, VerifiedTimely
<1>2. t.typ = "auth" /\ t.aud = "resource"
  BY Issuers
<1> QED BY <1>1, <1>2
     DEF LayerChecks, VerifyToken, VerifyAuthTokenBinding, Fails, Timely

\* The layer, of the agent's own.
LEMMA LayerOfAgent ==
  ASSUME NEW k \in Key
  PROVE  LayerChecks(AgentTokenFor(k), k) \subseteq Timely
<1> DEFINE t == AgentTokenFor(k)
<1>1. t.typ = "agent" /\ t.dwk = Document[t.iss] /\ t.kid = t.iss /\ t.cnf = k
        /\ t.dwk = "aauth-agent.json"
  BY Issuers
<1> HIDE DEF t
<1>2. Verified(t) \subseteq Timely
  BY <1>1, VerifiedTimely
<1>3. LayerChecks(t, k) \subseteq Timely
  BY <1>1, <1>2 DEF LayerChecks, VerifyToken, ValidateAgentTokenClaims, Fails, Timely
<1> QED BY <1>3 DEF t

\* A resource token, at the agent and at the Person Server.
LEMMA ChallengeChecks ==
  ASSUME NEW t \in ResourceClaims, NEW k
  PROVE  /\ VerifyResourceChallenge(t, "resource", Agent, k)
              \subseteq Timely \cup {"AgentJktMismatch"}
         /\ t.agent_jkt = k => VerifyResourceChallenge(t, "resource", Agent, k) \subseteq Timely
         /\ VerifyResourceChallenge(t, "resource", Agent, k) = {} => t.agent_jkt = k
<1>1. Verified(t) \subseteq Timely
  BY Issuers, VerifiedTimely
<1>2. t.typ = "resource" /\ t.dwk = "aauth-resource.json" /\ t.agent = Agent
        /\ t.iss = "resource"
  BY Issuers
<1> QED BY <1>1, <1>2 DEF VerifyResourceChallenge, VerifyResourceToken, Fails, Timely

LEMMA RequestChecks ==
  ASSUME NEW t \in ResourceClaims, NEW k \in Key
  PROVE  /\ VerifyTokenRequest(AgentTokenFor(k), k, t) \subseteq Timely \cup {"AgentJktMismatch"}
         /\ t.agent_jkt = k => VerifyTokenRequest(AgentTokenFor(k), k, t) \subseteq Timely
         /\ VerifyTokenRequest(AgentTokenFor(k), k, t) = {} => t.agent_jkt = k
<1>1. Verified(t) \subseteq Timely
  BY Issuers, VerifiedTimely
<1>2. t.typ = "resource" /\ t.dwk = "aauth-resource.json" /\ t.agent = Agent
  BY Issuers
<1>3. AgentTokenFor(k).typ = "agent" /\ AgentTokenFor(k).agent = Agent
  BY Issuers
<1> QED BY <1>1, <1>2, <1>3 DEF VerifyTokenRequest, VerifyResourceToken, Fails, Timely

\* The agent, of a token that is for its key and by the server it expects.
LEMMA ReceivedChecks ==
  ASSUME NEW t \in AuthClaims, NEW k, NEW aud, t.cnf = k, t.iss = aud
  PROVE  VerifyClientAuthToken(t, "resource", aud, Agent, k) \subseteq Timely
<1>1. Verified(t) \subseteq Timely
  BY Issuers, VerifiedTimely
<1>2. t.typ = "auth" /\ t.aud = "resource" /\ t.agent = Agent
  BY Issuers
<1> QED BY <1>1, <1>2 DEF VerifyClientAuthToken, VerifyClientAuthTokenClaims,
                          VerifyAuthTokenBinding, Fails, Timely

\* The Person Server, of a token the Access Server has just minted.
LEMMA FederatedChecks ==
  ASSUME NEW k \in Key
  PROVE  VerifyFederatedAuthToken(MintAccessAuth(AgentTokenFor(k)), "access", "resource",
                                  AgentTokenFor(k)) = {}
<1> DEFINE t == MintAccessAuth(AgentTokenFor(k))
           a == AgentTokenFor(k)
<1>1. t \in AuthClaims /\ t.cnf = k /\ t.iss = "access" /\ t.exp = AuthLife
  BY MintTypes
<1>2. a.cnf = k /\ a.agent = Agent
  BY Issuers
<1>3. t.typ = "auth" /\ t.dwk = Document[t.iss] /\ t.kid = t.iss /\ t.aud = "resource"
        /\ t.agent = Agent
  BY <1>1, Issuers
<1> HIDE DEF t, a
<1>4. ~Expired(t)
  BY <1>1, LifeAssumption DEF Expired
<1>5. Verified(t) = {}
  BY <1>3, <1>4 DEF Verified, FetchDecodingKey, VerifyWithKey, Fails
<1>6. VerifyToken(t, a.cnf) = {}
  BY <1>1, <1>2, <1>3, <1>4, <1>5 DEF VerifyToken, Fails
<1>7. VerifyFederatedAuthToken(t, "access", "resource", a) = {}
  BY <1>1, <1>2, <1>3, <1>6 DEF VerifyFederatedAuthToken, Fails
<1> QED BY <1>7 DEF t, a

-----------------------------------------------------------------------------
(* Decisions *)

\* A Person Server grants only what names it, and federates the rest.
LEMMA PersonDecisions ==
  ASSUME NEW policy \in Policy!PersonTokenPolicy, NEW input, NEW own \in BOOLEAN
  PROVE  /\ Policy!PersonDecides(policy, input, own) \in Policy!Decision
         /\ Policy!PersonDecides(policy, input, own) = "grant" => own
         /\ Policy!PersonDecides(policy, input, own) = "federate" => ~own
<1> USE DEF Policy!Decision, Policy!Requirement
<1>1. ASSUME NEW d, d = Policy!AlwaysGrantPerson(input, own)
               \/ d = Policy!ClarificationThenGrantPerson(input, own)
               \/ d = Policy!DeferInteractionPerson(input, own)
      PROVE  d \in Policy!Decision /\ (d = "grant" => own) /\ (d = "federate" => ~own)
  BY <1>1 DEF Policy!AlwaysGrantPerson, Policy!ClarificationThenGrantPerson,
              Policy!DeferInteractionPerson
<1>2. \/ Policy!PersonDecides(policy, input, own) = Policy!AlwaysGrantPerson(input, own)
      \/ Policy!PersonDecides(policy, input, own) = Policy!ClarificationThenGrantPerson(input, own)
      \/ Policy!PersonDecides(policy, input, own) = Policy!DeferInteractionPerson(input, own)
  BY DEF Policy!PersonDecides, Policy!PersonTokenPolicy
<1> QED BY <1>1, <1>2

\* An Access Server that is asked anew grants or defers.
LEMMA AccessDecisions ==
  ASSUME NEW policy \in Policy!AccessTokenPolicy, NEW input
  PROVE  /\ Policy!AccessDecides(policy, input) \in Policy!Decision
         /\ Policy!AccessDecides(policy, None) \in Policy!Requirement \cup {"grant"}
<1> USE DEF Policy!Decision, Policy!Requirement
<1>1. \A i :
        /\ Policy!AlwaysGrantAccess(i) \in Policy!Decision
        /\ Policy!ClarificationThenGrantAccess(i) \in Policy!Decision
        /\ Policy!DeferInteractionAccess(i) \in Policy!Decision
        /\ Policy!DeferClaimsAccess(i) \in Policy!Decision
        /\ Policy!DeferApprovalAccess(i) \in Policy!Decision
  BY DEF Policy!AlwaysGrantAccess, Policy!ClarificationThenGrantAccess,
         Policy!DeferInteractionAccess, Policy!DeferClaimsAccess, Policy!DeferApprovalAccess
<1>2. None # "cancelled"
  BY OptionAssumption DEF Policy!PendingInput
<1>3. /\ Policy!AlwaysGrantAccess(None) = "grant"
      /\ Policy!ClarificationThenGrantAccess(None) = "clarification"
      /\ Policy!DeferInteractionAccess(None) = "interaction"
      /\ Policy!DeferClaimsAccess(None) = "claims"
      /\ Policy!DeferApprovalAccess(None) = "approval"
  BY <1>2 DEF Policy!AlwaysGrantAccess, Policy!ClarificationThenGrantAccess,
         Policy!DeferInteractionAccess, Policy!DeferClaimsAccess, Policy!DeferApprovalAccess
<1>4. \A i :
        \/ policy = "always" /\ Policy!AccessDecides(policy, i) = Policy!AlwaysGrantAccess(i)
        \/ policy = "clarification"
             /\ Policy!AccessDecides(policy, i) = Policy!ClarificationThenGrantAccess(i)
        \/ policy = "interaction"
             /\ Policy!AccessDecides(policy, i) = Policy!DeferInteractionAccess(i)
        \/ policy = "claims" /\ Policy!AccessDecides(policy, i) = Policy!DeferClaimsAccess(i)
        \/ policy = "approval" /\ Policy!AccessDecides(policy, i) = Policy!DeferApprovalAccess(i)
  BY DEF Policy!AccessDecides, Policy!AccessTokenPolicy
<1>5. Policy!AccessDecides(policy, input) \in Policy!Decision
  BY <1>1, <1>4
<1>6. Policy!AccessDecides(policy, None) \in Policy!Requirement \cup {"grant"}
  BY <1>3, <1>4
<1> QED BY <1>5, <1>6

LEMMA AnswerTypes ==
  /\ \A t \in AuthClaims :
       Granted(t) \in Answer /\ Granted(t).status = 200 /\ Granted(t).token = t
  /\ \A r \in Policy!Requirement :
       DeferredFor(r) \in Answer /\ DeferredFor(r).status = 202
  /\ \A s \in {401, 403, 410, 500, 502} :
       Refused(s) \in Answer /\ Refused(s).status = s
  BY DEF Granted, DeferredFor, Refused, Answer

LEMMA AnswerKinds ==
  ASSUME NEW a \in Answer
  PROVE  /\ a.status \in {200, 202, 401, 403, 410, 500, 502}
         /\ a.status = 200 => a.token \in AuthClaims /\ a.token # None
         /\ a.status # 200 => a.token = None
  BY ClaimsAssumption DEF Answer

\* A decision for the key k: whoever mints, the token is for that key, new,
\* and by the server the resource token names.
Decided(answer, k, iss) ==
  /\ answer \in Answer
  /\ answer.status = 200 =>
       /\ answer.token.cnf = k
       /\ answer.token.exp = AuthLife
       /\ answer.token.iss = iss

LEMMA FederatedDecided ==
  ASSUME NEW k \in Key, NEW decision \in Policy!Decision, NEW refusal \in {401, 502}
  PROVE  /\ Decided(Federated(decision, AgentTokenFor(k), refusal), k, "access")
         /\ decision \in Policy!Requirement \cup {"grant"} =>
              Federated(decision, AgentTokenFor(k), refusal).status \in {200, 202}
<1> DEFINE a == Federated(decision, AgentTokenFor(k), refusal)
           t == MintAccessAuth(AgentTokenFor(k))
<1>1. t \in AuthClaims /\ t.cnf = k /\ t.iss = "access" /\ t.exp = AuthLife
  BY MintTypes
<1>2. VerifyFederatedAuthToken(t, "access", "resource", AgentTokenFor(k)) = {}
  BY FederatedChecks
<1>3. a = IF decision \in Policy!Requirement THEN DeferredFor(decision)
          ELSE IF decision # "grant" THEN Refused(refusal)
          ELSE Granted(t)
  BY <1>2 DEF Federated
<1> HIDE DEF a, t
<1>4. Decided(a, k, "access")
        /\ (decision \in Policy!Requirement \cup {"grant"} => a.status \in {200, 202})
  BY <1>1, <1>3, AnswerTypes DEF Decided
<1> QED BY <1>4 DEF a

LEMMA ApplyDecided ==
  ASSUME wiring \in Wiring, NEW k \in Key, NEW t \in ResourceClaims,
         NEW decision \in Policy!Decision, NEW own \in BOOLEAN,
         decision = "grant" => own, decision = "federate" => ~own
  PROVE  LET a == ApplyPersonDecision(decision, AgentTokenFor(k), t) IN
         /\ Decided(a, k, IF own THEN "person" ELSE "access")
         /\ a.status \in {200, 202, 403, 500}
<1> DEFINE a == ApplyPersonDecision(decision, AgentTokenFor(k), t)
<1>1. CASE decision = "grant"
  <2>1. a = Granted(MintPersonAuth(AgentTokenFor(k)))
    BY <1>1 DEF ApplyPersonDecision
  <2> HIDE DEF a
  <2>2. Decided(a, k, IF own THEN "person" ELSE "access") /\ a.status = 200
    BY <1>1, <2>1, MintTypes, AnswerTypes DEF Decided
  <2> QED BY <2>2 DEF a
<1>2. CASE decision = "federate"
  <2> DEFINE d == Policy!AccessDecides(wiring.access, None)
  <2>1. wiring.access \in Policy!AccessTokenPolicy
    BY DEF Wiring
  <2>2. d \in Policy!Decision /\ d \in Policy!Requirement \cup {"grant"}
    BY <2>1, AccessDecisions DEF Policy!Decision
  <2>3. FromExchange(AgentTokenFor(k), t) = {}
    BY Issuers DEF FromExchange, Fails
  <2>4. a = Federated(d, AgentTokenFor(k), 401)
    BY <1>2, <2>3 DEF ApplyPersonDecision, FederateToAccessServer
  <2> HIDE DEF a, d
  <2>5. Decided(a, k, "access") /\ a.status \in {200, 202}
    <3>1. \A e \in Policy!Decision :
            /\ Decided(Federated(e, AgentTokenFor(k), 401), k, "access")
            /\ e \in Policy!Requirement \cup {"grant"} =>
                 Federated(e, AgentTokenFor(k), 401).status \in {200, 202}
      BY FederatedDecided
    <3> QED BY <2>2, <2>4, <3>1
  <2>6. Decided(a, k, IF own THEN "person" ELSE "access")
    BY <1>2, <2>5
  <2> QED BY <2>5, <2>6 DEF a
<1>3. CASE decision \in {"deny", "error"}
  <2>1. a = Refused(403) \/ a = Refused(500)
    BY <1>3 DEF ApplyPersonDecision
  <2> HIDE DEF a
  <2>2. Decided(a, k, IF own THEN "person" ELSE "access") /\ a.status \in {403, 500}
    BY <2>1, AnswerTypes DEF Decided
  <2> QED BY <2>2 DEF a
<1>4. CASE decision \in Policy!Requirement
  <2>1. decision \notin {"grant", "federate", "deny", "error"}
    BY <1>4 DEF Policy!Requirement
  <2>2. a = DeferredFor(decision)
    BY <2>1 DEF ApplyPersonDecision
  <2> HIDE DEF a
  <2>3. Decided(a, k, IF own THEN "person" ELSE "access") /\ a.status = 202
    BY <1>4, <2>2, AnswerTypes DEF Decided
  <2> QED BY <2>3 DEF a
<1> QED BY <1>1, <1>2, <1>3, <1>4 DEF Policy!Decision

-----------------------------------------------------------------------------
(* The call and its surroundings *)

FlowInv ==
  /\ FlowTypes
  /\ SingleToken
  /\ KeysInOrder
  /\ AnswersFit
  /\ AgesAgree
  /\ ChecksAgree

\* What the middleware and the exchange keep in their locals at each await.
LEMMA CallKinds ==
  ASSUME NEW c \in Call
  PROVE  /\ c.at \in {"idle", "attempt", "sent", "challenged", "verified", "polling",
                      "exchange", "exchanged"}
         /\ c.at = "sent" => c \in [at : {"sent"}, token : AuthClaims \cup {None}, signed : Key]
         /\ c.at = "challenged" => c \in [at : {"challenged"}, token : ResourceClaims]
         /\ c.at \in {"verified", "polling"} =>
              c \in [at : {"verified", "polling"}, token : ResourceClaims, jkt : Key]
         /\ c.at = "exchange" =>
              c \in [at : {"exchange"}, token : ResourceClaims, jkt : Key, signed : Key]
         /\ c.at = "exchanged" =>
              c \in [at : {"exchanged"}, token : ResourceClaims, jkt : Key, answer : Answer]
  BY DEF Call, Idle, Attempt

LEMMA NoteEffect ==
  ASSUME NEW checks, Note(checks), mismatched \in Nat
  PROVE  /\ failed' = checks
         /\ mismatched' \in Nat
         /\ mismatched' <= mismatched + 1
         /\ checks \cap KeyChecks = {} => mismatched' = mismatched
  BY DEF Note

LEMMA TimelyIsNoKey ==
  /\ Timely \cap KeyChecks = {}
  /\ \A checks \in SUBSET Timely : checks \cap KeyChecks = {}
  BY DEF Timely, KeyChecks

LEMMA MoveEffect ==
  ASSUME FlowTypes, NEW l, Poll!Move(Caller, l)
  PROVE  loop' = [c \in {Caller} |-> loop'[c]] /\ loop'[Caller] = l
  BY DEF FlowTypes, Poll!Move

LEMMA PollsOff == Poll!Off.at = "off"
  BY DEF Poll!Off

\* A call that is over, or about to begin anew, with the cache as it is.
LEMMA EndsQuietly ==
  ASSUME FlowInv, call' \in {Idle, Attempt},
         cached' \in {cached, None}, person' = None, access' \in {access, None},
         loop' = [c \in {Caller} |-> loop'[c]], loop'[Caller] = Poll!Off,
         failed' \subseteq Timely \cup KeyChecks,
         mismatched' \in Nat, mismatched' <= key,
         cached' # None => mismatched' <= cached'.token.cnf,
         UNCHANGED <<wiring, key, held, flight>>
  PROVE  FlowInv'
<1>1. FlowTypes'
  BY DEF FlowInv, FlowTypes, Call
<1>2. call'.at \in {"idle", "attempt"}
  BY DEF Idle, Attempt
<1>3. SingleToken'
  BY <1>2 DEF SingleToken
<1>4. KeysInOrder'
  BY <1>2 DEF FlowInv, KeysInOrder
<1>5. AnswersFit'
  BY <1>2 DEF AnswersFit
<1>6. AgesAgree'
  BY <1>2 DEF FlowInv, AgesAgree
<1>7. ChecksAgree'
  BY <1>2 DEF ChecksAgree, Timely
<1> QED BY <1>1, <1>3, <1>4, <1>5, <1>6, <1>7 DEF FlowInv

LEMMA BeginStep == FlowInv /\ Begin => FlowInv'
<1> SUFFICES ASSUME FlowInv, Begin PROVE FlowInv'
  OBVIOUS
<1>1. /\ call.at = "idle" /\ call' = Attempt /\ failed' = {}
      /\ UNCHANGED <<wiring, key, cached, loop, person, access, held, flight, mismatched>>
  BY DEF Begin, Idle, servers
<1>2. person = None /\ loop[Caller] = Poll!Off
  BY <1>1 DEF FlowInv, SingleToken
<1>3. mismatched \in Nat /\ mismatched <= key
      /\ (cached # None => mismatched <= cached.token.cnf)
      /\ loop = [c \in {Caller} |-> loop[c]]
  BY DEF FlowInv, KeysInOrder, FlowTypes
<1> QED BY <1>1, <1>2, <1>3, EndsQuietly

LEMMA ErrorStep == FlowInv /\ EndWithError => FlowInv'
<1> SUFFICES ASSUME FlowInv, EndWithError PROVE FlowInv'
  OBVIOUS
<1>1. /\ call' = Idle /\ loop' = [loop EXCEPT ![Caller] = Poll!Off]
      /\ person' = None /\ access' = None
      /\ UNCHANGED <<wiring, key, cached, held, flight, failed, mismatched>>
  BY DEF EndWithError, Forget, history
<1>2. loop' = [c \in {Caller} |-> loop'[c]] /\ loop'[Caller] = Poll!Off
  BY <1>1 DEF FlowInv, FlowTypes
<1>3. mismatched \in Nat /\ mismatched <= key
      /\ (cached # None => mismatched <= cached.token.cnf)
      /\ failed \subseteq Timely \cup KeyChecks
  BY DEF FlowInv, KeysInOrder, FlowTypes, ChecksAgree, Timely
<1> QED BY <1>1, <1>2, <1>3, EndsQuietly

\* The polling loop goes round: nothing else moves.
LEMMA LoopMoves ==
  ASSUME FlowInv, NEW l, Poll!Move(Caller, l), loop[Caller].at # "off",
         UNCHANGED <<wiring, key, call, cached, person, access, held, flight,
                     failed, mismatched>>
  PROVE  FlowInv'
<1>1. loop' = [c \in {Caller} |-> loop'[c]] /\ loop[Caller] # Poll!Off
  BY MoveEffect, PollsOff DEF FlowInv
<1>2. FlowTypes'
  BY <1>1 DEF FlowInv, FlowTypes
<1>3. SingleToken'
  BY <1>1 DEF FlowInv, SingleToken
<1>4. KeysInOrder' /\ AgesAgree' /\ ChecksAgree'
  BY DEF FlowInv, KeysInOrder, AgesAgree, ChecksAgree
<1>5. AnswersFit'
  BY DEF FlowInv, AnswersFit, FitsCall
<1> QED BY <1>2, <1>3, <1>4, <1>5 DEF FlowInv

LEMMA LoopStep ==
  ASSUME FlowInv, SendPoll \/ HearBusy \/ Wake
  PROVE  FlowInv'
<1>1. UNCHANGED <<wiring, key, call, cached, person, access, held, flight, failed, mismatched>>
  BY DEF SendPoll, HearBusy, Wake, servers, history
<1>2. \E l : Poll!Move(Caller, l) /\ loop[Caller].at # "off"
  <2>1. CASE SendPoll
    BY <2>1 DEF SendPoll, Poll!SendPoll, Poll!Due
  <2>2. CASE HearBusy
    BY <2>2 DEF HearBusy, Poll!Hear
  <2>3. CASE Wake
    BY <2>3 DEF Wake, Poll!Wake
  <2> QED BY <2>1, <2>2, <2>3
<1> QED BY <1>1, <1>2, LoopMoves

LEMMA RotateStep == FlowInv /\ Rotate => FlowInv'
<1> SUFFICES ASSUME FlowInv, Rotate PROVE FlowInv'
  OBVIOUS
<1>1. /\ key' = key + 1 /\ key' \in Key
      /\ UNCHANGED <<wiring, call, cached, loop, person, access, held, flight, failed, mismatched>>
  BY LifeAssumption DEF Rotate, servers, history, Key, FlowInv, FlowTypes
<1>2. FlowTypes'
  BY <1>1 DEF FlowInv, FlowTypes
<1>3. SingleToken'
  BY <1>1 DEF FlowInv, SingleToken
<1>4. AgesAgree' /\ ChecksAgree'
  BY <1>1 DEF FlowInv, AgesAgree, ChecksAgree
<1>5. AnswersFit'
  BY <1>1 DEF FlowInv, AnswersFit, FitsCall
<1>6. /\ cached # None => cached.token.cnf \in Nat
      /\ call.at = "sent" => call.signed \in Nat
      /\ call.at = "challenged" => call.token.agent_jkt \in Nat
      /\ call.at \in {"verified", "exchange", "polling", "exchanged"} => call.jkt \in Nat
      /\ call.at = "exchange" => call.signed \in Nat
      /\ key \in Nat /\ mismatched \in Nat
  <2>1. FlowTypes
    BY DEF FlowInv
  <2>2. call.at = "challenged" => call.token \in ResourceClaims
    BY <2>1, CallKinds DEF FlowTypes
  <2> QED BY <2>1, <2>2, CallKinds, OlderAuth, Issuers, KeyType DEF FlowTypes
<1>7. KeysInOrder'
  BY <1>1, <1>6 DEF FlowInv, KeysInOrder
<1> QED BY <1>2, <1>3, <1>4, <1>5, <1>7 DEF FlowInv

LEMMA AttemptStep == FlowInv /\ NextAttempt => FlowInv'
<1> SUFFICES ASSUME FlowInv, NextAttempt PROVE FlowInv'
  OBVIOUS
<1>1. /\ call.at = "attempt"
      /\ call' = [at |-> "sent", token |-> IF FindCachedToken THEN cached.token ELSE None,
                  signed |-> key]
      /\ cached' = IF FindCachedToken THEN cached ELSE None
      /\ flight' = 0 /\ failed' = {}
      /\ UNCHANGED <<wiring, key, loop, person, access, held, mismatched>>
  BY DEF NextAttempt, Attempt, servers
<1>2. person = None /\ loop[Caller] = Poll!Off
  BY <1>1 DEF FlowInv, SingleToken
<1>3. FindCachedToken =>
        /\ cached # None /\ cached.token \in AuthClaims /\ cached.token # None
        /\ cached.left > Margin /\ cached.left \in Nat
        /\ cached.token.exp \in Int /\ cached.token.cnf \in Nat
  <2> SUFFICES ASSUME FindCachedToken
               PROVE  /\ cached # None /\ cached.token \in AuthClaims /\ cached.token # None
                      /\ cached.left > Margin /\ cached.left \in Nat
                      /\ cached.token.exp \in Int /\ cached.token.cnf \in Nat
    OBVIOUS
  <2>1. cached # None /\ cached.left > Margin
    BY DEF FindCachedToken
  <2>2. cached \in [token : AuthClaims, left : 0..AuthLife]
    BY <2>1 DEF FlowInv, FlowTypes
  <2> QED BY <2>1, <2>2, OlderAuth, ClaimsAssumption, LifeAssumption
<1>4. FlowTypes'
  <2>1. call' \in Call
    BY <1>1, <1>3 DEF Call, FlowInv, FlowTypes
  <2> QED BY <1>1, <2>1 DEF FlowInv, FlowTypes
<1>5. SingleToken'
  BY <1>1, <1>2, <1>3 DEF SingleToken
<1>6. KeysInOrder'
  <2>1. key \in Nat /\ mismatched \in Nat
    BY KeyType DEF FlowInv, FlowTypes
  <2>2. /\ mismatched <= key
        /\ cached # None => mismatched <= cached.token.cnf /\ cached.token.cnf <= key
    BY DEF FlowInv, KeysInOrder
  <2>3. /\ call'.at = "sent" /\ call'.signed = key
        /\ call'.token # None => cached # None /\ call'.token = cached.token
        /\ cached' # None => cached # None /\ cached' = cached
    BY <1>1, <1>3
  <2> QED BY <1>1, <2>1, <2>2, <2>3 DEF KeysInOrder
<1>7. AnswersFit'
  BY <1>1, <1>2 DEF AnswersFit
<1>8. AgesAgree'
  <2>1. held \in Nat /\ Margin \in Nat
    BY FlowAssumption DEF FlowInv, FlowTypes
  <2> QED BY <1>1, <1>3, <2>1 DEF FlowInv, AgesAgree
<1>9. ChecksAgree'
  BY <1>1 DEF ChecksAgree
<1> QED BY <1>4, <1>5, <1>6, <1>7, <1>8, <1>9 DEF FlowInv

-----------------------------------------------------------------------------
(* The resource, and the agent's reading of its challenge *)

\* A resource token names a server and is bound to the key of the request.
LEMMA ChallengeTypes ==
  ASSUME NEW k \in Key
  PROVE  /\ SignResourceToken(Audience(AgentTokenFor(k)), AgentTokenFor(k).agent, k)
              \in ResourceClaims
         /\ SignResourceToken(Audience(AgentTokenFor(k)), AgentTokenFor(k).agent, k).agent_jkt = k
<1>1. AgentTokenFor(k).ps \in {"person", None} /\ AgentTokenFor(k).agent = Agent
  BY Issuers
<1>2. Audience(AgentTokenFor(k)) \in {"person", "access"}
  BY <1>1, NoneAssumption DEF Audience, ResolveResourceTokenAudience
<1>3. ResourceLife \in Time(ResourceLife)
  BY LifeAssumption DEF Time
<1> QED BY <1>1, <1>2, <1>3 DEF SignResourceToken, ResourceClaims

LEMMA ResourceStep == FlowInv /\ ResourceAnswers => FlowInv'
<1> SUFFICES ASSUME FlowInv, ResourceAnswers PROVE FlowInv'
  OBVIOUS
<1> DEFINE k == call.signed
           token == Presented(call.token, k)
           checks == LayerChecks(token, k)
           response == IF checks # {} THEN Unauthorized ELSE LayerDecides(token, k)
<1>1. /\ call.at = "sent" /\ Note(checks)
      /\ cached' = CachedAfter(call.token, response)
      /\ call' = ObserveResponse(call.token, response)
      /\ UNCHANGED <<wiring, key, loop, person, access, held, flight>>
  BY DEF ResourceAnswers, servers
<1>2. k \in Key /\ k \in Nat /\ key \in Nat /\ mismatched \in Nat
        /\ call.token \in AuthClaims \cup {None}
  BY <1>1, CallKinds, KeyType DEF FlowInv, FlowTypes
<1>3. person = None /\ loop[Caller] = Poll!Off /\ loop = [c \in {Caller} |-> loop[c]]
        /\ (call.token = None <=> cached = None)
  BY <1>1 DEF FlowInv, SingleToken, FlowTypes
<1>4. /\ mismatched <= k /\ k <= key /\ mismatched <= key
      /\ call.token # None => mismatched <= call.token.cnf /\ call.token.cnf <= k
      /\ cached # None => mismatched <= cached.token.cnf
  BY <1>1 DEF FlowInv, KeysInOrder
<1>5. CASE call.token = None
  <2>1. token = AgentTokenFor(k)
    BY <1>5 DEF Presented
  <2>2. checks \subseteq Timely
    BY <1>2, <2>1, LayerOfAgent
  <2>3. failed' = checks /\ mismatched' = mismatched
    BY <1>1, <1>2, <2>2, NoteEffect, TimelyIsNoKey
  <2>4. cached' = None
    BY <1>1, <1>3, <1>5 DEF CachedAfter
  <2>5. /\ response.challenge = None
        \/ response.challenge = SignResourceToken(Audience(token), token.agent, k)
    BY DEF Unauthorized, LayerDecides, Ok
  <2>6. \/ call' = Idle
        \/ response.challenge # None /\ call' = [at |-> "challenged", token |-> response.challenge]
    BY <1>1, <1>5 DEF ObserveResponse
  <2> HIDE DEF checks, response, token
  <2>7. CASE call' = Idle
    <3>1. failed' \subseteq Timely \cup KeyChecks
      BY <2>2, <2>3
    <3> QED BY <1>1, <1>2, <1>3, <1>4, <2>3, <2>4, <2>7, <3>1, EndsQuietly
  <2>8. CASE response.challenge # None
               /\ call' = [at |-> "challenged", token |-> response.challenge]
    <3>1. call'.at = "challenged" /\ call'.token \in ResourceClaims
            /\ call'.token.agent_jkt = k /\ call' \in Call
      <4>1. /\ response.challenge \in ResourceClaims
            /\ response.challenge.agent_jkt = k
        BY <1>2, <2>1, <2>5, <2>8, ChallengeTypes
      <4> QED BY <2>8, <4>1 DEF Call
    <3>2. FlowTypes'
      BY <1>1, <2>3, <2>4, <3>1 DEF FlowInv, FlowTypes
    <3>3. SingleToken'
      BY <1>1, <1>3, <2>4, <3>1 DEF SingleToken
    <3>4. KeysInOrder'
      BY <1>1, <1>4, <2>3, <2>4, <3>1 DEF KeysInOrder
    <3>5. AnswersFit' /\ AgesAgree'
      BY <1>1, <1>3, <2>4, <3>1 DEF AnswersFit, AgesAgree
    <3>6. ChecksAgree'
      BY <2>2, <2>3, <3>1 DEF ChecksAgree, Timely
    <3> QED BY <3>2, <3>3, <3>4, <3>5, <3>6 DEF FlowInv
  <2> QED BY <2>6, <2>7, <2>8
<1>6. CASE call.token # None
  <2>1. token = call.token /\ call.token \in AuthClaims
    BY <1>2, <1>6 DEF Presented
  <2>2. call.token.cnf \in Nat
    BY <2>1, OlderAuth
  <2>3. /\ checks \subseteq Timely \cup {"KeyBindingFailed"}
        /\ call.token.cnf = k => checks \subseteq Timely
    BY <2>1, LayerOfAuth
  <2>4. checks # {} => response.status = 401
    BY DEF Unauthorized
  <2>5. call' \in {Idle, Attempt} /\ cached' \in {cached, None}
          /\ (response.status = 401 => cached' = None)
    BY <1>1, <1>6 DEF ObserveResponse, CachedAfter
  <2> HIDE DEF checks, response, token
  <2>6. failed' \subseteq Timely \cup KeyChecks
    BY <1>1, <1>2, <2>3, NoteEffect DEF KeyChecks
  <2>7. /\ mismatched' \in Nat /\ mismatched' <= key
        /\ cached' # None => mismatched' <= cached'.token.cnf
    <3>1. CASE checks \cap KeyChecks = {}
      BY <1>1, <1>2, <1>4, <2>5, <3>1, NoteEffect
    <3>2. CASE checks \cap KeyChecks # {}
      <4>1. call.token.cnf # k /\ cached' = None
        BY <2>3, <2>4, <2>5, <3>2, TimelyIsNoKey
      <4>2. mismatched' \in Nat /\ mismatched' <= mismatched + 1
        BY <1>1, <1>2, NoteEffect
      <4> QED BY <1>2, <1>4, <1>6, <2>2, <4>1, <4>2
    <3> QED BY <3>1, <3>2
  <2> QED BY <1>1, <1>3, <2>5, <2>6, <2>7, EndsQuietly
<1> QED BY <1>5, <1>6

LEMMA ChallengeStep == FlowInv /\ VerifyChallenge => FlowInv'
<1> SUFFICES ASSUME FlowInv, VerifyChallenge PROVE FlowInv'
  OBVIOUS
<1> DEFINE checks == VerifyResourceChallenge(call.token, "resource", Agent, key)
<1>1. /\ call.at = "challenged" /\ Note(checks)
      /\ UNCHANGED <<wiring, key, cached, loop, person, access, held, flight>>
      /\ \/ call' = Idle
         \/ checks = {} /\ call' = [at |-> "verified", token |-> call.token, jkt |-> key]
  BY DEF VerifyChallenge, servers
<1>2. call.token \in ResourceClaims /\ key \in Key /\ key \in Nat /\ mismatched \in Nat
        /\ call.token.agent_jkt \in Nat
  BY <1>1, CallKinds, KeyType, Issuers DEF FlowInv, FlowTypes
<1>3. person = None /\ loop[Caller] = Poll!Off /\ loop = [c \in {Caller} |-> loop[c]]
        /\ cached = None
  BY <1>1 DEF FlowInv, SingleToken, FlowTypes
<1>4. mismatched <= call.token.agent_jkt /\ call.token.agent_jkt <= key /\ mismatched <= key
  BY <1>1 DEF FlowInv, KeysInOrder
<1>5. /\ checks \subseteq Timely \cup {"AgentJktMismatch"}
      /\ call.token.agent_jkt = key => checks \subseteq Timely
      /\ checks = {} => call.token.agent_jkt = key
  BY <1>2, ChallengeChecks
<1> HIDE DEF checks
<1>6. failed' = checks /\ failed' \subseteq Timely \cup KeyChecks
  BY <1>1, <1>2, <1>5, NoteEffect DEF KeyChecks
<1>7. mismatched' \in Nat /\ mismatched' <= key /\ (checks = {} => mismatched' = mismatched)
  <2>1. CASE checks \cap KeyChecks = {}
    BY <1>1, <1>2, <1>4, <2>1, NoteEffect
  <2>2. CASE checks \cap KeyChecks # {}
    <3>1. call.token.agent_jkt # key /\ checks # {}
      BY <1>5, <2>2, TimelyIsNoKey
    <3>2. mismatched' \in Nat /\ mismatched' <= mismatched + 1
      BY <1>1, <1>2, NoteEffect
    <3> QED BY <1>2, <1>4, <3>1, <3>2
  <2> QED BY <2>1, <2>2
<1>8. CASE call' = Idle
  BY <1>1, <1>3, <1>6, <1>7, <1>8, EndsQuietly
<1>9. CASE checks = {} /\ call' = [at |-> "verified", token |-> call.token, jkt |-> key]
  <2>1. /\ call'.at = "verified" /\ call' \in Call
        /\ call'.token = call.token /\ call'.jkt = key /\ call.token.agent_jkt = key
    BY <1>2, <1>5, <1>9 DEF Call
  <2>2. FlowTypes'
    BY <1>1, <1>7, <2>1 DEF FlowInv, FlowTypes
  <2>3. SingleToken'
    BY <1>1, <1>3, <2>1 DEF SingleToken
  <2>4. KeysInOrder'
    BY <1>1, <1>2, <1>3, <1>4, <1>7, <1>9, <2>1 DEF KeysInOrder
  <2>5. AnswersFit' /\ AgesAgree'
    BY <1>1, <1>3, <2>1 DEF AnswersFit, AgesAgree
  <2>6. ChecksAgree'
    BY <1>6, <1>9, <2>1 DEF ChecksAgree
  <2> QED BY <2>2, <2>3, <2>4, <2>5, <2>6 DEF FlowInv
<1> QED BY <1>1, <1>8, <1>9

LEMMA PostStep == FlowInv /\ SendExchange => FlowInv'
<1> SUFFICES ASSUME FlowInv, SendExchange PROVE FlowInv'
  OBVIOUS
<1>1. /\ call.at = "verified"
      /\ call' = [at |-> "exchange", token |-> call.token, jkt |-> call.jkt, signed |-> key]
      /\ UNCHANGED <<wiring, key, cached, loop, person, access, held, flight,
                     failed, mismatched>>
  BY DEF SendExchange, servers, history
<1>2. call.token \in ResourceClaims /\ call.jkt \in Key /\ key \in Key
  BY <1>1, CallKinds DEF FlowInv, FlowTypes
<1>3. person = None /\ loop[Caller] = Poll!Off /\ cached = None
  BY <1>1 DEF FlowInv, SingleToken
<1>4. mismatched <= call.jkt /\ call.token.agent_jkt = call.jkt /\ call.jkt <= key
        /\ mismatched <= key
  BY <1>1 DEF FlowInv, KeysInOrder
<1>5. /\ call'.at = "exchange" /\ call' \in Call
      /\ call'.token = call.token /\ call'.jkt = call.jkt /\ call'.signed = key
  BY <1>1, <1>2 DEF Call
<1>6. FlowTypes'
  BY <1>1, <1>5 DEF FlowInv, FlowTypes
<1>7. SingleToken'
  BY <1>1, <1>3, <1>5 DEF SingleToken
<1>8. KeysInOrder'
  <2>1. key <= key
    BY <1>2, KeyType
  <2> QED BY <1>1, <1>3, <1>4, <1>5, <2>1 DEF KeysInOrder
<1>9. AnswersFit' /\ AgesAgree'
  BY <1>1, <1>3, <1>5 DEF AnswersFit, AgesAgree
<1>10. ChecksAgree'
  BY <1>1, <1>5 DEF FlowInv, ChecksAgree
<1> QED BY <1>6, <1>7, <1>8, <1>9, <1>10 DEF FlowInv

-----------------------------------------------------------------------------
(* The Person Server, and the agent's reading of its answer *)

\* What becomes of a policy's decision on the resource token t.
LEMMA PersonDecided ==
  ASSUME wiring \in Wiring, NEW k \in Key, NEW t \in ResourceClaims, NEW input,
         NEW own \in BOOLEAN, own <=> t.aud = "person",
         NEW decision, decision = Policy!PersonDecides(wiring.person, input, own),
         NEW a, a = ApplyPersonDecision(decision, AgentTokenFor(k), t)
  PROVE  /\ Decided(a, k, t.aud)
         /\ a.status \in {200, 202, 403, 500}
         /\ decision = "federate" => ~own
<1>1. wiring.person \in Policy!PersonTokenPolicy
  BY DEF Wiring
<1>2. /\ decision \in Policy!Decision
      /\ decision = "grant" => own
      /\ decision = "federate" => ~own
  BY <1>1, PersonDecisions
<1>3. t.aud \in {"person", "access"}
  BY Issuers
<1>4. Decided(a, k, IF own THEN "person" ELSE "access") /\ a.status \in {200, 202, 403, 500}
  BY <1>2, ApplyDecided
<1>5. t.aud = IF own THEN "person" ELSE "access"
  BY <1>3
<1> QED BY <1>2, <1>4, <1>5

LEMMA PersonStep == FlowInv /\ PersonAnswers => FlowInv'
<1> SUFFICES ASSUME FlowInv, PersonAnswers PROVE FlowInv'
  OBVIOUS
<1> DEFINE own == call.token.aud = "person"
<1> PICK k : k = call.signed
  OBVIOUS
<1> PICK checks : checks = VerifyTokenRequest(AgentTokenFor(k), k, call.token)
  OBVIOUS
<1> PICK decision : decision = (IF checks # {} THEN "error"
                                ELSE Policy!PersonDecides(wiring.person, None, own))
  OBVIOUS
<1> PICK answer : answer = (IF checks # {} THEN Refused(401)
                            ELSE ApplyPersonDecision(decision, AgentTokenFor(k), call.token))
  OBVIOUS
<1>1. /\ call.at = "exchange"
      /\ Note(checks)
      /\ Minted(answer)
      /\ call' = [at |-> "exchanged", token |-> call.token, jkt |-> call.jkt,
                  answer |-> answer]
      /\ person' = IF answer.status = 202
                   THEN [expires_at |-> TTL, agent |-> k, own |-> own,
                         federated |-> decision = "federate", snapshot |-> answer]
                   ELSE person
      /\ access' = AccessAfter(decision, answer, k)
      /\ UNCHANGED <<wiring, key, cached, loop, flight>>
  BY DEF PersonAnswers
<1>2. /\ call.token \in ResourceClaims /\ call.jkt \in Key /\ k \in Key
      /\ call.jkt \in Nat /\ k \in Nat /\ key \in Nat /\ mismatched \in Nat
      /\ wiring \in Wiring /\ held \in Nat /\ flight \in Nat /\ access \in Key \cup {None}
      /\ loop = [c \in {Caller} |-> loop[c]] /\ key \in Key
  BY <1>1, CallKinds, KeyType DEF FlowInv, FlowTypes
<1>3. person = None /\ loop[Caller] = Poll!Off /\ cached = None
  BY <1>1 DEF FlowInv, SingleToken
<1>4. /\ mismatched <= call.jkt /\ call.token.agent_jkt = call.jkt
      /\ call.jkt <= k /\ k <= key /\ mismatched <= key
  BY <1>1 DEF FlowInv, KeysInOrder
<1>5. /\ checks \subseteq Timely \cup {"AgentJktMismatch"}
      /\ call.token.agent_jkt = k => checks \subseteq Timely
      /\ checks = {} => call.token.agent_jkt = k
  BY <1>1, <1>2, RequestChecks
<1>6. failed' = checks /\ failed' \subseteq Timely \cup KeyChecks
  BY <1>1, <1>2, <1>5, NoteEffect DEF KeyChecks
<1>7. mismatched' \in Nat /\ mismatched' <= key /\ (checks = {} => mismatched' = mismatched)
  <2>1. CASE checks \cap KeyChecks = {}
    BY <1>1, <1>2, <1>4, <2>1, NoteEffect
  <2>2. CASE checks \cap KeyChecks # {}
    <3>1. call.jkt # k /\ checks # {}
      BY <1>4, <1>5, <2>2, TimelyIsNoKey
    <3>2. mismatched' \in Nat /\ mismatched' <= mismatched + 1
      BY <1>1, <1>2, NoteEffect
    <3> QED BY <1>2, <1>4, <3>1, <3>2
  <2> QED BY <2>1, <2>2
<1>8. checks # {} => answer \in Answer /\ answer.status = 401 /\ decision = "error"
  BY <1>1, AnswerTypes
<1>9. checks = {} =>
        /\ Decided(answer, k, call.token.aud) /\ call.jkt = k
        /\ answer.status \in {200, 202, 403, 500}
        /\ decision = "federate" => ~own
  <2> SUFFICES ASSUME checks = {}
               PROVE  /\ Decided(answer, k, call.token.aud) /\ call.jkt = k
                      /\ answer.status \in {200, 202, 403, 500}
                      /\ decision = "federate" => ~own
    OBVIOUS
  <2>1. PICK o \in BOOLEAN : o <=> call.token.aud = "person"
    OBVIOUS
  <2>2. o = own
    BY <2>1
  <2>3. decision = Policy!PersonDecides(wiring.person, None, o)
    BY <2>2
  <2>4. answer = ApplyPersonDecision(decision, AgentTokenFor(k), call.token)
    OBVIOUS
  <2>5. /\ Decided(answer, k, call.token.aud)
        /\ answer.status \in {200, 202, 403, 500}
        /\ decision = "federate" => ~o
    BY <1>2, <2>1, <2>3, <2>4, PersonDecided
  <2> QED BY <1>4, <1>5, <2>2, <2>5
<1>10. answer \in Answer /\ held' \in Nat /\ (answer.status = 200 => held' = 0)
  BY <1>1, <1>2, <1>8, <1>9 DEF Decided, Minted
<1>11. /\ call'.at = "exchanged" /\ call' \in Call
       /\ call'.token = call.token /\ call'.jkt = call.jkt /\ call'.answer = answer
  BY <1>1, <1>2, <1>10 DEF Call
<1>12. answer.status = 202 =>
         /\ person' \in PersonRecord
         /\ person'.agent = k /\ person'.own = own /\ person'.snapshot = answer
         /\ person'.federated <=> decision = "federate"
  <2> SUFFICES ASSUME answer.status = 202
               PROVE  /\ person' \in PersonRecord
                      /\ person'.agent = k /\ person'.own = own /\ person'.snapshot = answer
                      /\ person'.federated <=> decision = "federate"
    OBVIOUS
  <2>1. PICK f \in BOOLEAN : f <=> decision = "federate"
    OBVIOUS
  <2>2. TTL \in -1..TTL
    BY FlowAssumption
  <2>3. person' = [expires_at |-> TTL, agent |-> k, own |-> own,
                   federated |-> f, snapshot |-> answer]
    <3>1. f = (decision = "federate")
      BY <2>1
    <3> QED BY <1>1, <3>1
  <2>4. person' \in PersonRecord
    BY <1>1, <1>2, <1>10, <2>2, <2>3 DEF PersonRecord
  <2> QED BY <2>1, <2>3, <2>4
<1>13. answer.status # 202 => person' = None
  BY <1>1, <1>3
<1>14. access' \in Key \cup {None} /\ (decision = "federate" /\ answer.status = 202 => access' = k)
  BY <1>1, <1>2 DEF AccessAfter
<1>15. FlowTypes'
  BY <1>1, <1>2, <1>3, <1>7, <1>10, <1>11, <1>12, <1>13, <1>14 DEF FlowTypes
<1>16. SingleToken'
  BY <1>1, <1>3, <1>11, <1>12, <1>13 DEF SingleToken
<1>17. KeysInOrder'
  <2>1. answer.status \in {200, 202} => checks = {}
    BY <1>8
  <2> QED BY <1>1, <1>2, <1>3, <1>4, <1>7, <1>11, <2>1 DEF KeysInOrder
<1>18. AnswersFit'
  <2>1. answer.status = 401 => failed' # {}
    BY <1>6, <1>9
  <2>2. answer.status = 200 =>
          /\ answer.token.cnf = call.jkt /\ answer.token.iss = call.token.aud
          /\ answer.token.exp >= AuthLife - held'
    BY <1>8, <1>9, <1>10, LifeAssumption DEF Decided
  <2>3. answer.status = 202 => k = call.jkt /\ (decision = "federate" => ~own)
    BY <1>8, <1>9
  <2>4. FitsCall(call.answer)' /\ (call'.answer.status = 401 => failed' # {})
    BY <1>11, <2>1, <2>2 DEF FitsCall
  <2>5. CASE answer.status = 202
    <3>1. /\ person'.snapshot.status = 202 /\ person'.agent = call'.jkt
          /\ person'.own = own /\ (person'.federated <=> decision = "federate")
      BY <1>11, <1>12, <2>3, <2>5
    <3>2. FitsCall(person.snapshot)'
      BY <3>1 DEF FitsCall
    <3>3. person'.own <=> call'.token.aud = "person"
      BY <1>11, <3>1
    <3>4. decision = "federate" => access' = call'.jkt
      BY <1>11, <1>14, <2>3, <2>5
    <3>5. person'.federated => ~person'.own /\ access' = call'.jkt
      BY <2>3, <2>5, <3>1, <3>4
    <3> QED BY <2>4, <3>1, <3>2, <3>3, <3>5 DEF AnswersFit
  <2>6. CASE answer.status # 202
    BY <1>13, <2>4, <2>6 DEF AnswersFit
  <2> QED BY <2>5, <2>6
<1>19. AgesAgree'
  BY <1>1, <1>3, <1>11 DEF AgesAgree
<1>20. ChecksAgree'
  BY <1>6, <1>9, <1>11 DEF ChecksAgree, Timely
<1> QED BY <1>15, <1>16, <1>17, <1>18, <1>19, <1>20 DEF FlowInv

\* The end of an exchange: a token for the call is taken into the cache.
LEMMA ReceiveStep ==
  ASSUME FlowInv, NEW t \in AuthClaims, Receive(t), call.token \in ResourceClaims,
         cached = None, t.cnf = call.jkt, t.iss = call.token.aud, t.exp >= AuthLife - held,
         mismatched <= call.jkt, call.jkt <= key,
         person' = None, access' \in {access, None},
         loop' = [c \in {Caller} |-> loop'[c]], loop'[Caller] = Poll!Off,
         UNCHANGED <<wiring, key, held, flight>>
  PROVE  FlowInv'
<1> DEFINE checks == VerifyClientAuthToken(t, "resource", call.token.aud, Agent, call.jkt)
<1>1. /\ Note(checks)
      /\ \/ call' = Idle /\ cached' = None
         \/ call' = Attempt /\ cached' = [token |-> t, left |-> AuthLife]
  BY DEF Receive
<1>2. checks \subseteq Timely
  BY ReceivedChecks
<1> HIDE DEF checks
<1>3. mismatched \in Nat /\ held \in Nat
  BY DEF FlowInv, FlowTypes
<1>4. failed' \subseteq Timely /\ mismatched' = mismatched
  BY <1>1, <1>2, <1>3, NoteEffect, TimelyIsNoKey
<1>5. call'.at \in {"idle", "attempt"} /\ call' \in Call
  BY <1>1 DEF Idle, Attempt, Call
<1>6. cached' # None =>
        /\ cached' \in [token : AuthClaims, left : 0..AuthLife]
        /\ cached'.token = t /\ cached'.left = AuthLife
  BY <1>1, LifeAssumption
<1>7. FlowTypes'
  BY <1>4, <1>5, <1>6 DEF FlowInv, FlowTypes
<1>8. SingleToken'
  BY <1>5 DEF SingleToken
<1>9. KeysInOrder'
  <2>1. mismatched <= key
    BY DEF FlowInv, KeysInOrder
  <2> QED BY <1>4, <1>5, <1>6, <2>1 DEF KeysInOrder
<1>10. AnswersFit'
  BY <1>5 DEF AnswersFit
<1>11. AgesAgree'
  BY <1>5, <1>6 DEF AgesAgree
<1>12. ChecksAgree'
  BY <1>4, <1>5 DEF ChecksAgree, Timely
<1> QED BY <1>7, <1>8, <1>9, <1>10, <1>11, <1>12 DEF FlowInv

LEMMA HearStep == FlowInv /\ HearExchange => FlowInv'
<1> SUFFICES ASSUME FlowInv, HearExchange PROVE FlowInv'
  OBVIOUS
<1>1. /\ call.at = "exchanged"
      /\ UNCHANGED <<wiring, key, person, access, held, flight>>
  BY DEF HearExchange, servers
<1>2. call.token \in ResourceClaims /\ call.jkt \in Key /\ call.answer \in Answer
  BY <1>1, CallKinds DEF FlowInv, FlowTypes
<1>3. /\ cached = None /\ loop[Caller] = Poll!Off /\ loop = [c \in {Caller} |-> loop[c]]
      /\ call.answer.status # 202 => person = None
  BY <1>1 DEF FlowInv, SingleToken, FlowTypes
<1>4. CASE call.answer.status = 200
  <2>1. Receive(call.answer.token) /\ UNCHANGED loop
    BY <1>4 DEF HearExchange
  <2>2. call.answer.token \in AuthClaims
    BY <1>2, <1>4, AnswerKinds
  <2>3. /\ call.answer.token.cnf = call.jkt /\ call.answer.token.iss = call.token.aud
        /\ call.answer.token.exp >= AuthLife - held
    BY <1>1, <1>4 DEF FlowInv, AnswersFit, FitsCall
  <2>4. mismatched <= call.jkt /\ call.jkt <= key
    BY <1>1, <1>4 DEF FlowInv, KeysInOrder
  <2>5. person' = None /\ access' = access /\ loop' = [c \in {Caller} |-> loop'[c]]
          /\ loop'[Caller] = Poll!Off
    BY <1>1, <1>3, <1>4, <2>1
  <2> QED BY <1>1, <1>2, <1>3, <2>1, <2>2, <2>3, <2>4, <2>5, ReceiveStep
<1>5. CASE call.answer.status = 202
  <2>1. /\ call' = [at |-> "polling", token |-> call.token, jkt |-> call.jkt]
        /\ Poll!Start(Caller, "pending")
        /\ UNCHANGED <<cached, failed, mismatched>>
    BY <1>5 DEF HearExchange
  <2>2. loop' = [c \in {Caller} |-> loop'[c]]
    BY <2>1, MoveEffect DEF FlowInv, Poll!Start
  <2>3. /\ call'.at = "polling" /\ call' \in Call
        /\ call'.token = call.token /\ call'.jkt = call.jkt
    BY <1>2, <2>1 DEF Call
  <2>4. FlowTypes'
    BY <1>1, <2>1, <2>2, <2>3 DEF FlowInv, FlowTypes
  <2>5. SingleToken'
    BY <1>3, <2>1, <2>3 DEF SingleToken
  <2>6. KeysInOrder'
    BY <1>1, <1>3, <1>5, <2>1, <2>3 DEF FlowInv, KeysInOrder
  <2>7. AnswersFit'
    BY <1>1, <2>1, <2>3 DEF FlowInv, AnswersFit, FitsCall
  <2>8. AgesAgree' /\ ChecksAgree'
    BY <1>3, <2>1, <2>3 DEF FlowInv, AgesAgree, ChecksAgree
  <2> QED BY <2>4, <2>5, <2>6, <2>7, <2>8 DEF FlowInv
<1>6. CASE call.answer.status \notin {200, 202}
  <2>1. call' = Idle /\ UNCHANGED <<cached, loop, failed, mismatched>>
    BY <1>6 DEF HearExchange
  <2>2. mismatched \in Nat /\ mismatched <= key /\ failed \subseteq Timely \cup KeyChecks
    BY DEF FlowInv, FlowTypes, KeysInOrder, ChecksAgree, Timely
  <2> QED BY <1>1, <1>3, <1>6, <2>1, <2>2, EndsQuietly
<1> QED BY <1>4, <1>5, <1>6

-----------------------------------------------------------------------------
(* The pending url *)

\* What the invariant says of a record while the call polls it.
FitsRecord(r) ==
  /\ FitsCall(r.snapshot)
  /\ r.agent = call.jkt
  /\ r.own <=> call.token.aud = "person"
  /\ r.federated => ~r.own /\ access = call.jkt

\* A step of the record, the call polling.
LEMMA RecordStep ==
  ASSUME FlowInv, call.at = "polling",
         UNCHANGED <<wiring, key, call, cached, flight, failed, mismatched>>,
         loop' = [c \in {Caller} |-> loop'[c]],
         person' \in PersonRecord \cup {None}, access' \in Key \cup {None}, held' \in Nat,
         person' # None => FitsRecord(person)'
  PROVE  FlowInv'
<1>1. call'.at = "polling" /\ cached' = None
  BY DEF FlowInv, SingleToken
<1>2. FlowTypes'
  BY DEF FlowInv, FlowTypes
<1>3. SingleToken'
  BY <1>1 DEF SingleToken
<1>4. KeysInOrder'
  BY DEF FlowInv, KeysInOrder
<1>5. AnswersFit'
  BY <1>1 DEF AnswersFit, FitsRecord
<1>6. AgesAgree' /\ ChecksAgree'
  BY <1>1 DEF FlowInv, AgesAgree, ChecksAgree
<1> QED BY <1>2, <1>3, <1>4, <1>5, <1>6 DEF FlowInv

\* The record takes an answer that was decided for its key, or stays.
LEMMA RecordTakes ==
  ASSUME FlowInv, call.at = "polling", person # None,
         NEW a, Decided(a, call.jkt, call.token.aud), NEW f \in BOOLEAN,
         Minted(a), person' = PersonAfter(a, f),
         UNCHANGED <<wiring, key, call, cached, flight, failed, mismatched>>,
         loop' = [c \in {Caller} |-> loop'[c]], access' \in Key \cup {None},
         f /\ a.status \in {200, 202, 403} => ~person.own /\ access' = call.jkt,
         a.status \notin {200, 202, 403} => access' = access
  PROVE  FlowInv'
<1>1. person \in PersonRecord /\ held \in Nat /\ a \in Answer
  BY DEF FlowInv, FlowTypes, Decided
<1>2. FitsRecord(person)
  BY DEF FlowInv, AnswersFit, FitsRecord
<1>3. held' \in Nat /\ (a.status = 200 => held' = 0) /\ (a.status # 200 => held' = held)
  BY <1>1 DEF Minted
<1>4. CASE a.status \in {200, 202, 403}
  <2>1. person' = [person EXCEPT !.snapshot = a, !.federated = f]
    BY <1>4 DEF PersonAfter
  <2>2. /\ person' \in PersonRecord /\ person'.snapshot = a /\ person'.federated = f
        /\ person'.agent = person.agent /\ person'.own = person.own
    BY <1>1, <2>1 DEF PersonRecord
  <2>3. FitsCall(person.snapshot)'
    BY <1>3, <2>2, LifeAssumption DEF Decided, FitsCall
  <2>4. FitsRecord(person)'
    BY <1>2, <1>4, <2>2, <2>3 DEF FitsRecord
  <2> QED BY <1>3, <2>2, <2>4, RecordStep
<1>5. CASE a.status \notin {200, 202, 403}
  <2>1. person' = person /\ held' = held /\ access' = access
    BY <1>3, <1>5 DEF PersonAfter
  <2>2. FitsRecord(person)'
    BY <1>2, <2>1 DEF FitsRecord, FitsCall
  <2> QED BY <1>1, <1>3, <2>1, <2>2, RecordStep
<1> QED BY <1>4, <1>5

LEMMA DecideStep ==
  ASSUME FlowInv, call.at = "polling", person # None,
         NEW input, Decide(Policy!PersonDecides(wiring.person, input, person.own)),
         UNCHANGED <<wiring, key, call, cached, flight, failed, mismatched>>,
         loop' = [c \in {Caller} |-> loop'[c]]
  PROVE  FlowInv'
<1> PICK k : k = person.agent
  OBVIOUS
<1> PICK own : own = person.own
  OBVIOUS
<1> PICK t : t = call.token
  OBVIOUS
<1> PICK decision : decision = Policy!PersonDecides(wiring.person, input, own)
  OBVIOUS
<1> PICK a : a = ApplyPersonDecision(decision, AgentTokenFor(k), t)
  OBVIOUS
<1>1. /\ Minted(a)
      /\ person' = PersonAfter(a, decision = "federate" /\ a.status = 202)
      /\ access' = AccessAfter(decision, a, k)
  BY DEF Decide
<1>2. /\ person \in PersonRecord /\ wiring \in Wiring /\ t \in ResourceClaims
      /\ access \in Key \cup {None} /\ k \in Key /\ own \in BOOLEAN
  BY CallKinds DEF FlowInv, FlowTypes, PersonRecord
<1>3. FitsRecord(person)
  BY DEF FlowInv, AnswersFit, FitsRecord
<1>4. k = call.jkt /\ (own <=> t.aud = "person")
  BY <1>3 DEF FitsRecord
<1>5. Decided(a, k, t.aud) /\ a.status \in {200, 202, 403, 500} /\ (decision = "federate" => ~own)
  BY <1>2, <1>4, PersonDecided
<1>6. PICK f \in BOOLEAN : f <=> decision = "federate" /\ a.status = 202
  OBVIOUS
<1>7. f = (decision = "federate" /\ a.status = 202)
  BY <1>6
<1>8. person' = PersonAfter(a, f)
  BY <1>1, <1>7
<1>9. /\ access' \in Key \cup {None}
      /\ decision = "federate" /\ a.status = 202 => access' = k
      /\ a.status # 202 => access' = access
  BY <1>1, <1>2 DEF AccessAfter
<1>10. ~person.own <=> ~own
  OBVIOUS
<1>11. f => ~person.own /\ access' = call.jkt
  BY <1>4, <1>5, <1>6, <1>9, <1>10
<1>12. Decided(a, call.jkt, call.token.aud)
  BY <1>4, <1>5
<1> QED BY <1>1, <1>8, <1>9, <1>11, <1>12, RecordTakes

LEMMA PostOnStep ==
  ASSUME FlowInv, call.at = "polling", person # None, person.federated,
         NEW input, PostOn(input),
         UNCHANGED <<wiring, key, call, cached, flight, failed, mismatched>>,
         loop' = [c \in {Caller} |-> loop'[c]]
  PROVE  FlowInv'
<1> PICK decision : decision = Policy!AccessDecides(wiring.access, input)
  OBVIOUS
<1> PICK a : a = Federated(decision, AgentTokenFor(access), 502)
  OBVIOUS
<1>1. Minted(a) /\ person' = PersonAfter(a, TRUE) /\ access' = access
  BY DEF PostOn
<1>2. FitsRecord(person)
  BY DEF FlowInv, AnswersFit, FitsRecord
<1>3. ~person.own /\ access = call.jkt
  BY <1>2 DEF FitsRecord
<1>4. wiring.access \in Policy!AccessTokenPolicy /\ call.token \in ResourceClaims
        /\ call.jkt \in Key
  BY CallKinds DEF FlowInv, FlowTypes, Wiring
<1>5. decision \in Policy!Decision
  BY <1>4, AccessDecisions
<1>6. call.token.aud = "access"
  <2>1. ~(call.token.aud = "person")
    BY <1>2, <1>3 DEF FitsRecord
  <2> QED BY <1>4, <2>1, Issuers
<1>7. PICK k : k = access
  OBVIOUS
<1>8. k \in Key /\ a = Federated(decision, AgentTokenFor(k), 502)
  BY <1>3, <1>4, <1>7
<1>9. Decided(a, k, "access")
  BY <1>5, <1>8, FederatedDecided
<1>10. Decided(a, call.jkt, call.token.aud)
  BY <1>3, <1>6, <1>7, <1>9
<1>11. PICK f \in BOOLEAN : f
  OBVIOUS
<1>12. person' = PersonAfter(a, f)
  <2>1. f = TRUE
    BY <1>11
  <2> QED BY <1>1, <2>1
<1>13. access' \in Key \cup {None}
  BY <1>1, <1>3, <1>4
<1> QED BY <1>1, <1>3, <1>10, <1>12, <1>13, RecordTakes

LEMMA ResumeStep ==
  ASSUME FlowInv, call.at = "polling", NEW input, Resume(input),
         UNCHANGED <<wiring, key, call, cached, flight, failed, mismatched>>,
         loop' = [c \in {Caller} |-> loop'[c]]
  PROVE  FlowInv'
<1>1. CASE ~Live
  <2>1. person' = None /\ access' = access /\ held' = held
    BY <1>1 DEF Resume
  <2>2. access \in Key \cup {None} /\ held \in Nat
    BY DEF FlowInv, FlowTypes
  <2> QED BY <2>1, <2>2, RecordStep
<1>2. CASE Live /\ person.federated
  <2>1. PostOn(input) /\ person # None
    BY <1>2 DEF Resume, Live, Pending
  <2> QED BY <1>2, <2>1, PostOnStep
<1>3. CASE Live /\ ~person.federated
  <2>1. Decide(Policy!PersonDecides(wiring.person, input, person.own)) /\ person # None
    BY <1>3 DEF Resume, Live, Pending
  <2> QED BY <2>1, DecideStep
<1> QED BY <1>1, <1>2, <1>3

LEMMA PostPendingStep ==
  ASSUME FlowInv, NEW body, PostPending(body)
  PROVE  FlowInv'
<1>1. /\ call.at = "polling" /\ Resume(Policy!ParsePendingPostBody(body))
      /\ UNCHANGED <<wiring, key, call, cached, loop, flight, failed, mismatched>>
  BY DEF PostPending, Live, Pending
<1>2. loop' = [c \in {Caller} |-> loop'[c]]
  BY <1>1 DEF FlowInv, FlowTypes
<1> QED BY <1>1, <1>2, ResumeStep

LEMMA CallbackStep ==
  ASSUME FlowInv, NEW error \in BOOLEAN, InteractionCallback(error)
  PROVE  FlowInv'
<1>1. /\ call.at = "polling" /\ person # None
      /\ UNCHANGED <<wiring, key, call, cached, loop, flight, failed, mismatched>>
  BY DEF InteractionCallback, Live, Pending
<1>2. loop' = [c \in {Caller} |-> loop'[c]]
  BY <1>1 DEF FlowInv, FlowTypes
<1>3. CASE error
  <2>1. person' = PersonAfter(Refused(403), person.federated) /\ access' = access /\ held' = held
    BY <1>3 DEF InteractionCallback
  <2>2. Refused(403) \in Answer /\ Refused(403).status = 403
    BY AnswerTypes
  <2>3. Decided(Refused(403), call.jkt, call.token.aud) /\ Minted(Refused(403))
    BY <2>1, <2>2 DEF Decided, Minted
  <2>4. person \in PersonRecord /\ access \in Key \cup {None}
    BY <1>1 DEF FlowInv, FlowTypes
  <2>5. person.federated \in BOOLEAN
    BY <2>4 DEF PersonRecord
  <2>6. person.federated => ~person.own /\ access' = call.jkt
    BY <1>1, <2>1 DEF FlowInv, AnswersFit
  <2>7. PICK f \in BOOLEAN : f = person.federated
    BY <2>5
  <2>8. f => ~person.own /\ access' = call.jkt
    BY <2>6, <2>7
  <2>9. person' = PersonAfter(Refused(403), f)
    BY <2>1, <2>7
  <2> QED BY <1>1, <1>2, <2>1, <2>3, <2>4, <2>8, <2>9, RecordTakes
<1>4. CASE ~error
  <2>1. Decide(Policy!PersonDecides(wiring.person, None, person.own))
    BY <1>4 DEF InteractionCallback
  <2> QED BY <1>1, <1>2, <2>1, DecideStep
<1> QED BY <1>3, <1>4

\* Whoever has a loop is polling.
LEMMA Polls ==
  ASSUME FlowInv, loop[Caller].at # "off"
  PROVE  call.at = "polling" /\ cached = None
  BY PollsOff DEF FlowInv, SingleToken

LEMMA ClarifyStep == FlowInv /\ AnswerClarification => FlowInv'
<1> SUFFICES ASSUME FlowInv, AnswerClarification PROVE FlowInv'
  OBVIOUS
<1>1. /\ Poll!HearAnswer(Caller) /\ Resume("clarification")
      /\ UNCHANGED <<wiring, key, call, cached, flight, failed, mismatched>>
  BY DEF AnswerClarification
<1>2. call.at = "polling"
  BY <1>1, Polls DEF Poll!HearAnswer
<1>3. loop' = [c \in {Caller} |-> loop'[c]]
  BY <1>1, MoveEffect DEF FlowInv, Poll!HearAnswer
<1> QED BY <1>1, <1>2, <1>3, ResumeStep

LEMMA HearPollStep == FlowInv /\ HearPoll => FlowInv'
<1> SUFFICES ASSUME FlowInv, HearPoll PROVE FlowInv'
  OBVIOUS
<1> PICK answer : answer = PollAnswer
  OBVIOUS
<1> PICK reading : reading = Poll!Reading(answer.status, IF answer.status = 202 THEN 0 ELSE None,
                                          answer.requirement)
  OBVIOUS
<1>1. /\ Poll!Hear(Caller, reading)
      /\ IF Poll!Ends(reading)
         THEN /\ Forget
              /\ IF answer.status = 200 THEN Receive(answer.token)
                 ELSE call' = Idle /\ UNCHANGED <<cached, failed, mismatched>>
         ELSE UNCHANGED <<call, cached, person, access, failed, mismatched>>
      /\ UNCHANGED <<wiring, key, held, flight>>
  BY DEF HearPoll, servers
<1>2. loop[Caller].at # "off" /\ call.at = "polling" /\ cached = None
  BY <1>1, Polls DEF Poll!Hear
<1>3. call.token \in ResourceClaims /\ call.jkt \in Key /\ person \in PersonRecord \cup {None}
  BY <1>2, CallKinds DEF FlowInv, FlowTypes
<1>4. CASE Poll!Ends(reading)
  <2>1. Poll!Move(Caller, Poll!Off)
    BY <1>1, <1>4 DEF Poll!Hear
  <2>2. loop' = [c \in {Caller} |-> loop'[c]] /\ loop'[Caller] = Poll!Off
    BY <2>1, MoveEffect DEF FlowInv
  <2>3. person' = None /\ access' = None
    BY <1>1, <1>4 DEF Forget
  <2>4. CASE answer.status = 200
    <3>1. Receive(answer.token)
      BY <1>1, <1>4, <2>4
    <3>2. Live /\ person # None /\ answer = person.snapshot
      BY <2>4 DEF PollAnswer, Refused, Live, Pending
    <3>3. answer \in Answer /\ FitsCall(answer)
      BY <1>3, <3>2 DEF FlowInv, AnswersFit, PersonRecord
    <3>4. answer.token \in AuthClaims
      BY <2>4, <3>3, AnswerKinds
    <3>5. mismatched <= call.jkt /\ call.jkt <= key
      BY <1>2 DEF FlowInv, KeysInOrder
    <3> QED BY <1>1, <1>2, <1>3, <2>2, <2>3, <2>4, <3>1, <3>3, <3>4, <3>5, ReceiveStep DEF FitsCall
  <2>5. CASE answer.status # 200
    <3>1. call' = Idle /\ UNCHANGED <<cached, failed, mismatched>>
      BY <1>1, <1>4, <2>5
    <3>2. mismatched \in Nat /\ mismatched <= key /\ failed \subseteq Timely \cup KeyChecks
      BY DEF FlowInv, FlowTypes, KeysInOrder, ChecksAgree, Timely
    <3> QED BY <1>1, <1>2, <2>2, <2>3, <3>1, <3>2, EndsQuietly
  <2> QED BY <2>4, <2>5
<1>5. CASE ~Poll!Ends(reading)
  <2>1. \E l : Poll!Move(Caller, l)
    BY <1>1 DEF Poll!Hear
  <2> QED BY <1>1, <1>2, <1>5, <2>1, LoopMoves
<1> QED BY <1>4, <1>5

-----------------------------------------------------------------------------
(* Time goes by *)

LEMMA AnswerLater ==
  ASSUME NEW a \in Answer
  PROVE  /\ OlderAnswer(a) \in Answer /\ OlderAnswer(a).status = a.status
         /\ a.status = 200 =>
              /\ OlderAnswer(a).token.cnf = a.token.cnf
              /\ OlderAnswer(a).token.iss = a.token.iss
              /\ a.token.exp \in Int /\ OlderAnswer(a).token.exp \in Int
              /\ OlderAnswer(a).token.exp >= a.token.exp - 1
<1>1. CASE a.status = 200
  <2>1. a.token \in AuthClaims /\ a.token # None /\ a.requirement = None
    BY <1>1, AnswerKinds DEF Answer
  <2>2. PICK t : t = Older(a.token)
    OBVIOUS
  <2>3. t \in AuthClaims /\ t.cnf = a.token.cnf /\ t.iss = a.token.iss
          /\ a.token.exp \in Int /\ t.exp \in Int /\ t.exp >= a.token.exp - 1
    BY <2>1, <2>2, OlderAuth
  <2>4. OlderAnswer(a) = [a EXCEPT !.token = t]
    BY <2>1, <2>2 DEF OlderAnswer
  <2>5. a \in [status : {200}, token : AuthClaims, requirement : {None}]
    BY <1>1 DEF Answer
  <2>6. OlderAnswer(a) \in Answer /\ OlderAnswer(a).status = 200 /\ OlderAnswer(a).token = t
    BY <2>3, <2>4, <2>5 DEF Answer
  <2> QED BY <1>1, <2>3, <2>6
<1>2. CASE a.status # 200
  BY <1>2, AnswerKinds DEF OlderAnswer
<1> QED BY <1>1, <1>2

LEMMA CallLaterKinds ==
  ASSUME call \in Call
  PROVE  /\ CallLater \in Call /\ CallLater.at = call.at
         /\ call.at = "sent" =>
              /\ CallLater.signed = call.signed
              /\ CallLater.token = None <=> call.token = None
              /\ call.token # None => call.token \in AuthClaims /\ CallLater.token = Older(call.token)
         /\ call.at \in {"challenged", "verified", "exchange", "exchanged", "polling"} =>
              /\ CallLater.token.agent_jkt = call.token.agent_jkt
              /\ CallLater.token.aud = call.token.aud
         /\ call.at \in {"verified", "exchange", "exchanged", "polling"} =>
              CallLater.jkt = call.jkt
         /\ call.at = "exchange" => CallLater.signed = call.signed
         /\ call.at = "exchanged" => CallLater.answer = OlderAnswer(call.answer)
<1> PICK t : t = Older(call.token)
  OBVIOUS
<1> PICK c : c = IF call.token = None THEN call ELSE [call EXCEPT !.token = t]
  OBVIOUS
<1>1. CallLater = IF call.at \in {"idle", "attempt"} THEN call
                  ELSE IF call.at = "exchanged" THEN [c EXCEPT !.answer = OlderAnswer(@)] ELSE c
  BY DEF CallLater
<1>2. CASE call.at \in {"idle", "attempt"}
  BY <1>1, <1>2
<1>3. CASE call.at = "sent"
  <2>1. CallLater = c
    BY <1>1, <1>3
  <2>2. call \in [at : {"sent"}, token : AuthClaims \cup {None}, signed : Key]
    BY <1>3, CallKinds
  <2>3. CASE call.token = None
    BY <1>3, <2>1, <2>3
  <2>4. CASE call.token # None
    <3>1. call.token \in AuthClaims /\ t \in AuthClaims /\ t # None
      BY <2>2, <2>4, OlderAuth, ClaimsAssumption
    <3>2. c \in [at : {"sent"}, token : AuthClaims \cup {None}, signed : Key]
            /\ c.token = t /\ c.signed = call.signed
      BY <2>2, <2>4, <3>1
    <3> QED BY <1>3, <2>1, <2>4, <3>1, <3>2 DEF Call
  <2> QED BY <2>3, <2>4
<1>4. CASE call.at = "challenged"
  <2>1. call \in [at : {"challenged"}, token : ResourceClaims] /\ CallLater = c
    BY <1>1, <1>4, CallKinds
  <2>2. t \in ResourceClaims /\ t.agent_jkt = call.token.agent_jkt /\ t.aud = call.token.aud
    BY <2>1, OlderResource
  <2>3. c \in [at : {"challenged"}, token : ResourceClaims]
          /\ c.token.agent_jkt = call.token.agent_jkt /\ c.token.aud = call.token.aud
    BY <2>1, <2>2
  <2> QED BY <1>4, <2>1, <2>3 DEF Call
<1>5. CASE call.at \in {"verified", "polling"}
  <2>1. call \in [at : {"verified", "polling"}, token : ResourceClaims, jkt : Key]
          /\ CallLater = c
    BY <1>1, <1>5, CallKinds
  <2>2. t \in ResourceClaims /\ t.agent_jkt = call.token.agent_jkt /\ t.aud = call.token.aud
    BY <2>1, OlderResource
  <2>3. c \in [at : {"verified", "polling"}, token : ResourceClaims, jkt : Key]
          /\ c.at = call.at /\ c.jkt = call.jkt
          /\ c.token.agent_jkt = call.token.agent_jkt /\ c.token.aud = call.token.aud
    BY <2>1, <2>2
  <2> QED BY <1>5, <2>1, <2>3 DEF Call
<1>6. CASE call.at = "exchange"
  <2>1. call \in [at : {"exchange"}, token : ResourceClaims, jkt : Key, signed : Key]
          /\ CallLater = c
    BY <1>1, <1>6, CallKinds
  <2>2. t \in ResourceClaims /\ t.agent_jkt = call.token.agent_jkt /\ t.aud = call.token.aud
    BY <2>1, OlderResource
  <2>3. c \in [at : {"exchange"}, token : ResourceClaims, jkt : Key, signed : Key]
          /\ c.jkt = call.jkt /\ c.signed = call.signed
          /\ c.token.agent_jkt = call.token.agent_jkt /\ c.token.aud = call.token.aud
    BY <2>1, <2>2
  <2> QED BY <1>6, <2>1, <2>3 DEF Call
<1>7. CASE call.at = "exchanged"
  <2>1. call \in [at : {"exchanged"}, token : ResourceClaims, jkt : Key, answer : Answer]
    BY <1>7, CallKinds
  <2>2. t \in ResourceClaims /\ t.agent_jkt = call.token.agent_jkt /\ t.aud = call.token.aud
    BY <2>1, OlderResource
  <2>3. c \in [at : {"exchanged"}, token : ResourceClaims, jkt : Key, answer : Answer]
          /\ c.jkt = call.jkt /\ c.answer = call.answer
          /\ c.token.agent_jkt = call.token.agent_jkt /\ c.token.aud = call.token.aud
    BY <2>1, <2>2
  <2>4. PICK a : a = OlderAnswer(call.answer)
    OBVIOUS
  <2>5. a \in Answer
    BY <2>1, <2>4, AnswerLater
  <2>6. CallLater = [c EXCEPT !.answer = a]
    BY <1>1, <1>7, <2>3, <2>4
  <2>7. CallLater \in [at : {"exchanged"}, token : ResourceClaims, jkt : Key, answer : Answer]
          /\ CallLater.jkt = call.jkt /\ CallLater.answer = a
          /\ CallLater.token = c.token
    BY <2>3, <2>5, <2>6
  <2> QED BY <1>7, <2>3, <2>4, <2>7 DEF Call
<1> QED BY <1>2, <1>3, <1>4, <1>5, <1>6, <1>7, CallKinds

LEMMA CachedLaterKinds ==
  ASSUME cached \in [token : AuthClaims, left : 0..AuthLife] \cup {None}
  PROVE  /\ CachedLater \in [token : AuthClaims, left : 0..AuthLife] \cup {None}
         /\ cached = None => CachedLater = None
         /\ cached # None =>
              /\ CachedLater \in [token : AuthClaims, left : 0..AuthLife]
              /\ CachedLater.token.cnf = cached.token.cnf
              /\ cached.left \in Nat /\ CachedLater.left \in Nat
              /\ cached.token.exp \in Int /\ CachedLater.token.exp \in Int
              /\ CachedLater.token.exp >= cached.token.exp - 1
              /\ CachedLater.left > 0 => cached.left > 0 /\ CachedLater.left = cached.left - 1
<1> SUFFICES ASSUME cached # None
             PROVE  /\ CachedLater \in [token : AuthClaims, left : 0..AuthLife]
                    /\ CachedLater.token.cnf = cached.token.cnf
                    /\ cached.left \in Nat /\ CachedLater.left \in Nat
                    /\ cached.token.exp \in Int /\ CachedLater.token.exp \in Int
                    /\ CachedLater.token.exp >= cached.token.exp - 1
                    /\ CachedLater.left > 0 => cached.left > 0 /\ CachedLater.left = cached.left - 1
  BY DEF CachedLater
<1>1. cached.token \in AuthClaims /\ cached.left \in 0..AuthLife
  OBVIOUS
<1>2. PICK t : t = Older(cached.token)
  OBVIOUS
<1>3. t \in AuthClaims /\ t.cnf = cached.token.cnf /\ cached.token.exp \in Int /\ t.exp \in Int
        /\ t.exp >= cached.token.exp - 1
  BY <1>1, <1>2, OlderAuth
<1>4. PICK n : n = Poll!Less(cached.left)
  OBVIOUS
<1>5. n \in 0..AuthLife /\ (n > 0 => cached.left > 0 /\ n = cached.left - 1)
  BY <1>1, <1>4, LifeAssumption DEF Poll!Less
<1>6. CachedLater = [token |-> t, left |-> n]
  BY <1>2, <1>4 DEF CachedLater
<1> QED BY <1>1, <1>3, <1>5, <1>6, LifeAssumption

LEMMA PersonLaterKinds ==
  ASSUME person \in PersonRecord \cup {None}
  PROVE  /\ PersonLater \in PersonRecord \cup {None}
         /\ person = None => PersonLater = None
         /\ person # None =>
              /\ PersonLater.agent = person.agent
              /\ PersonLater.own = person.own /\ PersonLater.federated = person.federated
              /\ person.snapshot \in Answer
              /\ PersonLater.snapshot = OlderAnswer(person.snapshot)
<1> SUFFICES ASSUME person # None
             PROVE  /\ PersonLater \in PersonRecord
                    /\ PersonLater.agent = person.agent
                    /\ PersonLater.own = person.own /\ PersonLater.federated = person.federated
                    /\ person.snapshot \in Answer
                    /\ PersonLater.snapshot = OlderAnswer(person.snapshot)
  BY DEF PersonLater
<1>1. person.snapshot \in Answer /\ person.expires_at \in -1..TTL
  BY DEF PersonRecord
<1>2. PICK a : a = OlderAnswer(person.snapshot)
  OBVIOUS
<1>3. a \in Answer
  BY <1>1, <1>2, AnswerLater
<1>4. PICK e : e = IF person.expires_at < 0 THEN person.expires_at ELSE person.expires_at - 1
  OBVIOUS
<1>5. e \in -1..TTL
  BY <1>1, <1>4, FlowAssumption
<1>6. PersonLater = [person EXCEPT !.expires_at = e, !.snapshot = a]
  BY <1>2, <1>4 DEF PersonLater
<1> QED BY <1>1, <1>2, <1>3, <1>5, <1>6 DEF PersonRecord

LEMMA TickStep == FlowInv /\ Tick => FlowInv'
<1> SUFFICES ASSUME FlowInv, Tick PROVE FlowInv'
  OBVIOUS
<1>1. /\ call' = CallLater /\ cached' = CachedLater /\ person' = PersonLater
      /\ loop' = [c \in {Caller} |-> Poll!Later(loop[c])]
      /\ held' = IF OnItsWayToCache THEN held + 1 ELSE IF cached = None THEN 0 ELSE held
      /\ flight' = IF call.at = "sent" THEN flight + 1 ELSE 0
      /\ UNCHANGED <<wiring, key, access, failed, mismatched>>
  BY DEF Tick, Poll!LoopTick
<1>2. /\ call \in Call /\ person \in PersonRecord \cup {None}
      /\ cached \in [token : AuthClaims, left : 0..AuthLife] \cup {None}
      /\ held \in Nat /\ flight \in Nat /\ Margin \in Nat
  BY FlowAssumption DEF FlowInv, FlowTypes
<1>3. loop' = [c \in {Caller} |-> loop'[c]] /\ (loop'[Caller] # Poll!Off => loop[Caller] # Poll!Off)
  BY <1>1 DEF Poll!Later
<1>4. FlowTypes'
  <2>1. held' \in Nat /\ flight' \in Nat
    BY <1>1, <1>2
  <2> QED BY <1>1, <1>2, <1>3, <2>1, CallLaterKinds, CachedLaterKinds, PersonLaterKinds
       DEF FlowInv, FlowTypes
<1>5. call'.at = call.at
        /\ (call.at = "sent" => (call'.token = None <=> call.token = None))
        /\ (cached = None => cached' = None) /\ (cached' = None => cached = None)
  <2>1. cached # None => cached' # None
    BY <1>1, <1>2, CachedLaterKinds, OptionAssumption
  <2> QED BY <1>1, <1>2, <2>1, CallLaterKinds, CachedLaterKinds
<1>6. SingleToken'
  <2>1. person' # None => person # None /\ person'.snapshot.status = person.snapshot.status
    BY <1>1, <1>2, PersonLaterKinds, AnswerLater
  <2>2. call.at = "exchanged" => call'.answer.status = call.answer.status
    BY <1>1, <1>2, CallKinds, CallLaterKinds, AnswerLater
  <2> QED BY <1>3, <1>5, <2>1, <2>2 DEF FlowInv, SingleToken
<1>7. KeysInOrder'
  <2>1. KeysInOrder
    BY DEF FlowInv
  <2>2. cached' # None => cached # None /\ cached'.token.cnf = cached.token.cnf
    BY <1>1, <1>2, <1>5, CachedLaterKinds
  <2>3. call.at = "sent" =>
          /\ call'.signed = call.signed
          /\ call'.token # None => call.token # None /\ call'.token.cnf = call.token.cnf
    BY <1>1, <1>2, <1>5, CallLaterKinds, OlderAuth
  <2>4. /\ call.at \in {"challenged", "verified", "exchange", "exchanged", "polling"} =>
             call'.token.agent_jkt = call.token.agent_jkt
        /\ call.at \in {"verified", "exchange", "exchanged", "polling"} => call'.jkt = call.jkt
        /\ call.at = "exchange" => call'.signed = call.signed
    BY <1>1, <1>2, CallLaterKinds
  <2>5. call.at = "exchanged" => call'.answer.status = call.answer.status
    BY <1>1, <1>2, CallKinds, CallLaterKinds, AnswerLater
  <2> QED BY <1>1, <1>5, <2>1, <2>2, <2>3, <2>4, <2>5 DEF KeysInOrder
<1>8. AnswersFit'
  <2>1. AnswersFit
    BY DEF FlowInv
  <2>2. ASSUME NEW a \in Answer, FitsCall(a), OnItsWayToCache,
               call.at \in {"exchanged", "polling"},
               NEW b, b = OlderAnswer(a), a.status = 200
        PROVE  /\ b.token.cnf = call'.jkt /\ b.token.iss = call'.token.aud
               /\ b.token.exp >= AuthLife - held'
    <3>1. /\ b.token.cnf = a.token.cnf /\ b.token.iss = a.token.iss
          /\ a.token.exp \in Int /\ b.token.exp \in Int /\ b.token.exp >= a.token.exp - 1
      BY <2>2, AnswerLater
    <3>2. /\ a.token.cnf = call.jkt /\ a.token.iss = call.token.aud
          /\ a.token.exp >= AuthLife - held
      BY <2>2 DEF FitsCall
    <3>3. call'.jkt = call.jkt /\ call'.token.aud = call.token.aud
      BY <1>1, <1>2, <2>2, CallLaterKinds
    <3>4. held' = held + 1
      BY <1>1, <2>2
    <3> QED BY <1>2, <3>1, <3>2, <3>3, <3>4, LifeAssumption
  <2>3. CASE call.at = "exchanged"
    <3>1. /\ call'.answer = OlderAnswer(call.answer) /\ call.answer \in Answer
          /\ call'.answer.status = call.answer.status
      BY <1>1, <1>2, <2>3, CallKinds, CallLaterKinds, AnswerLater
    <3>2. FitsCall(call.answer)'
      <4> SUFFICES ASSUME call'.answer.status = 200
                   PROVE  /\ call'.answer.token.cnf = call'.jkt
                          /\ call'.answer.token.iss = call'.token.aud
                          /\ call'.answer.token.exp >= AuthLife - held'
        BY DEF FitsCall
      <4>1. OnItsWayToCache /\ FitsCall(call.answer)
        BY <2>1, <2>3, <3>1 DEF OnItsWayToCache, AnswersFit
      <4> QED BY <2>2, <2>3, <3>1, <4>1
    <3>3. call'.answer.status = 401 => failed' # {}
      BY <1>1, <2>1, <2>3, <3>1 DEF AnswersFit
    <3>4. person' # None => FitsRecord(person)'
      <4> SUFFICES ASSUME person' # None PROVE FitsRecord(person)'
        OBVIOUS
      <4>1. /\ person # None /\ person.snapshot.status = 202
            /\ person'.snapshot.status = person.snapshot.status
            /\ person'.agent = person.agent /\ person'.own = person.own
            /\ person'.federated = person.federated
        BY <1>1, <1>2, <2>3, PersonLaterKinds, AnswerLater DEF FlowInv, SingleToken
      <4>2. FitsRecord(person)
        BY <2>1, <4>1 DEF AnswersFit, FitsRecord
      <4>3. call'.jkt = call.jkt /\ call'.token.aud = call.token.aud /\ access' = access
        BY <1>1, <1>2, <2>3, CallLaterKinds
      <4>4. FitsCall(person.snapshot)'
        BY <4>1 DEF FitsCall
      <4> QED BY <4>1, <4>2, <4>3, <4>4 DEF FitsRecord
    <3> QED BY <3>2, <3>3, <3>4 DEF AnswersFit, FitsRecord
  <2>4. CASE call.at # "exchanged"
    <3>1. call'.at # "exchanged"
      BY <1>5, <2>4
    <3>2. person' # None => FitsRecord(person)'
      <4> SUFFICES ASSUME person' # None PROVE FitsRecord(person)'
        OBVIOUS
      <4>1. /\ person # None /\ person.snapshot \in Answer
            /\ person'.snapshot = OlderAnswer(person.snapshot)
            /\ person'.snapshot.status = person.snapshot.status
            /\ person'.agent = person.agent /\ person'.own = person.own
            /\ person'.federated = person.federated
        BY <1>1, <1>2, PersonLaterKinds, AnswerLater
      <4>2. call.at = "polling"
        BY <2>4, <4>1 DEF FlowInv, SingleToken
      <4>3. FitsRecord(person)
        BY <2>1, <4>1 DEF AnswersFit, FitsRecord
      <4>4. call'.jkt = call.jkt /\ call'.token.aud = call.token.aud /\ access' = access
        BY <1>1, <1>2, <4>2, CallLaterKinds
      <4>5. FitsCall(person.snapshot)'
        <5> SUFFICES ASSUME person'.snapshot.status = 200
                     PROVE  /\ person'.snapshot.token.cnf = call'.jkt
                            /\ person'.snapshot.token.iss = call'.token.aud
                            /\ person'.snapshot.token.exp >= AuthLife - held'
          BY DEF FitsCall
        <5>1. OnItsWayToCache /\ FitsCall(person.snapshot)
          BY <4>1, <4>2, <4>3 DEF OnItsWayToCache, Pending, FitsRecord
        <5> QED BY <2>2, <4>1, <4>2, <5>1
      <4> QED BY <4>1, <4>3, <4>4, <4>5 DEF FitsRecord
    <3> QED BY <3>1, <3>2 DEF AnswersFit, FitsRecord
  <2> QED BY <2>3, <2>4
<1>9. AgesAgree'
  <2>1. AgesAgree /\ SingleToken
    BY DEF FlowInv
  <2>2. cached # None => held' \in Nat /\ held' >= held
    BY <1>1, <1>2
  <2>3. cached' # None /\ cached'.left > 0 => cached'.token.exp >= cached'.left - held'
    <3> SUFFICES ASSUME cached' # None, cached'.left > 0
                 PROVE  cached'.token.exp >= cached'.left - held'
      OBVIOUS
    <3>1. /\ cached # None /\ cached.left \in Nat /\ cached'.left \in Nat
          /\ cached.token.exp \in Int /\ cached'.token.exp \in Int
          /\ cached'.token.exp >= cached.token.exp - 1
          /\ cached.left > 0 /\ cached'.left = cached.left - 1
      BY <1>1, <1>2, <1>5, CachedLaterKinds
    <3>2. cached.token.exp >= cached.left - held
      BY <2>1, <3>1 DEF AgesAgree
    <3> QED BY <1>2, <2>2, <3>1, <3>2
  <2>4. call'.at = "sent" /\ call'.token # None =>
          call'.token.exp >= Margin + 1 - held' - flight'
    <3> SUFFICES ASSUME call'.at = "sent", call'.token # None
                 PROVE  call'.token.exp >= Margin + 1 - held' - flight'
      OBVIOUS
    <3>1. call.at = "sent" /\ call.token # None /\ cached # None
      BY <1>5, <2>1 DEF SingleToken
    <3>2. call.token \in AuthClaims /\ call'.token = Older(call.token)
      BY <1>1, <1>2, <3>1, CallLaterKinds
    <3>3. /\ call.token.exp \in Int /\ call'.token.exp \in Int
          /\ call'.token.exp >= call.token.exp - 1
      BY <3>2, OlderAuth
    <3>4. call.token.exp >= Margin + 1 - held - flight
      BY <2>1, <3>1 DEF AgesAgree
    <3>5. flight' = flight + 1
      BY <1>1, <3>1
    <3> QED BY <1>2, <2>2, <3>1, <3>3, <3>4, <3>5
  <2> QED BY <2>3, <2>4 DEF AgesAgree
<1>10. ChecksAgree'
  <2>1. call.at = "exchanged" => call'.answer.status = call.answer.status
    BY <1>1, <1>2, CallKinds, CallLaterKinds, AnswerLater
  <2> QED BY <1>1, <1>5, <2>1 DEF FlowInv, ChecksAgree
<1> QED BY <1>4, <1>6, <1>7, <1>8, <1>9, <1>10 DEF FlowInv

-----------------------------------------------------------------------------
(* The invariant, and what follows from it *)

LEMMA FlowInit == Init => FlowInv
<1> SUFFICES ASSUME Init PROVE FlowInv
  OBVIOUS
<1>1. /\ call = Idle /\ cached = None /\ person = None /\ access = None
      /\ held = 0 /\ flight = 0 /\ failed = {} /\ mismatched = 0 /\ key = 0
      /\ wiring \in Wiring /\ loop = [c \in {Caller} |-> Poll!Off]
  BY DEF Init, Poll!LoopInit
<1>2. call.at = "idle" /\ call \in Call
  BY <1>1 DEF Idle, Call
<1>3. FlowTypes
  BY <1>1, <1>2, LifeAssumption DEF FlowTypes, Key
<1> QED BY <1>1, <1>2, <1>3
     DEF FlowInv, SingleToken, KeysInOrder, AnswersFit, AgesAgree, ChecksAgree

LEMMA FlowStep == FlowInv /\ [Next]_vars => FlowInv'
<1> SUFFICES ASSUME FlowInv, [Next]_vars PROVE FlowInv'
  OBVIOUS
<1>1. CASE Begin
  BY <1>1, BeginStep
<1>2. CASE NextAttempt
  BY <1>2, AttemptStep
<1>3. CASE ResourceAnswers
  BY <1>3, ResourceStep
<1>4. CASE VerifyChallenge
  BY <1>4, ChallengeStep
<1>5. CASE SendExchange
  BY <1>5, PostStep
<1>6. CASE PersonAnswers
  BY <1>6, PersonStep
<1>7. CASE HearExchange
  BY <1>7, HearStep
<1>8. CASE \E body \in Policy!PendingPostBody \cup {None} : PostPending(body)
  BY <1>8, PostPendingStep
<1>9. CASE \E error \in BOOLEAN : InteractionCallback(error)
  BY <1>9, CallbackStep
<1>10. CASE SendPoll \/ HearBusy \/ Wake
  BY <1>10, LoopStep
<1>11. CASE HearPoll
  BY <1>11, HearPollStep
<1>12. CASE AnswerClarification
  BY <1>12, ClarifyStep
<1>13. CASE TimeOut \/ Lose
  BY <1>13, ErrorStep DEF TimeOut, Lose
<1>14. CASE Rotate
  BY <1>14, RotateStep
<1>15. CASE Tick
  BY <1>15, TickStep
<1>16. CASE UNCHANGED vars
  BY <1>16 DEF vars, servers, history, FlowInv, FlowTypes, SingleToken, KeysInOrder,
               AnswersFit, FitsCall, AgesAgree, ChecksAgree
<1> QED BY <1>1, <1>2, <1>3, <1>4, <1>5, <1>6, <1>7, <1>8, <1>9, <1>10, <1>11, <1>12,
           <1>13, <1>14, <1>15, <1>16 DEF Next

\* The keys, ages and answers of every token under way are in step.
THEOREM FlowInvAlways == Spec => []FlowInv
<1>1. FlowInv /\ [Next]_vars => FlowInv'
  BY FlowStep
<1> QED BY <1>1, FlowInit, PTL DEF Spec

\* What one party mints the others accept (verify.rs, context.rs, mint.rs,
\* federation.rs): no check but those of time and of the agent's key fails.
THEOREM OnlyTimeAndKeysFail == Spec => []ChecksAgree
<1>1. FlowInv => ChecksAgree
  BY DEF FlowInv
<1> QED BY <1>1, FlowInvAlways, PTL

\* Each rotation of the agent's key makes at most one check of a key fail,
\* wherever the key is read anew (agent.rs, signing.rs, auth.rs).
THEOREM RotationIsPaidOnce == Spec => []RotationCostsOnce
<1>1. FlowInv => RotationCostsOnce
  BY DEF FlowInv, KeysInOrder, RotationCostsOnce
<1> QED BY <1>1, FlowInvAlways, PTL

\* A token that find_cached_token still took (auth.rs) and the resource finds
\* expired (verify.rs) was longer under way than margin and skew together.
THEOREM OnlyTheWayExpires == Spec => []HeldTooLong
<1>1. FlowInv => HeldTooLong
  <2> SUFFICES ASSUME FlowInv, call.at = "sent", call.token # None, Expired(call.token)
               PROVE  held + flight > Margin + Skew
    BY DEF HeldTooLong
  <2>1. call.token \in AuthClaims /\ held \in Nat /\ flight \in Nat
    BY CallKinds DEF FlowInv, FlowTypes
  <2>2. call.token.exp \in Int
    BY <2>1, OlderAuth
  <2>3. call.token.exp < -Skew /\ call.token.exp >= Margin + 1 - held - flight
    BY DEF Expired, FlowInv, AgesAgree
  <2> QED BY <2>1, <2>2, <2>3, LifeAssumption, FlowAssumption
<1> QED BY <1>1, FlowInvAlways, PTL

-----------------------------------------------------------------------------
(* The types of the polling loop and of the way's slack *)

\* What FlowTypes leaves out.
RestTypes == Poll!LoopTypeOK /\ slack \in 0..MaxSlack

\* A loop that is put where the loop was.
LEMMA LoopPut ==
  ASSUME Poll!LoopTypeOK, NEW l \in Poll!Loop \cup {Poll!Off}, Poll!Move(Caller, l)
  PROVE  Poll!LoopTypeOK'
  BY DEF Poll!LoopTypeOK, Poll!Move

\* A loop that runs has its times.
LEMMA LoopRuns ==
  ASSUME Poll!LoopTypeOK, loop[Caller].at # "off"
  PROVE  loop[Caller] \in Poll!Loop
  BY PollsOff DEF Poll!LoopTypeOK

LEMMA LoopStarts == \A url \in {"pending"} :
  [at |-> "top", url |-> url, left |-> Poll!PollDuration, backoff |-> 1, nap |-> 0]
    \in Poll!Loop
  BY FlowAssumption DEF Poll!Loop, Poll!PollDuration

\* poll_deferred_with: a nap is what the server asks for, or the backoff.
LEMMA LoopGoesOn ==
  ASSUME NEW l \in Poll!Loop, NEW reading, reading.retry_after \in {0, None}
  PROVE  Poll!NextOf(l, reading) \in Poll!Loop
<1>1. ASSUME NEW cap \in Nat
      PROVE  Poll!Pause(l, reading, cap) \in Poll!Loop
  <2> DEFINE nap == IF reading.retry_after = None THEN l.backoff ELSE reading.retry_after
             backoff == Poll!Lesser(2 * l.backoff, cap)
  <2>1. nap \in Nat
    BY DEF Poll!Loop
  <2>2. backoff \in Nat
    BY DEF Poll!Loop, Poll!Lesser
  <2>3. Poll!Pause(l, reading, cap) = [l EXCEPT !.nap = nap, !.backoff = backoff]
    BY DEF Poll!Pause
  <2> HIDE DEF nap, backoff
  <2> QED BY <2>1, <2>2, <2>3 DEF Poll!Loop
<1>2. ASSUME NEW m \in Poll!Loop, NEW place \in {"answering", "asleep"}
      PROVE  [m EXCEPT !.at = place] \in Poll!Loop
  BY DEF Poll!Loop
<1>3. /\ Poll!Pause(l, reading, BusyCap) \in Poll!Loop
      /\ Poll!Pause(l, reading, PendingCap) \in Poll!Loop
  BY <1>1, FlowAssumption
<1> QED BY <1>2, <1>3 DEF Poll!NextOf

LEMMA LoopHears ==
  ASSUME Poll!LoopTypeOK, NEW reading, reading.retry_after \in {0, None},
         Poll!Hear(Caller, reading)
  PROVE  Poll!LoopTypeOK'
<1>1. loop[Caller] \in Poll!Loop
  BY LoopRuns DEF Poll!Hear
<1>2. CASE Poll!Ends(reading)
  BY <1>2, LoopPut DEF Poll!Hear
<1>3. CASE ~Poll!Ends(reading)
  BY <1>1, <1>3, LoopGoesOn, LoopPut DEF Poll!Hear
<1> QED BY <1>2, <1>3

\* The loop goes from one place to the next.
LEMMA LoopTurns ==
  ASSUME Poll!LoopTypeOK,
         Poll!SendPoll(Caller) \/ Poll!HearAnswer(Caller) \/ Poll!Wake(Caller)
  PROVE  Poll!LoopTypeOK'
<1>1. ASSUME NEW place \in {"polling", "asleep", "top"}, loop[Caller].at # "off",
             Poll!Move(Caller, [loop[Caller] EXCEPT !.at = place])
      PROVE  Poll!LoopTypeOK'
  <2>1. [loop[Caller] EXCEPT !.at = place] \in Poll!Loop
    BY <1>1, LoopRuns DEF Poll!Loop
  <2> QED BY <1>1, <2>1, LoopPut
<1> QED BY <1>1 DEF Poll!SendPoll, Poll!Due, Poll!HearAnswer, Poll!Wake

\* A unit of time leaves a loop what is left of its times.
LEMMA LoopAges ==
  ASSUME Poll!LoopTypeOK, Poll!LoopTick
  PROVE  Poll!LoopTypeOK'
<1> DEFINE l == loop[Caller]
<1>1. Poll!Later(l) \in Poll!Loop \cup {Poll!Off}
  <2>1. CASE l = Poll!Off
    BY <2>1 DEF Poll!Later
  <2>2. CASE l # Poll!Off
    <3> DEFINE left == Poll!Less(l.left)
               nap == IF l.at = "asleep" THEN Poll!Less(l.nap) ELSE l.nap
    <3>1. l \in Poll!Loop
      BY <2>2 DEF Poll!LoopTypeOK
    <3>2. left \in Nat /\ nap \in Nat
      BY <3>1 DEF Poll!Loop, Poll!Less
    <3>3. Poll!Later(l) = [l EXCEPT !.left = left, !.nap = nap]
      BY <2>2, <3>1 DEF Poll!Later, Poll!Loop
    <3> HIDE DEF left, nap, l
    <3> QED BY <3>1, <3>2, <3>3 DEF Poll!Loop
  <2> QED BY <2>1, <2>2
<1>2. loop' = [c \in {Caller} |-> Poll!Later(l)]
  BY DEF Poll!LoopTick
<1> HIDE DEF l
<1> QED BY <1>1, <1>2 DEF Poll!LoopTypeOK

LEMMA RestStep == RestTypes /\ [Next]_vars => RestTypes'
<1> SUFFICES ASSUME RestTypes, [Next]_vars PROVE RestTypes'
  OBVIOUS
<1> USE DEF RestTypes
<1>1. CASE Begin
  BY <1>1, FlowAssumption DEF Begin, Poll!LoopTypeOK
<1>2. CASE \/ NextAttempt \/ ResourceAnswers \/ VerifyChallenge \/ SendExchange
           \/ PersonAnswers \/ Rotate \/ UNCHANGED vars
           \/ \E body \in Policy!PendingPostBody \cup {None} : PostPending(body)
           \/ \E error \in BOOLEAN : InteractionCallback(error)
  <2>1. UNCHANGED <<loop, slack>>
    BY <1>2 DEF NextAttempt, ResourceAnswers, VerifyChallenge, SendExchange, PersonAnswers,
               Rotate, vars, PostPending, InteractionCallback
  <2> QED BY <2>1 DEF Poll!LoopTypeOK
<1>3. CASE HearExchange
  <2>1. slack' = slack
    BY <1>3 DEF HearExchange
  <2>2. UNCHANGED loop \/ Poll!Start(Caller, "pending")
    BY <1>3 DEF HearExchange
  <2>3. Poll!LoopTypeOK'
    BY <2>2, LoopStarts, LoopPut DEF Poll!Start, Poll!LoopTypeOK
  <2> QED BY <2>1, <2>3
<1>4. CASE SendPoll \/ AnswerClarification \/ Wake
  BY <1>4, LoopTurns DEF SendPoll, AnswerClarification, Wake
<1>5. CASE HearPoll \/ HearBusy
  <2>1. PICK answer : answer = PollAnswer
    OBVIOUS
  <2>2. PICK reading : /\ reading.retry_after \in {0, None}
                       /\ Poll!Hear(Caller, reading)
    BY <1>5, <2>1 DEF HearPoll, HearBusy, Poll!Reading
  <2>3. slack' = slack
    BY <1>5 DEF HearPoll, HearBusy
  <2> QED BY <2>2, <2>3, LoopHears
<1>6. CASE TimeOut \/ Lose
  BY <1>6 DEF TimeOut, Lose, EndWithError, Poll!LoopTypeOK
<1>7. CASE Tick
  <2>1. slack' \in 0..MaxSlack
    BY <1>7, FlowAssumption DEF Tick, Unhurried
  <2> QED BY <1>7, <2>1, LoopAges DEF Tick
<1> QED BY <1>1, <1>2, <1>3, <1>4, <1>5, <1>6, <1>7 DEF Next

\* Types and bounds of the whole flow (agent.rs, auth.rs, deferred.rs,
\* layer.rs and both token endpoints): what a call, the cache, the loop and the
\* records hold at each await is always one of the kinds listed.
THEOREM TypeCorrect == Spec => []TypeOK
<1>1. Init => RestTypes
  BY FlowAssumption DEF Init, RestTypes, Poll!LoopInit, Poll!LoopTypeOK
<1>2. FlowInv /\ RestTypes => TypeOK
  <2> SUFFICES ASSUME FlowInv, RestTypes PROVE TypeOK
    OBVIOUS
  <2>1. failed \in SUBSET Check
    BY DEF FlowInv, ChecksAgree, KeyChecks, Check
  <2>2. mismatched \in 0..(MaxKey + 1)
    BY LifeAssumption DEF FlowInv, FlowTypes, KeysInOrder, Key
  <2> QED BY <2>1, <2>2 DEF FlowInv, FlowTypes, RestTypes, TypeOK
<1>3. RestTypes /\ [Next]_vars => RestTypes'
  BY RestStep
<1> QED BY <1>1, <1>2, <1>3, FlowInvAlways, PTL DEF Spec

=============================================================================
