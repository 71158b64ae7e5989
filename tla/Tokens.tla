------------------------------- MODULE Tokens -------------------------------
(***************************************************************************)
(* The tokens of AAuth: how each party mints them (crate aauth, jwt/mint,  *)
(* resource/token, person_server and access_server keys) and how the       *)
(* others verify them (jwt/claims, resource_verify/, person_server/).      *)
(*                                                                         *)
(* A token is a record of the claims that verification looks at.  exp is   *)
(* the time left; the holder of a token makes it older.  A server is known *)
(* by a name, and urls that normalize_server_url makes equal are one name. *)
(* A signature is good if its key is among those the issuer publishes: kid *)
(* stands for the key.  An agent's key is a number, its jwk, its           *)
(* thumbprint and what signs its requests at once.                         *)
(*                                                                         *)
(* A verification is the set of the checks that fail: the code reports the *)
(* first of them, and nothing it does next depends on which it was.        *)
(***************************************************************************)
EXTENDS Integers

CONSTANTS
  MaxKey,        \* bound: the agent's keys are 0..MaxKey
  Skew,          \* CLOCK_SKEW
  AgentLife,     \* life of an agent token the provider hands out
  ResourceLife,  \* lifetime of a resource token
  AuthLife,      \* expires_in of an auth token
  None

ASSUME LifeAssumption ==
  /\ MaxKey \in Nat /\ Skew \in Nat
  /\ AgentLife \in Nat /\ ResourceLife \in Nat /\ AuthLife \in Nat
ASSUME NoneAssumption == None \notin Int /\ None \notin {"person", "access"}

Key == 0..MaxKey
Agent == "aauth:agent"

-----------------------------------------------------------------------------
(* Types.  A time below -Skew has passed for good. *)

Time(life) == (-Skew - 1)..life

AgentClaims ==
  [typ : {"agent"}, iss : {"issuer"}, dwk : {"aauth-agent.json"}, kid : {"issuer"},
   agent : {Agent}, cnf : Key, ps : {"person", None}, exp : Time(AgentLife)]

ResourceClaims ==
  [typ : {"resource"}, iss : {"resource"}, dwk : {"aauth-resource.json"}, kid : {"resource"},
   aud : {"person", "access"}, agent : {Agent}, agent_jkt : Key, exp : Time(ResourceLife)]

AuthClaims ==
  [typ : {"auth"}, iss : {"person"}, dwk : {"aauth-person.json"}, kid : {"person"},
   aud : {"resource"}, agent : {Agent}, cnf : Key, exp : Time(AuthLife)]
  \cup
  [typ : {"auth"}, iss : {"access"}, dwk : {"aauth-access.json"}, kid : {"access"},
   aud : {"resource"}, agent : {Agent}, cnf : Key, exp : Time(AuthLife)]

ASSUME ClaimsAssumption == None \notin AuthClaims

\* Time goes by for a token.
Older(token) == [token EXCEPT !.exp = IF @ < -Skew THEN @ ELSE @ - 1]

-----------------------------------------------------------------------------
(* Minting *)

\* The application's KeyMaterialProvider, for the key of the moment.
AgentToken(key, ps) ==
  [typ |-> "agent", iss |-> "issuer", dwk |-> "aauth-agent.json", kid |-> "issuer",
   agent |-> Agent, cnf |-> key, ps |-> ps, exp |-> AgentLife]

\* ResourceTokenOptions::sign with the resource's signer.
SignResourceToken(audience, agent, agent_jkt) ==
  [typ |-> "resource", iss |-> "resource", dwk |-> "aauth-resource.json",
   kid |-> "resource", aud |-> audience, agent |-> agent, agent_jkt |-> agent_jkt,
   exp |-> ResourceLife]

EncodeAuthJwt(kid, dwk, iss, aud, agent, agent_jwk) ==
  [typ |-> "auth", iss |-> iss, dwk |-> dwk, kid |-> kid, aud |-> aud,
   agent |-> agent, cnf |-> agent_jwk, exp |-> AuthLife]

MintPersonAuthJwt(iss, aud, agent, agent_jwk) ==
  EncodeAuthJwt("person", "aauth-person.json", iss, aud, agent, agent_jwk)

MintPersonAuth(agent) == MintPersonAuthJwt("person", "resource", agent.agent, agent.cnf)

\* A mistake the properties are expected to notice: the document is not the
\* Access Server's.
FaultyMintAccessAuthJwt(iss, aud, agent, agent_jwk) ==
  EncodeAuthJwt("access", "aauth-person.json", iss, aud, agent, agent_jwk)

MintAccessAuthJwt(iss, aud, agent, agent_jwk) ==
  EncodeAuthJwt("access", "aauth-access.json", iss, aud, agent, agent_jwk)

MintAccessAuth(agent) == MintAccessAuthJwt("access", "resource", agent.agent, agent.cnf)

-----------------------------------------------------------------------------
(* Verification *)

\* What a verification can fail for.
Check ==
  {"WrongTyp", "UnsupportedTyp", "ExpectedAuth", "InvalidDwk", "Expired", "KeyBindingFailed",
   "AudMismatch", "IssMismatch", "AgentMismatch", "AgentJktMismatch", "UnknownKid",
   "Metadata", "Jwt"}

Fails(holds, check) == IF holds THEN {} ELSE {check}

Expired(token) == token.exp < -Skew

\* The well-known document a server publishes, and its keys.
Document == [issuer |-> "aauth-agent.json", person |-> "aauth-person.json",
             access |-> "aauth-access.json", resource |-> "aauth-resource.json"]

FetchDecodingKey(token) ==
  Fails(token.dwk = Document[token.iss], "Metadata")
    \cup Fails(token.kid = token.iss, "UnknownKid")

\* decode_verified checks the time a second time.
VerifyWithKey(token) == Fails(~Expired(token), "Jwt")

Verified(token) == FetchDecodingKey(token) \cup VerifyWithKey(token)

ValidateAgentTokenClaims(token) == Fails(token.dwk = "aauth-agent.json", "InvalidDwk")

\* What comes with a request: an agent token or an auth token.
VerifyToken(token, thumbprint) ==
  IF token.typ = "resource" THEN {"UnsupportedTyp"}
  ELSE (IF token.typ = "agent" THEN ValidateAgentTokenClaims(token) ELSE {})
         \cup Fails(~Expired(token), "Expired")
         \cup Fails(token.cnf = thumbprint, "KeyBindingFailed")
         \cup Verified(token)

VerifyAuthTokenBinding(token, resource) == Fails(token.aud = resource, "AudMismatch")

VerifyResourceToken(token, agent, agent_jkt) ==
  IF token.typ # "resource" THEN {"WrongTyp"}
  ELSE Fails(~Expired(token), "Expired")
         \cup Fails(token.dwk = "aauth-resource.json", "InvalidDwk")
         \cup Fails(token.agent = agent, "AgentMismatch")
         \cup Fails(token.agent_jkt = agent_jkt, "AgentJktMismatch")
         \cup Verified(token)

\* The agent, of the challenge it received.
VerifyResourceChallenge(token, resource, agent, agent_jkt) ==
  VerifyResourceToken(token, agent, agent_jkt) \cup Fails(token.iss = resource, "IssMismatch")

VerifyClientAuthTokenClaims(token, resource, resource_token_aud, agent, agent_jkt) ==
  Fails(~Expired(token), "Expired")
    \cup Fails(token.iss = resource_token_aud, "IssMismatch")
    \cup VerifyAuthTokenBinding(token, resource)
    \cup Fails(token.cnf = agent_jkt, "KeyBindingFailed")
    \cup Fails(token.agent = agent, "AgentMismatch")

\* The agent, of the token the exchange came to.
VerifyClientAuthToken(token, resource, resource_token_aud, agent, agent_jkt) ==
  IF token.typ # "auth" THEN {"ExpectedAuth"}
  ELSE VerifyClientAuthTokenClaims(token, resource, resource_token_aud, agent, agent_jkt)
         \cup Verified(token)

\* The Person Server, of a token an Access Server minted.
VerifyFederatedAuthToken(token, iss, aud, agent) ==
  IF token.typ # "auth" THEN {"ExpectedAuth"}
  ELSE VerifyToken(token, agent.cnf)
         \cup Fails(token.iss = iss, "IssMismatch")
         \cup Fails(token.aud = aud, "AudMismatch")
         \cup Fails(token.agent = agent.agent, "AgentMismatch")

\* The Person Server, of a request to exchange a resource token.
VerifyTokenRequest(agent, thumbprint, resource_token) ==
  IF agent.typ # "agent" THEN {"WrongTyp"}
  ELSE VerifyResourceToken(resource_token, agent.agent, thumbprint)

\* The Access Server, of the Person Server's.
FromExchange(agent, resource_token) ==
  Fails(agent.typ = "agent" /\ resource_token.typ = "resource", "WrongTyp")

-----------------------------------------------------------------------------
(* Who is asked; None where the code returns an error. *)

\* A mistake: the resource's own default is left out.
FaultyResolveResourceTokenAudience(agent, access_server, fallback) ==
  IF access_server # None THEN access_server ELSE agent.ps

\* The server a resource names as the audience of its token.
ResolveResourceTokenAudience(agent, access_server, fallback) ==
  IF access_server # None THEN access_server
  ELSE IF agent.ps # None THEN agent.ps
  ELSE fallback

\* The Person Server an agent goes to.
ResolvePersonServerUrl(configured, agent) ==
  IF configured # None THEN configured ELSE agent.ps

=============================================================================
