# aauth-rs: TLA+ models, model checks and proofs

aauth-rs is a Rust implementation of the AAuth protocol: an *agent* calls a
*resource*; the resource may send it to the agent's *Person Server* (PS) for an
auth token; the PS may in turn ask the *Access Server* (AS) that the resource
trusts. Wherever a human has to decide, a server answers `202` with a *pending
URL* that the client polls, posts input to, or sends a browser to. This
directory models the parts of the code in which state, concurrency and time
make that hard, checks the models with TLC and proves their main invariants
with TLAPS.

    tlc -workers 2 -config person_concurrent.cfg MCPersonPending
    tlc -workers 2 -config client_live.cfg AgentClient
    tlc -workers 2 -config federation.cfg Federation
    tlc -workers 2 -config token_flow.cfg TokenFlow
    tlapm PersonPendingProofs.tla

## 1. Inventory

| component (source) | state | operations | hard behaviours | what makes it correct |
|---|---|---|---|---|
| pending store and records (`aauth-policy/src/store`) | `HashMap<id, record>` behind a mutex; a record has a context, a snapshot (waiting, token, error) and a deadline | `create load save complete remove find_if`, `is_expired`, `poll_auth_pending` | each method is atomic, every caller makes several calls; nothing sweeps expired records | a record keeps its context and deadline; 410 is final |
| PS token service (`aauth-policy/src/person`) | the store; nothing else | `exchange_token poll_pending resume_pending begin_interaction resolve_interaction_callback` | load, await policy or AS, write; five operations on one record at once | the token is the requester's; codes are single-use; a federated request is decided by its AS |
| AS token service (`aauth-policy/src/access`) | its own store | `exchange_token poll_pending resume_pending` | as above, with claims and clarification rounds | as above |
| resource consent service (`aauth-policy/src/resource`) | its own store; issued opaque tokens `HashMap<token, agent>` | `consent_for_agent poll_pending validate_opaque issue revoke` | polls, the user's answer, the expiry and restarts meet on one record; both stores are in memory | 410 is said only of what is over; a token that reaches the agent is one the resource accepts |
| built-in policies (`aauth-policy/src/policies.rs`) | none | `evaluate resume` | none | each answers as documented |
| deferred types and parsing (`aauth/src/deferred`) | none | parse a 202, build headers, map snapshots to answers | both ends must agree on headers | what one end writes the other reads |
| PS to AS client (`aauth-reqwest/src/access_client.rs`, `aauth/src/person_server`) | one loop's deadline and interval | `exchange_token resume_pending poll_pending`, `verify_federated_auth_token` | retries, deadline against a late answer, terminal statuses | every answer of the AS reaches the PS as what it means |
| agent credential cache (`aauth/src/agent`) | auth tokens by origin and PS, opaque tokens by origin, origins already authorized; one lock | `seed_opaque begin_authorize_attempt next_attempt observe_response record_auth_token` | requests of one client share it; answers arrive in any order | a rejected credential is not used again; authorization is asked for once |
| agent middleware (`aauth-reqwest/src/middleware`) | the round of one request | sign, send, read the challenge, exchange, retry | unbounded rounds, challenges that change | a request ends; what a server refuses for good is reported |
| token exchange and polling client (`aauth-reqwest/src/{deferred,token_exchange,signed}.rs`) | deadline, backoff, requirement in hand | `exchange_token poll_deferred` | retryable statuses, a server that says how long to wait, a deadline that is looked at between polls only | every call ends, whatever it is answered |
| resource layer (`aauth-axum/src/resource`) | configuration only | classify a request: challenge, refuse, pass | the mode and the kind of credential together decide | what it challenges with is what agent and PS accept |
| verification (`aauth/src/resource_verify`, `aauth/src/jwt`) | none | verify agent, resource and auth tokens | clock skew; minted by one crate, verified by another, at different times and with the key of the moment | what one party mints the others accept; only time and the agent's key make a check fail |
| interaction codes (`aauth/src/interaction_code.rs`) | none | `generate_code canonicalize_code` | what users type | typing does not change which code is meant |
| routes and responses (`aauth-axum/src/{person,access,respond.rs}`) | none | one service call each; status and headers of an outcome | both ends must agree | as for parsing |
| metadata cache (`aauth-reqwest/src/metadata.rs`) | documents, key sets and times of fetches: three maps, a mutex each | `fetch_metadata fetch_jwks clear_cache` | every look and every insertion is a lock of its own; requests interleave in between | keys are found, found again after they move, and not asked for too often |
| keys, wire types, httpsig-key | none | parse, sign | none TLC can reach | left to tests |

How they interact. Agent, PS, AS and resource are separate processes that talk
HTTP. Inside a server every request is a task of its own; tasks share the
pending store and nothing else (a verifier's tasks share the metadata cache
likewise, an agent's calls the credential cache), and they interleave at every `.await`, that is,
between any two store calls and around every policy call and every call of the
AS. The user's browser is a third party: it arrives at the PS with an
interaction code (`begin_interaction`), is redirected to the resource, and
comes back with a callback (`resolve_interaction_callback`), at any time
relative to the agent's polls and posts.

## 2. Plan

1. `PendingStore`, `PersonPending`: the PS service, the component with most
   operations on shared state. **Done**, with its proofs.
2. `AgentClient`: the credential cache under several calls and the middleware's
   loop over it. **Done**, with its proofs.
3. `MetadataCache`: the verifier's caches. **Done**, with its proofs.
4. `PendingPromise`: the abstract pending URL (opened, answered, gone; one
   deadline), implemented by `PersonPending` and `AccessPending`. **Done**,
   with the refinements proved.
5. `AccessPending` and, composed with it, `Federation`: the AS's service and
   routes, and the PS's client against them, response by response; what the AS
   answers is what the PS understands. **Done**, with proofs.
6. `ResourceConsent` and `DeferredPoll`, composed with the client of
   `AgentClient` in `ResourceManaged`: the resource that manages its own
   authorization, with restarts and an unreliable network; an implementation of
   `AgentClient`. **Done**, with the refinement proved.
7. `PersonService`: the PS service with each request as one step, implemented
   by `PersonPending` when the requests for one record take turns. **Done**,
   with the refinement proved.
8. `Tokens`, `Policies` and, composed with `DeferredPoll`, `TokenFlow`: the
   layer's decisions, every minter and every verification, the exchange and the
   built-in policies, under each wiring of the four parties. **Done**, with
   proofs of its types and its three invariants.
9. What could come next: the one record that `TokenFlow` keeps at the PS as an
   instance of `PersonService`; `TokenFlow` with overlapping calls; a resource
   that asks for an interaction of its own, and the AS's demand for a payment.

Modules with theorems, and those they use, declare no `RECURSIVE` operator.

A component gets one run or two that pass: one per question that needs another
instance or another specification (safety under interleaving, sequential use,
liveness). A component that is composed with an earlier one is checked in the
composition.

## 3. The modules

### PendingStore

The store as a function `Id -> Record \cup {NoRecord}`, one operator per trait
method (`Insert` for `create` and `save`, `Complete`, `Remove`; `load` is
application), `IsExpired`, and the snapshot type with the answer a poll gives
for it. `InMemoryPendingStore` holds its mutex within one method only, so each
call is one atomic step. An error is kept as the status a poll of it answers
(`PollingStatus`), which is all its reader can tell of it. The requirement a waiting snapshot carries is left
out: the services hand it to the caller and never branch on it.

### PersonPending

`PolicyPersonTokenService`. State: the clock `now`, the `store`, and `task`,
which says for each `Worker` slot what a request in flight has loaded and does
next. A slot is a tokio task: the model steps it once per store call and once
per decision of the policy or the AS. An operation that touches the store at
most once (`exchange_token`, a poll of a live record) is a single action. The
tasks:

| `task[w].at` | the request is about to | in the code |
|---|---|---|
| `policy` | hear from `policy.resume` or `policy.evaluate` | `resume_pending`, `resolve_interaction_callback` |
| `federated` | hear from the AS | `handle_federated_pending_post` |
| `complete` | call `complete` | grant, denial, federated token, callback error |
| `reload` | load the record a second time | `update_person_pending_defer`, `create_federated_deferred_response`, re-deferral by the AS |
| `save` | save the edited copy | the same three |
| `consume` | save the copy with the consumed code | `begin_interaction` |
| `remove` | remove the record | every operation that loaded an expired one, and an AS that answered gone |

The rest of the state is history that only properties read: `issued` (request
and deadline an id was created with), `polled` (last answer to a GET) and
`redeemed` (how often an interaction code was accepted).

Abstractions. A request is its agent and the AS its resource token names; the
claims, keys and urls it is made of are compared nowhere else. A token is its
issuer and its agent, which is what `verify_federated_auth_token` and the
minter determine here. The pending URL at the AS (`as_pending_url`) is not
kept: one AS is one correspondent. A resource interaction url is `none`,
`https` or `other`, the cases `interaction.rs` tells apart. A pending id is 128
random bits, so no id is drawn twice; an interaction code is short, and two
records may hold the same one. An immediate grant or denial, and a lookup of an
unknown id, change nothing and are stuttering steps.

The environment. The policy decides anything in `Decisions` each time it is
asked, which includes every policy in `policies.rs`; or it fails. The AS
answers any token at all, a deferral, an error, gone, or nothing before the
client's deadline. Clients and browsers call any operation at any time.

Definitions named `Faulty...` are mistakes one could make in the definition
they precede. No specification uses them; each is substituted for its correct
form to confirm that some property notices.

`MCPersonPending` gives the constants their small values, the symmetry set and
the views; the other modules need none of these and are checked as they are.

### PendingPromise

What a client may rely on when it holds a pending URL: it is opened once, with
a deadline; polls are answered live until then and 410 after it. `PersonPending`
(when its policy does not federate) and `AccessPending` implement it, with the
records' history as the refinement mapping: `deadline` is the deadline an id was
created with, `answer` the last answer to a poll. A record in the store is no
part of it, and that is the point: whether one is there, how often it was
removed, saved again or decided anew is the service's affair.

### PersonService

The same service seen from outside, with every request one step on one record:
`Open`, `Decide`, `Redeem`, `Remove` and `Poll`. It says what one step may make
of the record as it stands: a decision keeps the request and the deadline, and
either leaves code, url and federation alone or hands the record over to the AS;
a token is for the agent, by an issuer the record allows (`Decided`); a
redemption needs a good code and spends it (`Spent`); a record is removed when
it is stale or its AS has forgotten it. `PersonPending` implements it for a
server whose requests take turns (`TurnSpec`): while one is at work on a record,
no other begins with the same record, and any number of others go on. The
mapping is the identity, with `opened` the ids that were issued; all a request
does before its last write is a stutter. `TokenFlow`, which lets the PS handle a
request in one step, models such a server. Without turns the refinement fails,
and the first finding of section 4 is how.

### AccessPending

`PolicyAccessTokenService` with the responses its routes send. The state and the
steps are those of `PersonPending` for its three operations: one step per store
call and per answer of the policy. Every operation ends in an HTTP `Response`
(status, `Location`, token), which stays in the handler's slot until it is sent.
`Release` also drops a handler in the middle of its work: the runtime does so
when a connection breaks. `decided` is history: every outcome the policy gave
on an id. The parties of a request are left out, since the service stores and
reads them as a whole.

### Federation

The PS's client `ReqwestAccessServerClient` against `AccessPending`. A `Client`
is a request at the PS that awaits the AS; several may hold the same AS pending
URL, since every post of the agent's input to the PS posts it on and polls.

| step | in the code |
|---|---|
| `ClientExchange`, `HearExchange` | `exchange_token`, called by `federate_to_access_server` |
| `ClientPost`, `HearPost` | `resume_pending` of the client, first half of `handle_federated_pending_post` |
| `ClientPoll`, `HearPoll`, `HearBusy`, `TimeOut` | one turn of the loop in `poll_pending` and its ends |
| `Lose` | every `?` after a `send` or a `bytes` |
| `Serve`, `Drop` | the AS's handler goes on, or its response goes nowhere |

A lost connection is noticed by the client at any moment; the handler may have
acted, may still act, or be dropped. `503` comes from a gateway, as the AS
itself never sends it. The PS's own record is not part of this module:
`PersonPending` has, as actions, all outcomes `Federation` can end with.

### AgentClient

`AgentAuth` (the cache) and `AAuthAgentMiddleware` (its only caller) for one
resource origin and one configured PS. State: the cache (`auth`, `opaque`,
`tried`), where each concurrent call is (`call`), and the resource's `epoch`.
A credential is the epoch it was issued in; the resource accepts those of the
current one, so a new epoch is an expiry or a revocation of all before it.
`auth.aged` says that the token has entered the last minute of its life, in
which `find_cached_token` drops it.

The cache's mutex is never held across an await, so each of its methods is one
step, and a call goes through them as `handle_inner` does:

| step | in the code |
|---|---|
| `SeedOpaque`, `BeginAuthorizeAttempt`, `TryProactiveAuthorize` | the call begins; one of them posts to the authorization endpoint |
| `AuthorizeAnswered`, `AuthorizePolled` | what comes of that post, and of its pending URL |
| `NextAttempt` | pick a credential and send the request |
| `RequestAnswered`, `RequestPolled` | `observe_response` and the loop's `match` on the step it returns |
| `ExchangeToken`, `RecordAuthToken` | the exchange at the PS, and its result into the cache |
| `Accept Reject Challenge Defer Refuse` | the resource decides; the answer is read in a later step |

Between the resource's decision and the client's look at it anything can
happen, so answers overtake each other. A step-up challenge to a credential is
handled by the code as any 401 to one, and is in the model the end of that
credential's epoch. Left out: a 202 without a `Location`, and two cached
entries for two Person Servers of one origin. The polling client's own loop (`deferred.rs`) is one answer here.

### MetadataCache

`CachedMetadataFetcher` for one issuer, as `fetch_decoding_key` uses it: the
metadata document leads to a `jwks_uri`, and that to the keys. Every lock
acquisition is a step: the first look, `can_fetch`, the second look,
`record_fetch` with the request, the insertion of what arrived. `clear_cache`
clears its three maps in three steps. Times are kept as ages up to the largest
one that a comparison distinguishes, so that time goes on for ever in a finite
model. The history keeps for each request how long ago it last asked for the
keys at each uri (`gap`): `OwnFetchGap` is about the fetches of one request slot,
`FetchGap` about those of all of them. `lost` has the uris that were asked within
the interval although their keys are not to be had: the fetch failed, or a
`clear_cache` dropped the keys. `LimitExplained` says that a request is turned away
(`RateLimited`) only for such keys, for keys that another request is still
fetching or storing, or because the interval has run out since it looked: keys that were
fetched are found by the second look of whoever was too late to fetch them. The issuer may move its keys to another uri between any two steps, and a
request to it may fail; both are bounded, as is the number of `clear_cache`
calls, since liveness is about what happens once they are over.

### DeferredPoll

`poll_deferred_with` as a component: one loop per call, with its place
(`top`, `polling`, `answering`, `asleep`), what is left until its deadline, its
backoff and its nap. It has no `Next` of its own: its two users give it a pending
URL to poll and take its end, and compose their own steps with its actions.
Times are times left, so the clock needs no bound. The deadline is compared at
the top of the loop only, as in the code: a poll that hangs is not bounded by
it, and `Lose` ends such a poll where a connection gives up.

### ResourceConsent and ResourceManaged

`ResourceConsent` is `PolicyResourceAccessService` with the opaque store, the
routes and the layer, for one agent: an opaque token is known by the life of
the process, the `epoch`, in which it was issued, since `validate_opaque` looks
it up in a map that a restart empties. `poll_pending` is two steps, the load in
`poll_auth_pending` and the removal, and several polls may be in between. The
application completes a record when the user has answered; in the service
nothing else does, and `ResourceConsentPolicy::resume` has no caller.

Deferred requests have no bound in number. An id whose time is over, and to which
neither a handler nor the agent refers any more (`Unknown`, `Forgotten`), is
drawn again for the next one, so that a call which is refused, resends its
request and is deferred anew can do so for ever; `MaxDefer` bounds how many are known
at a time.

`ResourceManaged` puts the middleware, the cache and the polling loops in front
of it, as the pair `resource_managed.rs` does. `AgentClient` is instantiated,
not copied: its actions are conjoined with the loop's and the service's, and its
free choice of answer (`Reply`) is made by the service.

| step | in the code |
|---|---|
| `Deferred`, `Answered`, `Validated` | the layer and the authorization endpoint (`layer.rs`, `routes.rs`) |
| `ReadAnswer` | `observe_response`; a 202 starts a polling loop and calls `on_interaction` |
| `SendPoll`, `HearPoll`, `HearBusy`, `HearAnswer`, `Wake`, `TimeOut` | one turn of the polling loop and its ends |
| `FinishPoll`, `Drop` | the resource's handler removes the record; its response goes nowhere |
| `Duplicate`, `Lose`, `LoseRequest`, `Broken`, `Crash` | a poll is delivered twice (the copy matters where it removes the record), a connection fails, the resource restarts |
| `Interact` | the user comes to the interaction url and answers |

Each 202 says `Retry-After: 0` (`respond.rs`), so the agent polls again without
a pause. A clarification is answered with a POST, which the resource's pending
URL does not take (405); the loop does not look at that answer and polls on.

### Tokens, Policies and TokenFlow

`Tokens` has each minter and each verification of the repository as an
operator: a token is a record of the claims that are looked at, and a
verification is the set of the checks that fail. The code stops at the first,
and does the same whichever it was. An agent's key is a number that stands for
the jwk, its thumbprint and what requests are signed with.

`Policies` is `policies.rs`: what each built-in policy decides, asked anew or
resumed with each input a pending URL can be given.

`TokenFlow` follows one call of an agent from the request through challenge,
exchange, federation and deferral to the cached token and its use. Each request
is one step of the server that handles it: the interleavings inside a server are
in `PersonPending`, `AccessPending` and `Federation`, those inside the agent in
`AgentClient`. Between two steps, time may go by for everything that is
under way (`Tick`), and the provider may hand out another key (`Rotate`). A *wiring* is
one of the ways the examples set the parties up: the access mode of the
resource, the policy of the PS and of the AS, and whether the agent's token
names its PS or the agent is configured with it; there are 23 of them.

| `call.at` | the call | in the code |
|---|---|---|
| `attempt` | looks into its cache | `next_attempt`, `find_cached_token` |
| `sent` | awaits the resource | `ResourceAuthService::call`, `observe_response` |
| `challenged` | checks the resource token | `verify_resource_challenge`, `resolve_person_server_url` |
| `verified`, `exchange`, `exchanged` | fetches the PS's metadata, posts, hears | `exchange_token_with`, `token_exchange_handler` |
| `polling` | polls the PS's pending URL | `poll_deferred_with`, `resume_pending`, `resolve_interaction_callback` |

The history says how long the last token was on its way to the cache (`held`)
and the last request on its way to the resource (`flight`), which checks failed
last (`failed`), and how often one of them was for the agent's key
(`mismatched`). The agent's provider keeps its own token fresh. The AS's record
outlives the PS's, so only the agent's key of it is kept. A federated record
answers polls from its snapshot, and asks the AS when somebody posts to it;
nobody in the code answers a demand for claims or an approval on the agent's
side, so such a call ends with its deadline unless the application posts.

## 4. Runs

Deadlock checking is off in every run: when a bound is reached and no request
is in flight a model may have nothing left to do, which is a process at rest.

| run | instance | shows |
|---|---|---|
| `person_concurrent` | 2 slots, 1 id, 2 agents, 2 Access Servers, every decision, deadline after 1 tick of 2 | `TypeOK LeaseKept TokenForRequest DeadlineHolds` |
| `person_sequential` | 2 slots that take turns at each record, 2 ids that may share 1 code, no errors | `CodeSingleUse FederationSticks FederatedDecidedByAccessServer FederationClearsInteraction GoneIsFinal OneStepEach` |
| `person_live` | 2 slots, 1 id, a policy that grants or defers, deadline after 1 tick of 2, fair | `GoneOnlyAfterDeadline Promise EventuallyGone` |
| `federation` | 2 handlers, 1 client, 1 id, every decision, two failures, deadline after 0 ticks of 1, fair | `TypeOK HeardIsDecided Promise CallReturns` |
| `client_sequential` | 1 call at a time, a configured opaque token, 2 revocations, any resource | `TypeOK RejectedNotReused` |
| `client_live` | 2 concurrent calls, 1 revocation, 1 ageing token, a resource that agrees, fair | `AuthorizeOnce CallEnds` |
| `keys_live` | 2 concurrent requests, 2 uris, 1 move, 1 failure, 1 `clear_cache`, fair | `TypeOK LimitExplained OwnFetchGap ServedAgain MoveSeen` |
| `resource_managed` | 1 call, 2 handlers, 2 deferred requests at a time and no end of them, 1 restart, a policy that grants, asks for an interaction or a clarification, fair | `TypeOK GoneExplained GrantKept ClientSpec CallEnds` |
| `token_flow` | 1 call after another, 2 keys, every wiring, fair | `TypeOK ChecksAgree RotationCostsOnce HeldTooLong CallEnds` |

*Why the bounds suffice.* Operations on one id never read another id's record,
except that `find_if` looks for a code in all of them; one id with two slots
contains every pairwise race, and `person_sequential` has two ids because that
is where codes collide. That run has no errors (`Failure = {}`): a record that
ends with one is written and read like one that ends with a token, and the
theorems leave errors in. Two agents and two Access Servers are needed to tell a token for the requester, from the
server it asked, from another. With `TTL = 1` and `MaxTime = 2` a record created at 0
can be used before, at and after its deadline (`now > expires_at` is strict),
and a task that loaded it at 0 can save it after the deadline.

For the client, two calls suffice for one to overwrite or drop what the other
has just stored; one revocation makes every credential of the first epoch stale
while calls hold it, and two let `client_sequential` reject in turn the token
and the opaque token of a call. `RejectedNotReused` is about one call at a
time: of two, the slower can put back into the cache a credential that the
resource has rejected meanwhile, and be rejected once more.

For the keys, `MinInterval = 1` and `TTL = 2` keep the order of the code's
constants (60 and 600 seconds) and distinguish a document that is fresh, stale
but recently fetched, and stale. Two uris and one move are the case of a
document fetched before the move and stored after it.

For the federation, one client suffices for a race: when its connection is
lost, the handler it had goes on in one slot while its next request is served
in the other. With `TTL = 0` and `MaxTime = 1` a record is live now and expired
one tick later. The failures 403 and 410 are the ones the client tells apart
from the rest; 408, 429 and 500 all end in `UnexpectedStatus`. The invariants
were also checked with two clients.

For `resource_managed`, one call has at most one poll in flight that it waits
for; with the second slot go the polls the network delivers twice, or that the
call has given up. Two deferred requests known at a time are one that is lost to a
restart or refused and the one that follows it; once the first is over and
forgotten its id serves for a third, and so on. A record lives for the present tick only,
which is the hard case, as every step may come before or after its expiry; with
a lifetime of 1 the invariants were checked as well. The caps of the backoff
are 1: what matters is that the loop sleeps at all.

For `token_flow`, the times keep the order of the code's constants: a margin
(60 s) and a skew below the life of an auth token, a life of the PS's record
above the agent's deadline (600 s and 300 s). `ResourceLife = 0` with
`MaxSlack = 2` and `Skew = 1` lets a resource token expire on its way, and
`AuthLife = 5` an auth token while it lies in the record and in the cache. One
rotation makes each place where the key is read see either key; the theorems
are for any number.

*Symmetry and views.* In `person_concurrent` and `person_sequential`, slots, ids,
codes, agents and Access Servers are only compared for equality, so permuting
each is sound. The view of `person_concurrent` leaves out history that no guard
reads and that no property of the run relates to anything else. The other runs
use neither.

*Concurrency matters.* `CodeSingleUse`, `FederationSticks`,
`FederatedDecidedByAccessServer`, `FederationClearsInteraction` and `OneStepEach`
hold when the requests for one record take turns, whatever their order and
whatever happens to other records meanwhile, and that is what
`person_sequential` states. They do not hold for requests that overlap at one
record: loads and saves are separate store calls, and the last save wins. The
first finding below and the double use of a code show what that can lead to.
What survives every interleaving (`LeaseKept`, `TokenForRequest`,
`DeadlineHolds`) is proved for `Spec`, the rest for `TurnSpec`
(`PersonSequentialProofs`). The code does not make requests take turns; a server
that has one request at a time does (`OneAtATime`).

`GoneIsFinal` likewise needs either turns or a policy that does not
federate: an AS that answers gone makes one task remove the record while
another still holds a copy to save, and a client that was told 410 may see 202
again until the deadline.

### Findings

Each is a run whose single property quotes the repository and is violated by
what the code does.

| run | statement | what happens |
|---|---|---|
| `approval_lost` | an approval resolves the agent's pending request (draft line 940) | `begin_interaction` found the record, a resume completes it with a token, `begin_interaction` saves the waiting copy back |
| `denial_retried` | a denial on the pending URL is surfaced to the user (draft line 2221) | `handle_inner` reads the last answer of a pending URL like a first one, for which every status but 401 and 202 is `Finish`, and takes `Finish` for a grant: the request is sent again |
| `redeferral_lost` | a poll of the AS ends in "a terminal/re-defer outcome" (`person_server/access_client.rs:40`); 202 means still pending (draft line 2096) | the AS answers a poll with a 202 that has no `Location` (`DeferWaiting`); the PS's client wants one (`parse_deferred_response`) and fails, and the PS answers 502 |

"Draft" is `docs/specs/draft-hardt-oauth-aauth-protocol.md`. The draft also has
a `DELETE` on pending URLs (line 1080); the code has no such route, and nothing
here models one. More differences were met and given no run: an interaction code is single-use
(`store/records.rs:28`, draft line 2074), but of two arrivals that run `find_if`
before either saves, both are redirected (`CodeSingleUse` holds under `TurnSpec`
and fails under `Spec`); the keys of an issuer are to be fetched once a minute
(`metadata.rs:62`, draft line 2405), but `can_fetch` and `record_fetch` lock
separately and two requests may ask before either records (`FetchGap` of
`MetadataCache` holds for one request and fails for two); `poll_auth_pending`
leaves a completed record in the store and `resume_pending` does not look at
its snapshot, so that a pending URL that answered, or whose callback carried an
error, can be decided again (draft lines 2714 and 977); cached keys
have no age, where the draft (line 2405) recommends to discard them after 24
hours; and `resume_pending` lets the policy decide while the resource's own
interaction has not come back, where the draft (line 931) puts that first.

### Fairness

`EventuallyGone` assumes: the clock advances (weak fairness of `Tick`); a
request in flight goes on (weak fairness of `Proceed(w)`: the runtime keeps
polling a spawned future, and its awaits are on the policy and on an AS client
that stops at `poll_max_secs`); the client keeps polling (weak fairness of
`PollPending(i)`); and a poll that meets an expired record is served (strong
fairness of `FindExpired(_, i, TRUE)`). The last is strong only because slots
are a bound of the model: the server starts a task per request and never makes
one wait for a slot. Nothing is assumed about posts, browsers or answers.

`CallEnds` is about a resource and a PS whose user agrees (`AgreeingSpec`): a
request without a credential is accepted, challenged or deferred, a deferral
ends with an opaque token, and a credential of the current epoch is accepted.
Against a server that answers otherwise the loop has no bound, and the code
promises none. Weak fairness of a call's own steps is the runtime polling the
application's future; weak fairness of the answers is the servers being up.
There is no seeded token here: with one, calls that restore it in turn can keep
each other busy (see the hazards).

`CallReturns` assumes weak fairness of a handler's steps (the runtime, and a
policy that answers) and of hearing a response that is there, unless the
connection is lost. `TimeOut` is strongly fair: the loop in `poll_pending`
compares the clock with a fixed deadline before every poll, and once it has
passed finds it so every time; between two looks the loop may be away polling.
No fairness is assumed of losses, of `503`, or of new requests.

`CallEnds` of `resource_managed` is about the code's own resource. It assumes the
runtime (weak fairness of `Future(c)`, what a call's future does next when it waits
for nobody, of `Serve(c)` and of `FinishPoll`) and the clock (`Tick`), and that a
broken connection is noticed (`Broken`, in `Future`). The user may never answer,
a poll may be answered 503 for ever, the resource may restart. What it states has
an exception: a call ends, *or it is deferred again and again*. The middleware
reads a poll's 403 or 410 as a reason to send the request again, and the resource
defers it anew; a user who refuses each time, or one who never answers while records
live shorter than the loop polls (as here: `TTL = 0`, `DefaultPoll = 2`), keeps
one call going for ever, and TLC finds that behaviour when the exception is left
out. So what the run shows is that each round ends: the deadline of the polling loop
ends it, or the resource's answer does, and nothing but a new deferral starts
another. The number of restarts is bounded (`MaxEpoch`), which is the only
bound here on what can go wrong.
`CallEnds` of `token_flow` assumes the runtime and the clock, and
nothing of users, applications, losses or 503. Two more assumptions are needed
and named in the module: a token outlives the margin (`FlowAssumption`; every
minter of the repository gives 3600 s against 60 s), and the time a call's
messages take is bounded (`slack`), since a network slow enough lets every token
expire before it is used, and the middleware would ask for the next one for ever.

`ServedAgain` and `MoveSeen` assume weak fairness of time, of each request's
steps with the issuer's answers to them, and of a `clear_cache` that has begun.
A request that was answered is followed by another one; the issuer fails at
most `MaxFailures` times. Failures, moves and clears have no fairness.

## 5. Proofs

### PersonPendingProofs

It proves, for all values of the constants that satisfy the
assumptions named in the modules (`TTL`, `MaxTime` naturals; tokens are issuer
and agent; the PS is no AS; `NoRecord`, `NoServer`, `NoCode`, `NoLease` are
none of the values they stand beside):

| theorem | statement |
|---|---|
| `TypeCorrect` | `Spec => []TypeOK` |
| `LeaseInvariant` | `Spec => []LeaseInv` |
| `LeaseIsKept`, `TokenIsForRequest` | `Spec => []LeaseKept`, `Spec => []TokenForRequest` |
| `DeadlineIsKept` | `Spec => DeadlineHolds` |
| `GoneMeansDeadline`, `GoneStays` | if the policy does not federate: `Spec => []GoneOnlyAfterDeadline`, `Spec => GoneIsFinal` |
| `KeepsPromise` | if the policy does not federate: `Spec => Promise`, the refinement of `PendingPromise` |

`LeaseKept` and `TokenForRequest` are not inductive. A save writes a record
some task built several steps ago from a copy of the store, so the store stays
good only if the copies are good. `LeaseInv` therefore says of every task what
it says of the store: a copy in hand carries the request and the deadline its
id was issued with (`GoodRecord`), a token about to be stored is for that
request (`GoodSnapshot`), an AS about to be asked or recorded is the one that
request names. Each action either moves such a copy between store and task or
builds one from another with its request and deadline unchanged, and
`verify_federated_auth_token` is exactly the guard that lets an AS's token in.

`DeadlineHolds` follows from `LeaseInv`: a live answer needs a record that has
not expired, and its deadline is the issued one.

`DeadlineInv` strengthens `GoneOnlyAfterDeadline`: an issued id without a
record, an answer of 410 and a task about to remove all imply that the
deadline has passed. It needs `"federate" \notin Decisions`, for an AS's gone
removes early; `LocalTask` carries that through the tasks. `GoneIsFinal` is
then `DeadlineHolds` after the deadline. `KeepsPromise` uses both invariants:
each step opens a URL, polls it, ticks, or leaves the promise's variables alone;
the answer of a poll is live because `LeaseInv` ties the record's deadline to
the issued one, and gone because `DeadlineInv` says why there is no record.

TLC checked `LeaseInv` and `DeadlineInv` as invariants before they were proved.

### PersonSequentialProofs

For any number of slots, ids, codes, agents and AS's, and any policy, of a
server whose requests take turns at each record (`TurnSpec`):

| theorem | statement |
|---|---|
| `OneAtATime` | `Spec => TurnSpec` for a single slot: turns are no more than requests one after the other need |
| `CodeIsSingleUse` | `TurnSpec => []CodeSingleUse` |
| `AccessServerDecides` | `TurnSpec => []FederatedDecidedByAccessServer` |
| `FederationIsClean` | `TurnSpec => []FederationClearsInteraction` |
| `FederationStays` | `TurnSpec => FederationSticks` |
| `GoneStaysInTurn` | `TurnSpec => GoneIsFinal`, also when the policy federates |
| `RequestsAreOneStep` | `TurnSpec => OneStepEach`, the refinement of `PersonService` |

The first five follow from `TurnInv`, in which the turns are used: what a
request has in hand agrees with the record, which is still there
(`InTurn`). A policy decides only on a record that is not federated, the AS
asked is the one recorded, and a copy about to be saved goes to the same AS as
the record it replaces (`Kept`). `Settled` is what a record then is: a
federated one has no code, no interaction url and no token but its AS's, and a
code that `find_if` can still find has not let anyone in. A code is redeemed
between the load and the save of `begin_interaction`; `InTurn` says that in
between it has not been redeemed yet, and that the copy says it is consumed.
Where requests do not take turns, another may have changed or removed the record
by then, and `InTurn` no longer holds. A write to one record leaves alone what
the slots have in hand of others (`WriteInTurn`), also when their codes are the
same.

The refinement needs `HandInv` beside `TurnInv` and `LeaseInv`: the outcome, the
edited copy or the removal that a request has in hand is what one step of
`PersonService` makes of the record as it still is (`Hand`). It is established
where the request hears from the policy, the AS or the store, using the two
other invariants (the AS that signed is the one recorded; the request it was
asked for is the record's), and kept because nobody else writes to that record.
Then the last write of a request is its one step (`EndIsOneStep`), and what came
before is a stutter. TLC checked `TurnInv` and `HandInv` before they were proved.

### AccessPendingProofs and FederationProofs

For any number of handlers, clients, ids, tokens and errors, and any policy:

| theorem | statement |
|---|---|
| `AccessKeepsPromise` | `AccessSpec => Promise` |
| `TypeCorrect` | `Spec => []TypeOK` of `Federation` |
| `KeepsPromise` | `Spec => Promise` of `Federation` |
| `HeardAsDecided` | `Spec => []HeardIsDecided` |

`RecordInv` is the strengthening: a record, and every copy a handler is about
to save, has the deadline its id was opened with, and a record is missing, or
about to be removed, only past that deadline. `DecidedInv` adds that a completed
record holds an outcome the policy gave. In `FederationProofs`, every step of
the composition is one of the AS or leaves it alone (`AccessSteps`), so the AS's
invariants and its promise carry over.

`HeardIsDecided` relates the end of a call to decisions made steps before, by
requests that may long be gone, so its strengthening `HeardInv` follows the
call: each waiting client has a handler of its own (`OwnHandler`), and that
handler is at work on the client's URL or holds a response that is true of the
URL's history (`TrueOf`). It stays true because the history only grows
(`HistoryGrows`): decisions are added, deadlines are fixed, time goes on.
Posts promise less than polls (`PostServed`): the 403 of a post is read by
nobody, since the client polls after it.

### AgentClientProofs

For any set of calls and all bounds:

| theorem | statement |
|---|---|
| `TypeCorrect` | `Spec => []TypeOK` |
| `AuthorizeIsOnce` | `Spec => []AuthorizeOnce` |
| `EpochInvariant` | `Spec => []EpochInv` |
| `RejectedIsNotReused` | for a single call at a time: `Spec => []RejectedNotReused` |

`AuthorizeOnce` follows from its own strengthening: no post has been made as
long as the origin is not in `authorize_tried`, and looking at that set and
adding to it is one step.

`RejectedNotReused` takes two invariants. `EpochInv` holds of any number of
calls: nothing in the cache, in a request or in an answer is of an epoch the
resource has not reached, and what was answered 401 is of a passed one.
`FreshInv` is of a single call: no credential that it could still present, in
the cache, in flight or in an answer not yet read, has been rejected in this
call. It needs `EpochInv` where a new credential arrives: it is of the current
epoch, hence none of the rejected ones.

### MetadataCacheProofs

For any set of requests and any intervals:

| theorem | statement |
|---|---|
| `TypeCorrect` | `Spec => []TypeOK` |
| `LimitIsExplained` | `Spec => LimitExplained` |
| `OwnFetchGapKept` | `Spec => OwnFetchGap` |
| `FetchGapKept` | for a single request at a time: `Spec => FetchGap` |

`LimitExplained` needs `LimitInv`: keys whose fetch was recorded within the
interval are in the cache, on their way (some request has sent for them or holds
them), or lost. Each step hands such keys from one of the three to the next: from
`record_fetch` to the answer, to the insertion, to a failure or a `clear_cache`.
The second look finds the keys missing and `can_fetch` finds the fetch recent, so
the other two are left.

`FetchGap` fails for two requests (section 4). `OwnFetchGapKept` says what is
left: none of them asks twice within the interval, so there are no more fetches
in an interval than requests at once; `FetchGapKept` follows, and shows that the
race is the only reason. The invariant, `GapInv`, says that `last_fetch` is never
older than the last fetch of any request, unless that one is out of the interval
already, and that a request about to fetch was let through by `can_fetch` when
its own last fetch was: what others record meanwhile only makes `last_fetch`
younger. A `clear_cache` that empties `last_fetch` starts the history anew.

### ResourceManagedProofs

For any number of calls, handlers, requests and restarts, any policy and any
options of the polling loop:

| theorem | statement |
|---|---|
| `TypeCorrect` | `Spec => []TypeOK` |
| `GoneIsExplained` | `Spec => []GoneExplained` |
| `GrantIsKept` | `Spec => GrantKept` |
| `ImplementsClient` | `Spec => ClientSpec`: the composition implements `AgentClient` without auth tokens |
| `ManagedAuthorizesOnce`, `ManagedDropsRejected` | `Spec => []Client!AuthorizeOnce`, and for a single call at a time `Spec => []Client!RejectedNotReused` |

The invariant has three parts beside the types. `LifeInv`: a record has the
time its pending URL has left, a record that is missing is over, and a handler
that is about to remove one holds a grant or found it expired. `EpochInv`: a
token in a record or in a response was issued in this life of the process; a
restart loses records, handlers and old tokens at once, which is why it stays
true. `PollingInv`: a loop belongs to a call that waits for a pending URL, and a
202 that has yet to be read has its `Location`. The refinement then goes
step by step: what the service does alone is a stutter of the client, a restart
is the client's `Revoke`, and an answer that reaches a call is one of those
`AgentClient`'s resource may give, for which `EpochInv` is needed where that
answer is a token. What is proved of `AgentClient` then holds of this pair:
`ManagedAuthorizesOnce` is `AuthorizeOnce`, and `ManagedDropsRejected`, for one
call at a time, `RejectedNotReused`. The theorems of `AgentClientProofs` are
used through `INSTANCE`, with its assumptions proved from those here.

### TokenFlowProofs

For any lifetimes, skew, margin below a token's life, number of keys, wiring
and built-in policies:

| theorem | statement |
|---|---|
| `TypeCorrect` | `Spec => []TypeOK` |
| `OnlyTimeAndKeysFail` | `Spec => []ChecksAgree` |
| `RotationIsPaidOnce` | `Spec => []RotationCostsOnce` |
| `OnlyTheWayExpires` | `Spec => []HeldTooLong` |

None of the three is inductive, and they need each other's strengthening.
`AnswersFit` follows the token: what the PS answers, and what its record holds,
is for the key and by the server that the call's resource token names, at
whichever of the minters it was made (`PersonDecided`, `FederatedDecided`): a PS
grants only what names it and federates the rest. `KeysInOrder` is the argument
for rotations: whatever the agent holds is bound to a key that is not older than
the number of mismatches so far, and a mismatch throws away a token whose key is
older than the key of the request. `AgesAgree` relates the cache's clock, which
starts when a token arrives, to the token's own; `SingleToken` says that a call
that was challenged holds no other token. The lemmas about `Tokens` say of each
verification which of its checks a token as it is minted can fail. The times of
the polling loop occur in none of this; their types are the last section of the
module (`RestStep`), which completes `TypeCorrect`.

*Only model-checked*: `EventuallyGone`, `CallReturns`, the three `CallEnds`,
`ServedAgain` and `MoveSeen`, since liveness is beyond the prover used. Every
other property of a run is a theorem.

## 6. Not modelled

Cryptography, HTTP message signatures, serialisation, key parsing and logging:
signatures verify what was signed, and a check of a claim is one element of the
set a verification comes to. The store trait's failure (`InMemoryPendingStore`
cannot fail). Requests that a route refuses before they reach a service (400,
401). The 402 of an AS that asks for payment, which the client turns into an
error. A resource that asks the agent's user for an interaction of its own while
it exchanges a token (`PersonPending` has the PS's side of it). The drawing,
formatting and canonical form of interaction codes. Url normalisation: urls that
`normalize_server_url` makes equal are one name, and a resource has one url at
the PS and the AS. Agent tokens that expire before their provider replaces them.
A polling request that never returns and never fails. The components and their
status are listed in `PROJECT.json`.
