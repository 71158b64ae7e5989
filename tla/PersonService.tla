---------------------------- MODULE PersonService ----------------------------
(***************************************************************************)
(* What a Person Server's token service does to its pending records, seen  *)
(* from outside: every request is one step on one record.  A decision      *)
(* replaces the record by what was decided about the record as it stood, a *)
(* user is let in on a code that was still good, and a record is removed   *)
(* when its time is up or the Access Server has forgotten the request.     *)
(* PersonPending takes several steps for each, with an await in between.   *)
(***************************************************************************)
EXTENDS Integers

CONSTANTS
  Id,            \* pending ids
  PersonServer,  \* this server, as the issuer of a token
  TTL,           \* how long a pending request lives
  NoRecord, NoServer, NoCode

VARIABLES
  now,       \* the clock
  store,     \* Id -> record or NoRecord
  opened,    \* ids that were issued
  polled,    \* Id -> the last answer to a poll
  redeemed   \* Id -> how often the user was let in

vars == <<now, store, opened, polled, redeemed>>

Init ==
  /\ now = 0
  /\ store = [i \in Id |-> NoRecord]
  /\ opened = {}
  /\ polled = [i \in Id |-> "none"]
  /\ redeemed = [i \in Id |-> 0]

\* A new record waits, and its code is good unless the Access Server has it.
Opened(r) ==
  /\ r.snapshot.state = "waiting"
  /\ r.expires_at = now + TTL
  /\ ~r.interaction_code_consumed
  /\ r.federation # NoServer =>
       /\ r.federation = r.request.aud
       /\ r.ps_interaction_code = NoCode /\ r.resource_interaction = "none"

Open(i) ==
  /\ i \notin opened
  /\ opened' = opened \cup {i}
  /\ store' = [store EXCEPT ![i] = store'[i]]
  /\ Opened(store'[i])
  /\ UNCHANGED <<now, polled, redeemed>>

\* Who may sign the token of a record: the Access Server that has it, else
\* this server or the Access Server asked for a token on the spot.
Issuers(r) ==
  IF r.federation = NoServer THEN {PersonServer, r.request.aud} ELSE {r.federation}

SameInteraction(r, s) ==
  /\ s.ps_interaction_code = r.ps_interaction_code
  /\ s.resource_interaction = r.resource_interaction
  /\ s.interaction_code_consumed = r.interaction_code_consumed

\* The record is handed to the Access Server, with nothing to redeem in it.
HandedOver(r, s) ==
  /\ r.federation = NoServer
  /\ s.federation = r.request.aud
  /\ s.ps_interaction_code = NoCode /\ s.resource_interaction = "none"
  /\ s.snapshot.state = "waiting"

\* s is what one decision makes of the record r.
Decided(r, s) ==
  /\ s.request = r.request /\ s.expires_at = r.expires_at
  /\ \/ s.federation = r.federation /\ SameInteraction(r, s)
     \/ HandedOver(r, s)
  /\ s.snapshot.state = "token" =>
       s.snapshot.token.agent = r.request.agent /\ s.snapshot.token.iss \in Issuers(r)

Decide(i) ==
  /\ store[i] # NoRecord /\ store'[i] # NoRecord
  /\ store' = [store EXCEPT ![i] = store'[i]]
  /\ Decided(store[i], store'[i])
  /\ UNCHANGED <<now, opened, polled, redeemed>>

\* s is r with its code spent.  The user's arrival shows in a snapshot that
\* waits, and in no other.
Spent(r, s) ==
  /\ r.ps_interaction_code # NoCode /\ ~r.interaction_code_consumed
  /\ s = [r EXCEPT !.interaction_code_consumed = TRUE, !.snapshot = s.snapshot]
  /\ \/ s.snapshot = r.snapshot
     \/ r.snapshot.state = "waiting" /\ s.snapshot.state = "waiting"

Redeem(i) ==
  /\ store[i] # NoRecord /\ store'[i] # NoRecord
  /\ store' = [store EXCEPT ![i] = store'[i]]
  /\ Spent(store[i], store'[i])
  /\ \E n \in {0, 1} : redeemed' = [redeemed EXCEPT ![i] = @ + n]
  /\ UNCHANGED <<now, opened, polled>>

Stale(i) == store[i] # NoRecord /\ now > store[i].expires_at

\* The poll that finds a record stale is the one that removes it; the Access
\* Server may have forgotten a request earlier.
Remove(i) ==
  /\ store[i] # NoRecord
  /\ store' = [store EXCEPT ![i] = NoRecord]
  /\ \/ Stale(i) /\ polled' = [polled EXCEPT ![i] = "gone"]
     \/ (Stale(i) \/ store[i].federation # NoServer) /\ UNCHANGED polled
  /\ UNCHANGED <<now, opened, redeemed>>

Answer(i) ==
  IF store[i] = NoRecord THEN "gone"
  ELSE IF store[i].snapshot.state = "waiting" THEN "pending"
  ELSE store[i].snapshot.state

Poll(i) ==
  /\ i \in opened
  /\ ~Stale(i)
  /\ polled' = [polled EXCEPT ![i] = Answer(i)]
  /\ UNCHANGED <<now, store, opened, redeemed>>

Tick ==
  /\ now' = now + 1
  /\ UNCHANGED <<store, opened, polled, redeemed>>

Next ==
  \/ Tick
  \/ \E i \in Id : Open(i) \/ Decide(i) \/ Redeem(i) \/ Remove(i) \/ Poll(i)

Spec == Init /\ [][Next]_vars

=============================================================================
