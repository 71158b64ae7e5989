---------------------------- MODULE PendingStore ----------------------------
(***************************************************************************)
(* Pending records and the store that keeps them: the crate aauth-policy,  *)
(* store/{traits,memory,records}.rs, and the snapshot type they carry      *)
(* (crate aauth, deferred/types.rs).                                       *)
(*                                                                         *)
(* A store is a function from pending ids to records, NoRecord standing    *)
(* for an absent key.  InMemoryPendingStore takes its mutex inside each    *)
(* trait method and releases it before the method returns, so one call is  *)
(* one atomic step and a caller that loads and later saves makes two.      *)
(***************************************************************************)
EXTENDS Integers

CONSTANTS
  Token,     \* auth tokens, told apart by issuer and agent
  Failure,   \* errors a record may end with, named by their polling_status
  NoRecord   \* the store has no record under an id

\* polling_status maps every error code to one of these.
PollingStatus == {403, 408, 410, 429, 500}
ASSUME FailureAssumption == Failure \subseteq PollingStatus

-----------------------------------------------------------------------------
(* Snapshots.  The DeferRequirement a waiting snapshot carries is not kept: *)
(* the services copy it to the caller and never branch on it.               *)

WaitingSnapshot == [state : {"waiting"}, status : {"pending", "interacting"}]
TokenSnapshot == [state : {"token"}, token : Token]
ErrorSnapshot == [state : {"error"}, failure : Failure]

Outcome == TokenSnapshot \cup ErrorSnapshot
Snapshot == WaitingSnapshot \cup Outcome

Waiting(status) == [state |-> "waiting", status |-> status]
AuthToken(t) == [state |-> "token", token |-> t]
Error(f) == [state |-> "error", failure |-> f]

\* What a poll of a live record answers (poll_outcome_from_snapshot).
PollOutcome(snapshot) ==
  IF snapshot.state = "waiting" THEN "pending" ELSE snapshot.state

-----------------------------------------------------------------------------
(* Store methods.  load is store[id]. *)

\* create and save: both insert, whatever the key held before.
Insert(store, id, record) == [store EXCEPT ![id] = record]

\* complete: sets the snapshot of a record that is still there.
Complete(store, id, outcome) ==
  IF store[id] = NoRecord THEN store
  ELSE [store EXCEPT ![id].snapshot = outcome]

Remove(store, id) == [store EXCEPT ![id] = NoRecord]

\* One tick early: a mistake the properties are expected to notice.
FaultyIsExpiredEarly(record, now) == now >= record.expires_at
IsExpired(record, now) == now > record.expires_at

=============================================================================
