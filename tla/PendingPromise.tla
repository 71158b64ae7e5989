---------------------------- MODULE PendingPromise ----------------------------
(***************************************************************************)
(* What a pending URL promises the client that polls it, whatever the      *)
(* server does behind it: it is opened once, with a deadline; until then   *)
(* it answers something live, and past the deadline 410 Gone and nothing   *)
(* else.  The services of aauth-policy implement this over a store that    *)
(* several requests read and overwrite (PersonPending, AccessPending).     *)
(***************************************************************************)
EXTENDS Integers

CONSTANTS
  Id,    \* pending ids
  TTL,   \* how long a pending URL lives, in ticks
  None   \* the deadline of a URL that was not opened

VARIABLES
  now,       \* the clock
  deadline,  \* Id -> until when the URL is live, or None
  answer     \* Id -> the last answer to a poll

vars == <<now, deadline, answer>>

LiveAnswer == {"pending", "token", "error"}

Init ==
  /\ now = 0
  /\ deadline = [i \in Id |-> None]
  /\ answer = [i \in Id |-> "none"]

Open(i) ==
  /\ deadline[i] = None
  /\ deadline' = [deadline EXCEPT ![i] = now + TTL]
  /\ UNCHANGED <<now, answer>>

Poll(i) ==
  /\ deadline[i] # None
  /\ \E a \in IF now > deadline[i] THEN {"gone"} ELSE LiveAnswer :
       answer' = [answer EXCEPT ![i] = a]
  /\ UNCHANGED <<now, deadline>>

Tick ==
  /\ now' = now + 1
  /\ UNCHANGED <<deadline, answer>>

Next == Tick \/ \E i \in Id : Open(i) \/ Poll(i)

Spec == Init /\ [][Next]_vars

=============================================================================
