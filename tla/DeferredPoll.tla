---------------------------- MODULE DeferredPoll ----------------------------
(***************************************************************************)
(* The agent's polling of a deferred request (crate aauth-reqwest,         *)
(* deferred.rs): one loop per call, over a pending url.  A loop belongs to *)
(* a caller, which starts it, sends its polls and takes its end; here is   *)
(* what the loop does in between.                                          *)
(*                                                                         *)
(* Times are kept as the time left, so that the clock needs no bound: a    *)
(* loop is before its deadline while something of it is left, and sleeps   *)
(* while its nap lasts.                                                    *)
(***************************************************************************)
EXTENDS Naturals

CONSTANTS
  Call,             \* who polls
  Url,              \* pending urls
  MaxPoll,          \* max_poll_duration_secs, or None
  DefaultPoll,      \* DEFAULT_MAX_POLL_DURATION
  PendingCap,       \* the backoff grows up to this after a 202
  BusyCap,          \* and up to this after a 503
  HasClarification, \* the application set on_clarification
  None              \* no option, no header

VARIABLE loop  \* Call -> where its loop is

-----------------------------------------------------------------------------
\* The options: what from_agent_options takes over from AgentOptions.
PollDuration == IF MaxPoll = None THEN DefaultPoll ELSE MaxPoll

Off == [at |-> "off"]

\* At the top of the loop, awaiting a poll, awaiting the post of a
\* clarification, or asleep.
Loop ==
  [at : {"top", "polling", "answering", "asleep"}, url : Url,
   left : Nat, backoff : Nat, nap : Nat]

LoopTypeOK == loop \in [Call -> Loop \cup {Off}]

LoopInit == loop = [c \in Call |-> Off]

\* What the loop reads of a response.
Requirement == {None, "interaction", "clarification"}
Reading(status, retryAfter, requirement) ==
  [status |-> status, retry_after |-> retryAfter, requirement |-> requirement]

-----------------------------------------------------------------------------
Move(c, l) == loop' = [loop EXCEPT ![c] = l]

Start(c, url) ==
  Move(c, [at |-> "top", url |-> url, left |-> PollDuration, backoff |-> 1, nap |-> 0])

\* The deadline is read before every poll, and only then.
Due(c) == loop[c].at = "top" /\ loop[c].left > 0

SendPoll(c) == Due(c) /\ Move(c, [loop[c] EXCEPT !.at = "polling"])

TimedOut(c) == loop[c].at = "top" /\ loop[c].left = 0

Lesser(a, b) == IF a < b THEN a ELSE b

\* retry_delay_from_secs, and the backoff for the next time.
Pause(l, reading, cap) ==
  [l EXCEPT
     !.nap = IF reading.retry_after = None THEN l.backoff ELSE reading.retry_after,
     !.backoff = Lesser(2 * l.backoff, cap)]

\* Every status that is neither 202 nor 503 ends the loop, 429 too.
Ends(reading) == reading.status \notin {202, 503}

Clarifies(reading) ==
  reading.status = 202 /\ reading.requirement = "clarification" /\ HasClarification

\* on_interaction is called again with every 202 that asks for it.
Prompts(reading) == reading.status = 202 /\ reading.requirement = "interaction"

\* A mistake the properties are expected to notice: every answer grants the
\* loop its time anew.
FaultyNextOf(l, reading) ==
  [Pause(l, reading, PendingCap) EXCEPT !.at = "asleep", !.left = PollDuration]

\* The loop l after a response that does not end it.
NextOf(l, reading) ==
  IF reading.status = 503 THEN [Pause(l, reading, BusyCap) EXCEPT !.at = "asleep"]
  ELSE [Pause(l, reading, PendingCap) EXCEPT
          !.at = IF Clarifies(reading) THEN "answering" ELSE "asleep"]

Hear(c, reading) ==
  /\ loop[c].at = "polling"
  /\ Move(c, IF Ends(reading) THEN Off ELSE NextOf(loop[c], reading))

\* What is answered to the post of the clarification is not looked at.
HearAnswer(c) ==
  /\ loop[c].at = "answering"
  /\ Move(c, [loop[c] EXCEPT !.at = "asleep"])

Wake(c) ==
  /\ loop[c].at = "asleep"
  /\ loop[c].nap = 0
  /\ Move(c, [loop[c] EXCEPT !.at = "top"])

Awaits(c) == loop[c].at \in {"polling", "answering"}

\* A transport error, or the deadline: poll_deferred returns an error.
Abandon(c) == Move(c, Off)

Less(n) == IF n = 0 THEN 0 ELSE n - 1

\* A mistake: the time left is not kept from running below nothing.
FaultyLater(l) == IF l = Off THEN Off ELSE [l EXCEPT !.left = @ - 1]

\* A tick goes by.  A nap is an obligation of the timer: it starts when the
\* loop falls asleep.
Later(l) ==
  IF l = Off THEN Off
  ELSE [l EXCEPT !.left = Less(@), !.nap = IF l.at = "asleep" THEN Less(@) ELSE @]

LoopTick == loop' = [c \in Call |-> Later(loop[c])]

=============================================================================
