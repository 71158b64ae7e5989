--------------------------- MODULE MCPersonPending ---------------------------
(* Small instances of PersonPending for TLC. *)
EXTENDS PersonPending, TLC

MCToken == [iss : AccessServer \cup {PersonServer}, agent : Agent]

EveryDecision == {"grant", "deny", "defer", "federate"}
NoDenial == {"grant", "defer", "federate"}
LocalDecisions == {"grant", "defer"}

\* Slots, ids, codes, agents and Access Servers are interchangeable: the
\* specification only compares them.
Symmetry ==
  Permutations(Worker) \cup Permutations(Id) \cup Permutations(Code)
    \cup Permutations(Agent) \cup Permutations(AccessServer)

\* History that no guard reads, left out of a state's identity in the runs
\* whose properties do not relate it to anything (TypeOK only types it).
PolledOnly == <<now, store, task, issued, polled>>

=============================================================================
