------------------------------- MODULE Journal -------------------------------
(***************************************************************************)
(* What an event-sourced actor promises the author of a command handler:   *)
(* a command commits its events all together, behind everything committed  *)
(* before; it commits once, and once more only when a restart brought its  *)
(* envelope back after the commit; it is answered only when its events are *)
(* in the log.  EventSourcing.tla is shown to implement it.                *)
(***************************************************************************)
EXTENDS Integers, Sequences

CONSTANTS Commands, Batch

VARIABLES log, commits, again, restarts, answered

Init ==
    /\ log = <<>> /\ commits = [c \in Commands |-> 0]
    /\ again = {} /\ restarts = 0 /\ answered = {}

Commit(c) ==
    /\ commits[c] = 0 \/ c \in again
    /\ log' = log \o Batch[c]
    /\ commits' = [commits EXCEPT ![c] = @ + 1]
    /\ again' = again \ {c}
    /\ UNCHANGED <<restarts, answered>>

\* A process dies: the envelope it was handling is lost, or is delivered again,
\* also when its events are in the log already.
Restart ==
    /\ restarts' = restarts + 1
    /\ \/ UNCHANGED again
       \/ \E c \in Commands : again' = again \ {c}
       \/ \E c \in Commands : commits[c] > 0 /\ again' = again \cup {c}
    /\ UNCHANGED <<log, commits, answered>>

\* An envelope that came back is dropped after its last retry.
GiveUp(c) ==
    /\ again' = again \ {c}
    /\ UNCHANGED <<log, commits, restarts, answered>>

Answer(c) ==
    /\ commits[c] > 0
    /\ answered' = answered \cup {c}
    /\ UNCHANGED <<log, commits, again, restarts>>

Next == Restart \/ \E c \in Commands : Commit(c) \/ GiveUp(c) \/ Answer(c)

Spec == Init /\ [][Next]_<<log, commits, again, restarts, answered>>

=============================================================================
