---------------------------- MODULE TaskService ----------------------------
(***************************************************************************)
(* What a thread pool promises to its callers, without threads, locks or   *)
(* condition variables.  A task is admitted only while the service is      *)
(* open, enters the queue once, is taken from the queue in the order of    *)
(* entry, by one of at most MaxParallel executors, and is finished once.   *)
(*                                                                         *)
(* Admission and entry are two steps: a service that shuts in between      *)
(* still lets the admitted task in.  The thread pool has exactly this gap  *)
(* between the test of _isrunning and the push of Equeue.                  *)
(***************************************************************************)
EXTENDS Naturals, Sequences, FiniteSets, SequencesExt

CONSTANTS Tasks, MaxParallel

VARIABLES phase,     \* "closed" before the start, then "open", then "shut"
          admitted,  \* tasks let in that are not queued yet
          queue,     \* tasks waiting, oldest first
          running,   \* tasks being executed
          finished   \* tasks executed

vars == <<phase, admitted, queue, running, finished>>

Init == /\ phase = "closed"
        /\ admitted = {}
        /\ queue = <<>>
        /\ running = {}
        /\ finished = {}

Known == admitted \cup ToSet(queue) \cup running \cup finished

Open == /\ phase = "closed"
        /\ phase' = "open"
        /\ UNCHANGED <<admitted, queue, running, finished>>

Shut == /\ phase = "open"
        /\ phase' = "shut"
        /\ UNCHANGED <<admitted, queue, running, finished>>

Admit(t) == /\ phase = "open"
            /\ t \in Tasks \ Known
            /\ admitted' = admitted \cup {t}
            /\ UNCHANGED <<phase, queue, running, finished>>

Enter(t) == /\ t \in admitted
            /\ admitted' = admitted \ {t}
            /\ queue' = Append(queue, t)
            /\ UNCHANGED <<phase, running, finished>>

Take == /\ queue # <<>>
        /\ Cardinality(running) < MaxParallel
        /\ running' = running \cup {Head(queue)}
        /\ queue' = Tail(queue)
        /\ UNCHANGED <<phase, admitted, finished>>

Finish(t) == /\ t \in running
             /\ running' = running \ {t}
             /\ finished' = finished \cup {t}
             /\ UNCHANGED <<phase, admitted, queue>>

Next == \/ Open
        \/ Shut
        \/ Take
        \/ \E t \in Tasks : Admit(t) \/ Enter(t) \/ Finish(t)

Spec == Init /\ [][Next]_vars
=============================================================================
