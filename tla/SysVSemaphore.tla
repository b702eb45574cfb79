--------------------------- MODULE SysVSemaphore ---------------------------
(***************************************************************************)
(* src/signal/Sem_V2.hpp as src/signal/Writer.cc uses it: a parent builds  *)
(* a System V semaphore set, forks, and parent and child print pairs of    *)
(* letters between P and V of semaphore 0.  The set belongs to the kernel: *)
(* it outlives its processes, and anybody may remove it.                   *)
(*                                                                         *)
(* Every run of the program is a parent and a child.  Of the set's three   *)
(* semaphores only the first is used; the model keeps that one.            *)
(***************************************************************************)
EXTENDS Integers, FiniteSets, FiniteSetsExt

CONSTANTS Runs,       \* runs of the program, under one key
          MaxFaults   \* bound: kills, interrupted calls, ipcrm, failing forks

(* What the specification assumes of its constants.                        *)
SemAssumption == IsFiniteSet(Runs) /\ MaxFaults \in Nat

(* A run creates two sets at most, one by its parent and one by its child. *)
NoSet     == 0
Sets      == 1..2 * Cardinality(Runs)
Processes == Runs \X {"parent", "child"}
initVal   == 1

VARIABLES
    key,          \* the set under the key, or NoSet
    made,         \* number of sets created
    value,        \* value of semaphore 0 of each set
    ready,        \* sets that InitSem has initialised
    pc,           \* where each process is
    semid,        \* _semid of each process
    undo,         \* what the kernel adds to the value when the process ends
    interrupted,  \* history: sets on which a wait was interrupted
    faults

vars == <<key, made, value, ready, pc, semid, undo, interrupted, faults>>

Parent(r) == <<r, "parent">>
Child(r)  == <<r, "child">>

Init == /\ key = NoSet /\ made = 0
        /\ value = [s \in Sets |-> 0]
        /\ ready = {} /\ interrupted = {}
        /\ pc = [p \in Processes |-> "none"]
        /\ semid = [p \in Processes |-> NoSet]
        /\ undo = [p \in Processes |-> 0]
        /\ faults = 0

Go(p, at) == pc' = [pc EXCEPT ![p] = at]
Fault     == faults < MaxFaults /\ faults' = faults + 1

(* The set the process works on has not been removed.                      *)
Exists(p) == semid[p] # NoSet /\ semid[p] = key

(* semget creates the set, its values still zero.                          *)
Create(p) == /\ made' = made + 1
             /\ key' = made + 1
             /\ semid' = [semid EXCEPT ![p] = made + 1]

-----------------------------------------------------------------------------
(* construct(builder, BUILD_SEM, 0666, 3, {1, 2, 3}): the parent creates   *)
(* the set exclusively and initialises it.                                 *)
Build(r) ==
    LET p == Parent(r) IN
    /\ pc[p] = "none" /\ key = NoSet
    /\ Create(p)
    /\ Go(p, "init")
    /\ UNCHANGED <<value, ready, undo, interrupted, faults>>

(* The set exists: exit(2).                                                *)
Refused(r) ==
    /\ pc[Parent(r)] = "none" /\ key # NoSet
    /\ Go(Parent(r), "gone")
    /\ UNCHANGED <<key, made, value, ready, semid, undo, interrupted, faults>>

InitSem(r) ==
    LET p == Parent(r) IN
    /\ pc[p] = "init" /\ Exists(p)
    /\ value' = [value EXCEPT ![key] = initVal]
    /\ undo' = [q \in Processes |-> IF semid[q] = key THEN 0 ELSE undo[q]]
    /\ ready' = ready \cup {key}
    /\ Go(p, "fork")
    /\ UNCHANGED <<key, made, semid, interrupted, faults>>

(* The set has been removed under the builder: exit(3).                    *)
InitFails(r) ==
    /\ pc[Parent(r)] = "init" /\ ~Exists(Parent(r))
    /\ Go(Parent(r), "gone")
    /\ UNCHANGED <<key, made, value, ready, semid, undo, interrupted, faults>>

Fork(r) ==
    /\ pc[Parent(r)] = "fork"
    /\ pc' = [pc EXCEPT ![Parent(r)] = "outside", ![Child(r)] = "attach"]
    /\ semid' = [semid EXCEPT ![Child(r)] = semid[Parent(r)]]
    /\ UNCHANGED <<key, made, value, ready, undo, interrupted, faults>>

(* main returns -1, and the last reference to the Semaphore removes the    *)
(* set.                                                                    *)
ForkFails(r) ==
    /\ pc[Parent(r)] = "fork" /\ Fault
    /\ key' = IF Exists(Parent(r)) THEN NoSet ELSE key
    /\ Go(Parent(r), "gone")
    /\ UNCHANGED <<made, value, ready, semid, undo, interrupted>>

(* The child: construct(builder, GET_SEM).  It takes the set that is now   *)
(* under the key, or creates one that nobody initialises.                  *)
GetSem(r) ==
    LET p == Child(r) IN
    /\ pc[p] = "attach"
    /\ \/ /\ key # NoSet
          /\ semid' = [semid EXCEPT ![p] = key]
          /\ UNCHANGED <<key, made>>
       \/ key = NoSet /\ Create(p)
    /\ Go(p, "outside")
    /\ UNCHANGED <<value, ready, undo, interrupted, faults>>

-----------------------------------------------------------------------------
(* PV(who, date): semop with SEM_UNDO.                                     *)
NoUndo(p, date)      == undo
RecordUndo(p, date) == [undo EXCEPT ![p] = @ - date]

PV(p, date) ==
    /\ value' = [value EXCEPT ![key] = @ + date]
    /\ undo' = RecordUndo(p, date)

P(p) ==
    /\ pc[p] = "outside" /\ Exists(p) /\ value[key] > 0
    /\ PV(p, -1)
    /\ Go(p, "inside")
    /\ UNCHANGED <<key, made, ready, semid, interrupted, faults>>

(* semop returns -1 because the set is gone; the result is ignored.        *)
PFails(p) ==
    /\ pc[p] = "outside" /\ ~Exists(p)
    /\ Go(p, "inside")
    /\ UNCHANGED <<key, made, value, ready, semid, undo, interrupted, faults>>

(* A wait that is stopped and continued returns -1, EINTR.                 *)
PInterrupted(p) ==
    /\ pc[p] = "outside" /\ Exists(p) /\ value[key] = 0 /\ Fault
    /\ interrupted' = interrupted \cup {key}
    /\ Go(p, "inside")
    /\ UNCHANGED <<key, made, value, ready, semid, undo>>

(* The process has printed its two letters.                                *)
V(p) ==
    /\ pc[p] = "inside"
    /\ IF Exists(p) THEN PV(p, 1) ELSE UNCHANGED <<value, undo>>
    /\ Go(p, "outside")
    /\ UNCHANGED <<key, made, ready, semid, interrupted, faults>>

-----------------------------------------------------------------------------
(* No destructor runs in a killed process; the kernel undoes what it did   *)
(* to the semaphore.                                                       *)
Kill(p) ==
    /\ pc[p] \notin {"none", "gone"} /\ Fault
    /\ value' = IF Exists(p) THEN [value EXCEPT ![key] = Max({0, @ + undo[p]})] ELSE value
    /\ undo' = [undo EXCEPT ![p] = 0]
    /\ Go(p, "gone")
    /\ UNCHANGED <<key, made, ready, semid, interrupted>>

(* The operator removes the set.                                           *)
Ipcrm == /\ key # NoSet /\ Fault
         /\ key' = NoSet
         /\ UNCHANGED <<made, value, ready, pc, semid, undo, interrupted>>

-----------------------------------------------------------------------------
Start(r)   == Build(r) \/ Refused(r)
Prepare(r) == InitSem(r) \/ InitFails(r) \/ Fork(r) \/ GetSem(r)
Enter(p)   == P(p) \/ PFails(p)

(* Every process is gone, the set perhaps left behind, or is a child that  *)
(* waits for a set which nobody will initialise.                           *)
Terminated == /\ \A r \in Runs : pc[Parent(r)] = "gone"
              /\ \A r \in Runs : \/ pc[Child(r)] \in {"none", "gone"}
                                 \/ /\ pc[Child(r)] = "outside" /\ Exists(Child(r))
                                    /\ key \notin ready
              /\ UNCHANGED vars

Next == \/ \E r \in Runs : Start(r) \/ Prepare(r) \/ ForkFails(r)
        \/ \E p \in Processes : Enter(p) \/ PInterrupted(p) \/ V(p) \/ Kill(p)
        \/ Ipcrm \/ Terminated

Spec == Init /\ [][Next]_vars

-----------------------------------------------------------------------------
(* Types.                                                                  *)
TypeOK ==
    /\ key \in Sets \cup {NoSet} /\ made \in Sets \cup {0}
    /\ value \in [Sets -> Nat]
    /\ ready \subseteq Sets /\ interrupted \subseteq Sets
    /\ pc \in [Processes -> {"none", "init", "fork", "attach", "outside", "inside", "gone"}]
    /\ semid \in [Processes -> Sets \cup {NoSet}]
    /\ undo \in [Processes -> Int]
    /\ faults \in 0..MaxFaults

Inside(s) == {p \in Processes : semid[p] = s /\ pc[p] = "inside"}

(* The semaphore counts exactly who is inside: a pair of letters is not    *)
(* torn, and a process that waits does so because another is inside.  Also *)
(* across kills in the middle of a pair (SEM_UNDO), refused second starts  *)
(* and children that attach late.  It holds until PV ignores a wait that   *)
(* was interrupted, whose V then lets two processes in for good.           *)
Exclusive ==
    \A s \in ready \ interrupted :
        s = key => value[s] + Cardinality(Inside(s)) = initVal
=============================================================================
