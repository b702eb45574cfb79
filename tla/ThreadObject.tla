---------------------------- MODULE ThreadObject ----------------------------
(***************************************************************************)
(* The Thread class of src/thread/Thread.hpp: an object that starts,       *)
(* detaches, cancels and joins a thread, in any order that its owner       *)
(* calls them, while the new thread marks the object as running.           *)
(*                                                                         *)
(* A thread is named by its number; id 0 is the initial _tid.  Between its *)
(* two accesses to the flags Detach touches nothing that the new thread    *)
(* reads or writes, so it is one step.                                     *)
(***************************************************************************)
EXTENDS Naturals, FiniteSets

CONSTANT MaxStarts      \* bound: how many threads the owner starts

(* What the specification assumes of its constants.                        *)
ThreadObjectAssumption == MaxStarts \in Nat

VARIABLES
    owner,          \* the owner: between calls, in Join, or crashed
    _tid, _isdetach, _isrunning,
    thread,         \* where each thread is
    released,       \* threads detached or joined: the kernel frees them
    cancelled,      \* threads with a pending cancellation
    overwritten,    \* history: threads whose id Start has overwritten
    early,          \* history: threads flagged detached before they were running
    stopped         \* history: threads flagged detached after a Stop

vars == <<owner, _tid, _isdetach, _isrunning, thread, released, cancelled,
          overwritten, early, stopped>>

Threads == 1..MaxStarts
NoId    == 0

Init == /\ owner = "idle"
        /\ _tid = NoId /\ _isdetach = FALSE /\ _isrunning = FALSE
        /\ thread = [t \in Threads |-> "none"]
        /\ released = {} /\ cancelled = {} /\ overwritten = {}
        /\ early = {} /\ stopped = {}

Go(t, at) == thread' = [thread EXCEPT ![t] = at]

(* The id is one that pthread_join, pthread_detach and pthread_cancel may  *)
(* be given: the kernel has not freed its thread.  With another id they    *)
(* crash or return an error.                                               *)
Usable(t) == t # NoId /\ ~(t \in released /\ thread[t] = "ended")

-----------------------------------------------------------------------------
(* The owner's calls.                                                      *)

(* pthread_create may fail: the object stays as it was.  _isrunning is     *)
(* still FALSE when the thread has not run yet, or was stopped.            *)
Start ==
    /\ owner = "idle" /\ ~_isrunning
    /\ \E t \in Threads :
        /\ \A u \in Threads : thread[u] = "none" <=> u >= t
        /\ Go(t, "new") /\ _tid' = t
        /\ early' = IF _isdetach THEN early \cup {t} ELSE early
    /\ overwritten' = overwritten \cup ({_tid} \ {NoId})
    /\ UNCHANGED <<owner, _isdetach, _isrunning, released, cancelled, stopped>>

(* The flag without pthread_detach: _isrunning is FALSE before the thread  *)
(* has set it, and again after Stop.                                       *)
FlagOnly == /\ UNCHANGED released
            /\ \/ /\ _tid = NoId
                  /\ UNCHANGED <<early, stopped>>
               \/ /\ _tid # NoId /\ thread[_tid] = "new"
                  /\ early' = early \cup {_tid} /\ UNCHANGED stopped
               \/ /\ _tid # NoId /\ thread[_tid] # "new"
                  /\ stopped' = stopped \cup {_tid} /\ UNCHANGED early

(* The same with the test of _isrunning turned round.                      *)
DetachWhenIdle == IF _isrunning THEN FlagOnly
                  ELSE released' = released \cup ({_tid} \ {NoId}) /\ UNCHANGED <<early, stopped>>

(* Thread::Detach, called by the owner or by the new thread.  It sets the  *)
(* flag also when it detached nothing.                                     *)
PthreadDetach == IF _isrunning
                 THEN released' = released \cup {_tid} /\ UNCHANGED <<early, stopped>>
                 ELSE FlagOnly

DetachThread ==
    \/ _isdetach /\ UNCHANGED <<_isdetach, released, early, stopped>>
    \/ ~_isdetach /\ PthreadDetach /\ _isdetach' = TRUE

Detach ==
    /\ owner = "idle"
    /\ DetachThread
    /\ UNCHANGED <<owner, _tid, _isrunning, thread, cancelled, overwritten>>

(* After a successful pthread_cancel the object may be started again.  The *)
(* flag also says "running" when the function has returned: the call is    *)
(* then made with the id of a thread that may be gone.                     *)
Stop ==
    /\ owner = "idle" /\ _isrunning /\ Usable(_tid)
    /\ cancelled' = cancelled \cup {_tid}
    /\ _isrunning' = FALSE
    /\ UNCHANGED <<owner, _tid, _isdetach, thread, released, overwritten, early, stopped>>

CallJoin ==
    /\ owner = "idle" /\ ~_isdetach /\ Usable(_tid)
    /\ owner' = "join"
    /\ UNCHANGED <<_tid, _isdetach, _isrunning, thread, released, cancelled,
                   overwritten, early, stopped>>

Join ==
    /\ owner = "join" /\ thread[_tid] = "ended"
    /\ released' = released \cup {_tid}
    /\ owner' = "idle"
    /\ UNCHANGED <<_tid, _isdetach, _isrunning, thread, cancelled, overwritten, early, stopped>>

(* A call with an id that is not usable.                                   *)
Undefined ==
    /\ owner = "idle" /\ ~Usable(_tid)
    /\ _isrunning \/ ~_isdetach
    /\ owner' = "crashed"
    /\ UNCHANGED <<_tid, _isdetach, _isrunning, thread, released, cancelled,
                   overwritten, early, stopped>>

-----------------------------------------------------------------------------
(* The threads.                                                            *)
Alive == owner # "crashed"

EnableRunning(t) ==
    /\ Alive /\ thread[t] = "new"
    /\ _isrunning' = TRUE
    /\ Go(t, "starting")
    /\ UNCHANGED <<owner, _tid, _isdetach, released, cancelled, overwritten, early, stopped>>

(* Routine calls Detach if the flag is set, and Detach returns because it  *)
(* is set.  Then the function begins.                                      *)
RoutineDetach(t) ==
    /\ Alive /\ thread[t] = "starting"
    /\ Go(t, "running")
    /\ \/ _isdetach /\ DetachThread
       \/ ~_isdetach /\ UNCHANGED <<_isdetach, released, early, stopped>>
    /\ UNCHANGED <<owner, _tid, _isrunning, cancelled, overwritten>>

(* The function returns.                                                   *)
Return(t) ==
    /\ Alive /\ thread[t] = "running"
    /\ Go(t, "ended")
    /\ UNCHANGED <<owner, _tid, _isdetach, _isrunning, released, cancelled,
                   overwritten, early, stopped>>

(* The function reaches a cancellation point.                              *)
Cancelled(t) == t \in cancelled /\ Return(t)

-----------------------------------------------------------------------------
OwnerStep    == Start \/ Detach \/ Stop \/ CallJoin \/ Undefined
ThreadRun(t) == EnableRunning(t) \/ RoutineDetach(t) \/ Cancelled(t)

(* The owner makes no more calls, or its Join waits for a thread that      *)
(* never returns.                                                          *)
Terminated == /\ owner = "join" => thread[_tid] = "running"
              /\ UNCHANGED vars

Next == \/ OwnerStep \/ Join \/ Terminated
        \/ \E t \in Threads : ThreadRun(t) \/ Return(t)

(* The threads are scheduled, and so is an owner that waits.  Nobody has   *)
(* to call anything, and no function has to return by itself.              *)
Fairness == WF_vars(Join) /\ \A t \in Threads : WF_vars(ThreadRun(t))

Spec == Init /\ [][Next]_vars /\ Fairness

-----------------------------------------------------------------------------
(* Types.                                                                  *)
TypeOK ==
    /\ owner \in {"idle", "join", "crashed"}
    /\ _tid \in Threads \cup {NoId}
    /\ _isdetach \in BOOLEAN /\ _isrunning \in BOOLEAN
    /\ thread \in [Threads -> {"none", "new", "starting", "running", "ended"}]
    /\ released \subseteq Threads /\ cancelled \subseteq Threads
    /\ overwritten \subseteq Threads /\ early \subseteq Threads /\ stopped \subseteq Threads

(* Whatever the owner calls, in whatever order against the new thread, a   *)
(* thread can still be given back to the kernel: it is joined or detached, *)
(* or the owner may still join it.  Three orders lose one, and no other:   *)
(* a Start over the id of the thread before, which was not running yet or  *)
(* was stopped; a flag that is set before the thread has set _isrunning,   *)
(* by a Detach then or before its Start; and a Detach after Stop, which    *)
(* flags a thread that was cancelled and that Join then refuses.           *)
NoneLost ==
    /\ \A t \in Threads :
           thread[t] # "none" => \/ t \in released \cup overwritten \cup early \cup stopped
                                 \/ _tid = t /\ ~_isdetach
    /\ stopped \subseteq cancelled

(* Join of a stopped thread returns: the cancellation reaches the thread,  *)
(* which has begun its function whatever its owner did meanwhile.          *)
JoinReturns == owner = "join" /\ _tid \in cancelled ~> owner # "join"
=============================================================================
