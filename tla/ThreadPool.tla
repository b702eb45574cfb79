----------------------------- MODULE ThreadPool -----------------------------
(***************************************************************************)
(* The singleton thread pool of                                            *)
(* src/threadsynchronization/5.ThreadPool/ThreadPool.hpp (the chat server  *)
(* and the echo server carry copies of it), with the Thread, Mutex and     *)
(* Cond wrappers it is built from.                                         *)
(*                                                                         *)
(* Actors: the worker threads, which run HandlerTask, and the caller       *)
(* threads, which call GetInstance()->Equeue(task).  One caller, Main,     *)
(* also calls Stop and Join at the end, as main() does.                    *)
(*                                                                         *)
(* A step is as large as the locks make it: the part of a method between   *)
(* LockGuard and its release that touches only data guarded by that mutex  *)
(* is one step; every read or write of _isrunning or inc outside the lock  *)
(* is a step of its own.                                                   *)
(***************************************************************************)
EXTENDS Naturals, Sequences, FiniteSets, SequencesExt

CONSTANTS Workers,           \* the elements of _threads
          Callers,           \* the threads that use the pool
          Main,              \* the caller that stops the pool and joins it
          Tasks,             \* the tasks, each submitted at most once
          MaxSpawnFailures,  \* bound: how many pthread_create calls may fail
          Nobody,            \* the owner of a free mutex
          NoTask             \* a default constructed T

ASSUME PoolAssumption ==
    /\ IsFiniteSet(Workers)
    /\ Workers # {}
    /\ Main \in Callers
    /\ MaxSpawnFailures \in Nat
    /\ Nobody \notin Workers \cup Callers
    /\ NoTask \notin Tasks

VARIABLES
    pools,      \* number of ThreadPool objects constructed; inc is null iff 0
    slock,      \* owner of the static mutex _lock
    isrunning,  \* _isrunning
    mutex,      \* owner of _mutex
    queue,      \* _task_queue
    sleeprnum,  \* _sleeprnum
    waiting,    \* threads blocked on _cond that no wakeup has reached yet
    wpc,        \* where each worker is in HandlerTask
    task,       \* the local variable task of each worker
    cpc,        \* where each caller is
    ctask,      \* the argument of each caller's pending Equeue
    fresh,      \* tasks not submitted yet
    late,       \* history: tasks pushed after _isrunning was cleared
    done        \* history: tasks whose execution has returned

poolVars   == <<pools, slock, isrunning>>
queueVars  == <<mutex, queue, sleeprnum, waiting>>
workerVars == <<wpc, task>>
callerVars == <<cpc, ctask, fresh>>
history    == <<late, done>>
vars == <<pools, slock, isrunning, mutex, queue, sleeprnum, waiting,
          wpc, task, cpc, ctask, fresh, late, done>>

WorkerPC == {"unborn", "failed", "lock", "test", "sleep", "wait", "decide",
             "run", "exited"}
CallerPC == {"idle", "lock", "create", "start", "spawn", "equeue", "push",
             "wakeall", "join", "joined", "crashed"}

NumThreads == Cardinality(Workers)
Failed     == {w \in Workers : wpc[w] = "failed"}

(* Every thread of the pool has been through Thread::Start and the caller  *)
(* that constructed the pool has left GetInstance.                         *)
Started == /\ pools > 0
           /\ \A w \in Workers : wpc[w] # "unborn"
           /\ slock = Nobody

Init == /\ pools = 0
        /\ slock = Nobody
        /\ isrunning = FALSE
        /\ mutex = Nobody
        /\ queue = <<>>
        /\ sleeprnum = 0
        /\ waiting = {}
        /\ wpc = [w \in Workers |-> "unborn"]
        /\ task = [w \in Workers |-> NoTask]
        /\ cpc = [c \in Callers |-> "idle"]
        /\ ctask = [c \in Callers |-> NoTask]
        /\ fresh = Tasks
        /\ late = {}
        /\ done = {}

-----------------------------------------------------------------------------
(* The wrappers: Mutex::lock, Mutex::unlock, Cond::Signal, Cond::Broadcast. *)

Lock(m)   == mutex = Nobody /\ mutex' = m
Unlock(m) == mutex = m /\ mutex' = Nobody

SignalReachesNobody == waiting' = waiting

(* A signal reaches one blocked thread, any of them, or is lost.  *)
Signal    == IF waiting = {} THEN waiting' = waiting
             ELSE \E w \in waiting : waiting' = waiting \ {w}
Broadcast == waiting' = {}

(* Conditions the methods test, each preceded by a plausible mistake in it *)
(* that the properties below must be able to tell from the right one.      *)

StillNullUntested == TRUE
StillNull == pools = 0

AllAsleepOffByOne == sleeprnum + 1 = NumThreads
AllAsleep == sleeprnum = NumThreads

NothingToDo == queue = <<>> /\ isrunning

MayLeaveAtOnce == ~isrunning
MayLeave == ~isrunning /\ queue = <<>>

BackOfQueue == queue[Len(queue)]
FrontOfQueue == Head(queue)

StillCounted == sleeprnum' = sleeprnum
NoLongerCounted == sleeprnum' = sleeprnum - 1

(* A thread goes on, in a process that has not crashed.                    *)
Alive       == cpc[Main] # "crashed"
WGoto(w, l) == Alive /\ wpc' = [wpc EXCEPT ![w] = l]
CGoto(c, l) == Alive /\ cpc' = [cpc EXCEPT ![c] = l]

-----------------------------------------------------------------------------
(* Callers: GetInstance.                                                   *)

(* GetInstance()->Equeue(t) begins: the unlocked read of inc.              *)
GetInstance(c, t) ==
    /\ cpc[c] = "idle"
    /\ t \in fresh
    /\ fresh' = fresh \ {t}
    /\ ctask' = [ctask EXCEPT ![c] = t]
    /\ CGoto(c, IF pools = 0 THEN "lock" ELSE "equeue")
    /\ UNCHANGED <<poolVars, queueVars, workerVars, history>>

LockSingleton(c) ==
    /\ cpc[c] = "lock"
    /\ slock = Nobody
    /\ slock' = c
    /\ CGoto(c, "create")
    /\ UNCHANGED <<pools, isrunning, queueVars, workerVars, ctask, fresh, history>>

(* The second test of inc, under _lock.  inc is published by the           *)
(* assignment, before inc->Start() has run.                                *)
CreateInstance(c) ==
    /\ cpc[c] = "create"
    /\ \/ /\ StillNull
          /\ pools' = pools + 1
          /\ CGoto(c, "start")
          /\ slock' = slock
       \/ /\ ~StillNull
          /\ pools' = pools
          /\ slock' = Nobody
          /\ CGoto(c, "equeue")
    /\ UNCHANGED <<isrunning, queueVars, workerVars, ctask, fresh, history>>

StartPool(c) ==
    /\ cpc[c] = "start"
    /\ ~isrunning
    /\ isrunning' = TRUE
    /\ CGoto(c, "spawn")
    /\ UNCHANGED <<pools, slock, queueVars, workerVars, ctask, fresh, history>>

(* Thread::Start of one thread: pthread_create starts Routine, which calls *)
(* HandlerTask, or fails, in which case the pool ignores the result.       *)
SpawnThread(c, w) ==
    /\ cpc[c] = "spawn"
    /\ wpc[w] = "unborn"
    /\ \/ WGoto(w, "lock")
       \/ Cardinality(Failed) < MaxSpawnFailures /\ WGoto(w, "failed")
    /\ UNCHANGED <<poolVars, queueVars, task, callerVars, history>>

FinishStart(c) ==
    /\ cpc[c] = "spawn"
    /\ \A w \in Workers : wpc[w] # "unborn"
    /\ slock' = Nobody
    /\ CGoto(c, "equeue")
    /\ UNCHANGED <<pools, isrunning, queueVars, workerVars, ctask, fresh, history>>

-----------------------------------------------------------------------------
(* Callers: Equeue, Stop, Join.                                            *)

(* The test of _isrunning at the head of Equeue, made without the mutex.   *)
CheckRunning(c) ==
    /\ cpc[c] = "equeue"
    /\ \/ isrunning /\ CGoto(c, "push") /\ ctask' = ctask
       \/ ~isrunning /\ CGoto(c, "idle") /\ ctask' = [ctask EXCEPT ![c] = NoTask]
    /\ UNCHANGED <<poolVars, queueVars, workerVars, fresh, history>>

Push(c) ==
    /\ cpc[c] = "push"
    /\ mutex = Nobody
    /\ queue' = Append(queue, ctask[c])
    /\ IF AllAsleep THEN Signal ELSE waiting' = waiting
    /\ late' = IF isrunning THEN late ELSE late \cup {ctask[c]}
    /\ CGoto(c, "idle")
    /\ ctask' = [ctask EXCEPT ![c] = NoTask]
    /\ UNCHANGED <<poolVars, mutex, sleeprnum, workerVars, fresh, done>>

Equeue(c) == CheckRunning(c) \/ Push(c)

(* Main stops the pool only when Start has returned, as main() does; other *)
(* callers may be anywhere.                                                *)
Stop ==
    /\ cpc[Main] = "idle"
    /\ Started
    /\ isrunning
    /\ isrunning' = FALSE
    /\ CGoto(Main, "wakeall")
    /\ UNCHANGED <<pools, slock, queueVars, workerVars, ctask, fresh, history>>

WakeUpAllWithoutLock ==
    /\ cpc[Main] = "wakeall"
    /\ IF sleeprnum > 0 THEN Broadcast ELSE waiting' = waiting
    /\ CGoto(Main, "join")
    /\ UNCHANGED <<poolVars, mutex, queue, sleeprnum, workerVars, ctask, fresh, history>>

WakeUpAllThread ==
    /\ cpc[Main] = "wakeall"
    /\ mutex = Nobody
    /\ IF sleeprnum > 0 THEN Broadcast ELSE waiting' = waiting
    /\ CGoto(Main, "join")
    /\ UNCHANGED <<poolVars, mutex, queue, sleeprnum, workerVars, ctask, fresh, history>>

(* pthread_join returns when the thread has returned from HandlerTask.  On *)
(* a thread that was never created it returns an error, which the code     *)
(* logs, or crashes the process, in which then nobody takes a step.        *)
Join ==
    /\ cpc[Main] = "join"
    /\ \A w \in Workers : wpc[w] \in {"exited", "failed"}
    /\ CGoto(Main, "joined")
    /\ UNCHANGED <<poolVars, queueVars, workerVars, ctask, fresh, history>>

(* It may be the first one in _threads.                                    *)
JoinCrashes ==
    /\ cpc[Main] = "join"
    /\ Failed # {}
    /\ CGoto(Main, "crashed")
    /\ UNCHANGED <<poolVars, queueVars, workerVars, ctask, fresh, history>>

-----------------------------------------------------------------------------
(* Workers: HandlerTask.                                                   *)

LockQueue(w) ==
    /\ wpc[w] = "lock"
    /\ Lock(w)
    /\ WGoto(w, "test")
    /\ UNCHANGED <<poolVars, queue, sleeprnum, waiting, task, callerVars, history>>

(* while (_task_queue.empty() && _isrunning)                               *)
TestQueue(w) ==
    /\ wpc[w] = "test"
    /\ WGoto(w, IF NothingToDo THEN "sleep" ELSE "decide")
    /\ UNCHANGED <<poolVars, queueVars, task, callerVars, history>>

(* _sleeprnum++ and pthread_cond_wait, which blocks and unlocks at once.   *)
Sleep(w) ==
    /\ wpc[w] = "sleep"
    /\ sleeprnum' = sleeprnum + 1
    /\ waiting' = waiting \cup {w}
    /\ Unlock(w)
    /\ WGoto(w, "wait")
    /\ UNCHANGED <<poolVars, queue, task, callerVars, history>>

(* pthread_cond_wait may return without a signal.                          *)
SpuriousWakeup(w) ==
    /\ Alive /\ w \in waiting
    /\ waiting' = waiting \ {w}
    /\ UNCHANGED <<poolVars, mutex, queue, sleeprnum, workerVars, callerVars, history>>

WakeUpWithoutRetest(w) ==
    /\ wpc[w] = "wait"
    /\ w \notin waiting
    /\ Lock(w)
    /\ NoLongerCounted
    /\ WGoto(w, "decide")
    /\ UNCHANGED <<poolVars, queue, waiting, task, callerVars, history>>

(* A woken thread takes the mutex again inside pthread_cond_wait, then     *)
(* _sleeprnum-- and back to the loop's test.                               *)
WakeUp(w) ==
    /\ wpc[w] = "wait"
    /\ w \notin waiting
    /\ Lock(w)
    /\ NoLongerCounted
    /\ WGoto(w, "test")
    /\ UNCHANGED <<poolVars, queue, waiting, task, callerVars, history>>

(* if (!_isrunning && _task_queue.empty()) break                           *)
Exit(w) ==
    /\ wpc[w] = "decide"
    /\ MayLeave
    /\ Unlock(w)
    /\ WGoto(w, "exited")
    /\ UNCHANGED <<poolVars, queue, sleeprnum, waiting, task, callerVars, history>>

Pop(w) ==
    /\ wpc[w] = "decide"
    /\ ~MayLeave
    /\ task' = [task EXCEPT ![w] = FrontOfQueue]
    /\ queue' = Tail(queue)
    /\ Unlock(w)
    /\ WGoto(w, "run")
    /\ UNCHANGED <<poolVars, sleeprnum, waiting, callerVars, history>>

(* task() returns; the loop's next round declares a new task.              *)
RunTask(w) ==
    /\ wpc[w] = "run"
    /\ done' = done \cup {task[w]}
    /\ task' = [task EXCEPT ![w] = NoTask]
    /\ WGoto(w, "lock")
    /\ UNCHANGED <<poolVars, queueVars, callerVars, late>>

HandlerTask(w) == \/ LockQueue(w) \/ TestQueue(w) \/ Sleep(w) \/ WakeUp(w)
                  \/ Exit(w) \/ Pop(w) \/ RunTask(w)

-----------------------------------------------------------------------------
CallerStep(c) == \/ LockSingleton(c) \/ CreateInstance(c) \/ StartPool(c)
                 \/ FinishStart(c) \/ Equeue(c)
                 \/ \E w \in Workers : SpawnThread(c, w)

(* Main has joined the pool and nobody has anything left to submit, or the *)
(* process has crashed.                                                    *)
Terminated == /\ \/ ~Alive
                 \/ /\ cpc[Main] = "joined"
                    /\ fresh = {}
                    /\ \A c \in Callers \ {Main} : cpc[c] = "idle"
              /\ UNCHANGED vars

Next == \/ \E c \in Callers : CallerStep(c) \/ \E t \in Tasks : GetInstance(c, t)
        \/ Stop \/ WakeUpAllThread \/ Join \/ JoinCrashes
        \/ \E w \in Workers : HandlerTask(w) \/ SpuriousWakeup(w)
        \/ Terminated

(* A thread that can run is eventually scheduled, and one that blocks on a *)
(* mutex that is released again and again eventually gets it.  Nothing     *)
(* obliges a caller to submit or Main to stop, and spurious wakeups are    *)
(* never required.                                                         *)
Fairness ==
    /\ \A w \in Workers : /\ WF_vars(HandlerTask(w))
                          /\ SF_vars(LockQueue(w) \/ WakeUp(w))
    /\ \A c \in Callers : /\ WF_vars(CallerStep(c))
                          /\ SF_vars(LockSingleton(c) \/ Push(c))
    /\ SF_vars(WakeUpAllThread)
    /\ WF_vars(Join)

Safety == Init /\ [][Next]_vars
Spec   == Safety /\ Fairness

-----------------------------------------------------------------------------
(* Properties.                                                             *)

(* Every variable has the type its declaration in ThreadPool.hpp gives it; *)
(* _sleeprnum never leaves 0.._num.                                        *)
TypeOK ==
    /\ pools \in Nat
    /\ slock \in Callers \cup {Nobody}
    /\ isrunning \in BOOLEAN
    /\ mutex \in Workers \cup {Nobody}
    /\ queue \in Seq(Tasks)
    /\ sleeprnum \in 0..NumThreads
    /\ waiting \in SUBSET Workers
    /\ wpc \in [Workers -> WorkerPC]
    /\ task \in [Workers -> Tasks \cup {NoTask}]
    /\ cpc \in [Callers -> CallerPC]
    /\ ctask \in [Callers -> Tasks \cup {NoTask}]
    /\ fresh \in SUBSET Tasks
    /\ late \in SUBSET Tasks
    /\ done \in SUBSET Tasks

(* However many callers race through GetInstance, one pool is constructed  *)
(* and one caller at a time is inside the critical section of _lock.       *)
SingleInstance ==
    /\ pools <= 1
    /\ \A c \in Callers : cpc[c] \in {"create", "start", "spawn"} => slock = c

(* _sleeprnum counts exactly the threads inside pthread_cond_wait, woken   *)
(* ones included, so "_threads.size() == _sleeprnum" in Equeue means that  *)
(* every thread is in there.                                               *)
SleepCount == sleeprnum = Cardinality({w \in Workers : wpc[w] = "wait"})

(* A worker never takes the front of an empty queue, not even after a      *)
(* spurious wakeup or when another worker was faster.                      *)
NeverPopsEmpty ==
    \A w \in Workers : wpc[w] = "decide" => ~isrunning \/ queue # <<>>

Awake(w) == \/ wpc[w] \in {"unborn", "lock", "test", "decide", "run"}
            \/ wpc[w] = "wait" /\ w \notin waiting

(* Equeue signals only when all threads sleep.  That is enough: a running  *)
(* pool with a queued task has a thread that is on its way to the queue,   *)
(* provided that every thread could be created.  And once Stop has done    *)
(* its broadcast no thread sleeps any more.                                *)
NoLostWakeup ==
    /\ isrunning /\ queue # <<>> /\ Failed = {} => \E w \in Workers : Awake(w)
    /\ cpc[Main] \in {"join", "joined"} => waiting = {}

(* When the last thread has left, only tasks that overtook Stop between    *)
(* the unlocked test and the push of Equeue can be left in the queue.      *)
OnlyLateStranded ==
    /\ \A w \in Workers : wpc[w] \in {"exited", "failed"}
    /\ \E w \in Workers : wpc[w] = "exited"
    => ToSet(queue) \subseteq late

(* The log line of a leaving thread says that the pool has stopped and the *)
(* queue is empty: when all have left, every accepted task has been run.   *)
DrainedAtExit ==
    (\A w \in Workers : wpc[w] = "exited") => queue = <<>>

(* Stop and Join terminate: every thread leaves its loop.  Only the join   *)
(* of a thread that could not be created may crash instead.                *)
StopTerminates ==
    cpc[Main] = "wakeall" ~> cpc[Main] = "joined" \/ (Failed # {} /\ ~Alive)

(* A task accepted by a running pool whose threads could all be created is *)
(* eventually executed, whether or not the pool is stopped meanwhile.  In  *)
(* a pool where one could not be, nobody may be woken for it before Stop;  *)
(* Stop then has it executed, if Join does not crash.                      *)
AcceptedRun ==
    \A t \in Tasks :
        /\ t \in ToSet(queue) ~> t \in done \/ t \in late \/ Failed # {}
        /\ t \in ToSet(queue) /\ cpc[Main] = "join" ~>
               t \in done \/ t \in late \/ Failed = Workers \/ (Failed # {} /\ ~Alive)

(* The pool implements TaskService: a task is executed at most once, tasks *)
(* start in the order in which they were pushed, at most one per thread,   *)
(* and only tasks that arrived at a running pool are executed.             *)
Service == INSTANCE TaskService WITH
    MaxParallel <- NumThreads,
    phase    <- IF isrunning THEN "open"
                ELSE IF cpc[Main] \in {"wakeall", "join", "joined", "crashed"} THEN "shut"
                ELSE "closed",
    admitted <- {ctask[c] : c \in {d \in Callers : cpc[d] = "push"}},
    running  <- {task[w] : w \in {v \in Workers : wpc[v] = "run"}},
    finished <- done

ImplementsTaskService == Service!Spec
=============================================================================
