-------------------------- MODULE ThreadPoolProofs --------------------------
(***************************************************************************)
(* Proofs about ThreadPool for any number of threads, callers and tasks.   *)
(* IInv is the inductive invariant; every safety property of ThreadPool    *)
(* but DrainedAtExit, which is false, follows from it.  InOnePlace, which  *)
(* is inductive relative to IInv, adds what the refinement needs.          *)
(***************************************************************************)
EXTENDS ThreadPool, FiniteSetTheorems, TLAPS

Holding  == {"test", "sleep", "decide"}
InGetInstance == {"create", "start", "spawn"}
Stopped  == {"wakeall", "join", "joined", "crashed"}
Waiters  == {w \in Workers : wpc[w] = "wait"}

(* _mutex is held exactly by the thread that is between its lock and its   *)
(* wait, its pop or its exit.                                              *)
MutexInv == \A w \in Workers : wpc[w] \in Holding <=> mutex = w

(* _lock is held exactly by the caller inside the second test.             *)
SingletonInv == \A c \in Callers : cpc[c] \in InGetInstance <=> slock = c

(* Before Start has set _isrunning no thread exists.                       *)
StartInv ==
    /\ pools \in {0, 1}
    /\ pools = 0 => \A c \in Callers : cpc[c] \in {"idle", "lock", "create"}
    /\ \A c \in Callers : pools = 0 \/ cpc[c] = "start" =>
           ~isrunning /\ \A w \in Workers : wpc[w] = "unborn"

(* After Stop the pool is never running again.                             *)
StopInv ==
    cpc[Main] \in Stopped => ~isrunning /\ \A w \in Workers : wpc[w] # "unborn"

(* Whoever is about to push or to run a task has one.                      *)
TaskInv ==
    /\ \A c \in Callers : cpc[c] \notin Stopped \cup {"idle"} => ctask[c] \in Tasks
    /\ \A w \in Workers : wpc[w] = "run" => task[w] \in Tasks

(* A thread decides to sleep only on an empty queue of a running pool, and *)
(* only sleepers are in the wait set, which the broadcast of Stop empties  *)
(* for good.                                                               *)
SleepInv ==
    /\ waiting \subseteq Waiters
    /\ \A w \in Workers : wpc[w] = "sleep" => queue = <<>>
    /\ cpc[Main] \in {"join", "joined"} =>
           waiting = {} /\ \A w \in Workers : wpc[w] # "sleep"

(* A thread leaves only a stopped pool, and from then on every push is     *)
(* late.                                                                   *)
ExitInv ==
    \A w \in Workers : wpc[w] = "exited" => ~isrunning /\ ToSet(queue) \subseteq late

(* The half of NoLostWakeup that concerns a running pool.                  *)
RunningPoolAwake ==
    isrunning /\ queue # <<>> /\ Failed = {} => \E w \in Workers : Awake(w)

IInv == /\ TypeOK
        /\ MutexInv
        /\ SingletonInv
        /\ StartInv
        /\ StopInv
        /\ TaskInv
        /\ SleepInv
        /\ SleepCount
        /\ NeverPopsEmpty
        /\ ExitInv
        /\ RunningPoolAwake

(***************************************************************************)
(* Facts about the data.                                                   *)
(***************************************************************************)
(* push adds one task to the contents of the queue.                        *)
LEMMA AppendRange ==
  ASSUME NEW S, NEW s \in Seq(S), NEW e \in S
  PROVE  /\ Append(s, e) \in Seq(S)
         /\ Append(s, e) # <<>>
         /\ ToSet(Append(s, e)) = ToSet(s) \cup {e}
  <1>1. /\ Append(s, e) \in Seq(S)
        /\ Len(Append(s, e)) = Len(s) + 1
        /\ DOMAIN Append(s, e) = 1..(Len(s) + 1)
        /\ DOMAIN s = 1..Len(s)
        /\ \A i \in 1..Len(s) : Append(s, e)[i] = s[i]
        /\ Append(s, e)[Len(s) + 1] = e
        /\ Len(s) \in Nat
    OBVIOUS
  <1>2. ToSet(Append(s, e)) \subseteq ToSet(s) \cup {e}
    BY <1>1 DEF ToSet
  <1>3. ToSet(s) \cup {e} \subseteq ToSet(Append(s, e))
    BY <1>1 DEF ToSet
  <1> QED BY <1>1, <1>2, <1>3

(* front and pop of a queue that is not empty.                             *)
LEMMA TailRange ==
  ASSUME NEW S, NEW s \in Seq(S), s # <<>>
  PROVE  /\ Head(s) \in S
         /\ Tail(s) \in Seq(S)
         /\ ToSet(Tail(s)) \subseteq ToSet(s)
  BY DEF ToSet

(* The number of threads in pthread_cond_wait is at most the number of     *)
(* threads, and equal to it only if every thread is in there.              *)
LEMMA SubsetCounted ==
  ASSUME NEW S \in SUBSET Workers
  PROVE  /\ IsFiniteSet(S)
         /\ Cardinality(S) \in 0..NumThreads
         /\ Cardinality(S) = NumThreads => S = Workers
  BY PoolAssumption, FS_Subset, FS_CardinalityType DEF NumThreads

(* The same for the threads inside pthread_cond_wait, now ... *)
LEMMA WaitersCounted ==
  /\ IsFiniteSet(Waiters)
  /\ Cardinality(Waiters) \in 0..NumThreads
  /\ Cardinality(Waiters) = NumThreads => Waiters = Workers
  BY SubsetCounted DEF Waiters

(* ... and after a step. *)
LEMMA WaitersCountedNext ==
  Cardinality(Waiters') \in 0..NumThreads
  BY SubsetCounted DEF Waiters

(***************************************************************************)
(* Every step preserves IInv.  A step of a proof names the conjuncts that  *)
(* the action can disturb; its last steps collect those it cannot.         *)
(***************************************************************************)

(* A call picks its task and reads inc. *)
LEMMA GetInstanceStep ==
  ASSUME IInv, NEW c \in Callers, NEW t \in Tasks, GetInstance(c, t)
  PROVE  IInv'
  <1> USE PoolAssumption DEF IInv, GetInstance, poolVars, queueVars, workerVars,
      callerVars, history, WGoto, CGoto
  <1>1. TypeOK'
    BY DEF TypeOK, WorkerPC, CallerPC
  <1>2. SingletonInv'
    BY DEF TypeOK, SingletonInv, InGetInstance
  <1>3. StartInv'
    BY DEF TypeOK, StartInv
  <1>4. StopInv'
    BY DEF TypeOK, StopInv, Stopped
  <1>5. TaskInv'
    BY DEF TypeOK, TaskInv, Stopped
  <1>6. SleepInv'
    BY DEF TypeOK, SleepInv, Waiters
  <1>7. MutexInv' /\ SleepCount' /\ NeverPopsEmpty' /\ ExitInv' /\ RunningPoolAwake'
    BY DEF MutexInv, Holding, SleepCount, NeverPopsEmpty, ExitInv, RunningPoolAwake, Awake, Failed
  <1> QED BY <1>1, <1>2, <1>3, <1>4, <1>5, <1>6, <1>7

(* One caller enters the critical section of _lock. *)
LEMMA LockSingletonStep ==
  ASSUME IInv, NEW c \in Callers, LockSingleton(c)
  PROVE  IInv'
  <1> USE PoolAssumption DEF IInv, LockSingleton, poolVars, queueVars, workerVars,
      callerVars, history, WGoto, CGoto
  <1>1. TypeOK'
    BY DEF TypeOK, WorkerPC, CallerPC
  <1>2. SingletonInv'
    BY DEF TypeOK, SingletonInv, InGetInstance
  <1>3. StartInv'
    BY DEF TypeOK, StartInv
  <1>4. StopInv'
    BY DEF TypeOK, StopInv, Stopped
  <1>5. TaskInv'
    BY DEF TypeOK, TaskInv, Stopped
  <1>6. SleepInv'
    BY DEF TypeOK, SleepInv, Waiters
  <1>7. MutexInv' /\ SleepCount' /\ NeverPopsEmpty' /\ ExitInv' /\ RunningPoolAwake'
    BY DEF MutexInv, Holding, SleepCount, NeverPopsEmpty, ExitInv, RunningPoolAwake, Awake, Failed
  <1> QED BY <1>1, <1>2, <1>3, <1>4, <1>5, <1>6, <1>7

(* The second test: nothing is constructed twice, because inc is null only
   before the first construction. *)
LEMMA CreateInstanceStep ==
  ASSUME IInv, NEW c \in Callers, CreateInstance(c)
  PROVE  IInv'
  <1> USE PoolAssumption DEF IInv, CreateInstance, poolVars, queueVars, workerVars,
      callerVars, history, WGoto, CGoto
  <1>1. TypeOK'
    BY DEF TypeOK, WorkerPC, CallerPC
  <1>2. SingletonInv'
    BY DEF TypeOK, SingletonInv, InGetInstance
  <1>3. StartInv'
    BY DEF TypeOK, StartInv, StillNull, SingletonInv, InGetInstance
  <1>4. StopInv'
    BY DEF TypeOK, StopInv, Stopped
  <1>5. TaskInv'
    BY DEF TypeOK, TaskInv, Stopped
  <1>6. SleepInv'
    BY DEF TypeOK, SleepInv, Waiters
  <1>7. MutexInv' /\ SleepCount' /\ NeverPopsEmpty' /\ ExitInv' /\ RunningPoolAwake'
    BY DEF MutexInv, Holding, SleepCount, NeverPopsEmpty, ExitInv, RunningPoolAwake, Awake, Failed
  <1> QED BY <1>1, <1>2, <1>3, <1>4, <1>5, <1>6, <1>7

(* _isrunning is set once, before any thread exists. *)
LEMMA StartPoolStep ==
  ASSUME IInv, NEW c \in Callers, StartPool(c)
  PROVE  IInv'
  <1> USE PoolAssumption DEF IInv, StartPool, poolVars, queueVars, workerVars,
      callerVars, history, WGoto, CGoto
  <1>1. TypeOK'
    BY DEF TypeOK, WorkerPC, CallerPC
  <1>2. SingletonInv'
    BY DEF TypeOK, SingletonInv, InGetInstance
  <1>3. StartInv'
    BY DEF TypeOK, StartInv, SingletonInv, InGetInstance
  <1>4. StopInv'
    BY DEF TypeOK, StopInv, Stopped, StartInv
  <1>5. TaskInv'
    BY DEF TypeOK, TaskInv, Stopped
  <1>6. SleepInv'
    BY DEF TypeOK, SleepInv, Waiters
  <1>7. NeverPopsEmpty'
    BY DEF TypeOK, NeverPopsEmpty, StartInv
  <1>8. ExitInv'
    BY DEF TypeOK, ExitInv, StartInv
  <1>9. RunningPoolAwake'
    BY DEF TypeOK, RunningPoolAwake, Awake, Failed, StartInv
  <1>10. MutexInv' /\ SleepCount'
    BY DEF MutexInv, Holding, SleepCount
  <1> QED BY <1>1, <1>2, <1>3, <1>4, <1>5, <1>6, <1>7, <1>8, <1>9, <1>10

(* A thread is created, or is not. *)
LEMMA SpawnThreadStep ==
  ASSUME IInv, NEW c \in Callers, NEW w \in Workers, SpawnThread(c, w)
  PROVE  IInv'
  <1> USE PoolAssumption DEF IInv, SpawnThread, poolVars, queueVars, workerVars,
      callerVars, history, WGoto, CGoto
  <1>1. TypeOK'
    BY DEF TypeOK, WorkerPC, CallerPC
  <1>2. MutexInv'
    BY DEF TypeOK, MutexInv, Holding
  <1>3. StartInv'
    BY DEF TypeOK, StartInv, SingletonInv, InGetInstance
  <1>4. StopInv'
    BY DEF TypeOK, StopInv, Stopped
  <1>5. TaskInv'
    BY DEF TypeOK, TaskInv, Stopped
  <1>6. SleepInv'
    BY DEF TypeOK, SleepInv, Waiters, MutexInv, Holding
  <1>7. SleepCount'
    <2>1. {v \in Workers : wpc'[v] = "wait"} = {v \in Workers : wpc[v] = "wait"}
      BY DEF TypeOK
    <2> QED BY <2>1 DEF SleepCount
  <1>8. NeverPopsEmpty'
    BY DEF TypeOK, NeverPopsEmpty
  <1>9. ExitInv'
    BY DEF TypeOK, ExitInv
  <1>10. RunningPoolAwake'
    BY DEF TypeOK, RunningPoolAwake, Awake, Failed
  <1>11. SingletonInv'
    BY DEF SingletonInv, InGetInstance
  <1> QED BY <1>1, <1>2, <1>3, <1>4, <1>5, <1>6, <1>7, <1>8, <1>9, <1>10, <1>11

(* The constructing caller leaves GetInstance. *)
LEMMA FinishStartStep ==
  ASSUME IInv, NEW c \in Callers, FinishStart(c)
  PROVE  IInv'
  <1> USE PoolAssumption DEF IInv, FinishStart, poolVars, queueVars, workerVars,
      callerVars, history, WGoto, CGoto
  <1>1. TypeOK'
    BY DEF TypeOK, WorkerPC, CallerPC
  <1>2. SingletonInv'
    BY DEF TypeOK, SingletonInv, InGetInstance
  <1>3. StartInv'
    BY DEF TypeOK, StartInv
  <1>4. StopInv'
    BY DEF TypeOK, StopInv, Stopped
  <1>5. TaskInv'
    BY DEF TypeOK, TaskInv, Stopped
  <1>6. SleepInv'
    BY DEF TypeOK, SleepInv, Waiters
  <1>7. MutexInv' /\ SleepCount' /\ NeverPopsEmpty' /\ ExitInv' /\ RunningPoolAwake'
    BY DEF MutexInv, Holding, SleepCount, NeverPopsEmpty, ExitInv, RunningPoolAwake, Awake, Failed
  <1> QED BY <1>1, <1>2, <1>3, <1>4, <1>5, <1>6, <1>7

(* The unlocked test of _isrunning. *)
LEMMA CheckRunningStep ==
  ASSUME IInv, NEW c \in Callers, CheckRunning(c)
  PROVE  IInv'
  <1> USE PoolAssumption DEF IInv, CheckRunning, poolVars, queueVars, workerVars,
      callerVars, history, WGoto, CGoto
  <1>1. TypeOK'
    BY DEF TypeOK, WorkerPC, CallerPC
  <1>2. SingletonInv'
    BY DEF TypeOK, SingletonInv, InGetInstance
  <1>3. StartInv'
    BY DEF TypeOK, StartInv
  <1>4. StopInv'
    BY DEF TypeOK, StopInv, Stopped
  <1>5. TaskInv'
    BY DEF TypeOK, TaskInv, Stopped
  <1>6. SleepInv'
    BY DEF TypeOK, SleepInv, Waiters
  <1>7. MutexInv' /\ SleepCount' /\ NeverPopsEmpty' /\ ExitInv' /\ RunningPoolAwake'
    BY DEF MutexInv, Holding, SleepCount, NeverPopsEmpty, ExitInv, RunningPoolAwake, Awake, Failed
  <1> QED BY <1>1, <1>2, <1>3, <1>4, <1>5, <1>6, <1>7

(* The locked half of Equeue.  If every thread is counted as asleep every
   thread is in pthread_cond_wait, and the signal reaches one of them; if
   not, some thread is outside, and as nobody holds the mutex it is on its
   way to it. *)
LEMMA PushStep ==
  ASSUME IInv, NEW c \in Callers, Push(c)
  PROVE  IInv'
  <1> USE PoolAssumption DEF IInv, Push, poolVars, queueVars, workerVars,
      callerVars, history, WGoto, CGoto
  <1>1. TypeOK'
    BY DEF TypeOK, WorkerPC, CallerPC, TaskInv, Stopped, Signal
  <1>2. SingletonInv'
    BY DEF TypeOK, SingletonInv, InGetInstance
  <1>3. StartInv'
    BY DEF TypeOK, StartInv
  <1>4. StopInv'
    BY DEF TypeOK, StopInv, Stopped
  <1>5. TaskInv'
    BY DEF TypeOK, TaskInv, Stopped
  <1>6. SleepInv'
    BY DEF TypeOK, SleepInv, Waiters, MutexInv, Holding, Signal
  <1>7. SleepCount'
    BY DEF SleepCount
  <1>8. NeverPopsEmpty'
    BY DEF TypeOK, NeverPopsEmpty, TaskInv, Stopped
  <1>9. ExitInv'
    <2>1. ctask[c] \in Tasks
      BY DEF TaskInv, Stopped
    <2>2. ToSet(queue') = ToSet(queue) \cup {ctask[c]}
      BY <2>1, AppendRange DEF TypeOK
    <2> QED BY <2>2 DEF ExitInv
  <1>10. RunningPoolAwake'
    <2> SUFFICES ASSUME isrunning, Failed = {}
                 PROVE  \E w \in Workers : Awake(w)'
      BY DEF RunningPoolAwake, Failed
    <2>1. CASE AllAsleep
      <3>1. \A w \in Workers : wpc[w] = "wait"
        BY <2>1, WaitersCounted DEF AllAsleep, SleepCount, Waiters
      <3>2. CASE waiting = {}
        BY <2>1, <3>1, <3>2 DEF Signal, Awake
      <3>3. CASE waiting # {}
        <4>1. PICK w \in waiting : waiting' = waiting \ {w}
          BY <2>1, <3>3 DEF Signal
        <4>2. w \in Workers /\ w \notin waiting'
          BY <4>1 DEF TypeOK
        <4> QED BY <3>1, <4>2 DEF Awake
      <3> QED BY <3>2, <3>3
    <2>2. CASE ~AllAsleep
      <3>1. PICK w \in Workers : wpc[w] # "wait"
        <4>1. ASSUME \A w \in Workers : wpc[w] = "wait" PROVE FALSE
          <5>1. {w \in Workers : wpc[w] = "wait"} = Workers
            BY <4>1
          <5> QED BY <5>1, <2>2 DEF AllAsleep, SleepCount, NumThreads
        <4> QED BY <4>1
      <3>2. wpc[w] \notin {"test", "sleep", "decide"}
        BY DEF MutexInv, Holding
      <3>3. wpc[w] \notin {"exited", "failed"}
        BY DEF ExitInv, Failed
      <3> QED BY <3>1, <3>2, <3>3 DEF Awake, TypeOK, WorkerPC
    <2> QED BY <2>1, <2>2
  <1>11. MutexInv'
    BY DEF MutexInv, Holding
  <1> QED BY <1>1, <1>2, <1>3, <1>4, <1>5, <1>6, <1>7, <1>8, <1>9, <1>10, <1>11

(* Stop clears _isrunning. *)
LEMMA StopStep ==
  ASSUME IInv, Stop
  PROVE  IInv'
  <1> USE PoolAssumption DEF IInv, Stop, poolVars, queueVars, workerVars,
      callerVars, history, WGoto, CGoto
  <1>1. TypeOK'
    BY DEF TypeOK, WorkerPC, CallerPC
  <1>2. SingletonInv'
    BY DEF TypeOK, SingletonInv, InGetInstance
  <1>3. StartInv'
    BY DEF TypeOK, StartInv, Started
  <1>4. StopInv'
    BY DEF TypeOK, StopInv, Stopped, Started
  <1>5. TaskInv'
    BY DEF TypeOK, TaskInv, Stopped
  <1>6. SleepInv'
    BY DEF TypeOK, SleepInv, Waiters
  <1>7. NeverPopsEmpty'
    BY DEF TypeOK, NeverPopsEmpty
  <1>8. ExitInv'
    BY DEF TypeOK, ExitInv
  <1>9. RunningPoolAwake'
    BY DEF TypeOK, RunningPoolAwake, Awake, Failed
  <1>10. MutexInv' /\ SleepCount'
    BY DEF MutexInv, Holding, SleepCount
  <1> QED BY <1>1, <1>2, <1>3, <1>4, <1>5, <1>6, <1>7, <1>8, <1>9, <1>10

(* The broadcast of Stop happens while nobody holds the mutex, so nobody is
   between its test of the queue and its wait. *)
LEMMA WakeUpAllThreadStep ==
  ASSUME IInv, WakeUpAllThread
  PROVE  IInv'
  <1> USE PoolAssumption DEF IInv, WakeUpAllThread, poolVars, queueVars, workerVars,
      callerVars, history, WGoto, CGoto
  <1>1. TypeOK'
    BY DEF TypeOK, WorkerPC, CallerPC, Broadcast
  <1>2. SingletonInv'
    BY DEF TypeOK, SingletonInv, InGetInstance
  <1>3. StartInv'
    BY DEF TypeOK, StartInv
  <1>4. StopInv'
    BY DEF TypeOK, StopInv, Stopped
  <1>5. TaskInv'
    BY DEF TypeOK, TaskInv, Stopped
  <1>6. SleepInv'
    <2>1. waiting' = {}
      <3>1. CASE sleeprnum > 0
        BY <3>1 DEF Broadcast
      <3>2. CASE ~(sleeprnum > 0)
        <4>1. Waiters = {}
          <5>1. Cardinality(Waiters) = sleeprnum /\ sleeprnum \in Nat
            BY DEF SleepCount, TypeOK, Waiters
          <5>2. Cardinality(Waiters) = 0
            BY <3>2, <5>1
          <5> QED BY <5>2, WaitersCounted, FS_EmptySet
        <4> QED BY <3>2, <4>1 DEF SleepInv
      <3> QED BY <3>1, <3>2
    <2>2. \A w \in Workers : wpc[w] # "sleep"
      BY DEF MutexInv, Holding, SleepInv
    <2> QED BY <2>1, <2>2 DEF SleepInv, Waiters
  <1>7. RunningPoolAwake'
    BY DEF TypeOK, RunningPoolAwake, Awake, Failed, StopInv, Stopped
  <1>8. MutexInv' /\ SleepCount' /\ NeverPopsEmpty' /\ ExitInv'
    BY DEF MutexInv, Holding, SleepCount, NeverPopsEmpty, ExitInv
  <1> QED BY <1>1, <1>2, <1>3, <1>4, <1>5, <1>6, <1>7, <1>8

(* pthread_join of the last thread returns. *)
LEMMA JoinStep ==
  ASSUME IInv, Join
  PROVE  IInv'
  <1> USE PoolAssumption DEF IInv, Join, poolVars, queueVars, workerVars,
      callerVars, history, WGoto, CGoto
  <1>1. TypeOK'
    BY DEF TypeOK, WorkerPC, CallerPC
  <1>2. SingletonInv'
    BY DEF TypeOK, SingletonInv, InGetInstance
  <1>3. StartInv'
    BY DEF TypeOK, StartInv
  <1>4. StopInv'
    BY DEF TypeOK, StopInv, Stopped
  <1>5. TaskInv'
    BY DEF TypeOK, TaskInv, Stopped
  <1>6. SleepInv'
    BY DEF TypeOK, SleepInv, Waiters
  <1>7. MutexInv' /\ SleepCount' /\ NeverPopsEmpty' /\ ExitInv' /\ RunningPoolAwake'
    BY DEF MutexInv, Holding, SleepCount, NeverPopsEmpty, ExitInv, RunningPoolAwake, Awake, Failed
  <1> QED BY <1>1, <1>2, <1>3, <1>4, <1>5, <1>6, <1>7

(* The join of a thread that was never created crashes the process.        *)
LEMMA JoinCrashesStep ==
  ASSUME IInv, JoinCrashes
  PROVE  IInv'
  <1> USE PoolAssumption DEF IInv, JoinCrashes, poolVars, queueVars, workerVars,
      callerVars, history, WGoto, CGoto
  <1>1. TypeOK'
    BY DEF TypeOK, WorkerPC, CallerPC
  <1>2. SingletonInv'
    BY DEF TypeOK, SingletonInv, InGetInstance
  <1>3. StartInv'
    BY DEF TypeOK, StartInv
  <1>4. StopInv'
    BY DEF TypeOK, StopInv, Stopped
  <1>5. TaskInv'
    BY DEF TypeOK, TaskInv, Stopped
  <1>6. SleepInv'
    BY DEF TypeOK, SleepInv, Waiters
  <1>7. MutexInv' /\ SleepCount' /\ NeverPopsEmpty' /\ ExitInv' /\ RunningPoolAwake'
    BY DEF MutexInv, Holding, SleepCount, NeverPopsEmpty, ExitInv, RunningPoolAwake, Awake, Failed
  <1> QED BY <1>1, <1>2, <1>3, <1>4, <1>5, <1>6, <1>7

(* A thread takes the mutex. *)
LEMMA LockQueueStep ==
  ASSUME IInv, NEW w \in Workers, LockQueue(w)
  PROVE  IInv'
  <1> USE PoolAssumption DEF IInv, LockQueue, poolVars, queueVars, workerVars,
      callerVars, history, WGoto, CGoto
  <1>1. TypeOK'
    BY DEF TypeOK, WorkerPC, CallerPC, Lock
  <1>2. MutexInv'
    BY DEF TypeOK, MutexInv, Holding, Lock
  <1>3. StartInv'
    BY DEF TypeOK, StartInv
  <1>4. StopInv'
    BY DEF TypeOK, StopInv, Stopped
  <1>5. TaskInv'
    BY DEF TypeOK, TaskInv, Stopped
  <1>6. SleepInv'
    BY DEF TypeOK, SleepInv, Waiters, MutexInv, Holding
  <1>7. SleepCount'
    <2>1. {v \in Workers : wpc'[v] = "wait"} = {v \in Workers : wpc[v] = "wait"}
      BY DEF TypeOK
    <2> QED BY <2>1 DEF SleepCount
  <1>8. NeverPopsEmpty'
    BY DEF TypeOK, NeverPopsEmpty
  <1>9. ExitInv'
    BY DEF TypeOK, ExitInv
  <1>10. RunningPoolAwake'
    BY DEF TypeOK, RunningPoolAwake, Awake, Failed
  <1>11. SingletonInv'
    BY DEF SingletonInv, InGetInstance
  <1> QED BY <1>1, <1>2, <1>3, <1>4, <1>5, <1>6, <1>7, <1>8, <1>9, <1>10, <1>11

(* The test of the while loop. *)
LEMMA TestQueueStep ==
  ASSUME IInv, NEW w \in Workers, TestQueue(w)
  PROVE  IInv'
  <1> USE PoolAssumption DEF IInv, TestQueue, poolVars, queueVars, workerVars,
      callerVars, history, WGoto, CGoto
  <1>1. TypeOK'
    BY DEF TypeOK, WorkerPC, CallerPC
  <1>2. MutexInv'
    BY DEF TypeOK, MutexInv, Holding
  <1>3. StartInv'
    BY DEF TypeOK, StartInv
  <1>4. StopInv'
    BY DEF TypeOK, StopInv, Stopped
  <1>5. TaskInv'
    BY DEF TypeOK, TaskInv, Stopped
  <1>6. SleepInv'
    BY DEF TypeOK, SleepInv, Waiters, NothingToDo, StopInv, Stopped, MutexInv, Holding
  <1>7. SleepCount'
    <2>1. {v \in Workers : wpc'[v] = "wait"} = {v \in Workers : wpc[v] = "wait"}
      BY DEF TypeOK
    <2> QED BY <2>1 DEF SleepCount
  <1>8. NeverPopsEmpty'
    BY DEF TypeOK, NeverPopsEmpty, NothingToDo
  <1>9. ExitInv'
    BY DEF TypeOK, ExitInv
  <1>10. RunningPoolAwake'
    BY DEF TypeOK, RunningPoolAwake, Awake, Failed, NothingToDo
  <1>11. SingletonInv'
    BY DEF SingletonInv, InGetInstance
  <1> QED BY <1>1, <1>2, <1>3, <1>4, <1>5, <1>6, <1>7, <1>8, <1>9, <1>10, <1>11

(* A thread goes to sleep: it is counted, and the queue is empty. *)
LEMMA SleepStep ==
  ASSUME IInv, NEW w \in Workers, Sleep(w)
  PROVE  IInv'
  <1> USE PoolAssumption DEF IInv, Sleep, poolVars, queueVars, workerVars,
      callerVars, history, WGoto, CGoto
  <1>1. SleepCount' /\ sleeprnum' \in 0..NumThreads
    <2>1. Waiters' = Waiters \cup {w} /\ w \notin Waiters
      BY DEF Waiters, TypeOK
    <2>2. Cardinality(Waiters') = Cardinality(Waiters) + 1
      BY <2>1, WaitersCounted, FS_AddElement
    <2> QED BY <2>2, WaitersCountedNext DEF SleepCount, Waiters, TypeOK
  <1>2. TypeOK'
    BY <1>1 DEF TypeOK, WorkerPC, Unlock
  <1>3. MutexInv'
    BY DEF TypeOK, MutexInv, Holding, Unlock
  <1>4. StartInv'
    BY DEF TypeOK, StartInv
  <1>5. StopInv'
    BY DEF TypeOK, StopInv, Stopped
  <1>6. TaskInv'
    BY DEF TypeOK, TaskInv, Stopped
  <1>7. SleepInv'
    BY DEF TypeOK, SleepInv, Waiters, MutexInv, Holding
  <1>8. NeverPopsEmpty'
    BY DEF TypeOK, NeverPopsEmpty
  <1>9. ExitInv'
    BY DEF TypeOK, ExitInv
  <1>10. RunningPoolAwake'
    BY DEF TypeOK, RunningPoolAwake, Awake, Failed, SleepInv
  <1>11. SingletonInv'
    BY DEF SingletonInv, InGetInstance
  <1> QED BY <1>1, <1>2, <1>3, <1>4, <1>5, <1>6, <1>7, <1>8, <1>9, <1>10, <1>11

(* A thread leaves the set of sleepers without a signal; it is still counted. *)
LEMMA SpuriousWakeupStep ==
  ASSUME IInv, NEW w \in Workers, SpuriousWakeup(w)
  PROVE  IInv'
  <1> USE PoolAssumption DEF IInv, SpuriousWakeup, poolVars, queueVars, workerVars,
      callerVars, history, WGoto, CGoto
  <1>1. TypeOK'
    BY DEF TypeOK, WorkerPC, CallerPC
  <1>2. SleepInv'
    BY DEF TypeOK, SleepInv, Waiters, MutexInv, Holding
  <1>3. RunningPoolAwake'
    BY DEF TypeOK, RunningPoolAwake, Awake, Failed, SleepInv, Waiters
  <1>4. MutexInv' /\ SingletonInv' /\ StartInv' /\ StopInv' /\ TaskInv' /\ SleepCount' /\ NeverPopsEmpty' /\ ExitInv'
    BY DEF MutexInv, Holding, SingletonInv, InGetInstance, StartInv, StopInv, Stopped, TaskInv, SleepCount, NeverPopsEmpty, ExitInv
  <1> QED BY <1>1, <1>2, <1>3, <1>4

(* A woken thread takes the mutex and is no longer counted. *)
LEMMA WakeUpStep ==
  ASSUME IInv, NEW w \in Workers, WakeUp(w)
  PROVE  IInv'
  <1> USE PoolAssumption DEF IInv, WakeUp, poolVars, queueVars, workerVars,
      callerVars, history, WGoto, CGoto
  <1>1. SleepCount' /\ sleeprnum' \in 0..NumThreads
    <2>1. Waiters' = Waiters \ {w} /\ w \in Waiters
      BY DEF Waiters, TypeOK
    <2>2. Cardinality(Waiters') = Cardinality(Waiters) - 1
      BY <2>1, WaitersCounted, FS_RemoveElement
    <2> QED BY <2>2, WaitersCountedNext DEF SleepCount, Waiters, TypeOK, NoLongerCounted
  <1>2. TypeOK'
    BY <1>1 DEF TypeOK, WorkerPC, Lock
  <1>3. MutexInv'
    BY DEF TypeOK, MutexInv, Holding, Lock
  <1>4. StartInv'
    BY DEF TypeOK, StartInv
  <1>5. StopInv'
    BY DEF TypeOK, StopInv, Stopped
  <1>6. TaskInv'
    BY DEF TypeOK, TaskInv, Stopped
  <1>7. SleepInv'
    BY DEF TypeOK, SleepInv, Waiters, MutexInv, Holding
  <1>8. NeverPopsEmpty'
    BY DEF TypeOK, NeverPopsEmpty
  <1>9. ExitInv'
    BY DEF TypeOK, ExitInv
  <1>10. RunningPoolAwake'
    BY DEF TypeOK, RunningPoolAwake, Awake, Failed
  <1>11. SingletonInv'
    BY DEF SingletonInv, InGetInstance
  <1> QED BY <1>1, <1>2, <1>3, <1>4, <1>5, <1>6, <1>7, <1>8, <1>9, <1>10, <1>11

(* A thread leaves: the pool is stopped and the queue is empty. *)
LEMMA ExitStep ==
  ASSUME IInv, NEW w \in Workers, Exit(w)
  PROVE  IInv'
  <1> USE PoolAssumption DEF IInv, Exit, poolVars, queueVars, workerVars,
      callerVars, history, WGoto, CGoto
  <1>1. TypeOK'
    BY DEF TypeOK, WorkerPC, CallerPC, Unlock
  <1>2. MutexInv'
    BY DEF TypeOK, MutexInv, Holding, Unlock
  <1>3. StartInv'
    BY DEF TypeOK, StartInv
  <1>4. StopInv'
    BY DEF TypeOK, StopInv, Stopped
  <1>5. TaskInv'
    BY DEF TypeOK, TaskInv, Stopped
  <1>6. SleepInv'
    BY DEF TypeOK, SleepInv, Waiters, MutexInv, Holding
  <1>7. SleepCount'
    <2>1. {v \in Workers : wpc'[v] = "wait"} = {v \in Workers : wpc[v] = "wait"}
      BY DEF TypeOK
    <2> QED BY <2>1 DEF SleepCount
  <1>8. NeverPopsEmpty'
    BY DEF TypeOK, NeverPopsEmpty
  <1>9. ExitInv'
    BY DEF TypeOK, ExitInv, MayLeave, ToSet
  <1>10. RunningPoolAwake'
    BY DEF TypeOK, RunningPoolAwake, Awake, Failed, MayLeave
  <1>11. SingletonInv'
    BY DEF SingletonInv, InGetInstance
  <1> QED BY <1>1, <1>2, <1>3, <1>4, <1>5, <1>6, <1>7, <1>8, <1>9, <1>10, <1>11

(* A thread takes the front of the queue. *)
LEMMA PopStep ==
  ASSUME IInv, NEW w \in Workers, Pop(w)
  PROVE  IInv'
  <1> USE PoolAssumption DEF IInv, Pop, poolVars, queueVars, workerVars,
      callerVars, history, WGoto, CGoto
  <1>1. queue # <<>>
    BY DEF NeverPopsEmpty, MayLeave
  <1>2. TypeOK'
    BY <1>1, TailRange DEF TypeOK, WorkerPC, Unlock, FrontOfQueue
  <1>3. MutexInv'
    BY DEF TypeOK, MutexInv, Holding, Unlock
  <1>4. StartInv'
    BY DEF TypeOK, StartInv
  <1>5. StopInv'
    BY DEF TypeOK, StopInv, Stopped
  <1>6. TaskInv'
    BY <1>1, TailRange DEF TypeOK, TaskInv, Stopped, FrontOfQueue
  <1>7. SleepInv'
    BY DEF TypeOK, SleepInv, Waiters, MutexInv, Holding
  <1>8. SleepCount'
    <2>1. {v \in Workers : wpc'[v] = "wait"} = {v \in Workers : wpc[v] = "wait"}
      BY DEF TypeOK
    <2> QED BY <2>1 DEF SleepCount
  <1>9. NeverPopsEmpty'
    BY DEF TypeOK, NeverPopsEmpty, MutexInv, Holding
  <1>10. ExitInv'
    BY <1>1, TailRange DEF TypeOK, ExitInv
  <1>11. RunningPoolAwake'
    BY DEF TypeOK, RunningPoolAwake, Awake, Failed
  <1>12. SingletonInv'
    BY DEF SingletonInv, InGetInstance
  <1> QED BY <1>1, <1>2, <1>3, <1>4, <1>5, <1>6, <1>7, <1>8, <1>9, <1>10, <1>11, <1>12

(* A task returns. *)
LEMMA RunTaskStep ==
  ASSUME IInv, NEW w \in Workers, RunTask(w)
  PROVE  IInv'
  <1> USE PoolAssumption DEF IInv, RunTask, poolVars, queueVars, workerVars,
      callerVars, history, WGoto, CGoto
  <1>1. TypeOK'
    BY DEF TypeOK, WorkerPC, CallerPC, TaskInv
  <1>2. MutexInv'
    BY DEF TypeOK, MutexInv, Holding
  <1>3. StartInv'
    BY DEF TypeOK, StartInv
  <1>4. StopInv'
    BY DEF TypeOK, StopInv, Stopped
  <1>5. TaskInv'
    BY DEF TypeOK, TaskInv, Stopped
  <1>6. SleepInv'
    BY DEF TypeOK, SleepInv, Waiters, MutexInv, Holding
  <1>7. SleepCount'
    <2>1. {v \in Workers : wpc'[v] = "wait"} = {v \in Workers : wpc[v] = "wait"}
      BY DEF TypeOK
    <2> QED BY <2>1 DEF SleepCount
  <1>8. NeverPopsEmpty'
    BY DEF TypeOK, NeverPopsEmpty
  <1>9. ExitInv'
    BY DEF TypeOK, ExitInv
  <1>10. RunningPoolAwake'
    BY DEF TypeOK, RunningPoolAwake, Awake, Failed
  <1>11. SingletonInv'
    BY DEF SingletonInv, InGetInstance
  <1> QED BY <1>1, <1>2, <1>3, <1>4, <1>5, <1>6, <1>7, <1>8, <1>9, <1>10, <1>11

(***************************************************************************)
(* The theorems.                                                           *)
(***************************************************************************)
(* Nothing exists before the first GetInstance.                            *)
LEMMA InitInv == Init => IInv
  <1> SUFFICES ASSUME Init PROVE IInv
    OBVIOUS
  <1> USE PoolAssumption DEF Init
  <1>1. Waiters = {}
    BY DEF Waiters
  <1>2. SleepCount
    BY <1>1, FS_EmptySet DEF SleepCount, Waiters
  <1>3. TypeOK
    <2>1. NumThreads \in Nat
      BY FS_CardinalityType DEF NumThreads
    <2>2. wpc \in [Workers -> WorkerPC] /\ cpc \in [Callers -> CallerPC]
      BY DEF WorkerPC, CallerPC
    <2>3. /\ task \in [Workers -> Tasks \cup {NoTask}]
          /\ ctask \in [Callers -> Tasks \cup {NoTask}]
      OBVIOUS
    <2>4. queue \in Seq(Tasks) /\ sleeprnum \in 0..NumThreads
      BY <2>1
    <2> QED BY <2>2, <2>3, <2>4 DEF TypeOK
  <1>4. MutexInv /\ SingletonInv /\ StartInv
    BY DEF MutexInv, SingletonInv, StartInv, Holding, InGetInstance
  <1>5. StopInv /\ TaskInv /\ SleepInv
    BY DEF StopInv, TaskInv, SleepInv, Stopped
  <1>6. NeverPopsEmpty /\ ExitInv /\ RunningPoolAwake
    BY DEF NeverPopsEmpty, ExitInv, RunningPoolAwake
  <1> QED BY <1>2, <1>3, <1>4, <1>5, <1>6 DEF IInv

(* A step that changes nothing keeps the invariant.                        *)
LEMMA StutterInv == IInv /\ UNCHANGED vars => IInv'
  <1> SUFFICES ASSUME IInv, UNCHANGED vars PROVE IInv'
    OBVIOUS
  <1> USE DEF IInv, vars
  <1>1. TypeOK' /\ MutexInv' /\ SingletonInv' /\ StartInv' /\ StopInv' /\ TaskInv'
    BY DEF TypeOK, MutexInv, SingletonInv, StartInv, StopInv, TaskInv
  <1>2. SleepInv' /\ SleepCount' /\ NeverPopsEmpty' /\ ExitInv' /\ RunningPoolAwake'
    BY DEF SleepInv, SleepCount, NeverPopsEmpty, ExitInv, RunningPoolAwake, Waiters,
           Failed, Awake
  <1> QED BY <1>1, <1>2

(* The inductive step: every action of Next keeps the invariant.           *)
LEMMA NextInv == IInv /\ [Next]_vars => IInv'
  <1> SUFFICES ASSUME IInv, [Next]_vars PROVE IInv'
    OBVIOUS
  <1>1. ASSUME NEW c \in Callers, CallerStep(c) PROVE IInv'
    BY <1>1, LockSingletonStep, CreateInstanceStep, StartPoolStep, FinishStartStep,
       SpawnThreadStep, CheckRunningStep, PushStep DEF CallerStep, Equeue
  <1>2. ASSUME NEW w \in Workers, HandlerTask(w) PROVE IInv'
    BY <1>2, LockQueueStep, TestQueueStep, SleepStep, WakeUpStep, ExitStep, PopStep,
       RunTaskStep DEF HandlerTask
  <1>3. CASE UNCHANGED vars
    BY <1>3, StutterInv
  <1> QED BY <1>1, <1>2, <1>3, GetInstanceStep, StopStep, WakeUpAllThreadStep,
             JoinStep, JoinCrashesStep, SpuriousWakeupStep DEF Next, Terminated

(* The inductive invariant holds in every reachable state.                 *)
THEOREM Invariance == Safety => []IInv
  BY InitInv, NextInv, PTL DEF Safety

(* Type correctness; in particular _sleeprnum stays within 0.._num.        *)
THEOREM TypeCorrect == Safety => []TypeOK
  <1>1. IInv => TypeOK
    BY DEF IInv
  <1> QED BY <1>1, Invariance, PTL

(* However many callers race, GetInstance constructs one pool.             *)
THEOREM OneInstance == Safety => []SingleInstance
  <1>1. IInv => SingleInstance
    BY DEF IInv, StartInv, SingletonInv, SingleInstance, InGetInstance
  <1> QED BY <1>1, Invariance, PTL

(* _sleeprnum is the number of threads inside pthread_cond_wait.           *)
THEOREM SleepersCounted == Safety => []SleepCount
  <1>1. IInv => SleepCount
    BY DEF IInv
  <1> QED BY <1>1, Invariance, PTL

(* front and pop are never called on an empty queue.                       *)
THEOREM PopsTask == Safety => []NeverPopsEmpty
  <1>1. IInv => NeverPopsEmpty
    BY DEF IInv
  <1> QED BY <1>1, Invariance, PTL

(* Signalling only when all threads sleep loses no wakeup.                 *)
THEOREM WakeupsSuffice == Safety => []NoLostWakeup
  <1>1. IInv => NoLostWakeup
    BY DEF IInv, NoLostWakeup, RunningPoolAwake, SleepInv
  <1> QED BY <1>1, Invariance, PTL

(* Only tasks that overtook Stop can be left behind.                       *)
THEOREM StrandedAreLate == Safety => []OnlyLateStranded
  <1>1. IInv => OnlyLateStranded
    BY DEF IInv, ExitInv, OnlyLateStranded
  <1> QED BY <1>1, Invariance, PTL

(***************************************************************************)
(* The refinement.  A task is in one place only: not submitted yet, in the *)
(* hands of one caller, at one place in the queue, run by one thread, or   *)
(* done.                                                                   *)
(***************************************************************************)
Hands   == {c \in Callers : cpc[c] \notin Stopped \cup {"idle"}}
Pushers == {c \in Callers : cpc[c] = "push"}
Runners == {w \in Workers : wpc[w] = "run"}

InOnePlace ==
    /\ fresh \cap (ToSet(queue) \cup done) = {}
    /\ done \cap ToSet(queue) = {}
    /\ \A c \in Hands : ctask[c] \notin fresh \cup ToSet(queue) \cup done
    /\ \A w \in Runners : task[w] \notin fresh \cup ToSet(queue) \cup done
    /\ \A c \in Hands : \A w \in Runners : ctask[c] # task[w]
    /\ \A i, j \in 1..Len(queue) : queue[i] = queue[j] => i = j
    /\ \A c, d \in Hands : ctask[c] = ctask[d] => c = d
    /\ \A v, w \in Runners : task[v] = task[w] => v = w

(* Most steps move no task.                                                *)
LEMMA NoTaskMoves ==
  ASSUME InOnePlace, UNCHANGED <<fresh, queue, done, task>>, Runners' = Runners,
         Hands' \subseteq Hands, \A c \in Hands' : ctask'[c] = ctask[c]
  PROVE  InOnePlace'
  <1>1. UNCHANGED fresh /\ UNCHANGED queue /\ UNCHANGED done /\ UNCHANGED task
    OBVIOUS
  <1>2. ToSet(queue)' = ToSet(queue)
    BY <1>1
  <1>3. PICK H : H = Hands'
    OBVIOUS
  <1>4. H \subseteq Hands /\ \A c \in H : ctask'[c] = ctask[c]
    BY <1>3
  <1>5. /\ \A c \in H : ctask'[c] \notin fresh \cup ToSet(queue) \cup done
        /\ \A c \in H : \A w \in Runners : ctask'[c] # task[w]
        /\ \A c, d \in H : ctask'[c] = ctask'[d] => c = d
    BY <1>4 DEF InOnePlace
  <1> QED BY <1>1, <1>2, <1>3, <1>5 DEF InOnePlace

(* push puts a task that is nowhere in the queue behind all others.        *)
LEMMA PushedOnce ==
  ASSUME NEW S, NEW s \in Seq(S), NEW e \in S, e \notin ToSet(s),
         \A i, j \in 1..Len(s) : s[i] = s[j] => i = j
  PROVE  \A i, j \in 1..Len(Append(s, e)) : Append(s, e)[i] = Append(s, e)[j] => i = j
  <1>1. /\ Len(s) \in Nat /\ Len(Append(s, e)) = Len(s) + 1
        /\ \A i \in 1..Len(s) : Append(s, e)[i] = s[i]
        /\ Append(s, e)[Len(s) + 1] = e
        /\ \A i \in 1..Len(s) : s[i] # e
    BY DEF ToSet
  <1>2. ASSUME NEW i \in 1..(Len(s) + 1), NEW j \in 1..(Len(s) + 1),
               Append(s, e)[i] = Append(s, e)[j]
        PROVE  i = j
    <2>1. (i \in 1..Len(s) \/ i = Len(s) + 1) /\ (j \in 1..Len(s) \/ j = Len(s) + 1)
      BY <1>1
    <2> QED BY <1>1, <1>2, <2>1
  <1> QED BY <1>1, <1>2

(* The front of a queue is not in the rest of it.                          *)
LEMMA PoppedOnce ==
  ASSUME NEW S, NEW s \in Seq(S), s # <<>>,
         \A i, j \in 1..Len(s) : s[i] = s[j] => i = j
  PROVE  /\ Head(s) \in ToSet(s) /\ Head(s) \notin ToSet(Tail(s))
         /\ ToSet(Tail(s)) \subseteq ToSet(s)
         /\ \A i, j \in 1..Len(Tail(s)) : Tail(s)[i] = Tail(s)[j] => i = j
  <1>1. /\ Len(s) \in Nat \ {0} /\ Head(s) = s[1] /\ Len(Tail(s)) = Len(s) - 1
        /\ \A i \in 1..(Len(s) - 1) : Tail(s)[i] = s[i + 1]
        /\ DOMAIN s = 1..Len(s) /\ DOMAIN Tail(s) = 1..(Len(s) - 1)
    OBVIOUS
  <1>2. \A i \in 1..(Len(s) - 1) : i + 1 \in 1..Len(s) /\ i + 1 # 1
    BY <1>1
  <1>3. Head(s) \in ToSet(s)
    BY <1>1 DEF ToSet
  <1>4. ToSet(Tail(s)) \subseteq ToSet(s)
    BY <1>1, <1>2 DEF ToSet
  <1>5. Head(s) \notin ToSet(Tail(s))
    BY <1>1, <1>2 DEF ToSet
  <1>6. ASSUME NEW i \in 1..(Len(s) - 1), NEW j \in 1..(Len(s) - 1), Tail(s)[i] = Tail(s)[j]
        PROVE  i = j
    <2>1. s[i + 1] = s[j + 1] /\ i + 1 \in 1..Len(s) /\ j + 1 \in 1..Len(s)
      BY <1>1, <1>2, <1>6
    <2>2. i + 1 = j + 1
      BY <2>1
    <2> QED BY <2>2
  <1> QED BY <1>1, <1>3, <1>4, <1>5, <1>6

LEMMA InOnePlaceInit == Init => InOnePlace
  <1> SUFFICES ASSUME Init PROVE InOnePlace
    OBVIOUS
  <1>1. Hands = {} /\ Runners = {} /\ queue = <<>> /\ done = {}
    BY DEF Init, Hands, Runners
  <1>2. ToSet(queue) = {} /\ Len(queue) = 0
    BY <1>1 DEF ToSet
  <1> QED BY <1>1, <1>2 DEF InOnePlace

(* A submitted task comes into the hands of its caller ...                 *)
LEMMA SubmittedOnce ==
  ASSUME IInv, InOnePlace, NEW c \in Callers, NEW t \in Tasks, GetInstance(c, t)
  PROVE  InOnePlace'
  <1>1. /\ t \in fresh /\ fresh' = fresh \ {t} /\ cpc[c] = "idle"
        /\ ctask' = [ctask EXCEPT ![c] = t]
        /\ UNCHANGED <<queue, done, task, wpc>>
    BY DEF GetInstance, queueVars, workerVars, history
  <1>2. Hands' = Hands \cup {c} /\ c \notin Hands
    BY <1>1 DEF GetInstance, CGoto, Hands, IInv, TypeOK, Stopped
  <1>3. Runners' = Runners /\ ToSet(queue)' = ToSet(queue)
    BY <1>1 DEF Runners
  <1>4. ctask'[c] = t /\ \A d \in Hands : ctask'[d] = ctask[d]
    BY <1>1, <1>2 DEF Hands, IInv, TypeOK
  <1>5. \A d \in Hands : ctask'[d] # t
    BY <1>1, <1>4 DEF InOnePlace
  <1>6. \A w \in Runners : task[w] # t
    BY <1>1 DEF InOnePlace
  <1>7. PICK H : H = Hands \cup {c}
    OBVIOUS
  <1>8. /\ \A d \in H : ctask'[d] \notin fresh' \cup ToSet(queue) \cup done
        /\ \A d \in H : \A w \in Runners : ctask'[d] # task[w]
        /\ \A b, d \in H : ctask'[b] = ctask'[d] => b = d
    BY <1>1, <1>4, <1>5, <1>6, <1>7 DEF InOnePlace
  <1>9. /\ fresh' \cap (ToSet(queue) \cup done) = {}
        /\ \A w \in Runners : task[w] \notin fresh' \cup ToSet(queue) \cup done
    BY <1>1 DEF InOnePlace
  <1> QED BY <1>1, <1>2, <1>3, <1>7, <1>8, <1>9 DEF InOnePlace

(* ... from there into the queue ...                                       *)
LEMMA PushOnce ==
  ASSUME IInv, InOnePlace, NEW c \in Callers, Push(c)
  PROVE  InOnePlace'
  <1>1. /\ cpc[c] = "push" /\ queue' = Append(queue, ctask[c])
        /\ ctask' = [ctask EXCEPT ![c] = NoTask]
        /\ UNCHANGED <<fresh, done, task, wpc>>
    BY DEF Push, workerVars
  <1>2. /\ c \in Hands /\ Hands' = Hands \ {c} /\ Runners' = Runners
        /\ ctask[c] \in Tasks /\ \A d \in Hands' : ctask'[d] = ctask[d]
    BY <1>1 DEF Push, CGoto, Hands, Runners, IInv, TypeOK, TaskInv, Stopped
  <1>3. PICK t \in Tasks : t = ctask[c]
    BY <1>2
  <1>4. PICK s \in Seq(Tasks) : s = queue
    BY DEF IInv, TypeOK
  <1>5. t \notin fresh \cup ToSet(s) \cup done
    BY <1>2, <1>3, <1>4 DEF InOnePlace
  <1>6. queue' = Append(s, t)
    BY <1>1, <1>3, <1>4
  <1>7. ToSet(queue)' = ToSet(s) \cup {t}
    BY <1>6, AppendRange
  <1>8. \A i, j \in 1..Len(queue') : queue'[i] = queue'[j] => i = j
    <2>1. \A i, j \in 1..Len(s) : s[i] = s[j] => i = j
      BY <1>4 DEF InOnePlace
    <2> QED BY <2>1, <1>5, <1>6, PushedOnce
  <1>9. PICK H : H = Hands \ {c}
    OBVIOUS
  <1>10. /\ \A d \in H : ctask'[d] \notin fresh \cup (ToSet(s) \cup {t}) \cup done
         /\ \A d \in H : \A w \in Runners : ctask'[d] # task[w]
         /\ \A b, d \in H : ctask'[b] = ctask'[d] => b = d
    BY <1>2, <1>3, <1>4, <1>9 DEF InOnePlace
  <1>11. /\ fresh \cap ((ToSet(s) \cup {t}) \cup done) = {}
         /\ done \cap (ToSet(s) \cup {t}) = {}
         /\ \A w \in Runners : task[w] \notin fresh \cup (ToSet(s) \cup {t}) \cup done
    BY <1>2, <1>3, <1>4, <1>5 DEF InOnePlace
  <1>12. \A v, w \in Runners : task[v] = task[w] => v = w
    BY DEF InOnePlace
  <1> QED BY <1>1, <1>2, <1>7, <1>8, <1>9, <1>10, <1>11, <1>12 DEF InOnePlace

(* ... from there to one thread ...                                        *)
LEMMA PopOnce ==
  ASSUME IInv, InOnePlace, NEW w \in Workers, Pop(w)
  PROVE  InOnePlace'
  <1>1. /\ wpc[w] = "decide" /\ queue # <<>> /\ queue' = Tail(queue)
        /\ task' = [task EXCEPT ![w] = Head(queue)]
        /\ UNCHANGED <<fresh, done, ctask, cpc>>
    BY DEF Pop, MayLeave, FrontOfQueue, IInv, NeverPopsEmpty, callerVars, history
  <1>2. PICK s \in Seq(Tasks) : s = queue
    BY DEF IInv, TypeOK
  <1>3. PICK t \in Tasks : t = Head(s)
    BY <1>1, <1>2, TailRange
  <1>4. \A i, j \in 1..Len(s) : s[i] = s[j] => i = j
    BY <1>2 DEF InOnePlace
  <1>5. /\ t \in ToSet(s) /\ t \notin ToSet(Tail(s)) /\ ToSet(Tail(s)) \subseteq ToSet(s)
        /\ \A i, j \in 1..Len(Tail(s)) : Tail(s)[i] = Tail(s)[j] => i = j
    BY <1>1, <1>2, <1>3, <1>4, PoppedOnce
  <1>6. Runners' = Runners \cup {w} /\ w \notin Runners /\ Hands' = Hands
    BY <1>1 DEF Pop, WGoto, Runners, Hands, IInv, TypeOK
  <1>7. task'[w] = t /\ \A v \in Runners : task'[v] = task[v]
    BY <1>1, <1>2, <1>3, <1>6 DEF Runners, IInv, TypeOK
  <1>8. queue' = Tail(s)
    BY <1>1, <1>2
  <1>9. PICK R : R = Runners \cup {w}
    OBVIOUS
  <1>10. /\ t \notin fresh \cup done
         /\ \A v \in Runners : task[v] # t
         /\ \A c \in Hands : ctask[c] # t
    BY <1>2, <1>5 DEF InOnePlace
  <1>11. /\ \A v \in R : task'[v] \notin fresh \cup ToSet(Tail(s)) \cup done
         /\ \A c \in Hands : \A v \in R : ctask[c] # task'[v]
         /\ \A u, v \in R : task'[u] = task'[v] => u = v
    BY <1>2, <1>5, <1>7, <1>9, <1>10 DEF InOnePlace
  <1>12. /\ fresh \cap (ToSet(Tail(s)) \cup done) = {}
         /\ done \cap ToSet(Tail(s)) = {}
         /\ \A c \in Hands : ctask[c] \notin fresh \cup ToSet(Tail(s)) \cup done
         /\ \A c, d \in Hands : ctask[c] = ctask[d] => c = d
    BY <1>2, <1>5 DEF InOnePlace
  <1> QED BY ZenonT(60), <1>1, <1>5, <1>6, <1>8, <1>9, <1>11, <1>12 DEF InOnePlace

(* ... and from there to the tasks that are done.                          *)
LEMMA RunOnce ==
  ASSUME IInv, InOnePlace, NEW w \in Workers, RunTask(w)
  PROVE  InOnePlace'
  <1>1. /\ wpc[w] = "run" /\ done' = done \cup {task[w]}
        /\ task' = [task EXCEPT ![w] = NoTask]
        /\ UNCHANGED <<fresh, queue, ctask, cpc>>
    BY DEF RunTask, queueVars, callerVars
  <1>2. w \in Runners /\ Runners' = Runners \ {w} /\ Hands' = Hands
    BY <1>1 DEF RunTask, WGoto, Runners, Hands, IInv, TypeOK
  <1>3. \A v \in Runners' : task'[v] = task[v]
    BY <1>1, <1>2 DEF Runners, IInv, TypeOK
  <1>4. PICK R : R = Runners \ {w}
    OBVIOUS
  <1>5. PICK t : t = task[w]
    OBVIOUS
  <1>6. /\ t \notin fresh \cup ToSet(queue)
        /\ \A v \in R : task[v] # t
        /\ \A c \in Hands : ctask[c] # t
    BY <1>2, <1>4, <1>5 DEF InOnePlace
  <1>7. \A v \in R : task'[v] = task[v]
    BY <1>2, <1>3, <1>4
  <1>8. /\ \A v \in R : task'[v] \notin fresh \cup ToSet(queue) \cup (done \cup {t})
        /\ \A c \in Hands : \A v \in R : ctask[c] # task'[v]
        /\ \A u, v \in R : task'[u] = task'[v] => u = v
    BY <1>4, <1>6, <1>7 DEF InOnePlace
  <1>9. /\ fresh \cap (ToSet(queue) \cup (done \cup {t})) = {}
        /\ (done \cup {t}) \cap ToSet(queue) = {}
        /\ \A c \in Hands : ctask[c] \notin fresh \cup ToSet(queue) \cup (done \cup {t})
        /\ \A c, d \in Hands : ctask[c] = ctask[d] => c = d
        /\ \A i, j \in 1..Len(queue) : queue[i] = queue[j] => i = j
    BY <1>6 DEF InOnePlace
  <1>10. ToSet(queue)' = ToSet(queue)
    BY <1>1
  <1> QED BY <1>1, <1>2, <1>4, <1>5, <1>8, <1>9, <1>10 DEF InOnePlace

LEMMA InOnePlaceNext == IInv /\ InOnePlace /\ [Next]_vars => InOnePlace'
  <1> SUFFICES ASSUME IInv, InOnePlace, [Next]_vars PROVE InOnePlace'
    OBVIOUS
  <1>1. ASSUME NEW c \in Callers, \/ LockSingleton(c) \/ CreateInstance(c) \/ StartPool(c)
                                  \/ FinishStart(c) \/ CheckRunning(c)
                                  \/ \E w \in Workers : SpawnThread(c, w)
        PROVE  InOnePlace'
    <2>1. UNCHANGED <<fresh, queue, done, task>>
      BY <1>1 DEF LockSingleton, CreateInstance, StartPool, FinishStart, CheckRunning,
                  SpawnThread, queueVars, workerVars, callerVars, history
    <2>2. Runners' = Runners
      BY <1>1 DEF LockSingleton, CreateInstance, StartPool, FinishStart, CheckRunning,
                  SpawnThread, workerVars, WGoto, Runners, IInv, TypeOK
    <2>3. /\ Hands' \subseteq Hands
          /\ \A d \in Hands' : ctask'[d] = ctask[d]
      BY <1>1 DEF LockSingleton, CreateInstance, StartPool, FinishStart, CheckRunning,
                  SpawnThread, callerVars, CGoto, Hands, Stopped, IInv, TypeOK
    <2> QED BY <2>1, <2>2, <2>3, NoTaskMoves
  <1>2. CASE Stop \/ WakeUpAllThread \/ Join \/ JoinCrashes
    <2>1. UNCHANGED <<fresh, queue, done, task>> /\ Runners' = Runners
      BY <1>2 DEF Stop, WakeUpAllThread, Join, JoinCrashes, queueVars, workerVars, history, Runners
    <2>2. Hands' \subseteq Hands /\ \A d \in Hands' : ctask'[d] = ctask[d]
      BY <1>2 DEF Stop, WakeUpAllThread, Join, JoinCrashes, CGoto, Hands, Stopped, IInv, TypeOK
    <2> QED BY <2>1, <2>2, NoTaskMoves
  <1>3. ASSUME NEW w \in Workers, \/ LockQueue(w) \/ TestQueue(w) \/ Sleep(w)
                                  \/ WakeUp(w) \/ Exit(w) \/ SpuriousWakeup(w)
        PROVE  InOnePlace'
    <2>1. UNCHANGED <<fresh, queue, done, task>> /\ Hands' \subseteq Hands
      BY <1>3 DEF LockQueue, TestQueue, Sleep, WakeUp, Exit, SpuriousWakeup,
                  queueVars, workerVars, callerVars, history, Hands
    <2>2. Runners' = Runners /\ \A d \in Hands' : ctask'[d] = ctask[d]
      BY <1>3 DEF LockQueue, TestQueue, Sleep, WakeUp, Exit, SpuriousWakeup, workerVars,
                  callerVars, WGoto, Runners, IInv, TypeOK
    <2> QED BY <2>1, <2>2, NoTaskMoves
  <1>4. CASE UNCHANGED vars
    BY <1>4, NoTaskMoves DEF vars, Hands, Runners
  <1> QED BY <1>1, <1>2, <1>3, <1>4, SubmittedOnce, PushOnce, PopOnce, RunOnce
          DEF Next, CallerStep, Equeue, HandlerTask, Terminated

(* What the service sees of the pool.                                      *)
Phase    == IF isrunning THEN "open" ELSE IF cpc[Main] \in Stopped THEN "shut" ELSE "closed"
Admitted == {ctask[c] : c \in Pushers}
Running  == {task[w] : w \in Runners}

LEMMA ServiceSees ==
  /\ Service!vars = <<Phase, Admitted, queue, Running, done>>
  /\ Service!vars' = <<Phase', Admitted', queue', Running', done'>>
  /\ Service!Known = Admitted \cup ToSet(queue) \cup Running \cup done
  <1>1. Service!vars = <<Phase, Admitted, queue, Running, done>>
    BY DEF Service!vars, Phase, Admitted, Running, Pushers, Runners, Stopped
  <1>2. Service!vars' = <<Phase', Admitted', queue', Running', done'>>
    BY DEF Service!vars, Phase, Admitted, Running, Pushers, Runners, Stopped
  <1>3. Service!Known = Admitted \cup ToSet(queue) \cup Running \cup done
    BY DEF Service!Known, Service!ToSet, ToSet, Admitted, Running, Pushers, Runners
  <1> QED BY <1>1, <1>2, <1>3

LEMMA ServiceSteps ==
  /\ /\ Phase = "closed" /\ Phase' = "open"
     /\ UNCHANGED <<Admitted, queue, Running, done>>
     => Service!Open
  /\ /\ Phase = "open" /\ Phase' = "shut"
     /\ UNCHANGED <<Admitted, queue, Running, done>>
     => Service!Shut
  /\ \A t : /\ Phase = "open" /\ t \in Tasks \ Service!Known
            /\ Admitted' = Admitted \cup {t}
            /\ UNCHANGED <<Phase, queue, Running, done>>
            => Service!Admit(t)
  /\ \A t : /\ t \in Admitted /\ Admitted' = Admitted \ {t} /\ queue' = Append(queue, t)
            /\ UNCHANGED <<Phase, Running, done>>
            => Service!Enter(t)
  /\ /\ queue # <<>> /\ Cardinality(Running) < NumThreads
     /\ Running' = Running \cup {Head(queue)} /\ queue' = Tail(queue)
     /\ UNCHANGED <<Phase, Admitted, done>>
     => Service!Take
  /\ \A t : /\ t \in Running /\ Running' = Running \ {t} /\ done' = done \cup {t}
            /\ UNCHANGED <<Phase, Admitted, queue>>
            => Service!Finish(t)
  <1> USE DEF Phase, Admitted, Running, Pushers, Runners, Stopped
  <1>1. Phase = "closed" /\ Phase' = "open" /\ UNCHANGED <<Admitted, queue, Running, done>>
        => Service!Open
    BY DEF Service!Open
  <1>2. Phase = "open" /\ Phase' = "shut" /\ UNCHANGED <<Admitted, queue, Running, done>>
        => Service!Shut
    BY DEF Service!Shut
  <1>3. ASSUME NEW t, Phase = "open" /\ t \in Tasks \ Service!Known,
               Admitted' = Admitted \cup {t}, UNCHANGED <<Phase, queue, Running, done>>
        PROVE  Service!Admit(t)
    BY <1>3 DEF Service!Admit
  <1>4. ASSUME NEW t, t \in Admitted, Admitted' = Admitted \ {t}, queue' = Append(queue, t),
               UNCHANGED <<Phase, Running, done>>
        PROVE  Service!Enter(t)
    BY <1>4 DEF Service!Enter
  <1>5. ASSUME queue # <<>>, Cardinality(Running) < NumThreads,
               Running' = Running \cup {Head(queue)}, queue' = Tail(queue),
               UNCHANGED <<Phase, Admitted, done>>
        PROVE  Service!Take
    BY <1>5 DEF Service!Take, Service!Cardinality, Cardinality
  <1>6. ASSUME NEW t, t \in Running, Running' = Running \ {t}, done' = done \cup {t},
               UNCHANGED <<Phase, Admitted, queue>>
        PROVE  Service!Finish(t)
    BY <1>6 DEF Service!Finish
  <1> HIDE DEF Phase, Admitted, Running, Pushers, Runners, Stopped
  <1> QED BY <1>1, <1>2, <1>3, <1>4, <1>5, <1>6

(* A step that the service does not see.                                   *)
LEMMA NotSeen ==
  ASSUME UNCHANGED <<queue, done, task>>, Phase' = Phase, Runners' = Runners,
         Pushers' = Pushers, \A c \in Pushers : ctask'[c] = ctask[c]
  PROVE  UNCHANGED Service!vars
  <1>1. Admitted' = Admitted
    BY DEF Admitted
  <1>2. Running' = Running
    BY DEF Running
  <1> QED BY <1>1, <1>2, ServiceSees

(* Fewer than _num tasks run while a thread is deciding.                   *)
LEMMA RunningCounted ==
  ASSUME IInv, NEW w \in Workers, w \notin Runners
  PROVE  Cardinality(Running) < NumThreads
  <1>1. Runners \in SUBSET Workers
    BY DEF Runners
  <1>2. /\ IsFiniteSet(Runners) /\ Cardinality(Runners) \in 0..NumThreads
        /\ Cardinality(Runners) = NumThreads => Runners = Workers
    BY <1>1, SubsetCounted
  <1>3. Cardinality(Runners) < NumThreads
    BY <1>2, PoolAssumption, FS_CardinalityType DEF NumThreads
  <1>4. PICK f : f = [v \in Runners |-> task[v]]
    OBVIOUS
  <1>5. f \in Surjection(Runners, Running)
    BY <1>4 DEF Surjection, Running
  <1>6. IsFiniteSet(Running) /\ Cardinality(Running) <= Cardinality(Runners)
    BY <1>2, <1>5, FS_Surjection
  <1>7. Cardinality(Running) \in Nat /\ Cardinality(Runners) \in Nat /\ NumThreads \in Nat
    BY <1>2, <1>6, PoolAssumption, FS_CardinalityType DEF NumThreads
  <1> QED BY <1>3, <1>6, <1>7

(* The caller that finds the pool running has its task admitted, or the    *)
(* refused caller is not seen.                                             *)
LEMMA AdmitRefines ==
  ASSUME IInv, InOnePlace, NEW c \in Callers, CheckRunning(c)
  PROVE  (\E t \in Tasks : Service!Admit(t)) \/ UNCHANGED Service!vars
  <1>1. /\ cpc[c] = "equeue" /\ UNCHANGED <<isrunning, queue, done, task, wpc>>
    BY DEF CheckRunning, poolVars, queueVars, workerVars, history
  <1>2. Runners' = Runners
    BY <1>1 DEF Runners
  <1>3. Phase' = Phase
    <2>1. \E l \in {"push", "idle"} : cpc' = [cpc EXCEPT ![c] = l]
      BY DEF CheckRunning, CGoto
    <2>2. cpc'[Main] \in Stopped <=> cpc[Main] \in Stopped
      BY <1>1, <2>1, PoolAssumption DEF Stopped, IInv, TypeOK
    <2> QED BY <1>1, <2>2 DEF Phase
  <1>4. CASE isrunning
    <2>1. ctask' = ctask /\ cpc' = [cpc EXCEPT ![c] = "push"]
      BY <1>4 DEF CheckRunning, CGoto
    <2>2. Pushers' = Pushers \cup {c}
      BY <2>1 DEF Pushers, IInv, TypeOK
    <2>3. PICK t : t = ctask[c]
      OBVIOUS
    <2>4. Admitted' = Admitted \cup {t}
      BY <2>1, <2>2, <2>3 DEF Admitted
    <2>5. c \in Hands /\ t \in Tasks /\ c \notin Pushers /\ Pushers \subseteq Hands
      BY <1>1, <2>3 DEF Hands, Pushers, Stopped, IInv, TaskInv
    <2>6. t \notin Admitted \cup ToSet(queue) \cup Running \cup done
      BY <2>3, <2>5 DEF InOnePlace, Admitted, Running
    <2>7. Phase = "open" /\ Running' = Running
      BY <1>1, <1>2, <1>4 DEF Phase, Running
    <2>8. t \in Tasks \ Service!Known
      BY <2>5, <2>6, ServiceSees
    <2>9. Service!Admit(t)
      BY <1>1, <1>3, <2>4, <2>7, <2>8, ServiceSteps
    <2> QED BY <2>5, <2>9
  <1>5. CASE ~isrunning
    <2>1. cpc' = [cpc EXCEPT ![c] = "idle"] /\ ctask' = [ctask EXCEPT ![c] = NoTask]
      BY <1>5 DEF CheckRunning, CGoto
    <2>2. Pushers' = Pushers /\ c \notin Pushers
      BY <1>1, <2>1 DEF Pushers, IInv, TypeOK
    <2>3. \A d \in Pushers : ctask'[d] = ctask[d]
      BY <2>1, <2>2 DEF Pushers, IInv, TypeOK
    <2> QED BY <1>1, <1>2, <1>3, <2>2, <2>3, NotSeen
  <1> QED BY <1>4, <1>5

(* push is the entry of a task that has been admitted.                     *)
LEMMA PushRefines ==
  ASSUME IInv, InOnePlace, NEW c \in Callers, Push(c)
  PROVE  \E t \in Tasks : Service!Enter(t)
  <1>1. /\ cpc[c] = "push" /\ queue' = Append(queue, ctask[c])
        /\ ctask' = [ctask EXCEPT ![c] = NoTask] /\ cpc' = [cpc EXCEPT ![c] = "idle"]
        /\ UNCHANGED <<isrunning, done, task, wpc>>
    BY DEF Push, CGoto, poolVars, workerVars
  <1>2. PICK t : t = ctask[c]
    OBVIOUS
  <1>3. /\ c \in Pushers /\ Pushers' = Pushers \ {c} /\ t \in Tasks /\ Pushers \subseteq Hands
    BY <1>1, <1>2 DEF Pushers, Hands, Stopped, IInv, TypeOK, TaskInv
  <1>4. \A d \in Pushers \ {c} : ctask'[d] = ctask[d] /\ ctask[d] # t
    <2>1. \A d \in Pushers \ {c} : ctask'[d] = ctask[d]
      BY <1>1 DEF Pushers, IInv, TypeOK
    <2>2. \A d \in Pushers \ {c} : ctask[d] # t
      BY <1>2, <1>3 DEF InOnePlace
    <2> QED BY <2>1, <2>2
  <1>5. t \in Admitted /\ Admitted' = Admitted \ {t}
    <2>1. t \in Admitted
      BY <1>2, <1>3 DEF Admitted
    <2>2. Admitted' = {ctask'[d] : d \in Pushers \ {c}}
      BY <1>3 DEF Admitted
    <2>3. {ctask'[d] : d \in Pushers \ {c}} = {ctask[d] : d \in Pushers \ {c}}
      BY <1>4
    <2>4. {ctask[d] : d \in Pushers \ {c}} = Admitted \ {t}
      BY <1>2, <1>3, <1>4 DEF Admitted
    <2> QED BY <2>1, <2>2, <2>3, <2>4
  <1>6. Phase' = Phase
    BY <1>1 DEF Phase, Stopped, IInv, TypeOK
  <1>7. Running' = Running
    BY <1>1 DEF Running, Runners
  <1>8. Service!Enter(t)
    <2>1. queue' = Append(queue, t) /\ done' = done
      BY <1>1, <1>2
    <2> QED BY <2>1, <1>5, <1>6, <1>7, ServiceSteps
  <1> QED BY <1>3, <1>8

(* front and pop start the oldest task, on a thread that ran none.         *)
LEMMA PopRefines ==
  ASSUME IInv, NEW w \in Workers, Pop(w)
  PROVE  Service!Take
  <1>1. /\ wpc[w] = "decide" /\ queue # <<>> /\ queue' = Tail(queue)
        /\ task' = [task EXCEPT ![w] = Head(queue)] /\ wpc' = [wpc EXCEPT ![w] = "run"]
        /\ UNCHANGED <<isrunning, done, ctask, cpc>>
    BY DEF Pop, MayLeave, FrontOfQueue, WGoto, IInv, NeverPopsEmpty, poolVars, callerVars, history
  <1>2. Runners' = Runners \cup {w} /\ w \notin Runners
    BY <1>1 DEF Runners, IInv, TypeOK
  <1>3. task'[w] = Head(queue) /\ \A v \in Runners : task'[v] = task[v]
    BY <1>1, <1>2 DEF Runners, IInv, TypeOK
  <1>4. Running' = Running \cup {Head(queue)}
    <2>1. Running' = {task'[v] : v \in Runners \cup {w}}
      BY <1>2 DEF Running
    <2>2. {task'[v] : v \in Runners \cup {w}} = {task[v] : v \in Runners} \cup {Head(queue)}
      BY <1>3
    <2> QED BY <2>1, <2>2 DEF Running
  <1>5. Phase' = Phase /\ Admitted' = Admitted
    BY <1>1 DEF Phase, Admitted, Pushers
  <1> QED BY <1>1, <1>2, <1>4, <1>5, RunningCounted, ServiceSteps

(* The return of a task is its end.                                        *)
LEMMA RunRefines ==
  ASSUME IInv, InOnePlace, NEW w \in Workers, RunTask(w)
  PROVE  \E t \in Tasks : Service!Finish(t)
  <1>1. /\ wpc[w] = "run" /\ done' = done \cup {task[w]}
        /\ task' = [task EXCEPT ![w] = NoTask] /\ wpc' = [wpc EXCEPT ![w] = "lock"]
        /\ UNCHANGED <<isrunning, queue, ctask, cpc>>
    BY DEF RunTask, WGoto, poolVars, queueVars, callerVars
  <1>2. PICK t : t = task[w]
    OBVIOUS
  <1>3. w \in Runners /\ Runners' = Runners \ {w} /\ t \in Tasks
    BY <1>1, <1>2 DEF Runners, IInv, TypeOK, TaskInv
  <1>4. \A v \in Runners \ {w} : task'[v] = task[v]
    BY <1>1 DEF Runners, IInv, TypeOK
  <1>5. \A v \in Runners \ {w} : task[v] # t
    BY <1>2, <1>3 DEF InOnePlace
  <1>6. t \in Running /\ Running' = Running \ {t}
    <2>1. t \in Running
      BY <1>2, <1>3 DEF Running
    <2>2. Running' = {task'[v] : v \in Runners \ {w}}
      BY <1>3 DEF Running
    <2>3. {task'[v] : v \in Runners \ {w}} = {task[v] : v \in Runners \ {w}}
      BY <1>4
    <2>4. {task[v] : v \in Runners \ {w}} = Running \ {t}
      BY <1>2, <1>3, <1>5 DEF Running
    <2> QED BY <2>1, <2>2, <2>3, <2>4
  <1>7. Phase' = Phase /\ Admitted' = Admitted
    BY <1>1 DEF Phase, Admitted, Pushers
  <1>8. Service!Finish(t)
    BY <1>1, <1>2, <1>6, <1>7, ServiceSteps
  <1> QED BY <1>3, <1>8

LEMMA StepRefines ==
  ASSUME IInv, InOnePlace, [Next]_vars
  PROVE  [Service!Next]_Service!vars
  <1>1. ASSUME NEW c \in Callers, StartPool(c) PROVE Service!Open
    <2>1. /\ cpc[c] = "start" /\ isrunning' = TRUE /\ cpc' = [cpc EXCEPT ![c] = "spawn"]
          /\ UNCHANGED <<queue, done, task, wpc, ctask>>
      BY <1>1 DEF StartPool, CGoto, queueVars, workerVars, history
    <2>2. ~isrunning /\ cpc[Main] \notin Stopped
      BY <1>1, PoolAssumption DEF StartPool, IInv, StartInv, StopInv
    <2>3. Phase = "closed"
      BY <2>2 DEF Phase
    <2>4. Phase' = "open"
      BY <2>1 DEF Phase
    <2>5. Pushers' = Pushers /\ Runners' = Runners
      BY <2>1 DEF Pushers, Runners, IInv, TypeOK
    <2>6. Admitted' = Admitted /\ Running' = Running
      BY <2>1, <2>5 DEF Admitted, Running
    <2> QED BY <2>1, <2>3, <2>4, <2>6, ServiceSteps
  <1>2. ASSUME Stop PROVE Service!Shut
    <2>1. /\ cpc[Main] = "idle" /\ isrunning' = FALSE /\ cpc' = [cpc EXCEPT ![Main] = "wakeall"]
          /\ UNCHANGED <<queue, done, task, wpc, ctask>>
      BY <1>2 DEF Stop, CGoto, queueVars, workerVars, history
    <2>2. isrunning
      BY <1>2 DEF Stop
    <2>3. Phase = "open"
      BY <2>2 DEF Phase
    <2>4. Phase' = "shut"
      <3>1. cpc'[Main] = "wakeall"
        BY <2>1, PoolAssumption DEF IInv, TypeOK
      <3> QED BY <2>1, <3>1 DEF Phase, Stopped
    <2>5. Pushers' = Pushers /\ Runners' = Runners
      BY <2>1 DEF Pushers, Runners, IInv, TypeOK
    <2>6. Admitted' = Admitted /\ Running' = Running
      BY <2>1, <2>5 DEF Admitted, Running
    <2> QED BY <2>1, <2>3, <2>4, <2>6, ServiceSteps
  <1>3. ASSUME NEW c \in Callers, \/ \E t \in Tasks : GetInstance(c, t)
                                  \/ LockSingleton(c) \/ CreateInstance(c) \/ FinishStart(c)
                                  \/ \E w \in Workers : SpawnThread(c, w)
        PROVE  UNCHANGED Service!vars
    <2>1. UNCHANGED <<isrunning, queue, done, task>>
      BY <1>3 DEF GetInstance, LockSingleton, CreateInstance, FinishStart, SpawnThread,
                  poolVars, queueVars, workerVars, callerVars, history
    <2>2. Runners' = Runners
      BY <1>3 DEF GetInstance, LockSingleton, CreateInstance, FinishStart, SpawnThread,
                  workerVars, WGoto, Runners, IInv, TypeOK
    <2>3. Pushers' = Pushers /\ \A d \in Pushers : ctask'[d] = ctask[d]
      BY <1>3 DEF GetInstance, LockSingleton, CreateInstance, FinishStart, SpawnThread,
                  callerVars, CGoto, Pushers, IInv, TypeOK
    <2>4. cpc'[Main] \in Stopped <=> cpc[Main] \in Stopped
      BY <1>3, PoolAssumption DEF GetInstance, LockSingleton, CreateInstance, FinishStart,
                  SpawnThread, callerVars, CGoto, Stopped, IInv, TypeOK
    <2>5. Phase' = Phase
      BY <2>1, <2>4 DEF Phase
    <2> QED BY <2>1, <2>2, <2>3, <2>5, NotSeen
  <1>4. CASE WakeUpAllThread \/ Join \/ JoinCrashes
    <2>1. /\ UNCHANGED <<isrunning, queue, done, task>> /\ Runners' = Runners
      BY <1>4 DEF WakeUpAllThread, Join, JoinCrashes, poolVars, queueVars, workerVars, history, Runners
    <2>2. Pushers' = Pushers /\ \A d \in Pushers : ctask'[d] = ctask[d]
      BY <1>4 DEF WakeUpAllThread, Join, JoinCrashes, CGoto, Pushers, IInv, TypeOK
    <2>3. cpc'[Main] \in Stopped /\ cpc[Main] \in Stopped
      BY <1>4, PoolAssumption DEF WakeUpAllThread, Join, JoinCrashes, CGoto, Stopped, IInv, TypeOK
    <2>4. Phase' = Phase
      BY <2>1, <2>3 DEF Phase
    <2> QED BY <2>1, <2>2, <2>4, NotSeen
  <1>5. ASSUME NEW w \in Workers, \/ LockQueue(w) \/ TestQueue(w) \/ Sleep(w)
                                  \/ WakeUp(w) \/ Exit(w) \/ SpuriousWakeup(w)
        PROVE  UNCHANGED Service!vars
    <2>1. UNCHANGED <<isrunning, queue, done, task, cpc, ctask>>
      BY <1>5 DEF LockQueue, TestQueue, Sleep, WakeUp, Exit, SpuriousWakeup,
                  poolVars, queueVars, workerVars, callerVars, history
    <2>2. Runners' = Runners
      BY <1>5 DEF LockQueue, TestQueue, Sleep, WakeUp, Exit, SpuriousWakeup, workerVars,
                  WGoto, Runners, IInv, TypeOK
    <2>3. Pushers' = Pushers /\ Phase' = Phase
      BY <2>1 DEF Pushers, Phase
    <2> QED BY <2>1, <2>2, <2>3, NotSeen
  <1>6. CASE UNCHANGED vars
    <2>1. UNCHANGED <<isrunning, queue, done, task, cpc, ctask, wpc>>
      BY <1>6 DEF vars
    <2>2. Runners' = Runners /\ Pushers' = Pushers /\ Phase' = Phase
      BY <2>1 DEF Runners, Pushers, Phase
    <2> QED BY <2>1, <2>2, NotSeen
  <1> QED BY <1>1, <1>2, <1>3, <1>4, <1>5, <1>6, AdmitRefines, PushRefines, PopRefines, RunRefines
          DEF Next, CallerStep, Equeue, HandlerTask, Terminated, Service!Next

(* The pool implements the service: each submitted task runs at most once, *)
(* tasks start in the order of their push, at most one per thread, and     *)
(* only tasks that came to a running pool are run.                         *)
THEOREM Refinement == Safety => ImplementsTaskService
  <1>1. Init => Service!Init
    <2> SUFFICES ASSUME Init PROVE Service!Init
      OBVIOUS
    <2>1. Pushers = {} /\ Runners = {} /\ cpc[Main] = "idle"
      BY PoolAssumption DEF Init, Pushers, Runners
    <2> QED BY <2>1 DEF Init, Service!Init, Pushers, Runners
  <1>2. IInv /\ InOnePlace /\ [Next]_vars => [Service!Next]_Service!vars
    BY StepRefines
  <1>3. Safety => []InOnePlace
    BY InOnePlaceInit, InOnePlaceNext, Invariance, PTL DEF Safety
  <1> QED BY <1>1, <1>2, <1>3, Invariance, PTL DEF Safety, ImplementsTaskService, Service!Spec
=============================================================================
