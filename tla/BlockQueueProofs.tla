-------------------------- MODULE BlockQueueProofs --------------------------
(***************************************************************************)
(* Proofs about BlockQueue for any finite sets of producers and consumers  *)
(* and any capacity: its types, that no wakeup is missing, and that it     *)
(* implements the safety part of BoundedFIFO.                              *)
(***************************************************************************)
EXTENDS BlockQueue, FiniteSetTheorems, TLAPS

PSleepers == {p \in Producers : pc[p] = "wait"}
CSleepers == {c \in Consumers : pc[c] = "wait"}

Shape ==
    /\ queue \in Seq(Items) /\ Len(queue) <= Cap
    /\ pc \in [Threads -> PC]
    /\ data \in [Producers -> Items]
    /\ result \in [Consumers -> Items]

(* Each counter is the number of threads inside that wait, those counted   *)
(* that have been woken and have not got the lock back.                    *)
SleepCount ==
    /\ fullWait \subseteq PSleepers /\ emptyWait \subseteq CSleepers
    /\ psleep_num = Cardinality(PSleepers)
    /\ csleep_num = Cardinality(CSleepers)

IInv == Shape /\ SleepCount /\ WakeupsInFlight

(***************************************************************************)
(* Facts about the sets of threads.                                        *)
(***************************************************************************)
(* Threads at some point of their loop are finitely many. *)
LEMMA ThreadsCounted ==
  /\ \A S \in SUBSET Producers :
       IsFiniteSet(S) /\ Cardinality(S) \in 0..Cardinality(Producers)
  /\ \A S \in SUBSET Consumers :
       IsFiniteSet(S) /\ Cardinality(S) \in 0..Cardinality(Consumers)
  BY QueueAssumption, FS_Subset, FS_CardinalityType

(* Equeue that waits, pop that waits, or the return from either. *)
LEMMA SleeperJoins ==
  ASSUME NEW S, IsFiniteSet(S), NEW t
  PROVE  Cardinality(S \cup {t}) = (Cardinality(S) - (IF t \in S THEN 1 ELSE 0)) + 1
  <1>1. Cardinality(S) \in Nat
    BY FS_CardinalityType
  <1> QED BY <1>1, FS_AddElement

LEMMA SleeperLeaves ==
  ASSUME NEW S, IsFiniteSet(S), NEW t
  PROVE  Cardinality(S \ {t}) = Cardinality(S) - (IF t \in S THEN 1 ELSE 0)
  <1>1. Cardinality(S) \in Nat
    BY FS_CardinalityType
  <1> QED BY <1>1, FS_RemoveElement

(* A signal takes one thread out of the wait set, unless it is empty. *)
LEMMA SignalTakesOne ==
  ASSUME NEW W, NEW V \in Signal(W)
  PROVE  \/ W = {} /\ V = {}
         \/ \E t \in W : V = W \ {t}
  BY DEF Signal

(***************************************************************************)
(* Every step preserves IInv.                                              *)
(***************************************************************************)
LEMMA InitInv == Init => IInv
  <1> SUFFICES ASSUME Init PROVE IInv
    OBVIOUS
  <1> USE QueueAssumption DEF Init
  <1>1. Shape
    BY DEF Shape, PC
  <1>2. PSleepers = {} /\ CSleepers = {}
    BY DEF PSleepers, CSleepers, Threads
  <1>3. SleepCount
    BY <1>2, FS_EmptySet DEF SleepCount
  <1>4. WakeupsInFlight
    BY DEF WakeupsInFlight
  <1> QED BY <1>1, <1>3, <1>4 DEF IInv

(* A thread calls Equeue or pop. *)
LEMMA CallStep ==
  ASSUME IInv, NEW t \in Threads, pc[t] = "outside", Goto(t, "enter"),
         data' \in [Producers -> Items], UNCHANGED <<queue, condVars, result>>
  PROVE  IInv'
  <1> USE DEF IInv, Goto, condVars
  <1>1. Shape'
    BY DEF Shape, PC
  <1>2. PSleepers' = PSleepers /\ CSleepers' = CSleepers
    BY DEF Shape, PSleepers, CSleepers, Threads
  <1>3. SleepCount'
    BY <1>2 DEF SleepCount
  <1>4. PWoken' = PWoken /\ CWoken' = CWoken
    BY DEF Shape, PWoken, CWoken, Threads
  <1>5. WakeupsInFlight'
    BY <1>4 DEF WakeupsInFlight
  <1> QED BY <1>1, <1>3, <1>5

LEMMA EqueueWaitStep ==
  ASSUME IInv, NEW p \in Producers, EqueueWait(p)
  PROVE  IInv'
  <1> USE QueueAssumption DEF IInv, EqueueWait, Goto
  <1>1. Shape'
    BY DEF Shape, PC, Threads
  <1>2. PSleepers' = PSleepers \cup {p} /\ CSleepers' = CSleepers
    BY DEF Shape, PSleepers, CSleepers, Threads, PC
  <1>3. Counted(p) = IF p \in PSleepers THEN 1 ELSE 0
    BY DEF Counted, PSleepers
  <1>4. Cardinality(PSleepers \cup {p}) = (Cardinality(PSleepers) - Counted(p)) + 1
    BY <1>3, ThreadsCounted, SleeperJoins DEF PSleepers
  <1>5. SleepCount'
    BY <1>2, <1>4 DEF SleepCount
  <1>6. CWoken' = CWoken
    BY DEF Shape, CWoken, Threads
  <1>7. Cardinality(PWoken') \in Nat
    BY ThreadsCounted DEF PWoken
  <1>8. WakeupsInFlight'
    BY <1>6, <1>7 DEF WakeupsInFlight, isFull, Shape
  <1> QED BY <1>1, <1>5, <1>8

(* The new item has the woken consumer that the signal finds, and the      *)
(* producer takes one place and no more than one of the woken producers.   *)
LEMMA EqueuePushStep ==
  ASSUME IInv, NEW p \in Producers, EqueuePush(p)
  PROVE  IInv'
  <1> USE QueueAssumption DEF IInv, EqueuePush, Goto
  <1>1. Shape'
    <2>1. data[p] \in Items /\ Len(queue) \in Nat /\ Len(queue) < Cap
      BY DEF Shape, isFull
    <2>2. queue' \in Seq(Items) /\ Len(queue') = Len(queue) + 1
      BY <2>1 DEF Shape
    <2> QED BY <2>1, <2>2 DEF Shape, PC, Threads
  <1>2. PSleepers' = PSleepers \ {p} /\ CSleepers' = CSleepers
    BY DEF Shape, PSleepers, CSleepers, Threads, PC
  <1>3. Counted(p) = IF p \in PSleepers THEN 1 ELSE 0
    BY DEF Counted, PSleepers
  <1>4. Cardinality(PSleepers \ {p}) = Cardinality(PSleepers) - Counted(p)
    BY <1>3, ThreadsCounted, SleeperLeaves DEF PSleepers
  <1>5. \/ emptyWait = {} /\ emptyWait' = {}
        \/ \E t \in emptyWait : emptyWait' = emptyWait \ {t}
    <2>1. CASE csleep_num > 0
      BY <2>1, SignalTakesOne DEF WakeConsumer
    <2>2. CASE ~(csleep_num > 0)
      <3>1. IsFiniteSet(CSleepers) /\ Cardinality(CSleepers) \in Nat
        BY ThreadsCounted DEF CSleepers
      <3>2. CSleepers = {}
        BY <2>2, <3>1, FS_EmptySet DEF SleepCount
      <3> QED BY <2>2, <3>2 DEF SleepCount, WakeConsumer
    <2> QED BY <2>1, <2>2
  <1>6. p \notin fullWait
    BY DEF AtTest, SleepCount, PSleepers
  <1>7. SleepCount'
    BY <1>2, <1>4, <1>5, <1>6 DEF SleepCount
  <1>8. Len(queue') = Len(queue) + 1 /\ Len(queue) \in Nat /\ Len(queue) < Cap
    BY DEF Shape, isFull
  <1>9. emptyWait' # {} => Len(queue') <= Cardinality(CWoken')
    <2> SUFFICES ASSUME emptyWait' # {} PROVE Len(queue') <= Cardinality(CWoken')
      OBVIOUS
    <2>1. PICK t \in emptyWait : emptyWait' = emptyWait \ {t}
      BY <1>5
    <2>2. t \in Consumers /\ pc[t] = "wait" /\ t \notin CWoken
      BY DEF SleepCount, CSleepers, CWoken
    <2>3. CWoken' = CWoken \cup {t}
      BY <2>1, <2>2 DEF Shape, CWoken, Threads
    <2>4. IsFiniteSet(CWoken) /\ Cardinality(CWoken) \in Nat
      BY ThreadsCounted DEF CWoken
    <2>5. Cardinality(CWoken') = Cardinality(CWoken) + 1
      BY <2>2, <2>3, <2>4, FS_AddElement
    <2> QED BY <1>8, <2>4, <2>5 DEF WakeupsInFlight
  <1>10. fullWait' # {} => Cap - Len(queue') <= Cardinality(PWoken')
    <2>1. PWoken' = PWoken \ {p}
      BY DEF Shape, PWoken, Threads, PC
    <2>2. IsFiniteSet(PWoken) /\ Cardinality(PWoken) \in Nat
      BY ThreadsCounted DEF PWoken
    <2>3. Cardinality(PWoken') >= Cardinality(PWoken) - 1
      BY <2>1, <2>2, SleeperLeaves
    <2>4. Cardinality(PWoken') \in Int
      BY <2>1, <2>2, SleeperLeaves
    <2> QED BY <1>8, <2>2, <2>3, <2>4 DEF WakeupsInFlight
  <1> QED BY <1>1, <1>7, <1>9, <1>10 DEF WakeupsInFlight

LEMMA PopWaitStep ==
  ASSUME IInv, NEW c \in Consumers, PopWait(c)
  PROVE  IInv'
  <1> USE QueueAssumption DEF IInv, PopWait, Goto
  <1>1. Shape'
    BY DEF Shape, PC, Threads
  <1>2. CSleepers' = CSleepers \cup {c} /\ PSleepers' = PSleepers
    BY DEF Shape, PSleepers, CSleepers, Threads, PC
  <1>3. Counted(c) = IF c \in CSleepers THEN 1 ELSE 0
    BY DEF Counted, CSleepers
  <1>4. Cardinality(CSleepers \cup {c}) = (Cardinality(CSleepers) - Counted(c)) + 1
    BY <1>3, ThreadsCounted, SleeperJoins DEF CSleepers
  <1>5. SleepCount'
    BY <1>2, <1>4 DEF SleepCount
  <1>6. PWoken' = PWoken
    BY DEF Shape, PWoken, Threads
  <1>7. Cardinality(CWoken') \in Nat
    BY ThreadsCounted DEF CWoken
  <1>8. WakeupsInFlight'
    BY <1>6, <1>7 DEF WakeupsInFlight, isEmpty, Shape
  <1> QED BY <1>1, <1>5, <1>8

(* The mirror image of EqueuePushStep. *)
LEMMA PopTakeStep ==
  ASSUME IInv, NEW c \in Consumers, PopTake(c)
  PROVE  IInv'
  <1> USE QueueAssumption DEF IInv, PopTake, Goto
  <1>1. /\ Head(queue) \in Items /\ Tail(queue) \in Seq(Items)
        /\ Len(queue) \in Nat /\ Len(Tail(queue)) = Len(queue) - 1
    BY DEF Shape, isEmpty
  <1>2. Shape'
    BY <1>1 DEF Shape, PC, Threads, OldestItem
  <1>3. CSleepers' = CSleepers \ {c} /\ PSleepers' = PSleepers
    BY DEF Shape, PSleepers, CSleepers, Threads, PC
  <1>4. Counted(c) = IF c \in CSleepers THEN 1 ELSE 0
    BY DEF Counted, CSleepers
  <1>5. Cardinality(CSleepers \ {c}) = Cardinality(CSleepers) - Counted(c)
    BY SMTT(30), <1>4, ThreadsCounted, SleeperLeaves DEF CSleepers
  <1>6. \/ fullWait = {} /\ fullWait' = {}
        \/ \E t \in fullWait : fullWait' = fullWait \ {t}
    <2>1. CASE psleep_num > 0
      BY <2>1, SignalTakesOne DEF WakeProducer
    <2>2. CASE ~(psleep_num > 0)
      <3>1. IsFiniteSet(PSleepers) /\ Cardinality(PSleepers) \in Nat
        BY ThreadsCounted DEF PSleepers
      <3>2. PSleepers = {}
        BY <2>2, <3>1, FS_EmptySet DEF SleepCount
      <3> QED BY <2>2, <3>2 DEF SleepCount, WakeProducer
    <2> QED BY <2>1, <2>2
  <1>7. c \notin emptyWait
    BY DEF AtTest, SleepCount, CSleepers
  <1>8. SleepCount'
    BY <1>3, <1>5, <1>6, <1>7 DEF SleepCount
  <1>9. fullWait' # {} => Cap - Len(queue') <= Cardinality(PWoken')
    <2> SUFFICES ASSUME fullWait' # {} PROVE Cap - Len(queue') <= Cardinality(PWoken')
      OBVIOUS
    <2>1. PICK t \in fullWait : fullWait' = fullWait \ {t}
      BY <1>6
    <2>2. t \in Producers /\ pc[t] = "wait" /\ t \notin PWoken
      BY DEF SleepCount, PSleepers, PWoken
    <2>3. PWoken' = PWoken \cup {t}
      BY <2>1, <2>2 DEF Shape, PWoken, Threads
    <2>4. IsFiniteSet(PWoken) /\ Cardinality(PWoken) \in Nat
      BY ThreadsCounted DEF PWoken
    <2>5. Cardinality(PWoken') = Cardinality(PWoken) + 1
      BY <2>2, <2>3, <2>4, FS_AddElement
    <2> QED BY <1>1, <2>4, <2>5 DEF WakeupsInFlight
  <1>10. emptyWait' # {} => Len(queue') <= Cardinality(CWoken')
    <2>1. CWoken' = CWoken \ {c}
      BY DEF Shape, CWoken, Threads, PC
    <2>2. IsFiniteSet(CWoken) /\ Cardinality(CWoken) \in Nat
      BY ThreadsCounted DEF CWoken
    <2>3. Cardinality(CWoken') >= Cardinality(CWoken) - 1 /\ Cardinality(CWoken') \in Int
      BY <2>1, <2>2, SleeperLeaves
    <2> QED BY <1>1, <2>2, <2>3 DEF WakeupsInFlight
  <1> QED BY <1>2, <1>8, <1>9, <1>10 DEF WakeupsInFlight

(* A thread that wakes up without a signal is a woken thread like others. *)
LEMMA SpuriousWakeupStep ==
  ASSUME IInv, NEW t \in Threads, SpuriousWakeup(t)
  PROVE  IInv'
  <1> USE DEF IInv, SpuriousWakeup
  <1>1. Shape'
    BY DEF Shape
  <1>2. PSleepers' = PSleepers /\ CSleepers' = CSleepers
    BY DEF PSleepers, CSleepers
  <1>3. SleepCount'
    BY <1>2 DEF SleepCount
  <1>4. PWoken \subseteq PWoken' /\ CWoken \subseteq CWoken'
    BY DEF PWoken, CWoken
  <1>5. /\ IsFiniteSet(PWoken') /\ Cardinality(PWoken) <= Cardinality(PWoken')
        /\ IsFiniteSet(CWoken') /\ Cardinality(CWoken) <= Cardinality(CWoken')
    <2>1. PWoken' \in SUBSET Producers /\ CWoken' \in SUBSET Consumers
      BY DEF PWoken, CWoken
    <2> QED BY <1>4, <2>1, ThreadsCounted, FS_Subset
  <1>6. /\ Cardinality(PWoken) \in Nat /\ Cardinality(PWoken') \in Nat
        /\ Cardinality(CWoken) \in Nat /\ Cardinality(CWoken') \in Nat
    BY ThreadsCounted DEF PWoken, CWoken
  <1>7. WakeupsInFlight'
    BY <1>5, <1>6, QueueAssumption DEF WakeupsInFlight, Shape
  <1> QED BY <1>1, <1>3, <1>7

LEMMA StutterInv == IInv /\ UNCHANGED vars => IInv'
  BY DEF IInv, vars, Shape, SleepCount, WakeupsInFlight, PSleepers, CSleepers, PWoken, CWoken

LEMMA NextInv == IInv /\ [Next]_vars => IInv'
  <1> SUFFICES ASSUME IInv, [Next]_vars PROVE IInv'
    OBVIOUS
  <1>1. ASSUME NEW p \in Producers, CallEqueue(p) PROVE IInv'
    <2>1. data' \in [Producers -> Items]
      BY <1>1 DEF CallEqueue, IInv, Shape
    <2> QED BY <1>1, <2>1, CallStep DEF CallEqueue, Threads
  <1>2. ASSUME NEW c \in Consumers, CallPop(c) PROVE IInv'
    <2>1. data' \in [Producers -> Items]
      BY <1>2 DEF CallPop, IInv, Shape
    <2> QED BY <1>2, <2>1, CallStep DEF CallPop, Threads
  <1> QED BY <1>1, <1>2, EqueueWaitStep, EqueuePushStep, PopWaitStep, PopTakeStep,
             SpuriousWakeupStep, StutterInv DEF Next, Equeue, pop

(* The inductive invariant holds in every reachable state.                 *)
THEOREM Invariance == Safety => []IInv
  BY InitInv, NextInv, PTL DEF Safety

(* Type correctness; the queue never exceeds _cap, and each counter stays  *)
(* between 0 and the number of threads of its side.                        *)
THEOREM TypeCorrect == Safety => []TypeOK
  <1>1. IInv => TypeOK
    BY ThreadsCounted DEF IInv, Shape, SleepCount, TypeOK, PSleepers, CSleepers
  <1> QED BY <1>1, Invariance, PTL

(* One signal per operation, sent only if a thread of the other side is    *)
(* counted as asleep, is enough.                                           *)
THEOREM WakeupsSuffice == Safety => []WakeupsInFlight
  <1>1. IInv => WakeupsInFlight
    BY DEF IInv
  <1> QED BY <1>1, Invariance, PTL

(* Every step of the queue is a step of the bounded FIFO, or none: Equeue  *)
(* puts its argument behind the others, pop returns the oldest item.       *)
THEOREM Refinement == Safety => FIFO!Safety
  <1>1. Init => FIFO!Init
    BY QueueAssumption DEF Init, FIFO!Init
  <1>2. IInv /\ [Next]_vars => [FIFO!Next]_FIFO!vars
    <2> SUFFICES ASSUME IInv, [Next]_vars PROVE [FIFO!Next]_FIFO!vars
      OBVIOUS
    <2>1. ASSUME NEW p \in Producers, CallEqueue(p) PROVE FIFO!Offer(p)
      BY <2>1 DEF CallEqueue, FIFO!Offer
    <2>2. ASSUME NEW p \in Producers, EqueuePush(p) PROVE FIFO!Put(p)
      BY <2>2, QueueAssumption DEF EqueuePush, isFull, IInv, Shape, FIFO!Put
    <2>3. ASSUME NEW c \in Consumers, PopTake(c) PROVE FIFO!Get(c)
      BY <2>3 DEF PopTake, isEmpty, OldestItem, FIFO!Get
    <2>4. ASSUME NEW p \in Producers, EqueueWait(p) PROVE UNCHANGED FIFO!vars
      BY <2>4 DEF EqueueWait, FIFO!vars
    <2>5. ASSUME NEW c \in Consumers, CallPop(c) \/ PopWait(c) PROVE UNCHANGED FIFO!vars
      BY <2>5 DEF CallPop, PopWait, FIFO!vars
    <2>6. ASSUME NEW t \in Threads, SpuriousWakeup(t) PROVE UNCHANGED FIFO!vars
      BY <2>6 DEF SpuriousWakeup, FIFO!vars
    <2>7. CASE UNCHANGED vars
      BY <2>7 DEF vars, FIFO!vars
    <2> QED BY <2>1, <2>2, <2>3, <2>4, <2>5, <2>6, <2>7
            DEF Next, Equeue, pop, FIFO!Next, FIFO!Transfer
  <1> QED BY <1>1, <1>2, Invariance, PTL DEF Safety, FIFO!Safety
=============================================================================
