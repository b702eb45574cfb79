----------------------------- MODULE BlockQueue -----------------------------
(***************************************************************************)
(* The blocking queue of src/threadsynchronization/2.CP/BlockQueue.hpp,    *)
(* used by producer and consumer threads that loop for ever (Main.cpp).    *)
(* 3.Cond/BlockQueue.hpp is the same algorithm over the Mutex, LockGuard   *)
(* and Cond wrappers.                                                      *)
(*                                                                         *)
(* All state is guarded by _lock, and a method gives the lock up only by   *)
(* returning or inside pthread_cond_wait.  So a method is cut into the     *)
(* sections between these points, and a section is one step: it starts by  *)
(* taking the lock, on entry or when pthread_cond_wait returns, and ends   *)
(* by releasing it.                                                        *)
(***************************************************************************)
EXTENDS Naturals, Sequences, FiniteSets

CONSTANTS Producers, Consumers,
          Cap,     \* _cap
          Items,   \* the data that producers put
          Unset    \* a value-initialised T

ASSUME QueueAssumption ==
    /\ IsFiniteSet(Producers) /\ IsFiniteSet(Consumers)
    /\ Producers \cap Consumers = {}
    /\ Cap \in Nat \ {0}
    /\ Unset \in Items

VARIABLES
    queue,        \* _queue
    psleep_num,   \* _psleep_num
    csleep_num,   \* _csleep_num
    fullWait,     \* producers blocked on _full_cond, no wakeup has reached them
    emptyWait,    \* consumers blocked on _empty_cond, no wakeup has reached them
    pc,           \* where each thread is: outside, entering a method, in a wait
    data,         \* argument of each producer's last call of Equeue
    result        \* what each consumer's last call of pop returned

condVars == <<psleep_num, csleep_num, fullWait, emptyWait>>
vars == <<queue, psleep_num, csleep_num, fullWait, emptyWait, pc, data, result>>

Threads == Producers \cup Consumers
PC == {"outside", "enter", "wait"}

Init == /\ queue = <<>>
        /\ psleep_num = 0
        /\ csleep_num = 0
        /\ fullWait = {}
        /\ emptyWait = {}
        /\ pc = [t \in Threads |-> "outside"]
        /\ data = [p \in Producers |-> Unset]
        /\ result = [c \in Consumers |-> Unset]

-----------------------------------------------------------------------------
isFullOffByOne == Len(queue) = Cap + 1
isFull  == Len(queue) = Cap
isEmpty == queue = <<>>

Goto(t, l) == pc' = [pc EXCEPT ![t] = l]

(* The thread is at the test of its while loop holding the lock: it has    *)
(* just locked, or pthread_cond_wait has returned.                         *)
AtTest(t) == \/ pc[t] = "enter"
             \/ pc[t] = "wait" /\ t \notin fullWait \cup emptyWait

(* What a returning wait takes off the thread's sleep counter.             *)
Counted(t) == IF pc[t] = "wait" THEN 1 ELSE 0

(* A signal reaches one blocked thread, any of them, or is lost.           *)
Signal(waiters) == IF waiters = {} THEN {waiters} ELSE {waiters \ {t} : t \in waiters}

WakeConsumerIfWasEmpty == IF csleep_num > 0 /\ isEmpty THEN emptyWait' \in Signal(emptyWait)
                                                       ELSE emptyWait' = emptyWait
WakeConsumer == IF csleep_num > 0 THEN emptyWait' \in Signal(emptyWait)
                                  ELSE emptyWait' = emptyWait

WakeNoProducer == fullWait' = fullWait
WakeProducer == IF psleep_num > 0 THEN fullWait' \in Signal(fullWait)
                                  ELSE fullWait' = fullWait

OldestItem == Head(queue)

-----------------------------------------------------------------------------
(* Equeue                                                                  *)
CallEqueue(p) ==
    /\ pc[p] = "outside"
    /\ Goto(p, "enter")
    /\ \E d \in Items : data' = [data EXCEPT ![p] = d]
    /\ UNCHANGED <<queue, condVars, result>>

EqueueWait(p) ==
    /\ AtTest(p)
    /\ isFull
    /\ psleep_num' = (psleep_num - Counted(p)) + 1
    /\ fullWait' = fullWait \cup {p}
    /\ Goto(p, "wait")
    /\ UNCHANGED <<queue, csleep_num, emptyWait, data, result>>

EqueuePush(p) ==
    /\ AtTest(p)
    /\ ~isFull
    /\ psleep_num' = psleep_num - Counted(p)
    /\ queue' = Append(queue, data[p])
    /\ WakeConsumer
    /\ Goto(p, "outside")
    /\ UNCHANGED <<csleep_num, fullWait, data, result>>

Equeue(p) == EqueueWait(p) \/ EqueuePush(p)

(* pop                                                                     *)
CallPop(c) ==
    /\ pc[c] = "outside"
    /\ Goto(c, "enter")
    /\ UNCHANGED <<queue, condVars, data, result>>

PopWait(c) ==
    /\ AtTest(c)
    /\ isEmpty
    /\ csleep_num' = (csleep_num - Counted(c)) + 1
    /\ emptyWait' = emptyWait \cup {c}
    /\ Goto(c, "wait")
    /\ UNCHANGED <<queue, psleep_num, fullWait, data, result>>

PopTake(c) ==
    /\ AtTest(c)
    /\ ~isEmpty
    /\ csleep_num' = csleep_num - Counted(c)
    /\ result' = [result EXCEPT ![c] = OldestItem]
    /\ queue' = Tail(queue)
    /\ WakeProducer
    /\ Goto(c, "outside")
    /\ UNCHANGED <<psleep_num, emptyWait, data>>

pop(c) == PopWait(c) \/ PopTake(c)

(* pthread_cond_wait may return without a signal.                          *)
SpuriousWakeup(t) ==
    /\ t \in fullWait \cup emptyWait
    /\ fullWait' = fullWait \ {t}
    /\ emptyWait' = emptyWait \ {t}
    /\ UNCHANGED <<queue, psleep_num, csleep_num, pc, data, result>>

Next == \/ \E p \in Producers : CallEqueue(p) \/ Equeue(p)
        \/ \E c \in Consumers : CallPop(c) \/ pop(c)
        \/ \E t \in Threads : SpuriousWakeup(t)

(* Threads loop for ever, and a thread that wants the lock eventually gets *)
(* it: no section keeps it.                                                *)
Fairness == /\ \A p \in Producers : WF_vars(CallEqueue(p)) /\ WF_vars(Equeue(p))
            /\ \A c \in Consumers : WF_vars(CallPop(c)) /\ WF_vars(pop(c))

Safety == Init /\ [][Next]_vars
Spec   == Safety /\ Fairness

-----------------------------------------------------------------------------
(* Properties.                                                             *)

PWoken == {p \in Producers : pc[p] = "wait" /\ p \notin fullWait}
CWoken == {c \in Consumers : pc[c] = "wait" /\ c \notin emptyWait}

(* Types; the queue never exceeds _cap and the counters stay in range.     *)
TypeOK ==
    /\ queue \in Seq(Items) /\ Len(queue) <= Cap
    /\ psleep_num \in 0..Cardinality(Producers)
    /\ csleep_num \in 0..Cardinality(Consumers)
    /\ fullWait \in SUBSET Producers
    /\ emptyWait \in SUBSET Consumers
    /\ pc \in [Threads -> PC]
    /\ data \in [Producers -> Items]
    /\ result \in [Consumers -> Items]

(* One signal per push is enough, although a thread that was not asleep    *)
(* may steal what the signal announced: while a consumer sleeps, every     *)
(* queued item has a woken consumer of its own on the way to it, and while *)
(* a producer sleeps, every free place has a woken producer.               *)
WakeupsInFlight ==
    /\ emptyWait # {} => Len(queue) <= Cardinality(CWoken)
    /\ fullWait # {} => Cap - Len(queue) <= Cardinality(PWoken)

(* The queue is a bounded FIFO: pop returns the oldest item not returned   *)
(* before, whoever called first, and the two sides never all sleep.        *)
FIFO == INSTANCE BoundedFIFO WITH
    Capacity <- Cap, offered <- data, items <- queue, received <- result

ImplementsFIFO == FIFO!Spec
=============================================================================
