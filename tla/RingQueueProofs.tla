-------------------------- MODULE RingQueueProofs --------------------------
(***************************************************************************)
(* Proofs about RingQueue for any finite sets of producers and consumers   *)
(* and any capacity: its types, that no slot is accessed by two threads at *)
(* once, and that it implements the safety part of BoundedFIFO.            *)
(***************************************************************************)
EXTENDS RingQueue, FiniteSetTheorems, TLAPS

(* How many threads of a side are at a program point.                      *)
NumP(l) == Cardinality(InP({l}))
NumC(l) == Cardinality(InC({l}))

(* Slots from the consumers' step to the producers' step: taken by a       *)
(* producer that has advanced, not yet given back by one that reads.       *)
Filled == ((((date_sem + NumP("V")) + NumC("lock")) + NumC("access")) + NumC("advance"))

(* Slots claimed by a producer that has not advanced, or free.             *)
Blank == ((((blank_sem + NumC("V")) + NumP("lock")) + NumP("access")) + NumP("advance"))

Shape ==
    /\ rq \in [Slots -> Items]
    /\ blank_sem \in Nat /\ date_sem \in Nat
    /\ p_step \in Slots /\ c_step \in Slots
    /\ pmutex \in Producers \cup {Nobody}
    /\ cmutex \in Consumers \cup {Nobody}
    /\ pc \in [Threads -> PC]
    /\ in \in [Producers -> Items]
    /\ out \in [Consumers -> Items]

(* A mutex is held by the thread that is between its lock and its unlock.  *)
Locked ==
    /\ \A p \in Producers : pc[p] \in {"access", "advance"} <=> pmutex = p
    /\ \A c \in Consumers : pc[c] \in {"access", "advance"} <=> cmutex = c

(* No unit of the two semaphores is lost or made: each slot is in the      *)
(* account of one of them.                                                 *)
Account == Filled + Blank = Cap

(* The steps are as far apart as the account says, round the ring.         *)
Apart == \/ p_step = c_step + Filled
         \/ p_step = (c_step + Filled) - Cap

IInv == Shape /\ Locked /\ Account /\ Apart

(***************************************************************************)
(* Arithmetic of the ring, and counting threads.                           *)
(***************************************************************************)
LEMMA RoundTheRing ==
  ASSUME NEW k \in 0..(2 * Cap - 1)
  PROVE  k % Cap = IF k < Cap THEN k ELSE k - Cap
  BY RingAssumption

LEMMA NextSlotValue ==
  ASSUME NEW i \in Slots
  PROVE  NextSlot(i) = (IF i = Cap - 1 THEN 0 ELSE i + 1) /\ NextSlot(i) \in Slots
  <1>1. i + 1 \in 0..(2 * Cap - 1) /\ i \in 0..(Cap - 1)
    BY RingAssumption DEF Slots
  <1> QED BY <1>1, RoundTheRing, RingAssumption DEF NextSlot, Slots

LEMMA NumType ==
  ASSUME NEW l
  PROVE  NumP(l) \in Nat /\ NumC(l) \in Nat /\ IsFiniteSet(InP({l})) /\ IsFiniteSet(InC({l}))
  <1>1. InP({l}) \subseteq Producers /\ InC({l}) \subseteq Consumers
    BY DEF InP, InC
  <1>2. IsFiniteSet(InP({l})) /\ IsFiniteSet(InC({l}))
    BY <1>1, FS_Subset, RingAssumption
  <1> QED BY <1>2, FS_CardinalityType DEF NumP, NumC

(* Some thread is there when the count is not zero.                        *)
LEMMA NumPositive ==
  ASSUME NEW l
  PROVE  /\ \A p \in Producers : pc[p] = l => NumP(l) >= 1
         /\ \A c \in Consumers : pc[c] = l => NumC(l) >= 1
  <1>1. InP({l}) # {} => NumP(l) # 0
    BY NumType, FS_EmptySet DEF NumP
  <1>2. InC({l}) # {} => NumC(l) # 0
    BY NumType, FS_EmptySet DEF NumC
  <1>3. NumP(l) \in Nat /\ NumC(l) \in Nat
    BY NumType
  <1> QED BY <1>1, <1>2, <1>3 DEF InP, InC

(* A thread that goes on from one point to another is counted there.       *)
LEMMA ProducerMoves ==
  ASSUME Shape, NEW p \in Producers, NEW k, NEW l, pc[p] = k, k # l, Goto(p, l)
  PROVE  /\ NumP(k)' = NumP(k) - 1
         /\ NumP(l)' = NumP(l) + 1
         /\ \A m \in PC \ {k, l} : NumP(m)' = NumP(m)
         /\ \A m \in PC : NumC(m)' = NumC(m)
  <1> USE RingAssumption DEF Shape, Threads, Goto
  <1>1. InP({k})' = InP({k}) \ {p} /\ p \in InP({k})
    BY DEF InP
  <1>2. InP({l})' = InP({l}) \cup {p} /\ p \notin InP({l})
    BY DEF InP
  <1>3. NumP(k)' = NumP(k) - 1
    <2>1. IsFiniteSet(InP({k}))
      BY NumType
    <2>2. Cardinality(InP({k}) \ {p}) = Cardinality(InP({k})) - 1
      BY <1>1, <2>1, FS_RemoveElement
    <2> QED BY <1>1, <2>2 DEF NumP
  <1>4. NumP(l)' = NumP(l) + 1
    BY <1>2, NumType, FS_AddElement DEF NumP
  <1>5. ASSUME NEW m \in PC \ {k, l} PROVE NumP(m)' = NumP(m)
    <2>1. InP({m})' = InP({m})
      BY DEF InP
    <2> QED BY <2>1 DEF NumP
  <1>6. ASSUME NEW m \in PC PROVE NumC(m)' = NumC(m)
    <2>1. InC({m})' = InC({m})
      BY DEF InC
    <2> QED BY <2>1 DEF NumC
  <1> QED BY <1>3, <1>4, <1>5, <1>6

LEMMA ConsumerMoves ==
  ASSUME Shape, NEW c \in Consumers, NEW k, NEW l, pc[c] = k, k # l, Goto(c, l)
  PROVE  /\ NumC(k)' = NumC(k) - 1
         /\ NumC(l)' = NumC(l) + 1
         /\ \A m \in PC \ {k, l} : NumC(m)' = NumC(m)
         /\ \A m \in PC : NumP(m)' = NumP(m)
  <1> USE RingAssumption DEF Shape, Threads, Goto
  <1>1. InC({k})' = InC({k}) \ {c} /\ c \in InC({k})
    BY DEF InC
  <1>2. InC({l})' = InC({l}) \cup {c} /\ c \notin InC({l})
    BY DEF InC
  <1>3. NumC(k)' = NumC(k) - 1
    <2>1. IsFiniteSet(InC({k}))
      BY NumType
    <2>2. Cardinality(InC({k}) \ {c}) = Cardinality(InC({k})) - 1
      BY <1>1, <2>1, FS_RemoveElement
    <2> QED BY <1>1, <2>2 DEF NumC
  <1>4. NumC(l)' = NumC(l) + 1
    BY <1>2, NumType, FS_AddElement DEF NumC
  <1>5. ASSUME NEW m \in PC \ {k, l} PROVE NumC(m)' = NumC(m)
    <2>1. InC({m})' = InC({m})
      BY DEF InC
    <2> QED BY <2>1 DEF NumC
  <1>6. ASSUME NEW m \in PC PROVE NumP(m)' = NumP(m)
    <2>1. InP({m})' = InP({m})
      BY DEF InP
    <2> QED BY <2>1 DEF NumP
  <1> QED BY <1>3, <1>4, <1>5, <1>6

(***************************************************************************)
(* Every step preserves IInv.  A step of a producer changes Filled or      *)
(* Blank by what it does to a semaphore and by where it goes.              *)
(***************************************************************************)
LEMMA InitInv == Init => IInv
  <1> SUFFICES ASSUME Init PROVE IInv
    OBVIOUS
  <1> USE RingAssumption DEF Init
  <1>1. Shape
    BY DEF Shape, PC, Slots, Threads
  <1>2. Locked
    BY DEF Locked, Threads
  <1>3. ASSUME NEW l, l # "outside" PROVE NumP(l) = 0 /\ NumC(l) = 0
    <2>1. InP({l}) = {} /\ InC({l}) = {}
      BY <1>3 DEF InP, InC, Threads
    <2> QED BY <2>1, FS_EmptySet DEF NumP, NumC
  <1>4. /\ NumP("lock") = 0 /\ NumP("access") = 0 /\ NumP("advance") = 0 /\ NumP("V") = 0
        /\ NumC("lock") = 0 /\ NumC("access") = 0 /\ NumC("advance") = 0 /\ NumC("V") = 0
    BY <1>3
  <1>5. Filled = 0 /\ Blank = Cap
    BY <1>4 DEF Filled, Blank
  <1>6. Account /\ Apart
    BY <1>5 DEF Account, Apart, Shape
  <1> QED BY <1>1, <1>2, <1>6 DEF IInv

(* All the counts are numbers, before and after a step.                    *)
LEMMA Counts ==
  /\ \A l \in PC : NumP(l) \in Nat /\ NumC(l) \in Nat
  /\ Shape => Filled \in Nat /\ Blank \in Nat
  <1>1. \A l \in PC : NumP(l) \in Nat /\ NumC(l) \in Nat
    BY NumType
  <1> QED BY <1>1 DEF Shape, Filled, Blank, PC

LEMMA ProducerStep ==
  ASSUME IInv, NEW p \in Producers, CallEqueue(p) \/ Equeue(p)
  PROVE  IInv'
  <1> USE RingAssumption DEF IInv
  <1>1. CASE CallEqueue(p)
    <2> USE <1>1 DEF CallEqueue, At
    <2>1. Shape'
      BY DEF Shape, PC, Threads, Goto
    <2>2. Locked'
      BY DEF Shape, Locked, Threads, Goto
    <2>3. /\ \A m \in PC \ {"outside", "P"} : NumP(m)' = NumP(m)
          /\ \A m \in PC : NumC(m)' = NumC(m)
      BY ProducerMoves
    <2>4. Filled' = Filled /\ Blank' = Blank
      BY <2>3 DEF Filled, Blank, PC
    <2> QED BY <2>1, <2>2, <2>4 DEF Account, Apart
  <1>2. CASE BlankP(p)
    <2> USE <1>2 DEF BlankP, At
    <2>1. Shape'
      BY DEF Shape, PC, Threads, Goto
    <2>2. Locked'
      BY DEF Shape, Locked, Threads, Goto
    <2>3. /\ NumP("lock")' = NumP("lock") + 1
          /\ \A m \in PC \ {"P", "lock"} : NumP(m)' = NumP(m)
          /\ \A m \in PC : NumC(m)' = NumC(m)
      BY ProducerMoves
    <2>4. Filled' = Filled /\ Blank' = Blank
      BY <2>3, Counts DEF Filled, Blank, PC, Shape
    <2> QED BY <2>1, <2>2, <2>4 DEF Account, Apart
  <1>3. CASE PLock(p)
    <2> USE <1>3 DEF PLock, At
    <2>1. Shape'
      BY DEF Shape, PC, Threads, Goto
    <2>2. Locked'
      BY DEF Shape, Locked, Threads, Goto
    <2>3. /\ NumP("lock")' = NumP("lock") - 1 /\ NumP("access")' = NumP("access") + 1
          /\ \A m \in PC \ {"lock", "access"} : NumP(m)' = NumP(m)
          /\ \A m \in PC : NumC(m)' = NumC(m)
      BY ProducerMoves
    <2>4. Filled' = Filled /\ Blank' = Blank
      BY <2>3, Counts DEF Filled, Blank, PC, Shape
    <2> QED BY <2>1, <2>2, <2>4 DEF Account, Apart
  <1>4. CASE Write(p)
    <2> USE <1>4 DEF Write, At
    <2>1. Shape'
      BY DEF Shape, PC, Threads, Goto
    <2>2. Locked'
      BY DEF Shape, Locked, Threads, Goto
    <2>3. /\ NumP("access")' = NumP("access") - 1 /\ NumP("advance")' = NumP("advance") + 1
          /\ \A m \in PC \ {"access", "advance"} : NumP(m)' = NumP(m)
          /\ \A m \in PC : NumC(m)' = NumC(m)
      BY ProducerMoves
    <2>4. Filled' = Filled /\ Blank' = Blank
      BY <2>3, Counts DEF Filled, Blank, PC, Shape
    <2> QED BY <2>1, <2>2, <2>4 DEF Account, Apart
  <1>5. CASE PAdvance(p)
    <2> USE <1>5 DEF PAdvance, At
    <2>1. Shape'
      BY NextSlotValue DEF Shape, PC, Threads, Goto
    <2>2. Locked'
      BY DEF Shape, Locked, Threads, Goto
    <2>3. /\ NumP("advance")' = NumP("advance") - 1 /\ NumP("V")' = NumP("V") + 1
          /\ \A m \in PC \ {"advance", "V"} : NumP(m)' = NumP(m)
          /\ \A m \in PC : NumC(m)' = NumC(m)
      BY ProducerMoves
    <2>4. Filled' = Filled + 1 /\ Blank' = Blank - 1
      BY <2>3, Counts DEF Filled, Blank, PC, Shape
    <2>5. Account'
      BY <2>4, Counts DEF Account
    <2>6. p_step' = IF p_step = Cap - 1 THEN 0 ELSE p_step + 1
      BY NextSlotValue DEF Shape
    <2>7. Filled + 1 <= Cap
      <3>1. NumP("advance") >= 1
        BY NumPositive
      <3>2. Blank >= 1
        BY <3>1, Counts DEF Blank, Shape, PC
      <3> QED BY <3>2, Counts DEF Account
    <2>8. Apart'
      <3>1. p_step \in 0..(Cap - 1) /\ c_step \in 0..(Cap - 1) /\ Filled \in Nat
        BY Counts DEF Shape, Slots
      <3>2. c_step' = c_step
        OBVIOUS
      <3> HIDE DEF IInv, PAdvance
      <3>3. Apart
        BY DEF IInv
      <3> QED BY <2>4, <2>6, <2>7, <3>1, <3>2, <3>3 DEF Apart
    <2> QED BY <2>1, <2>2, <2>5, <2>8
  <1>6. CASE DateV(p)
    <2> USE <1>6 DEF DateV, At
    <2>1. Shape'
      BY DEF Shape, PC, Threads, Goto
    <2>2. Locked'
      BY DEF Shape, Locked, Threads, Goto
    <2>3. /\ NumP("V")' = NumP("V") - 1
          /\ \A m \in PC \ {"V", "outside"} : NumP(m)' = NumP(m)
          /\ \A m \in PC : NumC(m)' = NumC(m)
      BY ProducerMoves
    <2>4. Filled' = Filled /\ Blank' = Blank
      BY <2>3, Counts DEF Filled, Blank, PC, Shape
    <2> QED BY <2>1, <2>2, <2>4 DEF Account, Apart
  <1> QED BY <1>1, <1>2, <1>3, <1>4, <1>5, <1>6 DEF Equeue

LEMMA ConsumerStep ==
  ASSUME IInv, NEW c \in Consumers, CallPop(c) \/ Pop(c)
  PROVE  IInv'
  <1> USE RingAssumption DEF IInv
  <1>1. CASE CallPop(c)
    <2> USE <1>1 DEF CallPop, At
    <2>1. Shape'
      BY DEF Shape, PC, Threads, Goto
    <2>2. Locked'
      BY DEF Shape, Locked, Threads, Goto
    <2>3. /\ \A m \in PC \ {"outside", "P"} : NumC(m)' = NumC(m)
          /\ \A m \in PC : NumP(m)' = NumP(m)
      BY ConsumerMoves
    <2>4. Filled' = Filled /\ Blank' = Blank
      BY <2>3, Counts DEF Filled, Blank, PC, Shape
    <2> QED BY <2>1, <2>2, <2>4 DEF Account, Apart
  <1>2. CASE DateP(c)
    <2> USE <1>2 DEF DateP, At
    <2>1. Shape'
      BY DEF Shape, PC, Threads, Goto
    <2>2. Locked'
      BY DEF Shape, Locked, Threads, Goto
    <2>3. /\ NumC("lock")' = NumC("lock") + 1
          /\ \A m \in PC \ {"P", "lock"} : NumC(m)' = NumC(m)
          /\ \A m \in PC : NumP(m)' = NumP(m)
      BY ConsumerMoves
    <2>4. Filled' = Filled /\ Blank' = Blank
      BY <2>3, Counts DEF Filled, Blank, PC, Shape
    <2> QED BY <2>1, <2>2, <2>4 DEF Account, Apart
  <1>3. CASE CLock(c)
    <2> USE <1>3 DEF CLock, At
    <2>1. Shape'
      BY DEF Shape, PC, Threads, Goto
    <2>2. Locked'
      BY DEF Shape, Locked, Threads, Goto
    <2>3. /\ NumC("lock")' = NumC("lock") - 1 /\ NumC("access")' = NumC("access") + 1
          /\ \A m \in PC \ {"lock", "access"} : NumC(m)' = NumC(m)
          /\ \A m \in PC : NumP(m)' = NumP(m)
      BY ConsumerMoves
    <2>4. Filled' = Filled /\ Blank' = Blank
      BY <2>3, Counts DEF Filled, Blank, PC, Shape
    <2> QED BY <2>1, <2>2, <2>4 DEF Account, Apart
  <1>4. CASE Read(c)
    <2> USE <1>4 DEF Read, At
    <2>1. Shape'
      BY DEF Shape, PC, Threads, Goto
    <2>2. Locked'
      BY DEF Shape, Locked, Threads, Goto
    <2>3. /\ NumC("access")' = NumC("access") - 1 /\ NumC("advance")' = NumC("advance") + 1
          /\ \A m \in PC \ {"access", "advance"} : NumC(m)' = NumC(m)
          /\ \A m \in PC : NumP(m)' = NumP(m)
      BY ConsumerMoves
    <2>4. Filled' = Filled /\ Blank' = Blank
      BY <2>3, Counts DEF Filled, Blank, PC, Shape
    <2> QED BY <2>1, <2>2, <2>4 DEF Account, Apart
  <1>5. CASE CAdvance(c)
    <2> USE <1>5 DEF CAdvance, At
    <2>1. Shape'
      BY NextSlotValue DEF Shape, PC, Threads, Goto
    <2>2. Locked'
      BY DEF Shape, Locked, Threads, Goto
    <2>3. /\ NumC("advance")' = NumC("advance") - 1 /\ NumC("V")' = NumC("V") + 1
          /\ \A m \in PC \ {"advance", "V"} : NumC(m)' = NumC(m)
          /\ \A m \in PC : NumP(m)' = NumP(m)
      BY ConsumerMoves
    <2>4. Filled' = Filled - 1 /\ Blank' = Blank + 1
      BY <2>3, Counts DEF Filled, Blank, PC, Shape
    <2>5. Account'
      BY <2>4, Counts DEF Account
    <2>6. c_step' = IF c_step = Cap - 1 THEN 0 ELSE c_step + 1
      BY NextSlotValue DEF Shape
    <2>7. Filled >= 1 /\ Filled <= Cap
      <3>1. NumC("advance") >= 1
        BY NumPositive
      <3>2. Filled >= 1
        BY <3>1, Counts DEF Filled, Shape, PC
      <3> QED BY <3>2, Counts DEF Account
    <2>8. Apart'
      <3>1. p_step \in 0..(Cap - 1) /\ c_step \in 0..(Cap - 1) /\ Filled \in Nat
        BY Counts DEF Shape, Slots
      <3>2. p_step' = p_step
        OBVIOUS
      <3> HIDE DEF IInv, CAdvance
      <3>3. Apart
        BY DEF IInv
      <3> QED BY <2>4, <2>6, <2>7, <3>1, <3>2, <3>3 DEF Apart
    <2> QED BY <2>1, <2>2, <2>5, <2>8
  <1>6. CASE BlankV(c)
    <2> USE <1>6 DEF BlankV, BlankVOnce, At
    <2>1. Shape'
      BY DEF Shape, PC, Threads, Goto
    <2>2. Locked'
      BY DEF Shape, Locked, Threads, Goto
    <2>3. /\ NumC("V")' = NumC("V") - 1
          /\ \A m \in PC \ {"V", "outside"} : NumC(m)' = NumC(m)
          /\ \A m \in PC : NumP(m)' = NumP(m)
      BY ConsumerMoves
    <2>4. Filled' = Filled /\ Blank' = Blank
      BY <2>3, Counts DEF Filled, Blank, PC, Shape
    <2> QED BY <2>1, <2>2, <2>4 DEF Account, Apart
  <1> QED BY <1>1, <1>2, <1>3, <1>4, <1>5, <1>6 DEF Pop

LEMMA StutterInv == IInv /\ UNCHANGED vars => IInv'
  <1> SUFFICES ASSUME IInv, UNCHANGED vars PROVE IInv'
    OBVIOUS
  <1> USE DEF vars, IInv
  <1>1. Filled' = Filled /\ Blank' = Blank
    BY DEF Filled, Blank, NumP, NumC, InP, InC
  <1> QED BY <1>1 DEF Shape, Locked, Account, Apart

LEMMA NextInv == IInv /\ [Next]_vars => IInv'
  BY ProducerStep, ConsumerStep, StutterInv DEF Next

(* The inductive invariant holds in every reachable state.                 *)
THEOREM Invariance == Safety => []IInv
  BY InitInv, NextInv, PTL DEF Safety

(***************************************************************************)
(* What the invariant implies.                                             *)
(***************************************************************************)
LEMMA InvTypeOK == IInv => TypeOK
  <1> SUFFICES ASSUME IInv PROVE TypeOK
    OBVIOUS
  <1>1. blank_sem <= Blank /\ date_sem <= Filled
    BY Counts DEF IInv, Shape, Filled, Blank, PC
  <1>2. blank_sem <= Cap /\ date_sem <= Cap
    BY <1>1, Counts, RingAssumption DEF IInv, Shape, Account
  <1> QED BY <1>2, RingAssumption DEF IInv, Shape, TypeOK

(* The mutex admits one thread, so the set of those inside is no larger.   *)
LEMMA OneInside ==
  ASSUME IInv
  PROVE  /\ \A l \in SUBSET {"access", "advance"} :
              Cardinality(InP(l)) \in {0, 1} /\ Cardinality(InC(l)) \in {0, 1}
         /\ \A p, q \in Producers : pc[p] \in {"access", "advance"}
                /\ pc[q] \in {"access", "advance"} => p = q
         /\ \A c, d \in Consumers : pc[c] \in {"access", "advance"}
                /\ pc[d] \in {"access", "advance"} => c = d
  <1>1. ASSUME NEW l \in SUBSET {"access", "advance"}
        PROVE  /\ InP(l) = {} \/ InP(l) = {pmutex}
               /\ InC(l) = {} \/ InC(l) = {cmutex}
    <2>1. \A p \in InP(l) : pmutex = p
      BY DEF IInv, Locked, InP
    <2>2. \A c \in InC(l) : cmutex = c
      BY DEF IInv, Locked, InC
    <2>3. InP(l) \subseteq {pmutex} /\ InC(l) \subseteq {cmutex}
      BY <2>1, <2>2
    <2> QED BY <2>3
  <1>2. ASSUME NEW l \in SUBSET {"access", "advance"}
        PROVE  Cardinality(InP(l)) \in {0, 1} /\ Cardinality(InC(l)) \in {0, 1}
    <2>1. Cardinality({}) = 0 /\ Cardinality({pmutex}) = 1 /\ Cardinality({cmutex}) = 1
      BY FS_EmptySet, FS_Singleton
    <2>2. InP(l) = {} \/ InP(l) = {pmutex}
      BY <1>1
    <2>3. InC(l) = {} \/ InC(l) = {cmutex}
      BY <1>1
    <2>4. Cardinality(InP(l)) \in {0, 1}
      BY <2>1, <2>2
    <2>5. Cardinality(InC(l)) \in {0, 1}
      BY <2>1, <2>3
    <2> QED BY <2>4, <2>5
  <1> QED BY <1>2 DEF IInv, Locked

LEMMA InvNoSlotRace == IInv => NoSlotRace
  <1> SUFFICES ASSUME IInv PROVE NoSlotRace
    OBVIOUS
  <1>1. ASSUME InP({"access"}) # {}, InC({"access"}) # {} PROVE p_step # c_step
    <2>1. NumP("access") >= 1 /\ NumC("access") >= 1
      BY <1>1, NumPositive DEF InP, InC
    <2>2. Filled >= 1 /\ Blank >= 1
      BY <2>1, Counts DEF IInv, Shape, Filled, Blank, PC
    <2>3. Filled \in 1..(Cap - 1)
      BY <2>2, Counts, RingAssumption DEF IInv, Account
    <2> QED BY <2>3, RingAssumption DEF IInv, Apart, Shape, Slots
  <1>2. /\ Cardinality(InP({"access", "advance"})) <= 1
        /\ Cardinality(InC({"access", "advance"})) <= 1
    BY OneInside
  <1> QED BY <1>1, <1>2 DEF NoSlotRace

(* Type correctness; the steps index the vector, and each semaphore stays  *)
(* between 0 and _cap.                                                     *)
THEOREM TypeCorrect == Safety => []TypeOK
  BY InvTypeOK, Invariance, PTL

(* Two locks and two semaphores keep all accesses to a slot apart.         *)
THEOREM SlotsApart == Safety => []NoSlotRace
  BY InvNoSlotRace, Invariance, PTL

(***************************************************************************)
(* The refinement.  The FIFO's items are the window of Unread slots that   *)
(* begins at ReadStep.  Only Write and Read move an end of the window, and *)
(* no other step touches a slot in it.                                     *)
(***************************************************************************)
UnreadIsSum ==
    Unread = (((date_sem + NumP("advance")) + NumP("V")) + NumC("lock")) + NumC("access")

ReadStepByCount ==
    ReadStep = IF NumC("advance") > 0 THEN NextSlot(c_step) ELSE c_step

LEMMA WindowByCounts == Shape => UnreadIsSum /\ ReadStepByCount
  <1> SUFFICES ASSUME Shape PROVE UnreadIsSum /\ ReadStepByCount
    OBVIOUS
  <1>1. Cardinality(InP({"advance", "V"})) = NumP("advance") + NumP("V")
    <2>1. InP({"advance", "V"}) = InP({"advance"}) \cup InP({"V"})
      BY DEF InP
    <2>2. InP({"advance"}) \cap InP({"V"}) = {}
      BY DEF InP
    <2>3. IsFiniteSet(InP({"advance"})) /\ IsFiniteSet(InP({"V"}))
      BY NumType
    <2>4. Cardinality({}) = 0 /\ NumP("advance") \in Nat /\ NumP("V") \in Nat
      BY FS_EmptySet, NumType
    <2>5. Cardinality(InP({"advance"}) \cup InP({"V"})) =
            Cardinality(InP({"advance"})) + Cardinality(InP({"V"}))
                - Cardinality(InP({"advance"}) \cap InP({"V"}))
      BY <2>3, FS_Union
    <2>6. Cardinality(InP({"advance", "V"})) =
            Cardinality(InP({"advance"})) + Cardinality(InP({"V"})) - 0
      BY <2>1, <2>2, <2>4, <2>5
    <2> QED BY <2>4, <2>6 DEF NumP
  <1>2. Cardinality(InC({"lock", "access"})) = NumC("lock") + NumC("access")
    <2>1. InC({"lock", "access"}) = InC({"lock"}) \cup InC({"access"})
      BY DEF InC
    <2>2. InC({"lock"}) \cap InC({"access"}) = {}
      BY DEF InC
    <2>3. IsFiniteSet(InC({"lock"})) /\ IsFiniteSet(InC({"access"}))
      BY NumType
    <2>4. Cardinality({}) = 0 /\ NumC("lock") \in Nat /\ NumC("access") \in Nat
      BY FS_EmptySet, NumType
    <2>5. Cardinality(InC({"lock"}) \cup InC({"access"})) =
            Cardinality(InC({"lock"})) + Cardinality(InC({"access"}))
                - Cardinality(InC({"lock"}) \cap InC({"access"}))
      BY <2>3, FS_Union
    <2>6. Cardinality(InC({"lock", "access"})) =
            Cardinality(InC({"lock"})) + Cardinality(InC({"access"})) - 0
      BY <2>1, <2>2, <2>4, <2>5
    <2> QED BY <2>4, <2>6 DEF NumC
  <1>3. NumC("advance") > 0 <=> InC({"advance"}) # {}
    <2>1. NumC("advance") \in Nat /\ IsFiniteSet(InC({"advance"}))
      BY NumType
    <2> QED BY <2>1, FS_EmptySet DEF NumC
  <1>4. UnreadIsSum
    BY <1>1, <1>2, Counts DEF UnreadIsSum, Unread, Shape, PC
  <1> QED BY <1>3, <1>4 DEF ReadStepByCount, ReadStep

LEMMA WindowNext == Shape' => (UnreadIsSum /\ ReadStepByCount)'
  BY WindowByCounts, PTL

(* Where the window is, and that the producers' step is its end while no   *)
(* producer has written without advancing.                                 *)
LEMMA Window ==
  ASSUME IInv
  PROVE  /\ Unread \in 0..Cap /\ ReadStep \in 0..(Cap - 1)
         /\ NumP("advance") = 0 => \/ p_step = ReadStep + Unread
                                   \/ p_step = (ReadStep + Unread) - Cap
  <1> USE RingAssumption
  <1>1. UnreadIsSum /\ ReadStepByCount
    BY WindowByCounts DEF IInv
  <1>2. NumP("advance") \in {0, 1} /\ NumC("advance") \in {0, 1}
    BY OneInside DEF NumP, NumC
  <1>3. Unread = (Filled + NumP("advance")) - NumC("advance")
    BY <1>1, Counts DEF UnreadIsSum, Filled, IInv, Shape, PC
  <1>4. NumP("advance") <= Blank /\ NumC("advance") <= Filled /\ Filled \in Nat /\ Blank \in Nat
    BY Counts DEF Filled, Blank, IInv, Shape, PC
  <1>5. Unread \in 0..Cap
    BY <1>2, <1>3, <1>4 DEF IInv, Account
  <1>6. c_step \in 0..(Cap - 1) /\ p_step \in 0..(Cap - 1)
    BY DEF IInv, Shape, Slots
  <1>7. NextSlot(c_step) = IF c_step = Cap - 1 THEN 0 ELSE c_step + 1
    BY NextSlotValue DEF IInv, Shape
  <1>8. ReadStep \in 0..(Cap - 1)
    BY <1>1, <1>6, <1>7 DEF ReadStepByCount
  <1>9. NumP("advance") = 0 => \/ p_step = ReadStep + Unread
                              \/ p_step = (ReadStep + Unread) - Cap
    BY <1>1, <1>2, <1>3, <1>4, <1>6, <1>7 DEF ReadStepByCount, IInv, Apart, Account
  <1> QED BY <1>5, <1>8, <1>9

LEMMA WindowNextBound == IInv' => (Unread \in 0..Cap)'
  <1>1. IInv => Unread \in 0..Cap
    BY Window
  <1> QED BY <1>1, PTL

(* Sequences given as functions.                                           *)
LEMMA FunctionSeq ==
  ASSUME NEW S, NEW n \in Nat, NEW f \in [1..n -> S]
  PROVE  f \in Seq(S) /\ Len(f) = n
  OBVIOUS

LEMMA FunctionAppend ==
  ASSUME NEW S, NEW n \in Nat, NEW e \in S,
         NEW f \in [1..n -> S], NEW g \in [1..(n + 1) -> S],
         g[n + 1] = e, \A i \in 1..n : g[i] = f[i]
  PROVE  g = Append(f, e)
  <1>1. f \in Seq(S) /\ Len(f) = n /\ g \in Seq(S) /\ Len(g) = n + 1
    BY FunctionSeq
  <1>2. /\ Append(f, e) \in Seq(S) /\ Len(Append(f, e)) = n + 1
        /\ \A i \in 1..(n + 1) : Append(f, e)[i] = g[i]
    BY <1>1
  <1> QED BY <1>1, <1>2

LEMMA FunctionTail ==
  ASSUME NEW S, NEW n \in Nat,
         NEW f \in [1..(n + 1) -> S], NEW g \in [1..n -> S],
         \A i \in 1..n : g[i] = f[i + 1]
  PROVE  g = Tail(f) /\ Head(f) = f[1] /\ f # <<>>
  <1>1. f \in Seq(S) /\ Len(f) = n + 1 /\ g \in Seq(S) /\ Len(g) = n
    BY FunctionSeq
  <1>2. /\ Tail(f) \in Seq(S) /\ Len(Tail(f)) = n /\ f # <<>>
        /\ \A i \in 1..n : Tail(f)[i] = g[i]
    BY <1>1
  <1> QED BY <1>1, <1>2

(* Slot of the window's i-th item.                                         *)
SlotOf(i) == (ReadStep + i - 1) % Cap

LEMMA SlotOfValue ==
  ASSUME IInv, NEW i \in 1..Cap
  PROVE  SlotOf(i) = (IF ReadStep + i - 1 < Cap THEN ReadStep + i - 1
                                               ELSE (ReadStep + i - 1) - Cap)
         /\ SlotOf(i) \in Slots
  <1>1. ReadStep \in 0..(Cap - 1)
    BY Window
  <1>2. ReadStep + i - 1 \in 0..(2 * Cap - 1)
    BY <1>1, RingAssumption
  <1> QED BY <1>1, <1>2, RoundTheRing, RingAssumption DEF SlotOf, Slots

LEMMA WindowIsSeq ==
  ASSUME IInv
  PROVE  [i \in 1..Unread |-> rq[SlotOf(i)]] \in [1..Unread -> Items]
  BY SlotOfValue, Window, RingAssumption DEF IInv, Shape

(* The producer writes the slot after the window's last.                   *)
LEMMA WritePuts ==
  ASSUME IInv, IInv', NEW p \in Producers, Write(p)
  PROVE  FIFO!Put(p)
  <1> USE RingAssumption
  <1> DEFINE f == [i \in 1..Unread |-> rq[SlotOf(i)]]
  <1>1. /\ NumP("access")' = NumP("access") - 1 /\ NumP("advance")' = NumP("advance") + 1
        /\ \A m \in PC \ {"access", "advance"} : NumP(m)' = NumP(m)
        /\ \A m \in PC : NumC(m)' = NumC(m)
    BY ProducerMoves DEF IInv, Write, At
  <1>2. UnreadIsSum /\ ReadStepByCount /\ UnreadIsSum' /\ ReadStepByCount'
    BY WindowByCounts, WindowNext DEF IInv
  <1>3. Unread' = Unread + 1 /\ ReadStep' = ReadStep
    BY <1>1, <1>2, Counts DEF UnreadIsSum, ReadStepByCount, IInv, Shape, PC, Write
  <1>4. NumP("advance") = 0
    <2>1. InP({"advance"}) = {}
      BY OneInside DEF InP, Write, At
    <2> QED BY <2>1, FS_EmptySet DEF NumP
  <1>5. /\ Unread \in 0..Cap /\ ReadStep \in 0..(Cap - 1)
        /\ p_step = ReadStep + Unread \/ p_step = (ReadStep + Unread) - Cap
    BY <1>4, Window
  <1>6. Unread < Cap
    <2>1. Unread' \in 0..Cap
      BY WindowNextBound
    <2> QED BY <1>3, <1>5, <2>1
  <1>7. p_step \in 0..(Cap - 1)
    BY DEF IInv, Shape, Slots
  <1>8. SlotOf(Unread + 1) = p_step
    BY <1>5, <1>6, <1>7, SlotOfValue
  <1>9. \A i \in 1..Unread : SlotOf(i) # p_step
    BY <1>5, <1>6, <1>7, SlotOfValue
  <1>10. \A i \in 1..(Unread + 1) : SlotOf(i)' = SlotOf(i)
    BY <1>3 DEF SlotOf
  <1>11. \A i \in 1..(Unread + 1) : rq'[SlotOf(i)] = IF i = Unread + 1 THEN in[p] ELSE f[i]
    BY <1>5, <1>6, <1>8, <1>9, SlotOfValue DEF Write, IInv, Shape
  <1>12. f' = [i \in 1..(Unread + 1) |-> rq'[SlotOf(i)]]
    BY <1>3, <1>10
  <1>13. f \in [1..Unread -> Items] /\ in[p] \in Items
    BY WindowIsSeq DEF IInv, Shape
  <1>14. f' \in [1..(Unread + 1) -> Items]
    <2> HIDE DEF f
    <2>1. \A i \in 1..(Unread + 1) : rq'[SlotOf(i)] \in Items
      BY <1>5, <1>11, <1>13
    <2> QED BY <1>12, <2>1
  <1>15. f' = Append(f, in[p])
    <2> HIDE DEF f
    <2>1. f'[Unread + 1] = in[p] /\ \A i \in 1..Unread : f'[i] = f[i]
      BY <1>5, <1>11, <1>12
    <2> QED BY <1>5, <1>13, <1>14, <2>1, FunctionAppend
  <1>16. Len(f) = Unread
    BY <1>5, <1>13, FunctionSeq
  <1> QED BY <1>6, <1>15, <1>16 DEF FIFO!Put, SlotOf, Write

(* The consumer reads the window's first slot.                             *)
LEMMA ReadGets ==
  ASSUME IInv, IInv', NEW c \in Consumers, Read(c)
  PROVE  FIFO!Get(c)
  <1> USE RingAssumption
  <1> DEFINE f == [i \in 1..Unread |-> rq[SlotOf(i)]]
             n == Unread - 1
  <1>1. /\ NumC("access")' = NumC("access") - 1 /\ NumC("advance")' = NumC("advance") + 1
        /\ \A m \in PC \ {"access", "advance"} : NumC(m)' = NumC(m)
        /\ \A m \in PC : NumP(m)' = NumP(m)
    BY ConsumerMoves DEF IInv, Read, At
  <1>2. UnreadIsSum /\ ReadStepByCount /\ UnreadIsSum' /\ ReadStepByCount'
    BY WindowByCounts, WindowNext DEF IInv
  <1>3. NumC("advance") = 0
    <2>1. InC({"advance"}) = {}
      BY OneInside DEF InC, Read, At
    <2> QED BY <2>1, FS_EmptySet DEF NumC
  <1>4. Unread' = Unread - 1
    BY <1>1, <1>2, Counts DEF UnreadIsSum, IInv, Shape, PC, Read
  <1>5. ReadStep = c_step /\ ReadStep' = NextSlot(c_step)
    BY <1>1, <1>2, <1>3 DEF ReadStepByCount, Read, NextSlot
  <1>6. Unread \in 1..Cap /\ ReadStep \in 0..(Cap - 1)
    <2>1. NumC("access") >= 1
      BY NumPositive DEF Read, At
    <2>2. Unread >= 1
      BY <1>2, <2>1, Counts DEF UnreadIsSum, IInv, Shape, PC
    <2> QED BY <2>2, Window
  <1>7. ReadStep' = (IF ReadStep = Cap - 1 THEN 0 ELSE ReadStep + 1) /\ rq' = rq
    BY <1>5, NextSlotValue DEF IInv, Shape, Read
  <1>8. SlotOf(1) = c_step
    BY <1>5, <1>6, SlotOfValue
  <1>9. ASSUME NEW i \in 1..n PROVE SlotOf(i)' = SlotOf(i + 1)
    <2>1. ReadStep' + i - 1 \in 0..(2 * Cap - 1)
      BY <1>6, <1>7
    <2>2. SlotOf(i)' = IF ReadStep' + i - 1 < Cap THEN ReadStep' + i - 1
                                                  ELSE (ReadStep' + i - 1) - Cap
      BY <2>1, RoundTheRing DEF SlotOf
    <2> QED BY <1>6, <1>7, <2>2, SlotOfValue
  <1>10. f' = [i \in 1..n |-> rq[SlotOf(i + 1)]]
    BY <1>4, <1>7, <1>9
  <1>11. f \in [1..(n + 1) -> Items]
    BY <1>6, WindowIsSeq
  <1>12. f' \in [1..n -> Items] /\ \A i \in 1..n : f'[i] = f[i + 1]
    <2>1. \A i \in 1..n : f[i + 1] = rq[SlotOf(i + 1)] /\ i + 1 \in 1..(n + 1)
      BY <1>6
    <2> HIDE DEF f, n
    <2> QED BY <1>10, <1>11, <2>1
  <1>13. f' = Tail(f) /\ Head(f) = f[1] /\ f # <<>>
    <2>1. n \in Nat
      BY <1>6
    <2> HIDE DEF f, n
    <2> QED BY <1>11, <1>12, <2>1, FunctionTail
  <1>14. f[1] = rq[c_step]
    BY <1>6, <1>8
  <1> QED BY <1>13, <1>14 DEF FIFO!Get, SlotOf, Read

(* No other step moves an end of the window.                               *)
LEMMA ProducerKeepsWindow ==
  ASSUME IInv, IInv', NEW p \in Producers,
         CallEqueue(p) \/ BlankP(p) \/ PLock(p) \/ PAdvance(p) \/ DateV(p)
  PROVE  Unread' = Unread /\ ReadStep' = ReadStep
  <1>0. UnreadIsSum /\ ReadStepByCount /\ UnreadIsSum' /\ ReadStepByCount'
    BY WindowByCounts, WindowNext DEF IInv
  <1>1. CASE CallEqueue(p)
    <2> USE <1>1 DEF CallEqueue, At
    <2>1. /\ \A m \in PC \ {"outside", "P"} : NumP(m)' = NumP(m)
          /\ \A m \in PC : NumC(m)' = NumC(m)
      BY ProducerMoves DEF IInv
    <2> QED BY <1>0, <2>1, Counts DEF UnreadIsSum, ReadStepByCount, IInv, Shape, PC
  <1>2. CASE BlankP(p)
    <2> USE <1>2 DEF BlankP, At
    <2>1. /\ NumP("lock")' = NumP("lock") + 1
          /\ \A m \in PC \ {"P", "lock"} : NumP(m)' = NumP(m)
          /\ \A m \in PC : NumC(m)' = NumC(m)
      BY ProducerMoves DEF IInv
    <2> QED BY <1>0, <2>1, Counts DEF UnreadIsSum, ReadStepByCount, IInv, Shape, PC
  <1>3. CASE PLock(p)
    <2> USE <1>3 DEF PLock, At
    <2>1. /\ NumP("lock")' = NumP("lock") - 1 /\ NumP("access")' = NumP("access") + 1
          /\ \A m \in PC \ {"lock", "access"} : NumP(m)' = NumP(m)
          /\ \A m \in PC : NumC(m)' = NumC(m)
      BY ProducerMoves DEF IInv
    <2> QED BY <1>0, <2>1, Counts DEF UnreadIsSum, ReadStepByCount, IInv, Shape, PC
  <1>4. CASE PAdvance(p)
    <2> USE <1>4 DEF PAdvance, At
    <2>1. /\ NumP("advance")' = NumP("advance") - 1 /\ NumP("V")' = NumP("V") + 1
          /\ \A m \in PC \ {"advance", "V"} : NumP(m)' = NumP(m)
          /\ \A m \in PC : NumC(m)' = NumC(m)
      BY ProducerMoves DEF IInv
    <2> QED BY <1>0, <2>1, Counts DEF UnreadIsSum, ReadStepByCount, IInv, Shape, PC
  <1>5. CASE DateV(p)
    <2> USE <1>5 DEF DateV, At
    <2>1. /\ NumP("V")' = NumP("V") - 1
          /\ \A m \in PC \ {"V", "outside"} : NumP(m)' = NumP(m)
          /\ \A m \in PC : NumC(m)' = NumC(m)
      BY ProducerMoves DEF IInv
    <2> QED BY <1>0, <2>1, Counts DEF UnreadIsSum, ReadStepByCount, IInv, Shape, PC
  <1> QED BY <1>1, <1>2, <1>3, <1>4, <1>5

LEMMA ConsumerKeepsWindow ==
  ASSUME IInv, IInv', NEW c \in Consumers,
         CallPop(c) \/ DateP(c) \/ CLock(c) \/ CAdvance(c) \/ BlankV(c)
  PROVE  Unread' = Unread /\ ReadStep' = ReadStep
  <1>0. UnreadIsSum /\ ReadStepByCount /\ UnreadIsSum' /\ ReadStepByCount'
    BY WindowByCounts, WindowNext DEF IInv
  <1>1. CASE CallPop(c)
    <2> USE <1>1 DEF CallPop, At
    <2>1. /\ \A m \in PC \ {"outside", "P"} : NumC(m)' = NumC(m)
          /\ \A m \in PC : NumP(m)' = NumP(m)
      BY ConsumerMoves DEF IInv
    <2> QED BY <1>0, <2>1, Counts DEF UnreadIsSum, ReadStepByCount, IInv, Shape, PC
  <1>2. CASE DateP(c)
    <2> USE <1>2 DEF DateP, At
    <2>1. /\ NumC("lock")' = NumC("lock") + 1
          /\ \A m \in PC \ {"P", "lock"} : NumC(m)' = NumC(m)
          /\ \A m \in PC : NumP(m)' = NumP(m)
      BY ConsumerMoves DEF IInv
    <2> QED BY <1>0, <2>1, Counts DEF UnreadIsSum, ReadStepByCount, IInv, Shape, PC
  <1>3. CASE CLock(c)
    <2> USE <1>3 DEF CLock, At
    <2>1. /\ NumC("lock")' = NumC("lock") - 1 /\ NumC("access")' = NumC("access") + 1
          /\ \A m \in PC \ {"lock", "access"} : NumC(m)' = NumC(m)
          /\ \A m \in PC : NumP(m)' = NumP(m)
      BY ConsumerMoves DEF IInv
    <2> QED BY <1>0, <2>1, Counts DEF UnreadIsSum, ReadStepByCount, IInv, Shape, PC
  <1>4. CASE CAdvance(c)
    <2> USE <1>4 DEF CAdvance, At
    <2>1. /\ NumC("advance")' = NumC("advance") - 1
          /\ \A m \in PC \ {"advance", "V"} : NumC(m)' = NumC(m)
          /\ \A m \in PC : NumP(m)' = NumP(m)
      BY ConsumerMoves DEF IInv
    <2>2. NumC("advance") = 1
      <3>1. NumC("advance") \in {0, 1}
        BY OneInside DEF NumC
      <3> QED BY <3>1, NumPositive
    <2>3. ReadStep' = ReadStep
      BY <1>0, <2>1, <2>2 DEF ReadStepByCount
    <2>4. Unread' = Unread
      BY <1>0, <2>1, Counts DEF UnreadIsSum, IInv, Shape, PC
    <2> QED BY <2>3, <2>4
  <1>5. CASE BlankV(c)
    <2> USE <1>5 DEF BlankV, At, BlankVOnce
    <2>1. /\ NumC("V")' = NumC("V") - 1
          /\ \A m \in PC \ {"V", "outside"} : NumC(m)' = NumC(m)
          /\ \A m \in PC : NumP(m)' = NumP(m)
      BY ConsumerMoves DEF IInv
    <2> QED BY <1>0, <2>1, Counts DEF UnreadIsSum, ReadStepByCount, IInv, Shape, PC
  <1> QED BY <1>1, <1>2, <1>3, <1>4, <1>5

LEMMA SameItems ==
  ASSUME Unread' = Unread, ReadStep' = ReadStep, rq' = rq
  PROVE  [i \in 1..Unread |-> rq[(ReadStep + i - 1) % Cap]]'
           = [i \in 1..Unread |-> rq[(ReadStep + i - 1) % Cap]]
  OBVIOUS

LEMMA StepRefines ==
  ASSUME IInv, IInv', [Next]_vars
  PROVE  [FIFO!Next]_FIFO!vars
  <1>1. ASSUME NEW p \in Producers, CallEqueue(p) PROVE FIFO!Offer(p)
    <2>1. Unread' = Unread /\ ReadStep' = ReadStep /\ rq' = rq
      BY <1>1, ProducerKeepsWindow DEF CallEqueue
    <2> QED BY <1>1, <2>1, SameItems DEF CallEqueue, FIFO!Offer
  <1>2. ASSUME NEW p \in Producers, BlankP(p) \/ PLock(p) \/ PAdvance(p) \/ DateV(p)
        PROVE  UNCHANGED FIFO!vars
    <2>1. Unread' = Unread /\ ReadStep' = ReadStep
      BY <1>2, ProducerKeepsWindow
    <2>2. UNCHANGED <<rq, in, out>>
      BY <1>2 DEF BlankP, PLock, PAdvance, DateV
    <2> QED BY <2>1, <2>2, SameItems DEF FIFO!vars
  <1>3. ASSUME NEW c \in Consumers,
               CallPop(c) \/ DateP(c) \/ CLock(c) \/ CAdvance(c) \/ BlankV(c)
        PROVE  UNCHANGED FIFO!vars
    <2>1. Unread' = Unread /\ ReadStep' = ReadStep
      BY <1>3, ConsumerKeepsWindow
    <2>2. UNCHANGED <<rq, in, out>>
      BY <1>3 DEF CallPop, DateP, CLock, CAdvance, BlankV
    <2> QED BY <2>1, <2>2, SameItems DEF FIFO!vars
  <1>4. CASE UNCHANGED vars
    <2>1. UNCHANGED <<Unread, ReadStep, rq, in, out>>
      BY <1>4 DEF vars, Unread, ReadStep, InP, InC
    <2> QED BY <2>1, SameItems DEF FIFO!vars
  <1> QED BY <1>1, <1>2, <1>3, <1>4, WritePuts, ReadGets
          DEF Next, Equeue, Pop, FIFO!Next, FIFO!Transfer

(* Every step of the ring is a step of the bounded FIFO, or none.          *)
THEOREM Refinement == Safety => FIFO!Safety
  <1>1. Init => FIFO!Init
    <2> SUFFICES ASSUME Init PROVE FIFO!Init
      OBVIOUS
    <2>1. InP({"advance", "V"}) = {} /\ InC({"lock", "access"}) = {}
      BY DEF Init, InP, InC, Threads
    <2>2. Unread = 0
      BY <2>1, FS_EmptySet DEF Unread, Init
    <2> QED BY <2>2, RingAssumption DEF Init, FIFO!Init
  <1>2. IInv /\ IInv' /\ [Next]_vars => [FIFO!Next]_FIFO!vars
    BY StepRefines
  <1> QED BY <1>1, <1>2, Invariance, PTL DEF Safety, FIFO!Safety
=============================================================================
