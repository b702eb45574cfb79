----------------------------- MODULE IpcProofs -----------------------------
(***************************************************************************)
(* Proofs about the programs that MCIpc puts side by side, for any number  *)
(* of processes, threads, lines, tickets and faults.  Each program has an  *)
(* inductive invariant of its own, which the steps of the others leave     *)
(* alone because they leave its variables alone.                           *)
(***************************************************************************)
EXTENDS MCIpc, FiniteSetTheorems, SequenceTheorems, WellFoundedInduction, TLAPS

(* What a program's own steps and the rest of the others' steps do.        *)
LEMMA OneProgramSteps ==
  ASSUME [Next]_vars
  PROVE  /\ [Pool!Next]_poolVars /\ [Semaphore!Next]_semaphoreVars
         /\ [Fifo!Next]_fifoVars /\ [Chat!Next]_chatVars
         /\ [Thread!Next]_threadVars /\ [Sale!Next]_saleVars /\ [Log!Next]_logVars
  BY DEF Next, PoolStep, SemaphoreStep, FifoStep, ChatStep, ThreadStep, SaleStep, LogStep, vars

-----------------------------------------------------------------------------
(***************************************************************************)
(* Two sequences, one behind the other: a queue and what was taken from    *)
(* it.                                                                     *)
(***************************************************************************)
LEMMA MoveOne ==
  ASSUME NEW S, NEW p \in Seq(S), NEW q \in Seq(S), q # <<>>
  PROVE  Append(p, Head(q)) \o Tail(q) = p \o q
  <1>1. Head(q) \in S /\ Tail(q) \in Seq(S) /\ Len(Tail(q)) = Len(q) - 1
        /\ \A i \in 1..Len(Tail(q)) : Tail(q)[i] = q[i + 1]
    BY HeadTailProperties
  <1>2. Append(p, Head(q)) \in Seq(S) /\ Len(Append(p, Head(q))) = Len(p) + 1
    BY <1>1, AppendProperties
  <1>3. Append(p, Head(q)) \o Tail(q) \in Seq(S) /\ p \o q \in Seq(S)
        /\ Len(Append(p, Head(q)) \o Tail(q)) = Len(p \o q)
    BY <1>1, <1>2, ConcatProperties, LenProperties
  <1>4. \A i \in 1..Len(p \o q) : (Append(p, Head(q)) \o Tail(q))[i] = (p \o q)[i]
    BY <1>1, <1>2
  <1> QED BY <1>3, <1>4, SeqEqual

LEMMA PrefixOfConcat ==
  ASSUME NEW S, NEW p \in Seq(S), NEW q \in Seq(S)
  PROVE  /\ Len(p) <= Len(p \o q)
         /\ SubSeq(p, 1, Len(p)) = SubSeq(p \o q, 1, Len(p))
  <1>1. Len(p) \in Nat /\ Len(q) \in Nat /\ Len(p \o q) = Len(p) + Len(q)
    BY ConcatProperties, LenProperties
  <1>2. CASE p = <<>>
    BY <1>1, <1>2, SubSeqEmpty
  <1>3. CASE p # <<>>
    <2>1. Len(p) \in 1..Len(p) /\ 1 \in 1..Len(p)
      BY <1>1, <1>3
    <2> QED BY <1>1, <2>1, SubSeqOfConcat1
  <1> QED BY <1>2, <1>3

LEMMA AppendSecond ==
  ASSUME NEW S, NEW p \in Seq(S), NEW q \in Seq(S), NEW e \in S
  PROVE  p \o Append(q, e) = Append(p \o q, e)
  <1>1. <<e>> \in Seq(S) /\ p \o q \in Seq(S)
    OBVIOUS
  <1> QED BY <1>1, AppendIsConcat, ConcatAssociative

LEMMA MoveMany ==
  ASSUME NEW S, NEW p \in Seq(S), NEW q \in Seq(S), NEW n \in 1..Len(q)
  PROVE  /\ (p \o SubSeq(q, 1, n)) \o SubSeq(q, n + 1, Len(q)) = p \o q
         /\ p \o SubSeq(q, 1, n) \in Seq(S)
         /\ SubSeq(q, n + 1, Len(q)) \in Seq(S)
  <1>1. /\ Len(q) \in Nat /\ 1 \in 1..(Len(q) + 1) /\ n \in 0..Len(q) /\ Len(q) \in n..Len(q)
        /\ \A i \in 1..Len(q) : q[i] \in S
    BY LenProperties, ElementOfSeq
  <1>2. SubSeq(q, 1, n) \in Seq(S) /\ SubSeq(q, n + 1, Len(q)) \in Seq(S)
    <2>1. \A i \in 1..n : q[i] \in S
      BY <1>1
    <2>2. \A i \in (n + 1)..Len(q) : q[i] \in S
      BY <1>1
    <2> QED BY <1>1, <2>1, <2>2, SubSeqProperties
  <1>3. SubSeq(q, 1, n) \o SubSeq(q, n + 1, Len(q)) = q
    BY <1>1, ConcatAdjacentSubSeq, SubSeqFull
  <1>4. p \o SubSeq(q, 1, n) \in Seq(S)
    BY <1>2, ConcatProperties
  <1>5. (p \o SubSeq(q, 1, n)) \o SubSeq(q, n + 1, Len(q))
          = p \o (SubSeq(q, 1, n) \o SubSeq(q, n + 1, Len(q)))
    <2> DEFINE a == SubSeq(q, 1, n)
               b == SubSeq(q, n + 1, Len(q))
    <2>1. a \in Seq(S) /\ b \in Seq(S)
      BY <1>2
    <2> HIDE DEF a, b
    <2>2. (p \o a) \o b = p \o (a \o b)
      <3>1. /\ p \o a \in Seq(S) /\ a \o b \in Seq(S)
            /\ Len(p \o a) = Len(p) + Len(a) /\ Len(a \o b) = Len(a) + Len(b)
        BY <2>1, ConcatProperties
      <3>2. /\ (p \o a) \o b \in Seq(S) /\ p \o (a \o b) \in Seq(S)
            /\ Len((p \o a) \o b) = Len(p \o a) + Len(b)
            /\ Len(p \o (a \o b)) = Len(p) + Len(a \o b)
        BY <2>1, <3>1, ConcatProperties
      <3>3. Len((p \o a) \o b) = Len(p \o (a \o b))
        BY <2>1, <3>1, <3>2, LenProperties
      <3>4. \A i \in 1..Len((p \o a) \o b) : ((p \o a) \o b)[i] = (p \o (a \o b))[i]
        BY <2>1
      <3> QED BY <3>2, <3>3, <3>4, SeqEqual
    <2> QED BY <2>2 DEF a, b
  <1> QED BY <1>2, <1>3, <1>4, <1>5

-----------------------------------------------------------------------------
(***************************************************************************)
(* The ticket sale.                                                        *)
(***************************************************************************)
Sellers == 1..SellerThreads

SaleMutex ==
    /\ \A s \in Sellers : at[s] \in {"print", "count", "break"} <=> _mutex = s
    /\ \A s \in Sellers : at[s] \in {"print", "count"} => ticket > 0

(* main creates the threads in their order.                                *)
NotCreated == \A s, n \in Sellers : main = <<"create", n>> /\ s >= n => at[s] = "none"

SaleInv == Sale!TypeOK /\ SaleMutex /\ NotCreated /\ Sale!SoldOnce

LEMMA SaleAssumed ==
  /\ Tickets \in Nat /\ Nobody \notin Sellers
  /\ 1 \in Sellers /\ Sellers \subseteq Nat \ {0} /\ Sale!Count \in Nat
  /\ \A s \in Sellers : s < Sale!Count => s + 1 \in Sellers
  <1>1. /\ Tickets \in Nat /\ Nobody \notin Sellers
        /\ Sellers = 1..Sale!Count /\ Sale!Count \in Nat \ {0}
    BY Assumptions, Zenon DEF Assumptions, Sale!SaleAssumption, Sale!Count, Sellers
  <1> QED BY <1>1

LEMMA SaleInit == Sale!Init => SaleInv
  <1> SUFFICES ASSUME Sale!Init PROVE SaleInv
    OBVIOUS
  <1> USE SaleAssumed DEF Sale!Init
  <1>1. Sale!TypeOK
    BY DEF Sale!TypeOK, Sellers
  <1>2. SaleMutex /\ NotCreated
    BY DEF SaleMutex, NotCreated, Sellers
  <1>3. Sale!SoldOnce
    BY DEF Sale!SoldOnce, Sellers
  <1> QED BY <1>1, <1>2, <1>3 DEF SaleInv

LEMMA SaleNext == SaleInv /\ [Sale!Next]_saleVars => SaleInv'
  <1> SUFFICES ASSUME SaleInv, [Sale!Next]_saleVars PROVE SaleInv'
    OBVIOUS
  <1> USE SaleAssumed DEF SaleInv, Sale!TypeOK, Sale!Go
  <1>1. ASSUME NEW s \in Sellers, Sale!Create(s) PROVE SaleInv'
    <2> USE <1>1 DEF Sale!Create
    <2>1. /\ at[s] = "none"
          /\ \/ s + 1 \in Sellers /\ main' = <<"create", s + 1>>
             \/ main' = <<"join", 1>>
      BY DEF NotCreated, Sale!After
    <2>2. Sale!TypeOK'
      BY <2>1 DEF Sellers
    <2>3. SaleMutex'
      BY <2>1 DEF SaleMutex, Sellers
    <2>4. NotCreated'
      BY <2>1 DEF NotCreated, Sellers
    <2>5. Sale!SoldOnce'
      BY <2>1 DEF Sale!SoldOnce, Sellers
    <2> QED BY <2>2, <2>3, <2>4, <2>5
  <1>2. ASSUME NEW s \in Sellers, Sale!Join(s) PROVE SaleInv'
    <2> USE <1>2 DEF Sale!Join
    <2>1. \/ s + 1 \in Sellers /\ main' = <<"join", s + 1>>
          \/ main' = <<"ended", 0>>
      BY DEF Sale!After
    <2>2. Sale!TypeOK'
      BY <2>1 DEF Sellers
    <2>3. SaleMutex' /\ NotCreated'
      BY <2>1 DEF SaleMutex, NotCreated, Sellers
    <2>4. Sale!SoldOnce'
      BY DEF Sale!SoldOnce, Sellers
    <2> QED BY <2>2, <2>3, <2>4
  <1>3. ASSUME NEW s \in Sellers, Sale!Lock(s) PROVE SaleInv'
    <2> USE <1>3 DEF Sale!Lock
    <2>1. Sale!TypeOK'
      BY DEF Sellers
    <2>2. SaleMutex' /\ NotCreated'
      BY DEF SaleMutex, NotCreated, Sellers
    <2>3. Sale!SoldOnce'
      BY DEF Sale!SoldOnce, SaleMutex, Sellers
    <2> QED BY <2>1, <2>2, <2>3
  <1>4. ASSUME NEW s \in Sellers, Sale!Sell(s) PROVE SaleInv'
    <2> USE <1>4 DEF Sale!Sell
    <2>1. ticket \in 1..Tickets /\ \A t \in Sellers : at[t] # "count"
      BY DEF SaleMutex, Sellers
    <2>2. Sale!TypeOK'
      BY <2>1 DEF Sellers
    <2>3. SaleMutex' /\ NotCreated'
      BY DEF SaleMutex, NotCreated, Sellers
    <2>4. Sale!SoldOnce'
      BY SMTT(30), <2>1 DEF Sale!SoldOnce, Sellers
    <2> QED BY <2>2, <2>3, <2>4
  <1>5. ASSUME NEW s \in Sellers, Sale!Decrement(s) PROVE SaleInv'
    <2> USE <1>5 DEF Sale!Decrement, Sale!Unlock
    <2>1. ticket \in 1..Tickets /\ \A t \in Sellers : at'[t] # "count"
      BY DEF SaleMutex, Sellers
    <2>2. Sale!TypeOK'
      BY <2>1 DEF Sellers
    <2>3. SaleMutex' /\ NotCreated'
      BY DEF SaleMutex, NotCreated, Sellers
    <2>4. Sale!SoldOnce'
      BY <2>1 DEF Sale!SoldOnce, Sellers
    <2> QED BY <2>2, <2>3, <2>4
  <1>6. ASSUME NEW s \in Sellers, Sale!Break(s) PROVE SaleInv'
    <2> USE <1>6 DEF Sale!Break, Sale!Unlock
    <2>1. Sale!TypeOK'
      BY DEF Sellers
    <2>2. SaleMutex' /\ NotCreated'
      BY DEF SaleMutex, NotCreated, Sellers
    <2>3. Sale!SoldOnce'
      BY DEF Sale!SoldOnce, SaleMutex, Sellers
    <2> QED BY <2>1, <2>2, <2>3
  <1>7. CASE UNCHANGED saleVars
    BY <1>7 DEF saleVars, SaleMutex, NotCreated, Sale!SoldOnce, Sellers
  <1>8. CASE Sale!Terminated
    BY <1>7, <1>8 DEF Sale!Terminated, Sale!vars, saleVars
  <1> QED BY <1>1, <1>2, <1>3, <1>4, <1>5, <1>6, <1>7, <1>8
          DEF Sale!Next, Sale!CreateRest, Sale!Route, Sellers

-----------------------------------------------------------------------------
(***************************************************************************)
(* The Thread object.                                                      *)
(***************************************************************************)
(* Once a thread has been started, the object has the id of one.           *)
HasId == /\ \A t \in Thread!Threads : thread[t] # "none" => _tid # Thread!NoId
         /\ _tid # Thread!NoId => thread[_tid] # "none"
         /\ _isrunning \/ owner = "join" => _tid # Thread!NoId

(* A thread that has run and does not count as running was stopped.        *)
IdleIsStopped ==
    _tid # Thread!NoId /\ thread[_tid] \notin {"none", "new"} /\ ~_isrunning => _tid \in cancelled

ThreadInv == Thread!TypeOK /\ HasId /\ IdleIsStopped /\ Thread!NoneLost

LEMMA ThreadInit == Thread!Init => ThreadInv
  BY DEF Thread!Init, ThreadInv, Thread!TypeOK, HasId, IdleIsStopped, Thread!NoneLost, Thread!NoId

(* Only Start changes the id, and then it notes the one it overwrites.     *)
LEMMA ThreadNext == ThreadInv /\ [Thread!Next]_threadVars => ThreadInv'
  <1> SUFFICES ASSUME ThreadInv, [Thread!Next]_threadVars PROVE ThreadInv'
    OBVIOUS
  <1> USE DEF ThreadInv, Thread!TypeOK, Thread!Go, HasId, IdleIsStopped, Thread!NoneLost
  <1>1. CASE Thread!Start
    <2>1. PICK t \in Thread!Threads :
             /\ \A u \in Thread!Threads : thread[u] = "none" <=> u >= t
             /\ Thread!Go(t, "new") /\ _tid' = t
             /\ early' = IF _isdetach THEN early \cup {t} ELSE early
      BY <1>1 DEF Thread!Start
    <2>2. t # Thread!NoId
      BY DEF Thread!Threads, Thread!NoId
    <2>3. /\ overwritten' = overwritten \cup ({_tid} \ {Thread!NoId})
          /\ UNCHANGED <<owner, _isdetach, _isrunning, released, cancelled, stopped>>
      BY <1>1 DEF Thread!Start
    <2> QED BY <2>1, <2>2, <2>3
  <1>2. ASSUME Thread!DetachThread, UNCHANGED <<_tid, overwritten, cancelled, _isrunning>>
        PROVE  /\ released' \subseteq Thread!Threads
               /\ early' \subseteq Thread!Threads /\ stopped' \subseteq Thread!Threads
               /\ released \subseteq released' /\ early \subseteq early' /\ stopped \subseteq stopped'
               /\ stopped' \subseteq cancelled'
               /\ _isdetach' \in BOOLEAN
               /\ _isdetach' => _isdetach \/ _tid \in released' \cup early' \cup stopped' \cup {Thread!NoId}
               /\ ~_isdetach' => ~_isdetach
    <2>1. CASE _isdetach /\ UNCHANGED <<_isdetach, released, early, stopped>>
      BY <1>2, <2>1
    <2>2. CASE _isrunning /\ Thread!PthreadDetach /\ _isdetach' = TRUE
      BY <1>2, <2>2 DEF Thread!PthreadDetach, Thread!NoId
    <2>3. CASE ~_isrunning /\ Thread!FlagOnly /\ _isdetach' = TRUE
      <3>1. _tid # Thread!NoId /\ thread[_tid] # "new" => _tid \in cancelled
        BY <2>3
      <3> QED BY <1>2, <2>3, <3>1 DEF Thread!FlagOnly, Thread!NoId
    <2> QED BY <1>2, <2>1, <2>2, <2>3 DEF Thread!DetachThread, Thread!PthreadDetach
  <1>3. CASE Thread!Detach
    BY <1>2, <1>3 DEF Thread!Detach
  <1>4. CASE Thread!Stop \/ Thread!CallJoin \/ Thread!Join \/ Thread!Undefined
    <2>1. CASE Thread!Stop
      BY <2>1 DEF Thread!Stop, Thread!Usable
    <2>2. CASE Thread!CallJoin
      BY <2>2 DEF Thread!CallJoin, Thread!Usable
    <2>3. CASE Thread!Join
      BY <2>3 DEF Thread!Join
    <2>4. CASE Thread!Undefined
      BY <2>4 DEF Thread!Undefined
    <2> QED BY <1>4, <2>1, <2>2, <2>3, <2>4
  <1>5. ASSUME NEW t \in Thread!Threads, Thread!EnableRunning(t) PROVE ThreadInv'
    BY <1>5 DEF Thread!EnableRunning
  <1>6. ASSUME NEW t \in Thread!Threads, Thread!RoutineDetach(t) PROVE ThreadInv'
    BY <1>2, <1>6 DEF Thread!RoutineDetach
  <1>7. ASSUME NEW t \in Thread!Threads, Thread!Return(t) PROVE ThreadInv'
    BY <1>7 DEF Thread!Return
  <1>8. CASE UNCHANGED threadVars
    BY <1>8 DEF threadVars
  <1>9. CASE Thread!Terminated
    BY <1>8, <1>9 DEF Thread!Terminated, Thread!vars, threadVars
  <1> QED BY <1>1, <1>3, <1>4, <1>5, <1>6, <1>7, <1>8, <1>9
          DEF Thread!Next, Thread!OwnerStep, Thread!ThreadRun, Thread!Cancelled

-----------------------------------------------------------------------------
(***************************************************************************)
(* The semaphore set.                                                      *)
(***************************************************************************)
Held == {p \in Semaphore!Processes : pc[p] \notin {"none", "attach"}}

(* A process has called semget before it is at any other point.            *)
SetsMade == made <= Cardinality(Held)

(* Nothing is known of sets that have not been made.                       *)
Unmade ==
    /\ key <= made
    /\ \A p \in Semaphore!Processes : semid[p] <= made
    /\ \A s \in ready \cup interrupted : s <= made
    /\ \A s \in Semaphore!Sets : s > made => value[s] = 0

(* What the kernel would undo belongs to processes in their loop.          *)
UndoInLoop == \A p \in Semaphore!Processes : pc[p] \notin {"outside", "inside"} => undo[p] = 0

(* A set is initialised by its builder alone, before the builder forks.    *)
Builders ==
    /\ \A r \in Runs : pc[Semaphore!Child(r)] \notin {"init", "fork"}
    /\ \A r \in Runs : pc[Semaphore!Parent(r)] # "attach"
    /\ \A r \in Runs : pc[Semaphore!Parent(r)] \in {"none", "init", "fork"} =>
                           pc[Semaphore!Child(r)] = "none"
    /\ \A p, q \in Semaphore!Processes : pc[p] = "init" =>
           /\ semid[p] \notin ready \cup {Semaphore!NoSet}
           /\ pc[q] = "init" /\ semid[q] = semid[p] => p = q

(* Of the set under the key: its value and the processes inside are one    *)
(* unit once it is initialised, and the kernel would undo exactly theirs.  *)
Unit == IF key \in ready THEN 1 ELSE 0
Counted ==
    key # Semaphore!NoSet /\ key \notin interrupted =>
        /\ value[key] + Cardinality(Semaphore!Inside(key)) = Unit
        /\ \A p \in Semaphore!Processes : semid[p] = key =>
               undo[p] = IF pc[p] = "inside" THEN 1 ELSE 0

SemInv == /\ Semaphore!TypeOK /\ SetsMade /\ Unmade /\ UndoInLoop /\ Builders
          /\ Counted

LEMMA Names ==
  /\ \A r \in Runs : /\ Semaphore!Parent(r) \in Semaphore!Processes
                     /\ Semaphore!Child(r) \in Semaphore!Processes
  /\ \A q, r \in Runs : /\ Semaphore!Parent(q) # Semaphore!Child(r)
                        /\ Semaphore!Parent(q) = Semaphore!Parent(r) => q = r
                        /\ Semaphore!Child(q) = Semaphore!Child(r) => q = r
  /\ \A p \in Semaphore!Processes :
        \E r \in Runs : p = Semaphore!Parent(r) \/ p = Semaphore!Child(r)
  BY DEF Semaphore!Processes, Semaphore!Parent, Semaphore!Child

(* The instance has copies of the operators on finite sets.                *)
LEMMA SemOperators ==
  ASSUME NEW S
  PROVE  /\ Semaphore!IsFiniteSet(S) <=> IsFiniteSet(S)
         /\ Semaphore!Cardinality(S) = Cardinality(S)
  <1>1. Semaphore!IsFiniteSet(S) <=> IsFiniteSet(S)
    BY DEF Semaphore!IsFiniteSet, IsFiniteSet
  <1>2. Semaphore!Cardinality(S) = Cardinality(S)
    BY DEF Semaphore!Cardinality, Cardinality
  <1> QED BY <1>1, <1>2

LEMMA ProcessesFinite ==
  /\ IsFiniteSet(Semaphore!Processes)
  /\ Cardinality(Semaphore!Processes) = 2 * Cardinality(Runs) /\ Cardinality(Runs) \in Nat
  /\ MaxSemFaults \in Nat
  /\ Semaphore!Sets = 1..(2 * Cardinality(Runs))
  <1>1. IsFiniteSet(Runs) /\ MaxSemFaults \in Nat
    BY Assumptions, SemOperators DEF Semaphore!SemAssumption
  <1>2. {"parent", "child"} = {"parent"} \cup {"child"} /\ "parent" # "child"
    OBVIOUS
  <1>3. IsFiniteSet({"parent", "child"}) /\ Cardinality({"parent", "child"}) = 2
    <2>1. IsFiniteSet({"parent"}) /\ Cardinality({"parent"}) = 1
      BY FS_Singleton
    <2> QED BY <1>2, <2>1, FS_AddElement
  <1>4. Cardinality(Runs) \in Nat
    BY <1>1, FS_CardinalityType
  <1>5. Semaphore!Sets = 1..(2 * Cardinality(Runs))
    BY SemOperators DEF Semaphore!Sets
  <1>6. /\ IsFiniteSet(Semaphore!Processes)
        /\ Cardinality(Semaphore!Processes) = Cardinality(Runs) * Cardinality({"parent", "child"})
    BY <1>1, <1>3, FS_Product DEF Semaphore!Processes
  <1> QED BY <1>1, <1>3, <1>4, <1>5, <1>6

LEMMA SubsetsFinite ==
  ASSUME NEW S \in SUBSET Semaphore!Processes
  PROVE  /\ IsFiniteSet(S) /\ Cardinality(S) \in Nat
         /\ Cardinality(S) <= 2 * Cardinality(Runs)
         /\ (Cardinality(S) = 0 <=> S = {})
         /\ \A p \in Semaphore!Processes \ S :
               /\ Cardinality(S \cup {p}) = Cardinality(S) + 1
               /\ Cardinality(S) < 2 * Cardinality(Runs)
         /\ \A p \in S : Cardinality(S \ {p}) = Cardinality(S) - 1
  <1>1. IsFiniteSet(S) /\ Cardinality(S) \in Nat
    BY ProcessesFinite, FS_Subset, FS_CardinalityType
  <1>2. Cardinality(S) <= 2 * Cardinality(Runs)
    BY ProcessesFinite, FS_Subset
  <1>3. Cardinality(S) = 0 <=> S = {}
    BY <1>1, FS_EmptySet
  <1>4. ASSUME NEW p \in Semaphore!Processes \ S
        PROVE  /\ Cardinality(S \cup {p}) = Cardinality(S) + 1
               /\ Cardinality(S) < 2 * Cardinality(Runs)
    <2>1. Cardinality(S \cup {p}) = Cardinality(S) + 1
      BY <1>1, FS_AddElement
    <2>2. Cardinality(S \cup {p}) <= Cardinality(Semaphore!Processes)
      BY ProcessesFinite, FS_Subset
    <2> QED BY <1>1, <2>1, <2>2, ProcessesFinite
  <1>5. ASSUME NEW p \in S PROVE Cardinality(S \ {p}) = Cardinality(S) - 1
    BY <1>1, FS_RemoveElement
  <1> QED BY <1>1, <1>2, <1>3, <1>4, <1>5

LEMMA SemInit == Semaphore!Init => SemInv
  <1> SUFFICES ASSUME Semaphore!Init PROVE SemInv
    OBVIOUS
  <1> USE ProcessesFinite DEF Semaphore!Init, Semaphore!NoSet
  <1>1. Semaphore!TypeOK
    BY DEF Semaphore!TypeOK
  <1>2. SetsMade
    <2>1. Cardinality(Held) \in Nat
      BY SubsetsFinite DEF Held
    <2> QED BY <2>1 DEF SetsMade
  <1>3. Unmade /\ UndoInLoop /\ Counted
    BY DEF Unmade, UndoInLoop, Counted
  <1>4. Builders
    BY Names DEF Builders
  <1> QED BY <1>1, <1>2, <1>3, <1>4 DEF SemInv

(* A process that makes a set is one more that has called semget.          *)
LEMMA CreateStep ==
  ASSUME SemInv, NEW p \in Semaphore!Processes, pc[p] \in {"none", "attach"},
         Semaphore!Create(p), NEW at1 \in {"init", "outside"}, Semaphore!Go(p, at1)
  PROVE  /\ made + 1 \in Semaphore!Sets /\ made \in Nat
         /\ SetsMade'
  <1>1. Held' = Held \cup {p} /\ p \notin Held
    BY DEF SemInv, Semaphore!TypeOK, Held, Semaphore!Go
  <1>2. /\ Cardinality(Held) \in Nat /\ Cardinality(Held') = Cardinality(Held) + 1
        /\ Cardinality(Held) < 2 * Cardinality(Runs)
    BY ZenonT(60), <1>1, SubsetsFinite DEF Held
  <1>3. made \in Nat /\ made <= Cardinality(Held)
    BY ProcessesFinite DEF SemInv, Semaphore!TypeOK, SetsMade
  <1> QED BY <1>2, <1>3, ProcessesFinite DEF SetsMade, Semaphore!Create

(* A process that goes on between other points does not change Held.       *)
LEMMA HeldStays ==
  ASSUME SemInv, made' = made, Held \subseteq Held'
  PROVE  SetsMade'
  <1>1. Cardinality(Held) <= Cardinality(Held') /\ Cardinality(Held') \in Nat
        /\ Cardinality(Held) \in Nat
    <2>1. Held' \in SUBSET Semaphore!Processes /\ Held \in SUBSET Semaphore!Processes
      BY DEF Held
    <2> QED BY <2>1, SubsetsFinite, ProcessesFinite, FS_Subset
  <1>2. made \in Nat
    BY ProcessesFinite DEF SemInv, Semaphore!TypeOK
  <1> QED BY <1>1, <1>2 DEF SetsMade, SemInv

LEMMA BuildStep ==
  ASSUME SemInv, NEW r \in Runs, Semaphore!Build(r)
  PROVE  SemInv'
  <1> DEFINE p == Semaphore!Parent(r)
  <1> USE DEF SemInv, Semaphore!Build, Semaphore!Go
  <1>1. p \in Semaphore!Processes
    BY Names
  <1>2. made + 1 \in Semaphore!Sets /\ made \in Nat /\ SetsMade'
    BY <1>1, CreateStep
  <1> USE DEF Semaphore!Create
  <1>3. Semaphore!TypeOK'
    BY <1>1, <1>2 DEF Semaphore!TypeOK
  <1>4. Unmade'
    BY <1>1, <1>2, ProcessesFinite DEF Semaphore!TypeOK, Unmade
  <1>5. UndoInLoop'
    BY <1>1 DEF Semaphore!TypeOK, UndoInLoop
  <1>6. Builders'
    BY SMTT(30), <1>1, <1>2, Names, ProcessesFinite DEF Semaphore!TypeOK, Unmade, Builders, Semaphore!NoSet
  <1>7. Counted'
    <2>1. Semaphore!Inside(key)' = {}
      BY <1>1, <1>2, ProcessesFinite DEF Semaphore!Inside, Semaphore!TypeOK, Unmade
    <2>2. value'[key'] = 0 /\ Unit' = 0
      BY <1>2, ProcessesFinite DEF Unit, Unmade, Semaphore!TypeOK
    <2>3. \A q \in Semaphore!Processes : semid'[q] = key' => undo'[q] = 0 /\ pc'[q] # "inside"
      BY <1>1, <1>2, ProcessesFinite DEF Unmade, Semaphore!TypeOK, UndoInLoop
    <2> QED BY <2>1, <2>2, <2>3, FS_EmptySet DEF Counted
  <1> QED BY <1>2, <1>3, <1>4, <1>5, <1>6, <1>7

(* A builder gives up: its start was refused, or the set has been removed. *)
LEMMA GiveUpStep ==
  ASSUME SemInv, NEW r \in Runs, Semaphore!Refused(r) \/ Semaphore!InitFails(r)
  PROVE  SemInv'
  <1> DEFINE p == Semaphore!Parent(r)
  <1> USE DEF SemInv, Semaphore!Go
  <1>1. /\ p \in Semaphore!Processes /\ pc[p] \in {"none", "init"}
        /\ pc' = [pc EXCEPT ![p] = "gone"]
        /\ UNCHANGED <<key, made, value, ready, semid, undo, interrupted, semFaults>>
    BY Names DEF Semaphore!Refused, Semaphore!InitFails
  <1>2. SetsMade'
    BY <1>1, HeldStays DEF Held, Semaphore!TypeOK
  <1>3. Semaphore!TypeOK' /\ Unmade' /\ UndoInLoop'
    BY <1>1 DEF Semaphore!TypeOK, Unmade, UndoInLoop
  <1>4. Builders'
    BY <1>1, Names DEF Semaphore!TypeOK, Builders
  <1>5. Counted'
    <2>1. Semaphore!Inside(key)' = Semaphore!Inside(key)
      BY <1>1 DEF Semaphore!Inside, Semaphore!TypeOK
    <2> QED BY <1>1, <2>1 DEF Counted, Unit, Semaphore!TypeOK
  <1> QED BY <1>2, <1>3, <1>4, <1>5

(* The set that is initialised was at zero, and nobody inside.             *)
LEMMA InitSemStep ==
  ASSUME SemInv, NEW r \in Runs, Semaphore!InitSem(r)
  PROVE  SemInv'
  <1> DEFINE p == Semaphore!Parent(r)
  <1> USE DEF SemInv, Semaphore!InitSem, Semaphore!Go, Semaphore!Exists
  <1>1. /\ p \in Semaphore!Processes /\ key \in Semaphore!Sets /\ semid[p] = key
        /\ key \notin ready /\ key # Semaphore!NoSet
    BY Names DEF Builders, Semaphore!TypeOK
  <1>2. SetsMade'
    BY <1>1, HeldStays DEF Held, Semaphore!TypeOK
  <1>3. Semaphore!TypeOK'
    BY <1>1 DEF Semaphore!TypeOK, Semaphore!initVal
  <1>4. Unmade' /\ UndoInLoop'
    BY <1>1, ProcessesFinite DEF Semaphore!TypeOK, Unmade, UndoInLoop
  <1>5. Builders'
    BY <1>1, Names DEF Semaphore!TypeOK, Builders
  <1>6. Counted'
    <2> SUFFICES ASSUME key \notin interrupted PROVE Counted'
      BY DEF Counted
    <2>1. Semaphore!Inside(key) \in SUBSET Semaphore!Processes
      BY DEF Semaphore!Inside
    <2>2. Cardinality(Semaphore!Inside(key)) \in Nat /\ value[key] \in Nat
      BY <1>1, <2>1, SubsetsFinite DEF Semaphore!TypeOK
    <2>3. Cardinality(Semaphore!Inside(key)) = 0
      BY <1>1, <2>2 DEF Counted, Unit
    <2>4. Semaphore!Inside(key) = {}
      BY <2>1, <2>3, SubsetsFinite
    <2>5. Semaphore!Inside(key)' = {}
      BY <1>1, <2>4 DEF Semaphore!Inside, Semaphore!TypeOK
    <2>6. value'[key'] = 1 /\ Unit' = 1
      BY <1>1 DEF Unit, Semaphore!TypeOK, Semaphore!initVal
    <2>7. \A q \in Semaphore!Processes : semid'[q] = key' => undo'[q] = 0 /\ pc'[q] # "inside"
      BY <1>1, <2>4 DEF Semaphore!Inside, Semaphore!TypeOK
    <2> QED BY <2>5, <2>6, <2>7, FS_EmptySet DEF Counted
  <1> QED BY <1>2, <1>3, <1>4, <1>5, <1>6

LEMMA ForkStep ==
  ASSUME SemInv, NEW r \in Runs, Semaphore!Fork(r)
  PROVE  SemInv'
  <1> DEFINE p == Semaphore!Parent(r)
             c == Semaphore!Child(r)
  <1> USE DEF SemInv, Semaphore!Fork
  <1>1. p \in Semaphore!Processes /\ c \in Semaphore!Processes /\ p # c /\ pc[c] = "none"
    BY Names DEF Builders
  <1>2. SetsMade'
    BY <1>1, HeldStays DEF Held, Semaphore!TypeOK
  <1>3. Semaphore!TypeOK'
    BY <1>1 DEF Semaphore!TypeOK
  <1>4. Unmade' /\ UndoInLoop'
    BY <1>1 DEF Semaphore!TypeOK, Unmade, UndoInLoop
  <1>5. Builders'
    BY <1>1, Names DEF Semaphore!TypeOK, Builders
  <1>6. Counted'
    <2>1. Semaphore!Inside(key)' = Semaphore!Inside(key)
      BY <1>1 DEF Semaphore!Inside, Semaphore!TypeOK
    <2> QED BY <1>1, <2>1 DEF Counted, Unit, UndoInLoop, Semaphore!TypeOK
  <1> QED BY <1>2, <1>3, <1>4, <1>5, <1>6

LEMMA ForkFailsStep ==
  ASSUME SemInv, NEW r \in Runs, Semaphore!ForkFails(r)
  PROVE  SemInv'
  <1> DEFINE p == Semaphore!Parent(r)
  <1> USE DEF SemInv, Semaphore!ForkFails, Semaphore!Go, Semaphore!Fault
  <1>1. p \in Semaphore!Processes /\ key' \in {key, Semaphore!NoSet}
    BY Names
  <1>2. SetsMade'
    BY <1>1, HeldStays DEF Held, Semaphore!TypeOK
  <1>3. Semaphore!TypeOK'
    BY <1>1, ProcessesFinite DEF Semaphore!TypeOK
  <1>4. Unmade' /\ UndoInLoop'
    BY <1>1, ProcessesFinite DEF Semaphore!TypeOK, Unmade, UndoInLoop, Semaphore!NoSet
  <1>5. Builders'
    BY <1>1, Names DEF Semaphore!TypeOK, Builders
  <1>6. Counted'
    <2>1. CASE key' = key
      <3>1. Semaphore!Inside(key)' = Semaphore!Inside(key)
        BY <1>1, <2>1 DEF Semaphore!Inside, Semaphore!TypeOK
      <3> QED BY <1>1, <2>1, <3>1 DEF Counted, Unit, UndoInLoop, Semaphore!TypeOK
    <2>2. CASE key' = Semaphore!NoSet
      BY <2>2 DEF Counted, Semaphore!NoSet
    <2> QED BY <1>1, <2>1, <2>2
  <1> QED BY <1>2, <1>3, <1>4, <1>5, <1>6

LEMMA GetSemStep ==
  ASSUME SemInv, NEW r \in Runs, Semaphore!GetSem(r)
  PROVE  SemInv'
  <1> DEFINE p == Semaphore!Child(r)
  <1> USE DEF SemInv, Semaphore!GetSem, Semaphore!Go
  <1>1. p \in Semaphore!Processes /\ pc[p] = "attach" /\ pc' = [pc EXCEPT ![p] = "outside"]
    BY Names
  <1>2. CASE key # Semaphore!NoSet /\ semid' = [semid EXCEPT ![p] = key] /\ UNCHANGED <<key, made>>
    <2>1. SetsMade'
      BY <1>1, <1>2, HeldStays DEF Held, Semaphore!TypeOK
    <2>2. Semaphore!TypeOK'
      BY <1>1, <1>2 DEF Semaphore!TypeOK
    <2>3. Unmade' /\ UndoInLoop'
      BY <1>1, <1>2 DEF Semaphore!TypeOK, Unmade, UndoInLoop
    <2>4. Builders'
      BY <1>1, <1>2, Names DEF Semaphore!TypeOK, Builders
    <2>5. Semaphore!Inside(key)' = Semaphore!Inside(key)
      BY <1>1, <1>2 DEF Semaphore!Inside, Semaphore!TypeOK
    <2>6. Counted'
      BY <1>1, <1>2, <2>5 DEF Counted, Unit, UndoInLoop, Semaphore!TypeOK
    <2> QED BY <2>1, <2>2, <2>3, <2>4, <2>6
  <1>3. CASE key = Semaphore!NoSet /\ Semaphore!Create(p)
    <2>1. made + 1 \in Semaphore!Sets /\ made \in Nat /\ SetsMade'
      BY <1>1, <1>3, CreateStep
    <2> USE DEF Semaphore!Create
    <2>2. Semaphore!TypeOK'
      BY <1>1, <1>3, <2>1 DEF Semaphore!TypeOK
    <2>3. Unmade'
      BY <1>1, <1>3, <2>1, ProcessesFinite DEF Semaphore!TypeOK, Unmade
    <2>4. UndoInLoop'
      BY <1>1 DEF Semaphore!TypeOK, UndoInLoop
    <2>5. Builders'
      BY <1>1, <1>3, <2>1, Names DEF Semaphore!TypeOK, Builders
    <2>6. Counted'
      <3>1. Semaphore!Inside(key)' = {}
        BY <1>1, <1>3, <2>1, ProcessesFinite DEF Semaphore!Inside, Semaphore!TypeOK, Unmade
      <3>2. value'[key'] = 0 /\ Unit' = 0
        BY <1>3, <2>1, ProcessesFinite DEF Unit, Unmade, Semaphore!TypeOK
      <3>3. \A q \in Semaphore!Processes : semid'[q] = key' => undo'[q] = 0 /\ pc'[q] # "inside"
        BY <1>1, <1>3, <2>1, ProcessesFinite DEF Unmade, Semaphore!TypeOK, UndoInLoop
      <3> QED BY <3>1, <3>2, <3>3, FS_EmptySet DEF Counted
    <2> QED BY <2>1, <2>2, <2>3, <2>4, <2>5, <2>6
  <1> QED BY <1>2, <1>3

(* A wait that succeeds.                                                   *)
LEMMA PStep ==
  ASSUME SemInv, NEW p \in Semaphore!Processes, Semaphore!P(p)
  PROVE  SemInv'
  <1> USE DEF SemInv, Semaphore!P, Semaphore!PV, Semaphore!RecordUndo, Semaphore!Go, Semaphore!Exists
  <1>1. key \in Semaphore!Sets /\ semid[p] = key /\ value[key] \in Nat /\ value[key] > 0
    BY DEF Semaphore!TypeOK
  <1>2. SetsMade'
    BY HeldStays DEF Held, Semaphore!TypeOK
  <1>3. Semaphore!TypeOK'
    BY <1>1 DEF Semaphore!TypeOK
  <1>4. Unmade' /\ UndoInLoop'
    BY <1>1, ProcessesFinite DEF Semaphore!TypeOK, Unmade, UndoInLoop
  <1>5. Builders'
    BY Names DEF Semaphore!TypeOK, Builders
  <1>6. Counted'
    <2>1. Semaphore!Inside(key)' = Semaphore!Inside(key) \cup {p} /\ p \notin Semaphore!Inside(key)
      BY <1>1 DEF Semaphore!Inside, Semaphore!TypeOK
    <2>2. Cardinality(Semaphore!Inside(key)') = Cardinality(Semaphore!Inside(key)) + 1
          /\ Cardinality(Semaphore!Inside(key)) \in Nat
      BY <2>1, SubsetsFinite DEF Semaphore!Inside
    <2>3. value'[key'] = value[key] - 1
      BY <1>1 DEF Semaphore!TypeOK
    <2>4. key \notin interrupted => \A q \in Semaphore!Processes : semid'[q] = key' =>
                                      undo'[q] = IF pc'[q] = "inside" THEN 1 ELSE 0
      BY <1>1 DEF Semaphore!TypeOK, Counted
    <2> QED BY <1>1, <2>2, <2>3, <2>4 DEF Counted, Unit
  <1> QED BY <1>2, <1>3, <1>4, <1>5, <1>6

(* A wait that is not: the set is gone, or it counts no more.              *)
LEMMA PIgnoredStep ==
  ASSUME SemInv, NEW p \in Semaphore!Processes, Semaphore!PFails(p) \/ Semaphore!PInterrupted(p)
  PROVE  SemInv'
  <1> USE DEF SemInv, Semaphore!PFails, Semaphore!PInterrupted, Semaphore!Go, Semaphore!Exists,
              Semaphore!Fault
  <1>1. SetsMade'
    BY HeldStays DEF Held, Semaphore!TypeOK
  <1>2. Semaphore!TypeOK'
    <2>1. CASE Semaphore!PFails(p)
      BY <2>1 DEF Semaphore!TypeOK
    <2>2. CASE Semaphore!PInterrupted(p)
      <3>1. key \in Semaphore!Sets
        BY <2>2 DEF Semaphore!TypeOK
      <3> QED BY <2>2, <3>1, ProcessesFinite DEF Semaphore!TypeOK
    <2> QED BY <2>1, <2>2
  <1>3. Unmade' /\ UndoInLoop'
    BY DEF Semaphore!TypeOK, Unmade, UndoInLoop
  <1>4. Builders'
    BY Names DEF Semaphore!TypeOK, Builders
  <1>5. Counted'
    <2>1. CASE Semaphore!PFails(p)
      <3> SUFFICES ASSUME key # Semaphore!NoSet PROVE Counted'
        BY <2>1 DEF Counted
      <3>1. semid[p] # key
        BY <2>1 DEF Semaphore!NoSet
      <3>2. Semaphore!Inside(key)' = Semaphore!Inside(key)
        BY <2>1, <3>1 DEF Semaphore!Inside, Semaphore!TypeOK
      <3> QED BY <2>1, <3>1, <3>2 DEF Counted, Unit, Semaphore!TypeOK
    <2>2. CASE Semaphore!PInterrupted(p)
      BY <2>2 DEF Counted
    <2> QED BY <2>1, <2>2
  <1> QED BY <1>1, <1>2, <1>3, <1>4, <1>5

LEMMA VStep ==
  ASSUME SemInv, NEW p \in Semaphore!Processes, Semaphore!V(p)
  PROVE  SemInv'
  <1> USE DEF SemInv, Semaphore!V, Semaphore!PV, Semaphore!RecordUndo, Semaphore!Go, Semaphore!Exists
  <1>1. Semaphore!Exists(p) => key \in Semaphore!Sets /\ semid[p] = key /\ value[key] \in Nat
    BY DEF Semaphore!TypeOK
  <1>2. SetsMade'
    BY HeldStays DEF Held, Semaphore!TypeOK
  <1>3. Semaphore!TypeOK'
    BY <1>1 DEF Semaphore!TypeOK
  <1>4. Unmade' /\ UndoInLoop'
    BY <1>1, ProcessesFinite DEF Semaphore!TypeOK, Unmade, UndoInLoop
  <1>5. Builders'
    BY Names DEF Semaphore!TypeOK, Builders
  <1>6. Counted'
    <2>1. CASE Semaphore!Exists(p)
      <3>1. Semaphore!Inside(key)' = Semaphore!Inside(key) \ {p} /\ p \in Semaphore!Inside(key)
        BY <1>1, <2>1 DEF Semaphore!Inside, Semaphore!TypeOK
      <3>2. Cardinality(Semaphore!Inside(key)') = Cardinality(Semaphore!Inside(key)) - 1
            /\ Cardinality(Semaphore!Inside(key)) \in Nat
        BY <3>1, SubsetsFinite DEF Semaphore!Inside
      <3>3. value'[key'] = value[key] + 1
        BY <1>1, <2>1 DEF Semaphore!TypeOK
      <3>4. key \notin interrupted => \A q \in Semaphore!Processes : semid'[q] = key' =>
                                        undo'[q] = IF pc'[q] = "inside" THEN 1 ELSE 0
        BY <1>1, <2>1 DEF Semaphore!TypeOK, Counted
      <3> QED BY <1>1, <2>1, <3>2, <3>3, <3>4 DEF Counted, Unit
    <2>2. CASE ~Semaphore!Exists(p)
      <3> SUFFICES ASSUME key # Semaphore!NoSet PROVE Counted'
        BY <2>2 DEF Counted
      <3>1. semid[p] # key
        BY <2>2 DEF Semaphore!NoSet
      <3>2. Semaphore!Inside(key)' = Semaphore!Inside(key)
        BY <2>2, <3>1 DEF Semaphore!Inside, Semaphore!TypeOK
      <3> QED BY <2>2, <3>1, <3>2 DEF Counted, Unit, Semaphore!TypeOK
    <2> QED BY <2>1, <2>2
  <1> QED BY <1>2, <1>3, <1>4, <1>5, <1>6

(* The kernel gives back the unit of a process that is killed inside.      *)
LEMMA KillStep ==
  ASSUME SemInv, NEW p \in Semaphore!Processes, Semaphore!Kill(p)
  PROVE  SemInv'
  <1> USE DEF SemInv, Semaphore!Kill, Semaphore!Go, Semaphore!Exists, Semaphore!Fault
  <1>1. Semaphore!Exists(p) => key \in Semaphore!Sets /\ semid[p] = key /\ value[key] \in Nat
    BY DEF Semaphore!TypeOK
  <1>2. \A n \in Int : Semaphore!Max({0, n}) = IF n > 0 THEN n ELSE 0
    BY DEF Semaphore!Max
  <1>3. SetsMade'
    BY HeldStays DEF Held, Semaphore!TypeOK
  <1>4. Semaphore!TypeOK'
    <2>1. value' \in [Semaphore!Sets -> Nat]
      BY <1>1, <1>2 DEF Semaphore!TypeOK
    <2> QED BY <2>1, ProcessesFinite DEF Semaphore!TypeOK
  <1>5. Unmade' /\ UndoInLoop'
    BY <1>1, ProcessesFinite DEF Semaphore!TypeOK, Unmade, UndoInLoop
  <1>6. Builders'
    BY Names DEF Semaphore!TypeOK, Builders
  <1>7. Counted'
    <2> SUFFICES ASSUME key # Semaphore!NoSet, key \notin interrupted PROVE Counted'
      BY DEF Counted
    <2>1. \A q \in Semaphore!Processes : semid'[q] = key' =>
              undo'[q] = IF pc'[q] = "inside" THEN 1 ELSE 0
      BY DEF Semaphore!TypeOK, Counted
    <2>2. CASE semid[p] = key /\ pc[p] = "inside"
      <3>1. Semaphore!Inside(key)' = Semaphore!Inside(key) \ {p} /\ p \in Semaphore!Inside(key)
        BY <1>1, <2>2 DEF Semaphore!Inside, Semaphore!TypeOK
      <3>2. Cardinality(Semaphore!Inside(key)') = Cardinality(Semaphore!Inside(key)) - 1
            /\ Cardinality(Semaphore!Inside(key)) \in Nat
        BY <3>1, SubsetsFinite DEF Semaphore!Inside
      <3>3. value'[key'] = value[key] + 1
        BY <1>1, <1>2, <2>2 DEF Semaphore!TypeOK, Counted
      <3> QED BY <1>1, <2>1, <2>2, <3>2, <3>3 DEF Counted, Unit
    <2>3. CASE ~(semid[p] = key /\ pc[p] = "inside")
      <3>1. Semaphore!Inside(key)' = Semaphore!Inside(key)
        BY <2>3 DEF Semaphore!Inside, Semaphore!TypeOK
      <3>2. value'[key'] = value[key]
        BY <1>1, <1>2, <2>3 DEF Semaphore!TypeOK, Counted
      <3> QED BY <2>1, <3>1, <3>2 DEF Counted, Unit
    <2> QED BY <2>2, <2>3
  <1> QED BY <1>3, <1>4, <1>5, <1>6, <1>7

LEMMA IpcrmStep ==
  ASSUME SemInv, Semaphore!Ipcrm
  PROVE  SemInv'
  <1> USE DEF SemInv, Semaphore!Ipcrm, Semaphore!Fault
  <1>1. SetsMade'
    BY HeldStays DEF Held, Semaphore!TypeOK
  <1>2. Semaphore!TypeOK'
    BY ProcessesFinite DEF Semaphore!TypeOK
  <1>3. Unmade' /\ UndoInLoop' /\ Builders'
    BY ProcessesFinite DEF Semaphore!TypeOK, Unmade, UndoInLoop, Builders, Semaphore!NoSet
  <1>4. Counted'
    BY DEF Counted, Semaphore!NoSet
  <1> QED BY <1>1, <1>2, <1>3, <1>4

LEMMA SemNext == SemInv /\ [Semaphore!Next]_semaphoreVars => SemInv'
  <1> SUFFICES ASSUME SemInv, [Semaphore!Next]_semaphoreVars PROVE SemInv'
    OBVIOUS
  <1>1. CASE UNCHANGED semaphoreVars
    <2> USE <1>1 DEF semaphoreVars, SemInv
    <2>1. Semaphore!TypeOK' /\ SetsMade' /\ Unmade' /\ UndoInLoop' /\ Builders'
      BY DEF Semaphore!TypeOK, SetsMade, Held, Unmade, UndoInLoop, Builders
    <2>2. Semaphore!Inside(key)' = Semaphore!Inside(key)
      BY DEF Semaphore!Inside
    <2> QED BY <2>1, <2>2 DEF Counted, Unit
  <1>2. CASE Semaphore!Terminated
    BY <1>1, <1>2 DEF Semaphore!Terminated, Semaphore!vars, semaphoreVars
  <1> QED BY <1>1, <1>2, BuildStep, GiveUpStep, InitSemStep, ForkStep, ForkFailsStep, GetSemStep,
             PStep, PIgnoredStep, VStep, KillStep, IpcrmStep
          DEF Semaphore!Next, Semaphore!Start, Semaphore!Prepare, Semaphore!Enter

LEMMA SemExclusive == SemInv => Semaphore!Exclusive
  <1> SUFFICES ASSUME SemInv, NEW s \in ready \ interrupted, s = key
               PROVE  value[s] + Semaphore!Cardinality(Semaphore!Inside(s)) = 1
    BY DEF Semaphore!Exclusive, Semaphore!initVal
  <1>1. key # Semaphore!NoSet
    BY ProcessesFinite DEF SemInv, Semaphore!TypeOK, Semaphore!NoSet
  <1> QED BY <1>1, SemOperators DEF SemInv, Counted, Unit

-----------------------------------------------------------------------------
(***************************************************************************)
(* The process pool.                                                       *)
(***************************************************************************)
(* No task is lost or made up: what was sent to a child is executed or     *)
(* still in its pipe, and only a drained child has exited.                 *)
TasksCounted ==
    \A i \in Pool!Children :
        /\ executed[i] + Len(channelPipe[i]) = poolSent[i]
        /\ child[i] = "exited" => channelPipe[i] = <<>>

(* Create counts its rounds by the channels it has built.                  *)
ChannelsBuilt == /\ ppc = "create" => round = channels + 1
                 /\ channels = 0 => next = 0

PoolInv == Pool!TypeOK /\ ChannelsBuilt /\ TasksCounted

LEMMA PoolAssumed ==
  /\ ProcessNum \in Nat \ {0} /\ Commands \in Nat /\ PoolParent \notin Pool!Children
  /\ Pool!Children = 1..ProcessNum
  BY Assumptions DEF Pool!PoolAssumption, Pool!Children

LEMMA NextChannelInRange ==
  ASSUME next \in Nat, channels \in Nat \ {0}
  PROVE  Pool!NextChannel \in Nat /\ Pool!NextChannel < channels
  BY DEF Pool!NextChannel

LEMMA PoolInit == Pool!Init => PoolInv
  <1> SUFFICES ASSUME Pool!Init PROVE PoolInv
    OBVIOUS
  <1> USE PoolAssumed DEF Pool!Init
  <1>1. Pool!TypeOK
    BY DEF Pool!TypeOK, Pool!ParentPC, Pool!ChildState
  <1>2. ChannelsBuilt /\ TasksCounted
    BY DEF ChannelsBuilt, TasksCounted
  <1> QED BY <1>1, <1>2 DEF PoolInv

(* A step that leaves the tasks alone, and does not end a child.           *)
LEMMA TasksStay ==
  ASSUME TasksCounted, UNCHANGED <<executed, channelPipe, poolSent>>,
         \A i \in Pool!Children : child'[i] = "exited" => child[i] = "exited"
  PROVE  TasksCounted'
  BY DEF TasksCounted

(* A step by which one child's pipe and the two counts of its tasks move.  *)
LEMMA TasksMove ==
  ASSUME PoolInv, NEW i \in Pool!Children, child[i] # "exited",
         NEW items \in Seq(Codes), NEW more \in Nat, NEW done \in Nat,
         done + Len(items) = more,
         channelPipe' = [channelPipe EXCEPT ![i] = items],
         poolSent' = [poolSent EXCEPT ![i] = more],
         executed' = [executed EXCEPT ![i] = done],
         UNCHANGED child
  PROVE  /\ channelPipe' \in [Pool!Children -> Seq(Codes)]
         /\ poolSent' \in [Pool!Children -> Nat]
         /\ executed' \in [Pool!Children -> Nat]
         /\ TasksCounted'
  <1>1. /\ channelPipe \in [Pool!Children -> Seq(Codes)]
        /\ poolSent \in [Pool!Children -> Nat]
        /\ executed \in [Pool!Children -> Nat]
    BY DEF PoolInv, Pool!TypeOK
  <1>2. /\ channelPipe'[i] = items /\ poolSent'[i] = more /\ executed'[i] = done
        /\ \A j \in Pool!Children \ {i} : /\ channelPipe'[j] = channelPipe[j]
                                         /\ poolSent'[j] = poolSent[j]
                                         /\ executed'[j] = executed[j]
    BY <1>1
  <1>3. TasksCounted'
    BY <1>2 DEF PoolInv, TasksCounted
  <1> QED BY <1>1, <1>3

LEMMA RunStep ==
  ASSUME PoolInv, Pool!Run
  PROVE  PoolInv'
  <1> USE PoolAssumed DEF PoolInv
  <1> DEFINE i == next + 1
  <1>1. /\ i \in Pool!Children /\ channels \in Nat \ {0} /\ next \in Nat
        /\ ppc = "run" /\ UNCHANGED <<round, channels, child, executed>>
    BY DEF Pool!TypeOK, Pool!Run
  <1>2. next' \in Nat /\ next' < channels' /\ cnt' \in 0..Commands
    BY <1>1, NextChannelInRange DEF Pool!TypeOK, Pool!Run
  <1>3. CASE /\ child[i] = "running"
             /\ \E code \in Codes : channelPipe' = [channelPipe EXCEPT ![i] = Append(@, code)]
             /\ poolSent' = [poolSent EXCEPT ![i] = @ + 1]
             /\ UNCHANGED <<ppc, writers>>
    <2>1. PICK code \in Codes : channelPipe' = [channelPipe EXCEPT ![i] = Append(@, code)]
      BY <1>3
    <2>2. /\ channelPipe[i] \in Seq(Codes)
          /\ Append(channelPipe[i], code) \in Seq(Codes)
          /\ Len(Append(channelPipe[i], code)) = Len(channelPipe[i]) + 1
          /\ poolSent[i] + 1 \in Nat /\ executed[i] \in Nat
      BY <1>1 DEF Pool!TypeOK
    <2>e. executed' = [executed EXCEPT ![i] = executed[i]]
      BY <1>1 DEF Pool!TypeOK
    <2>x. child[i] # "exited"
      BY <1>3
    <2>3. executed[i] + Len(Append(channelPipe[i], code)) = poolSent[i] + 1
      BY <1>1, <2>2 DEF TasksCounted, Pool!TypeOK
    <2>4. /\ channelPipe' \in [Pool!Children -> Seq(Codes)]
          /\ poolSent' \in [Pool!Children -> Nat]
          /\ executed' \in [Pool!Children -> Nat]
          /\ TasksCounted'
      <3> HIDE DEF i, PoolInv
      <3> QED BY <1>1, <1>3, <2>1, <2>2, <2>e, <2>x, <2>3, TasksMove
    <2>5. Pool!TypeOK'
      BY <1>1, <1>2, <1>3, <2>4 DEF Pool!TypeOK
    <2>6. ChannelsBuilt'
      BY <1>1, <1>3 DEF ChannelsBuilt
    <2> QED BY <2>4, <2>5, <2>6
  <1>4. CASE /\ ppc' = "killed" /\ Pool!CloseAll(PoolParent)
             /\ UNCHANGED <<channelPipe, poolSent>>
    <2>1. Pool!TypeOK'
      BY <1>1, <1>2, <1>4 DEF Pool!TypeOK, Pool!ParentPC, Pool!CloseAll
    <2>2. ChannelsBuilt' /\ TasksCounted'
      BY <1>1, <1>4, TasksStay DEF ChannelsBuilt
    <2> QED BY <2>1, <2>2
  <1> QED BY <1>3, <1>4 DEF Pool!Run

LEMMA CreateRoundStep ==
  ASSUME PoolInv, Pool!Create
  PROVE  PoolInv'
  <1> USE PoolAssumed DEF PoolInv
  <1>1. round \in Pool!Children /\ round \in Nat /\ channels + 1 = round
    BY DEF Pool!Create, Pool!TypeOK, ChannelsBuilt
  <1>2. writers' \in [Pool!Children -> SUBSET (Pool!Children \cup {PoolParent})]
    <2> DEFINE opened == {i \in Pool!Children : PoolParent \in writers[i]} \cup {round}
    <2>1. writers' = [i \in Pool!Children |->
               writers[i] \cup (IF i = round THEN {PoolParent} ELSE {})
                          \cup (IF i \in Pool!Inherits(round, opened) THEN {round} ELSE {})]
      BY DEF Pool!Create
    <2> HIDE DEF opened
    <2>2. \A i \in Pool!Children : writers[i] \subseteq Pool!Children \cup {PoolParent}
      BY DEF Pool!TypeOK
    <2> QED BY <1>1, <2>1, <2>2
  <1>3. child' = [child EXCEPT ![round] = "running"]
        /\ child' \in [Pool!Children -> Pool!ChildState]
    BY <1>1 DEF Pool!Create, Pool!TypeOK, Pool!ChildState
  <1>4. Pool!TypeOK'
    <2>1. /\ channels' = channels + 1 /\ round' = round + 1
          /\ UNCHANGED <<ppc, next, cnt, channelPipe, poolSent, executed>>
      BY DEF Pool!Create
    <2>2. channels = 0 => next = 0
      BY DEF ChannelsBuilt
    <2>3. round' \in 1..(ProcessNum + 1) /\ channels' \in 0..ProcessNum
      BY <1>1, <2>1
    <2>4. next' \in Nat /\ next' < channels'
      BY <1>1, <2>1, <2>2 DEF Pool!TypeOK
    <2> QED BY <1>2, <1>3, <2>1, <2>3, <2>4 DEF Pool!TypeOK
  <1>5. ChannelsBuilt'
    BY DEF Pool!Create, ChannelsBuilt, Pool!TypeOK
  <1>6. \A i \in Pool!Children : child'[i] = "exited" => child[i] = "exited"
    BY <1>1, <1>3 DEF Pool!TypeOK
  <1>7. TasksCounted'
    BY <1>6, TasksStay DEF Pool!Create
  <1> QED BY <1>4, <1>5, <1>7

(* The other steps of the parent move no task.                             *)
LEMMA ParentStepInv ==
  ASSUME PoolInv,
         \/ Pool!CreateFails \/ Pool!CreateDone \/ Pool!RunWithoutChannels \/ Pool!Stop
         \/ Pool!StopSubPocess \/ Pool!WaitSubProcess \/ Pool!ReturnFromMain
  PROVE  PoolInv'
  <1> USE PoolAssumed DEF PoolInv, Pool!TypeOK, Pool!ParentPC
  <1>1. CASE Pool!CreateFails \/ Pool!CreateDone
    BY <1>1, TasksStay DEF Pool!CreateFails, Pool!CreateDone, ChannelsBuilt
  <1>2. CASE Pool!RunWithoutChannels
    BY <1>2, TasksStay DEF Pool!RunWithoutChannels, ChannelsBuilt, Pool!CloseAll
  <1>3. CASE Pool!Stop
    BY SMTT(30), <1>3, TasksStay DEF Pool!Stop, ChannelsBuilt
  <1>4. CASE Pool!StopSubPocess \/ Pool!WaitSubProcess
    <2>1. /\ UNCHANGED <<channels, next, cnt, child, channelPipe, poolSent, executed>>
          /\ ppc' \in Pool!ParentPC /\ ppc' # "create"
          /\ round' = round \/ round' = 1 \/ (round' = round + 1 /\ round <= channels)
      BY <1>4 DEF Pool!StopSubPocess, Pool!WaitSubProcess
    <2>r. round' \in 1..(ProcessNum + 1)
      BY <2>1
    <2>2. writers' = writers \/ \E i \in Pool!Children : Pool!Close(i)
      BY <1>4 DEF Pool!StopSubPocess, Pool!WaitSubProcess
    <2>3. writers' \in [Pool!Children -> SUBSET (Pool!Children \cup {PoolParent})]
      BY SMTT(30), <2>2 DEF Pool!Close
    <2>4. ChannelsBuilt'
      BY <2>1 DEF ChannelsBuilt
    <2>5. TasksCounted'
      BY <2>1, TasksStay
    <2> QED BY <2>1, <2>r, <2>3, <2>4, <2>5
  <1>6. CASE Pool!ReturnFromMain
    BY <1>6, TasksStay DEF Pool!ReturnFromMain, ChannelsBuilt, Pool!CloseAll
  <1> QED BY <1>1, <1>2, <1>3, <1>4, <1>6

LEMMA ChildStepInv ==
  ASSUME PoolInv, NEW i \in Pool!Children, Pool!Work(i) \/ Pool!Killed(i)
  PROVE  PoolInv'
  <1> USE PoolAssumed DEF PoolInv
  <1>1. CASE Pool!Execute(i)
    <2>1. /\ channelPipe[i] \in Seq(Codes) /\ channelPipe[i] # <<>>
          /\ Tail(channelPipe[i]) \in Seq(Codes)
          /\ Len(Tail(channelPipe[i])) = Len(channelPipe[i]) - 1
          /\ poolSent[i] \in Nat /\ executed[i] + 1 \in Nat
          /\ child[i] # "exited"
      BY <1>1 DEF Pool!TypeOK, Pool!Execute
    <2>2. /\ channelPipe' = [channelPipe EXCEPT ![i] = Tail(channelPipe[i])]
          /\ poolSent' = [poolSent EXCEPT ![i] = poolSent[i]]
          /\ executed' = [executed EXCEPT ![i] = executed[i] + 1]
          /\ UNCHANGED <<ppc, round, channels, next, cnt, child, writers>>
      BY <1>1 DEF Pool!TypeOK, Pool!Execute
    <2>3. executed[i] + 1 + Len(Tail(channelPipe[i])) = poolSent[i]
      BY SMTT(30), <2>1 DEF TasksCounted, Pool!TypeOK
    <2>4. /\ channelPipe' \in [Pool!Children -> Seq(Codes)]
          /\ poolSent' \in [Pool!Children -> Nat]
          /\ executed' \in [Pool!Children -> Nat]
          /\ TasksCounted'
      BY <2>1, <2>2, <2>3, TasksMove
    <2>5. Pool!TypeOK' /\ ChannelsBuilt'
      BY <2>2, <2>4 DEF Pool!TypeOK, ChannelsBuilt
    <2> QED BY <2>4, <2>5
  <1>2. CASE Pool!Exit(i)
    <2> USE <1>2 DEF Pool!Exit, Pool!EndOfFile, Pool!CloseAll
    <2>1. Pool!TypeOK'
      BY DEF Pool!TypeOK, Pool!ChildState
    <2>2. ChannelsBuilt' /\ TasksCounted'
      BY DEF ChannelsBuilt, TasksCounted, Pool!TypeOK
    <2> QED BY <2>1, <2>2
  <1>3. CASE Pool!Killed(i)
    <2> USE <1>3 DEF Pool!Killed, Pool!CloseAll
    <2>1. Pool!TypeOK'
      BY DEF Pool!TypeOK, Pool!ChildState
    <2>2. ChannelsBuilt' /\ TasksCounted'
      BY DEF ChannelsBuilt, TasksCounted, Pool!TypeOK
    <2> QED BY <2>1, <2>2
  <1> QED BY <1>1, <1>2, <1>3 DEF Pool!Work

LEMMA PoolNext == PoolInv /\ [Pool!Next]_poolVars => PoolInv'
  <1> SUFFICES ASSUME PoolInv, [Pool!Next]_poolVars PROVE PoolInv'
    OBVIOUS
  <1>1. CASE UNCHANGED poolVars
    BY <1>1 DEF poolVars, PoolInv, Pool!TypeOK, ChannelsBuilt, TasksCounted
  <1>2. CASE Pool!Terminated
    BY <1>1, <1>2 DEF Pool!Terminated, Pool!vars, poolVars
  <1> QED BY <1>1, <1>2, RunStep, CreateRoundStep, ParentStepInv, ChildStepInv
          DEF Pool!Next, Pool!ParentStep

LEMMA PoolDrained == PoolInv => Pool!ExitsDrained
  <1> SUFFICES ASSUME PoolInv, NEW i \in Pool!Children, child[i] = "exited"
               PROVE  executed[i] = poolSent[i]
    BY DEF Pool!ExitsDrained
  <1>1. channelPipe[i] = <<>> /\ executed[i] + Len(channelPipe[i]) = poolSent[i]
    BY DEF PoolInv, TasksCounted
  <1> QED BY <1>1 DEF PoolInv, Pool!TypeOK

-----------------------------------------------------------------------------
(***************************************************************************)
(* The System V message chat.                                              *)
(***************************************************************************)
(* What was sent to a queue is what its server has printed and what the    *)
(* queue still holds, in this order.                                       *)
Kept == \A s \in Servers : order[s] = shown[s] \o queue[s]

(* Only the last line that a server has printed can be a "quit", and none  *)
(* while it receives.                                                      *)
QuitLast ==
    \A s \in Servers : \A i \in 1..Len(shown[s]) :
        Chat!IsQuit(shown[s][i]) => i = Len(shown[s]) /\ chatServer[s] # "receive"

(* A server that left its loop of its own accord has printed a "quit"; one *)
(* that found another's queue has none.                                    *)
LeftByQuit ==
    \A s \in Servers \ spoiled :
        /\ chatServer[s] = "remove" => shown[s] # <<>> /\ Chat!IsQuit(shown[s][Len(shown[s])])
        /\ chatServer[s] = "gone" /\ order[s] # <<>> =>
             shown[s] # <<>> /\ Chat!IsQuit(shown[s][Len(shown[s])])

(* The queue under the key belongs to a server that runs, or was killed; a *)
(* server that has not started has no queue, and one that receives has its *)
(* queue until somebody removes it.                                        *)
QueueOwned ==
    /\ \A s \in Servers :
         /\ msgKey = s => chatServer[s] \in {"receive", "remove"} \/ s \in spoiled
         /\ chatServer[s] = "receive" /\ msgKey # s => s \in spoiled
         /\ chatServer[s] = "none" => msgKey # s /\ order[s] = <<>>
    /\ \A c \in Clients : chatClient[c] \in {"type", "send"} => msgid[c] \in Servers
    /\ \A c \in Clients : chatClient[c] = "send" => typed[c] > 0

ChatInv == Chat!TypeOK /\ Kept /\ QuitLast /\ LeftByQuit /\ QueueOwned

LEMMA ChatAssumed ==
  /\ Nobody \notin Servers /\ QueueCapacity \in Nat \ {0}
  /\ MaxLines \in Nat /\ MaxChatFaults \in Nat
  BY Assumptions DEF Chat!ChatAssumption

LEMMA ChatInit == Chat!Init => ChatInv
  <1> SUFFICES ASSUME Chat!Init PROVE ChatInv
    OBVIOUS
  <1> USE ChatAssumed DEF Chat!Init
  <1>1. Chat!TypeOK
    BY DEF Chat!TypeOK, Chat!Texts
  <1>2. Kept
    BY DEF Kept
  <1>3. QuitLast /\ LeftByQuit /\ QueueOwned
    BY DEF QuitLast, LeftByQuit, QueueOwned
  <1> QED BY <1>1, <1>2, <1>3 DEF ChatInv

LEMMA MsggetStep ==
  ASSUME ChatInv, NEW s \in Servers, Chat!Msgget(s)
  PROVE  ChatInv'
  <1> USE ChatAssumed DEF ChatInv, Chat!Msgget, Chat!ServerAt
  <1>1. Chat!TypeOK'
    BY DEF Chat!TypeOK
  <1>2. Kept'
    BY DEF Kept
  <1>3. shown[s] = <<>>
    BY DEF QueueOwned, Kept, Chat!TypeOK
  <1>4. QuitLast'
    BY <1>3 DEF QuitLast, Chat!TypeOK
  <1>5. LeftByQuit'
    BY DEF LeftByQuit, QueueOwned, Chat!TypeOK
  <1>6. QueueOwned'
    BY DEF QueueOwned, Chat!TypeOK
  <1> QED BY <1>1, <1>2, <1>4, <1>5, <1>6

LEMMA MsgrcvStep ==
  ASSUME ChatInv, NEW s \in Servers, Chat!Msgrcv(s)
  PROVE  ChatInv'
  <1> USE ChatAssumed DEF ChatInv
  <1> DEFINE new == Append(shown[s], Head(queue[s]))
  <1>1. /\ chatServer[s] = "receive" /\ msgKey = s /\ queue[s] # <<>>
        /\ shown' = [shown EXCEPT ![s] = new]
        /\ queue' = [queue EXCEPT ![s] = Tail(queue[s])]
        /\ chatServer' = [chatServer EXCEPT ![s] = IF Head(queue[s])[3] = "quit" THEN "remove"
                                                                              ELSE "receive"]
        /\ UNCHANGED <<msgKey, chatClient, msgid, mtext, typed, order, spoiled, chatFaults>>
    BY DEF Chat!Msgrcv, Chat!ServerAt, Chat!AfterMessage, Chat!TypeOK
  <1>2. /\ queue[s] \in Seq(Chat!Messages) /\ shown[s] \in Seq(Chat!Messages)
        /\ Len(queue[s]) <= QueueCapacity
        /\ queue \in [Servers -> Seq(Chat!Messages)] /\ shown \in [Servers -> Seq(Chat!Messages)]
    BY DEF Chat!TypeOK
  <1>3. /\ Head(queue[s]) \in Chat!Messages /\ Tail(queue[s]) \in Seq(Chat!Messages)
        /\ Len(Tail(queue[s])) <= QueueCapacity
    BY <1>1, <1>2
  <1>4. /\ new \in Seq(Chat!Messages) /\ Len(new) = Len(shown[s]) + 1
        /\ Len(shown[s]) \in Nat /\ new[Len(new)] = Head(queue[s]) /\ new # <<>>
        /\ \A i \in 1..Len(shown[s]) : new[i] = shown[s][i]
    BY <1>2, <1>3, AppendProperties
  <1>5. new \o Tail(queue[s]) = shown[s] \o queue[s]
    BY <1>1, <1>2, MoveOne
  <1> HIDE DEF new
  <1>6. /\ shown'[s] = new /\ queue'[s] = Tail(queue[s])
        /\ \A r \in Servers \ {s} : shown'[r] = shown[r] /\ queue'[r] = queue[r]
    BY <1>1, <1>2
  <1>7. /\ chatServer'[s] = IF Head(queue[s])[3] = "quit" THEN "remove" ELSE "receive"
        /\ \A r \in Servers \ {s} : chatServer'[r] = chatServer[r]
    BY <1>1 DEF Chat!TypeOK
  <1>8. Chat!TypeOK'
    <2>1. /\ shown' \in [Servers -> Seq(Chat!Messages)] /\ queue' \in [Servers -> Seq(Chat!Messages)]
          /\ chatServer' \in [Servers -> {"none", "receive", "remove", "gone"}]
      BY <1>1, <1>2, <1>3, <1>4 DEF Chat!TypeOK
    <2>2. \A r \in Servers : Len(queue'[r]) <= QueueCapacity
      BY <1>3, <1>6 DEF Chat!TypeOK
    <2> QED BY <1>1, <2>1, <2>2 DEF Chat!TypeOK
  <1>9. Kept'
    BY <1>1, <1>5, <1>6 DEF Kept
  <1>10. QuitLast'
    BY <1>1, <1>4, <1>6, <1>7 DEF QuitLast, Chat!IsQuit
  <1>11. LeftByQuit'
    BY <1>1, <1>4, <1>6, <1>7 DEF LeftByQuit, Chat!IsQuit
  <1>12. QueueOwned'
    BY <1>1, <1>7 DEF QueueOwned
  <1> QED BY <1>8, <1>9, <1>10, <1>11, <1>12

(* The steps of a server that prints nothing.                              *)
LEMMA ServerEndStep ==
  ASSUME ChatInv, NEW s \in Servers,
         Chat!MsgrcvFails(s) \/ Chat!RemoveQueue(s) \/ Chat!KillServer(s) \/ Chat!Ipcrm
  PROVE  ChatInv'
  <1> USE ChatAssumed DEF ChatInv, Chat!ServerAt, Chat!Fault
  <1>1. /\ UNCHANGED <<chatClient, msgid, mtext, queue, shown, typed, order>>
        /\ chatServer' \in [Servers -> {"none", "receive", "remove", "gone"}]
        /\ \A r \in Servers :
             chatServer'[r] \in {"receive", "none"} => chatServer'[r] = chatServer[r]
    BY DEF Chat!MsgrcvFails, Chat!RemoveQueue, Chat!KillServer, Chat!Ipcrm, Chat!TypeOK
  <1>2. Chat!TypeOK'
    <2>1. /\ msgKey' \in Servers \cup {Nobody} /\ chatFaults' \in 0..MaxChatFaults
          /\ spoiled' \subseteq Servers
      BY DEF Chat!MsgrcvFails, Chat!RemoveQueue, Chat!KillServer, Chat!Ipcrm, Chat!TypeOK,
             Chat!WithoutQueue
    <2> QED BY <1>1, <2>1 DEF Chat!TypeOK
  <1>3. Kept'
    BY <1>1 DEF Kept
  <1>4. QuitLast'
    BY <1>1 DEF QuitLast
  <1>5. CASE Chat!MsgrcvFails(s)
    <2>1. LeftByQuit' /\ QueueOwned'
      BY <1>5 DEF Chat!MsgrcvFails, LeftByQuit, QueueOwned, Chat!TypeOK
    <2> QED BY <1>2, <1>3, <1>4, <2>1
  <1>6. CASE Chat!RemoveQueue(s)
    <2>1. LeftByQuit'
      BY <1>6 DEF Chat!RemoveQueue, LeftByQuit, Chat!TypeOK
    <2>2. QueueOwned'
      BY <1>6 DEF Chat!RemoveQueue, Chat!WithoutQueue, QueueOwned, Chat!TypeOK
    <2> QED BY <1>2, <1>3, <1>4, <2>1, <2>2
  <1>7. CASE Chat!KillServer(s)
    <2>1. LeftByQuit' /\ QueueOwned'
      BY <1>7 DEF Chat!KillServer, LeftByQuit, QueueOwned, Chat!TypeOK
    <2> QED BY <1>2, <1>3, <1>4, <2>1
  <1>8. CASE Chat!Ipcrm
    <2>1. LeftByQuit' /\ QueueOwned'
      BY <1>8 DEF Chat!Ipcrm, LeftByQuit, QueueOwned, Chat!TypeOK
    <2> QED BY <1>2, <1>3, <1>4, <2>1
  <1> QED BY <1>5, <1>6, <1>7, <1>8

LEMMA MsgsndStep ==
  ASSUME ChatInv, NEW c \in Clients, Chat!Msgsnd(c)
  PROVE  ChatInv'
  <1> USE ChatAssumed DEF ChatInv
  <1> DEFINE s == msgid[c]
             message == <<c, typed[c], mtext[c]>>
  <1>1. /\ chatClient[c] = "send" /\ msgKey = s /\ Len(queue[s]) < QueueCapacity
        /\ queue' = [queue EXCEPT ![s] = Append(queue[s], message)]
        /\ order' = [order EXCEPT ![s] = Append(order[s], message)]
        /\ chatClient' = [chatClient EXCEPT ![c] = IF mtext[c] = "quit" THEN "gone" ELSE "type"]
        /\ UNCHANGED <<msgKey, chatServer, msgid, mtext, shown, typed, spoiled, chatFaults>>
    BY DEF Chat!Msgsnd, Chat!ClientAt
  <1>2. s \in Servers /\ message \in Chat!Messages
    BY <1>1 DEF QueueOwned, Chat!TypeOK, Chat!Messages
  <1>3. /\ queue \in [Servers -> Seq(Chat!Messages)] /\ order \in [Servers -> Seq(Chat!Messages)]
        /\ shown[s] \in Seq(Chat!Messages) /\ queue[s] \in Seq(Chat!Messages)
        /\ order[s] \in Seq(Chat!Messages)
    BY <1>2 DEF Chat!TypeOK
  <1> HIDE DEF s, message
  <1>4. /\ Append(queue[s], message) \in Seq(Chat!Messages)
        /\ Append(order[s], message) \in Seq(Chat!Messages)
        /\ Len(Append(queue[s], message)) <= QueueCapacity
    BY <1>1, <1>2, <1>3
  <1>5. /\ queue'[s] = Append(queue[s], message) /\ order'[s] = Append(order[s], message)
        /\ \A r \in Servers \ {s} : order'[r] = order[r] /\ queue'[r] = queue[r]
    BY <1>1, <1>2, <1>3
  <1>6. order'[s] = shown'[s] \o queue'[s]
    <2>1. order[s] = shown[s] \o queue[s] /\ shown'[s] = shown[s]
      BY <1>1, <1>2 DEF Kept
    <2>2. shown[s] \o Append(queue[s], message) = Append(shown[s] \o queue[s], message)
      <3>1. \A p, q \in Seq(Chat!Messages) : \A e \in Chat!Messages :
                p \o Append(q, e) = Append(p \o q, e)
        BY AppendSecond
      <3> QED BY <1>2, <1>3, <3>1
    <2> QED BY <1>5, <2>1, <2>2
  <1>7. Chat!TypeOK'
    <2>1. /\ order' \in [Servers -> Seq(Chat!Messages)] /\ queue' \in [Servers -> Seq(Chat!Messages)]
          /\ chatClient' \in [Clients -> {"none", "type", "send", "gone"}]
      BY <1>1, <1>2, <1>3, <1>4 DEF Chat!TypeOK
    <2>2. \A r \in Servers : Len(queue'[r]) <= QueueCapacity
      BY <1>4, <1>5 DEF Chat!TypeOK
    <2> QED BY <1>1, <2>1, <2>2 DEF Chat!TypeOK
  <1>8. Kept'
    BY <1>1, <1>5, <1>6 DEF Kept
  <1>9. QuitLast'
    BY <1>1 DEF QuitLast
  <1>10. LeftByQuit'
    BY <1>1, <1>2, <1>5 DEF LeftByQuit, QueueOwned
  <1>11. QueueOwned'
    BY <1>1, <1>2, <1>5 DEF QueueOwned, Chat!TypeOK
  <1> QED BY <1>7, <1>8, <1>9, <1>10, <1>11

(* The steps of a client that sends nothing.                               *)
LEMMA ClientStepInv ==
  ASSUME ChatInv, NEW c \in Clients,
         Chat!Find(c) \/ Chat!Getline(c) \/ Chat!GetlineFails(c) \/ Chat!MsgsndFails(c)
  PROVE  ChatInv'
  <1> USE ChatAssumed DEF ChatInv, Chat!ClientAt
  <1>1. UNCHANGED <<msgKey, chatServer, queue, shown, order, spoiled, chatFaults>>
    BY DEF Chat!Find, Chat!Getline, Chat!GetlineFails, Chat!MsgsndFails
  <1>2. Kept' /\ QuitLast' /\ LeftByQuit'
    BY <1>1 DEF Kept, QuitLast, LeftByQuit
  <1>3. \A s \in Servers :
         /\ msgKey' = s => chatServer'[s] \in {"receive", "remove"} \/ s \in spoiled'
         /\ chatServer'[s] = "receive" /\ msgKey' # s => s \in spoiled'
         /\ chatServer'[s] = "none" => msgKey' # s /\ order'[s] = <<>>
    BY <1>1 DEF QueueOwned
  <1>4. CASE Chat!Find(c)
    <2>1. Chat!TypeOK'
      BY <1>1, <1>4 DEF Chat!Find, Chat!TypeOK
    <2>2. QueueOwned'
      BY <1>3, <1>4 DEF Chat!Find, Chat!TypeOK, QueueOwned
    <2> QED BY <1>2, <2>1, <2>2
  <1>5. CASE Chat!Getline(c)
    <2>1. Chat!TypeOK'
      BY <1>1, <1>5 DEF Chat!Getline, Chat!TypeOK
    <2>2. QueueOwned'
      BY <1>3, <1>5 DEF Chat!Getline, Chat!TypeOK, QueueOwned
    <2> QED BY <1>2, <2>1, <2>2
  <1>6. CASE Chat!GetlineFails(c) \/ Chat!MsgsndFails(c)
    <2>1. Chat!TypeOK'
      BY <1>1, <1>6 DEF Chat!GetlineFails, Chat!MsgsndFails, Chat!TypeOK
    <2>2. QueueOwned'
      BY <1>3, <1>6 DEF Chat!GetlineFails, Chat!MsgsndFails, Chat!TypeOK, QueueOwned
    <2> QED BY <1>2, <2>1, <2>2
  <1> QED BY <1>4, <1>5, <1>6

LEMMA ChatNext == ChatInv /\ [Chat!Next]_chatVars => ChatInv'
  <1> SUFFICES ASSUME ChatInv, [Chat!Next]_chatVars PROVE ChatInv'
    OBVIOUS
  <1>1. CASE UNCHANGED chatVars
    BY <1>1 DEF chatVars, ChatInv, Chat!TypeOK, Kept, QuitLast, LeftByQuit, QueueOwned
  <1>2. CASE Chat!Terminated
    BY <1>1, <1>2 DEF Chat!Terminated, Chat!vars, chatVars
  <1>3. CASE Chat!Ipcrm
    <2>1. PICK s \in Servers : TRUE
      BY <1>3 DEF Chat!Ipcrm, ChatInv, Chat!TypeOK
    <2> QED BY <1>3, <2>1, ServerEndStep
  <1> QED BY <1>1, <1>2, <1>3, MsggetStep, MsgrcvStep, ServerEndStep, MsgsndStep, ClientStepInv
          DEF Chat!Next, Chat!ServerStep, Chat!Send

LEMMA ChatPrintsToQuit == ChatInv => Chat!PrintsToQuit
  <1> SUFFICES ASSUME ChatInv, NEW s \in Servers
               PROVE  /\ Chat!IsPrefix(shown[s], order[s])
                      /\ \A i \in 1..Len(shown[s]) - 1 : ~Chat!IsQuit(shown[s][i])
                      /\ chatServer[s] = "gone" /\ s \notin spoiled /\ order[s] # <<>> =>
                           Chat!IsQuit(Chat!Last(shown[s]))
    BY DEF Chat!PrintsToQuit
  <1> USE DEF ChatInv
  <1>1. /\ shown[s] \in Seq(Chat!Messages) /\ queue[s] \in Seq(Chat!Messages)
        /\ order[s] = shown[s] \o queue[s]
    BY DEF Kept, Chat!TypeOK
  <1>2. Chat!IsPrefix(shown[s], order[s])
    BY <1>1, PrefixOfConcat DEF Chat!IsPrefix
  <1>3. \A i \in 1..Len(shown[s]) - 1 : ~Chat!IsQuit(shown[s][i])
    BY <1>1 DEF QuitLast
  <1>4. chatServer[s] = "gone" /\ s \notin spoiled /\ order[s] # <<>> =>
            Chat!IsQuit(Chat!Last(shown[s]))
    BY DEF LeftByQuit, Chat!Last
  <1> QED BY <1>2, <1>3, <1>4

-----------------------------------------------------------------------------
(***************************************************************************)
(* The named pipe.                                                         *)
(***************************************************************************)
(* What a stream holds: with the FIFO that each client has open and the    *)
(* number of messages it wrote, all the messages of the clients that have  *)
(* this FIFO open, once, and each client's in its order.                   *)
Whole(w, s, opened, wrote) ==
    /\ \A i \in 1..Len(w) : opened[w[i][1]] = s /\ w[i][2] \in 1..wrote[w[i][1]]
    /\ \A i, j \in 1..Len(w) : i < j /\ w[i][1] = w[j][1] => w[i][2] < w[j][2]
    /\ \A c \in Clients : opened[c] = s =>
          \A k \in 1..wrote[c] : \E i \in 1..Len(w) : w[i] = <<c, k>>

(* Printed and piped together, the stream of every FIFO is whole.          *)
Written == \A s \in Servers : Whole(printed[s] \o pipe[s], s, fd, sent)

(* Behind the end of the file only late clients are there and write.       *)
Ended(s) == server[s] \in {"close", "unlink", "gone"} /\ s \notin killed

OnlyLate ==
    \A s \in Servers : Ended(s) =>
        /\ \A i \in 1..Len(pipe[s]) : pipe[s][i][1] \in late
        /\ \A c \in Clients : fd[c] = s /\ client[c] \in {"opening", "writing"} => c \in late

(* A client that waits in open waits for the server to open; one that has  *)
(* not started has written nothing, and one that works has a FIFO open,    *)
(* which some server has made.                                             *)
Opened ==
    /\ \A s \in Servers, c \in Clients \ late :
          fd[c] = s /\ client[c] = "opening" => server[s] = "made" \/ s \in killed
    /\ \A c \in Clients : /\ client[c] = "none" => fd[c] = Nobody
                          /\ client[c] \in {"opening", "writing"} => fd[c] \in Servers
                          /\ fd[c] = Nobody => sent[c] = 0
    /\ \A s \in Servers : server[s] = "none" =>
          name # s /\ \A c \in Clients : fd[c] # s

FifoInv == Fifo!TypeOK /\ Written /\ OnlyLate /\ Opened

FifoMessages == Clients \X (1..MaxWrites)

LEMMA FifoAssumed ==
  /\ Nobody \notin Servers /\ PipeCapacity \in Nat \ {0}
  /\ MaxWrites \in Nat /\ MaxPipeFaults \in Nat
  BY Assumptions DEF Fifo!PipeAssumption

(* A client's next message makes its stream longer by one, and leaves the  *)
(* others whole.                                                           *)
LEMMA WholeAppend ==
  ASSUME NEW s, NEW w \in Seq(FifoMessages), NEW opened, NEW wrote \in [Clients -> Nat],
         NEW c \in Clients, NEW m, m = <<c, wrote[c] + 1>>, m \in FifoMessages,
         opened[c] = s, Whole(w, s, opened, wrote)
  PROVE  Whole(Append(w, m), s, opened, [wrote EXCEPT ![c] = @ + 1])
  <1> DEFINE v == Append(w, m)
             more == [wrote EXCEPT ![c] = @ + 1]
  <1>1. /\ v \in Seq(FifoMessages) /\ Len(w) \in Nat /\ Len(v) = Len(w) + 1 /\ v[Len(w) + 1] = m
        /\ \A i \in 1..Len(w) : v[i] = w[i] /\ w[i] \in FifoMessages
    BY AppendProperties, LenProperties, ElementOfSeq
  <1>2. \A i \in 1..Len(v) : i \in 1..Len(w) \/ i = Len(w) + 1
    BY <1>1
  <1>3. more[c] = wrote[c] + 1 /\ \A d \in Clients \ {c} : more[d] = wrote[d]
    OBVIOUS
  <1>4. \A i \in 1..Len(w) : w[i][1] \in Clients /\ w[i][2] \in Nat
    BY SMTT(30), <1>1 DEF FifoMessages
  <1>5. m[1] = c /\ m[2] = wrote[c] + 1 /\ wrote[c] \in Nat
    OBVIOUS
  <1> HIDE DEF v, more
  <1>6. \A i \in 1..Len(v) : opened[v[i][1]] = s /\ v[i][2] \in 1..more[v[i][1]]
    <2> SUFFICES ASSUME NEW i \in 1..Len(v)
                 PROVE  opened[v[i][1]] = s /\ v[i][2] \in 1..more[v[i][1]]
      OBVIOUS
    <2>1. CASE i \in 1..Len(w)
      <3>1. v[i] = w[i] /\ opened[w[i][1]] = s /\ w[i][2] \in 1..wrote[w[i][1]]
            /\ w[i][1] \in Clients
        BY <1>1, <1>4, <2>1 DEF Whole
      <3>2. wrote[w[i][1]] \in Nat /\ more[w[i][1]] \in {wrote[w[i][1]], wrote[w[i][1]] + 1}
        BY <1>3, <3>1
      <3> QED BY <3>1, <3>2
    <2>2. CASE i = Len(w) + 1
      BY <1>1, <1>3, <1>5, <2>2
    <2> QED BY <1>2, <2>1, <2>2
  <1>7. \A i, j \in 1..Len(v) : i < j /\ v[i][1] = v[j][1] => v[i][2] < v[j][2]
    <2> SUFFICES ASSUME NEW i \in 1..Len(v), NEW j \in 1..Len(v), i < j, v[i][1] = v[j][1]
                 PROVE  v[i][2] < v[j][2]
      OBVIOUS
    <2>1. i \in 1..Len(w) /\ v[i] = w[i] /\ w[i][2] \in 1..wrote[w[i][1]]
      BY <1>1, <1>2 DEF Whole
    <2>2. CASE j \in 1..Len(w)
      BY <1>1, <2>1, <2>2 DEF Whole
    <2>3. CASE j = Len(w) + 1
      BY <1>1, <1>5, <2>1, <2>3
    <2> QED BY <1>2, <2>2, <2>3
  <1>8. \A d \in Clients : opened[d] = s =>
           \A k \in 1..more[d] : \E i \in 1..Len(v) : v[i] = <<d, k>>
    <2> SUFFICES ASSUME NEW d \in Clients, opened[d] = s, NEW k \in 1..more[d]
                 PROVE  \E i \in 1..Len(v) : v[i] = <<d, k>>
      OBVIOUS
    <2>1. CASE k \in 1..wrote[d]
      <3>1. PICK i \in 1..Len(w) : w[i] = <<d, k>>
        BY <2>1 DEF Whole
      <3>2. i \in 1..Len(v) /\ v[i] = <<d, k>>
        BY <1>1, <3>1
      <3> QED BY <3>2
    <2>2. CASE k \notin 1..wrote[d]
      <3>1. d = c /\ k = wrote[c] + 1
        BY <1>3, <2>2
      <3>2. Len(w) + 1 \in 1..Len(v) /\ v[Len(w) + 1] = <<d, k>>
        BY <1>1, <3>1
      <3> QED BY <3>2
    <2> QED BY <2>1, <2>2
  <1> QED BY <1>6, <1>7, <1>8 DEF Whole, v, more

LEMMA WholeElsewhere ==
  ASSUME NEW s, NEW w \in Seq(FifoMessages), NEW opened, NEW wrote \in [Clients -> Nat],
         NEW c \in Clients, opened[c] # s, Whole(w, s, opened, wrote)
  PROVE  Whole(w, s, opened, [wrote EXCEPT ![c] = @ + 1])
  <1>1. \A i \in 1..Len(w) : w[i][1] \in Clients \ {c}
    <2> TAKE i \in 1..Len(w)
    <2>1. w[i] \in FifoMessages
      BY ElementOfSeq
    <2>2. opened[w[i][1]] = s
      BY DEF Whole
    <2> QED BY <2>1, <2>2 DEF FifoMessages
  <1>2. \A d \in Clients \ {c} : [wrote EXCEPT ![c] = @ + 1][d] = wrote[d]
    OBVIOUS
  <1> DEFINE more == [wrote EXCEPT ![c] = @ + 1]
  <1>3. Whole(w, s, opened, more)
    <2> HIDE DEF more
    <2>1. \A d \in Clients \ {c} : more[d] = wrote[d]
      BY <1>2 DEF more
    <2> QED BY <1>1, <2>1 DEF Whole
  <1> QED BY <1>3

(* A client that has written nothing opens another FIFO or this one.       *)
LEMMA WholeOpened ==
  ASSUME NEW s, NEW r, NEW w \in Seq(FifoMessages), NEW opened, NEW wrote,
         DOMAIN opened = Clients, NEW c \in Clients,
         opened[c] # s, wrote[c] = 0, Whole(w, s, opened, wrote)
  PROVE  Whole(w, s, [opened EXCEPT ![c] = r], wrote)
  <1>1. \A i \in 1..Len(w) : w[i][1] \in Clients \ {c}
    <2> TAKE i \in 1..Len(w)
    <2>1. w[i] \in FifoMessages
      BY ElementOfSeq
    <2>2. opened[w[i][1]] = s
      BY DEF Whole
    <2> QED BY <2>1, <2>2 DEF FifoMessages
  <1> DEFINE now == [opened EXCEPT ![c] = r]
  <1>2. \A d \in Clients \ {c} : now[d] = opened[d]
    OBVIOUS
  <1>3. Whole(w, s, now, wrote)
    <2> HIDE DEF now
    <2>1. \A i \in 1..Len(w) : now[w[i][1]] = s /\ w[i][2] \in 1..wrote[w[i][1]]
      BY <1>1, <1>2 DEF Whole
    <2>2. \A i, j \in 1..Len(w) : i < j /\ w[i][1] = w[j][1] => w[i][2] < w[j][2]
      BY DEF Whole
    <2>3. \A d \in Clients : now[d] = s =>
             \A k \in 1..wrote[d] : \E i \in 1..Len(w) : w[i] = <<d, k>>
      <3> TAKE d \in Clients
      <3>1. CASE d = c
        BY <3>1
      <3>2. CASE d # c
        BY <1>2, <3>2 DEF Whole
      <3> QED BY <3>1, <3>2
    <2> QED BY <2>1, <2>2, <2>3 DEF Whole
  <1> QED BY <1>3

LEMMA NothingWritten ==
  ASSUME NEW s, NEW p \in Seq(FifoMessages), NEW q \in Seq(FifoMessages),
         NEW opened, NEW wrote, \A c \in Clients : opened[c] # s,
         Whole(p \o q, s, opened, wrote)
  PROVE  \A i \in 1..Len(q) : FALSE
  <1> SUFFICES ASSUME NEW i \in 1..Len(q) PROVE FALSE
    OBVIOUS
  <1> DEFINE w == p \o q
  <1>1. w \in Seq(FifoMessages) /\ Len(p) \in Nat /\ Len(q) \in Nat /\ Len(w) = Len(p) + Len(q)
    BY ConcatProperties, LenProperties
  <1>2. Whole(w, s, opened, wrote)
    OBVIOUS
  <1> HIDE DEF w
  <1>3. Len(w) \in 1..Len(w) /\ w[Len(w)] \in FifoMessages
    BY <1>1, ElementOfSeq
  <1> QED BY <1>2, <1>3 DEF Whole, FifoMessages

(* All the messages 1..n of client c are in p, each one once and in order. *)
HasAll(p, c, n) ==
    /\ \A k \in 1..n : \E i \in DOMAIN p : p[i] = <<c, k>>
    /\ \A i \in DOMAIN p : p[i][1] = c => p[i][2] \in 1..n
    /\ \A i, j \in DOMAIN p : i < j /\ p[i][1] = c /\ p[j][1] = c => p[i][2] < p[j][2]

(* What a client wrote is in the first part of its stream when the second  *)
(* part holds none of its messages.                                        *)
LEMMA WholeFirst ==
  ASSUME NEW s, NEW p \in Seq(FifoMessages), NEW q \in Seq(FifoMessages),
         NEW opened, NEW wrote, NEW c \in Clients, opened[c] = s,
         Whole(p \o q, s, opened, wrote), \A i \in 1..Len(q) : q[i][1] # c
  PROVE  HasAll(p, c, wrote[c])
  <1> DEFINE w == p \o q
  <1>1. /\ w \in Seq(FifoMessages) /\ Len(p) \in Nat /\ Len(q) \in Nat
        /\ Len(w) = Len(p) + Len(q) /\ DOMAIN p = 1..Len(p)
        /\ \A i \in 1..Len(w) : w[i] = IF i <= Len(p) THEN p[i] ELSE q[i - Len(p)]
    BY ConcatProperties, LenProperties
  <1>4. Whole(w, s, opened, wrote)
    OBVIOUS
  <1> HIDE DEF w
  <1>2. \A i \in 1..Len(p) : i \in 1..Len(w) /\ w[i] = p[i]
    BY <1>1
  <1>3. \A i \in 1..Len(w) : w[i][1] = c => i \in 1..Len(p)
    BY <1>1
  <1>5. \A k \in 1..wrote[c] : \E i \in 1..Len(p) : p[i] = <<c, k>>
    <2> TAKE k \in 1..wrote[c]
    <2>1. PICK i \in 1..Len(w) : w[i] = <<c, k>>
      BY <1>4 DEF Whole
    <2> QED BY <1>2, <1>3, <2>1
  <1>6. \A i \in 1..Len(p) : p[i][1] = c => p[i][2] \in 1..wrote[c]
    <2> SUFFICES ASSUME NEW i \in 1..Len(p), p[i][1] = c PROVE p[i][2] \in 1..wrote[c]
      OBVIOUS
    <2>1. i \in 1..Len(w) /\ w[i] = p[i]
      BY <1>2
    <2>2. w[i][2] \in 1..wrote[w[i][1]]
      BY <1>4, <2>1 DEF Whole
    <2> QED BY <2>1, <2>2
  <1>7. \A i, j \in 1..Len(p) : i < j /\ p[i][1] = c /\ p[j][1] = c => p[i][2] < p[j][2]
    BY <1>2, <1>4 DEF Whole
  <1>8. DOMAIN p = 1..Len(p)
    BY <1>1
  <1> QED BY <1>5, <1>6, <1>7, <1>8 DEF HasAll

LEMMA FifoTypes ==
  ASSUME FifoInv
  PROVE  /\ pipe \in [Servers -> Seq(FifoMessages)]
         /\ printed \in [Servers -> Seq(FifoMessages)]
         /\ \A s \in Servers : printed[s] \o pipe[s] \in Seq(FifoMessages)
  BY DEF FifoInv, Fifo!TypeOK, FifoMessages

LEMMA FifoInit == Fifo!Init => FifoInv
  <1> SUFFICES ASSUME Fifo!Init PROVE FifoInv
    OBVIOUS
  <1> USE FifoAssumed DEF Fifo!Init
  <1>1. Fifo!TypeOK
    BY DEF Fifo!TypeOK
  <1>2. Written
    BY DEF Written, Whole
  <1>3. OnlyLate /\ Opened
    BY DEF OnlyLate, Ended, Opened
  <1> QED BY <1>1, <1>2, <1>3 DEF FifoInv

(* The steps of a server that reads nothing.                               *)
LEMMA ServerStepInv ==
  ASSUME FifoInv, NEW s \in Servers,
         \/ Fifo!NamedFifo(s) \/ Fifo!OpenForRead(s) \/ Fifo!ReadEnd(s) \/ Fifo!Close(s)
         \/ Fifo!Unlink(s) \/ Fifo!KillServer(s) \/ Fifo!RemoveName
  PROVE  FifoInv'
  <1> USE FifoAssumed DEF FifoInv, Fifo!ServerAt, Fifo!Fault
  <1>1. UNCHANGED <<fd, pipe, printed, sent, late>>
    BY DEF Fifo!NamedFifo, Fifo!OpenForRead, Fifo!ReadEnd, Fifo!Close, Fifo!Unlink,
           Fifo!KillServer, Fifo!RemoveName
  <1>2. Written'
    BY <1>1 DEF Written
  <1>3. CASE Fifo!NamedFifo(s)
    <2>1. Fifo!TypeOK'
      BY <1>1, <1>3 DEF Fifo!NamedFifo, Fifo!TypeOK
    <2>2. OnlyLate'
      <3>1. server[s] = "none" /\ \A c \in Clients : fd[c] # s
        BY <1>3 DEF Opened, Fifo!NamedFifo
      <3>2. \A i \in 1..Len(pipe[s]) : FALSE
        <4>1. /\ Whole(printed[s] \o pipe[s], s, fd, sent)
              /\ printed[s] \in Seq(FifoMessages) /\ pipe[s] \in Seq(FifoMessages)
          BY FifoTypes DEF Written
        <4> QED BY <3>1, <4>1, NothingWritten
      <3>3. \A r \in Servers \ {s} : server'[r] = server[r]
        BY <1>3 DEF Fifo!NamedFifo, Fifo!TypeOK
      <3>4. \A c \in Clients : fd'[c] # s
        BY <1>1, <3>1
      <3>5. \A r \in Servers : Ended(r)' => r = s \/ Ended(r)
        BY <1>3, <3>3 DEF Ended, Fifo!NamedFifo
      <3>6. client' = client
        BY <1>3 DEF Fifo!NamedFifo
      <3> QED BY <1>1, <3>2, <3>4, <3>5, <3>6 DEF OnlyLate
    <2>3. Opened'
      BY <1>1, <1>3 DEF Opened, Fifo!NamedFifo, Fifo!TypeOK
    <2> QED BY <1>2, <2>1, <2>2, <2>3
  <1>4. CASE Fifo!OpenForRead(s)
    <2> USE <1>4 DEF Fifo!OpenForRead, Fifo!At
    <2>1. Fifo!TypeOK'
      BY <1>1 DEF Fifo!TypeOK
    <2>2. OnlyLate'
      BY <1>1 DEF OnlyLate, Ended, Fifo!TypeOK
    <2>3. Opened'
      BY <1>1 DEF Opened, Fifo!TypeOK
    <2> QED BY <1>2, <2>1, <2>2, <2>3
  <1>5. CASE Fifo!ReadEnd(s)
    <2> USE <1>5 DEF Fifo!ReadEnd, Fifo!EndOfFile, Fifo!At
    <2>1. Fifo!TypeOK'
      BY <1>1 DEF Fifo!TypeOK
    <2>2. OnlyLate'
      BY <1>1 DEF OnlyLate, Ended, Opened, Fifo!TypeOK
    <2>3. Opened'
      BY <1>1 DEF Opened, Fifo!TypeOK
    <2> QED BY <1>2, <2>1, <2>2, <2>3
  <1>6. CASE Fifo!Close(s) \/ Fifo!Unlink(s)
    <2> USE <1>6 DEF Fifo!Close, Fifo!Unlink
    <2>1. Fifo!TypeOK'
      BY <1>1 DEF Fifo!TypeOK
    <2>2. OnlyLate'
      BY <1>1 DEF OnlyLate, Ended, Fifo!TypeOK
    <2>3. Opened'
      BY <1>1 DEF Opened, Fifo!TypeOK
    <2> QED BY <1>2, <2>1, <2>2, <2>3
  <1>7. CASE Fifo!KillServer(s) \/ Fifo!RemoveName
    <2> USE <1>7 DEF Fifo!KillServer, Fifo!RemoveName
    <2>1. Fifo!TypeOK'
      BY <1>1 DEF Fifo!TypeOK
    <2>2. OnlyLate'
      BY <1>1 DEF OnlyLate, Ended, Fifo!TypeOK
    <2>3. Opened'
      BY <1>1 DEF Opened, Fifo!TypeOK
    <2> QED BY <1>2, <2>1, <2>2, <2>3
  <1> QED BY <1>3, <1>4, <1>5, <1>6, <1>7

LEMMA ReadStep ==
  ASSUME FifoInv, NEW s \in Servers, Fifo!Read(s)
  PROVE  FifoInv'
  <1> USE FifoAssumed DEF FifoInv
  <1>1. PICK n \in 1..Len(pipe[s]) :
          /\ printed' = [printed EXCEPT ![s] = printed[s] \o SubSeq(pipe[s], 1, n)]
          /\ pipe' = [pipe EXCEPT ![s] = SubSeq(pipe[s], n + 1, Len(pipe[s]))]
    BY DEF Fifo!Read
  <1>2. server[s] = "read" /\ UNCHANGED <<name, server, client, fd, sent, late, killed, pipeFaults>>
    BY DEF Fifo!Read
  <1>3. /\ pipe \in [Servers -> Seq(FifoMessages)] /\ printed \in [Servers -> Seq(FifoMessages)]
        /\ pipe[s] \in Seq(FifoMessages) /\ printed[s] \in Seq(FifoMessages)
    BY DEF Fifo!TypeOK, FifoMessages
  <1> HIDE DEF FifoMessages
  <1>4. /\ printed[s] \o SubSeq(pipe[s], 1, n) \in Seq(FifoMessages)
        /\ SubSeq(pipe[s], n + 1, Len(pipe[s])) \in Seq(FifoMessages)
        /\ (printed[s] \o SubSeq(pipe[s], 1, n)) \o SubSeq(pipe[s], n + 1, Len(pipe[s]))
              = printed[s] \o pipe[s]
    <2>1. \A p, q \in Seq(FifoMessages) : \A k \in 1..Len(q) :
            /\ (p \o SubSeq(q, 1, k)) \o SubSeq(q, k + 1, Len(q)) = p \o q
            /\ p \o SubSeq(q, 1, k) \in Seq(FifoMessages)
            /\ SubSeq(q, k + 1, Len(q)) \in Seq(FifoMessages)
      BY MoveMany
    <2> QED BY <1>3, <2>1
  <1>5. /\ printed'[s] = printed[s] \o SubSeq(pipe[s], 1, n)
        /\ pipe'[s] = SubSeq(pipe[s], n + 1, Len(pipe[s]))
        /\ \A r \in Servers \ {s} : printed'[r] = printed[r] /\ pipe'[r] = pipe[r]
        /\ pipe' \in [Servers -> Seq(FifoMessages)] /\ printed' \in [Servers -> Seq(FifoMessages)]
    BY <1>1, <1>3, <1>4
  <1>6. Written'
    <2>1. \A r \in Servers : printed'[r] \o pipe'[r] = printed[r] \o pipe[r]
      BY <1>4, <1>5
    <2> QED BY <1>2, <2>1 DEF Written
  <1>7. Fifo!TypeOK'
    BY <1>2, <1>5 DEF Fifo!TypeOK, FifoMessages
  <1>8. OnlyLate'
    BY <1>2, <1>5 DEF OnlyLate, Ended
  <1>9. Opened'
    BY <1>2 DEF Opened
  <1> QED BY <1>6, <1>7, <1>8, <1>9

LEMMA WriteStep ==
  ASSUME FifoInv, NEW c \in Clients, Fifo!Write(c)
  PROVE  FifoInv'
  <1> USE FifoAssumed DEF FifoInv
  <1> DEFINE s == fd[c]
             m == <<c, sent[c] + 1>>
  <1>1. /\ client[c] = "writing" /\ server[s] \in {"read", "close"} /\ sent[c] < MaxWrites
        /\ sent' = [sent EXCEPT ![c] = sent[c] + 1]
        /\ pipe' = [pipe EXCEPT ![s] = Append(pipe[s], m)]
        /\ UNCHANGED <<name, server, client, fd, printed, late, killed, pipeFaults>>
    BY DEF Fifo!Write, Fifo!HasReader
  <1>2. /\ s \in Servers /\ m \in FifoMessages /\ sent[c] \in Nat
        /\ m[1] = c /\ m[2] = sent[c] + 1
    BY <1>1 DEF Opened, Fifo!TypeOK, FifoMessages
  <1>3. /\ pipe \in [Servers -> Seq(FifoMessages)] /\ sent \in [Clients -> 0..MaxWrites]
        /\ pipe[s] \in Seq(FifoMessages) /\ printed[s] \in Seq(FifoMessages)
    BY <1>2 DEF Fifo!TypeOK, FifoMessages
  <1>4. s = fd[c] /\ m = <<c, sent[c] + 1>>
    OBVIOUS
  <1> HIDE DEF FifoMessages, s, m
  <1>5. Append(pipe[s], m) \in Seq(FifoMessages)
    BY <1>2, <1>3, AppendProperties
  <1>6. /\ pipe'[s] = Append(pipe[s], m) /\ \A r \in Servers \ {s} : pipe'[r] = pipe[r]
        /\ pipe' \in [Servers -> Seq(FifoMessages)]
        /\ sent'[c] = sent[c] + 1 /\ \A d \in Clients \ {c} : sent'[d] = sent[d]
        /\ sent' \in [Clients -> 0..MaxWrites]
    BY <1>1, <1>2, <1>3, <1>5
  <1>7. Written'
    <2> SUFFICES ASSUME NEW r \in Servers
                 PROVE  Whole(printed[r] \o pipe'[r], r, fd, sent')
      BY <1>1 DEF Written
    <2>1. /\ Whole(printed[r] \o pipe[r], r, fd, sent) /\ sent \in [Clients -> Nat]
          /\ printed[r] \o pipe[r] \in Seq(FifoMessages)
          /\ sent' = [sent EXCEPT ![c] = @ + 1]
      BY SMTT(30), <1>1, FifoTypes DEF Written, Fifo!TypeOK
    <2>2. CASE r # s
      <3>1. Whole(printed[r] \o pipe[r], r, fd, [sent EXCEPT ![c] = @ + 1])
        BY <1>4, <2>1, <2>2, WholeElsewhere
      <3> QED BY <1>6, <2>1, <2>2, <3>1
    <2>3. CASE r = s
      <3>1. Whole(Append(printed[s] \o pipe[s], m), s, fd, [sent EXCEPT ![c] = @ + 1])
        BY <1>2, <1>4, <2>1, <2>3, WholeAppend
      <3>2. \A p, q \in Seq(FifoMessages) : \A e \in FifoMessages :
               p \o Append(q, e) = Append(p \o q, e)
        BY AppendSecond
      <3>3. printed[s] \o Append(pipe[s], m) = Append(printed[s] \o pipe[s], m)
        BY <1>2, <1>3, <3>2
      <3> QED BY <1>6, <2>1, <2>3, <3>1, <3>3
    <2> QED BY <2>2, <2>3
  <1>9. Fifo!TypeOK'
    BY <1>1, <1>6 DEF Fifo!TypeOK, FifoMessages
  <1>10. OnlyLate'
    <2> SUFFICES ASSUME NEW r \in Servers, Ended(r), NEW i \in 1..Len(pipe'[r])
                 PROVE  pipe'[r][i][1] \in late
      BY <1>1 DEF OnlyLate, Ended
    <2>1. CASE r # s
      BY <1>6, <2>1 DEF OnlyLate
    <2>2. CASE r = s
      <3>1. c \in late
        BY <1>1, <1>2, <1>4, <2>2 DEF OnlyLate
      <3>2. (i \in 1..Len(pipe[s]) /\ pipe'[s][i] = pipe[s][i]) \/ pipe'[s][i] = m
        BY <1>2, <1>3, <1>6, <2>2, AppendProperties, LenProperties
      <3> QED BY <1>2, <2>2, <3>1, <3>2 DEF OnlyLate
    <2> QED BY <2>1, <2>2
  <1>11. Opened'
    BY <1>1, <1>2, <1>4, <1>6 DEF Opened
  <1> QED BY <1>7, <1>9, <1>10, <1>11

LEMMA OpenForWriteStep ==
  ASSUME FifoInv, NEW c \in Clients, Fifo!OpenForWrite(c)
  PROVE  FifoInv'
  <1> USE FifoAssumed DEF FifoInv
  <1>1. /\ client[c] = "none" /\ fd[c] = Nobody /\ sent[c] = 0
        /\ UNCHANGED <<name, pipe, printed, sent, killed, pipeFaults>>
    BY DEF Fifo!OpenForWrite, Opened
  <1>2. CASE name = Nobody
    <2>1. /\ client' = [client EXCEPT ![c] = "gone"]
          /\ UNCHANGED <<server, fd, late>>
      BY <1>2 DEF Fifo!OpenForWrite, Fifo!ClientAt
    <2>2. Fifo!TypeOK'
      BY <1>1, <2>1 DEF Fifo!TypeOK
    <2>3. Written'
      BY <1>1, <2>1 DEF Written
    <2>4. OnlyLate' /\ Opened'
      BY <1>1, <2>1 DEF OnlyLate, Ended, Opened, Fifo!TypeOK
    <2> QED BY <2>2, <2>3, <2>4
  <1>3. CASE name # Nobody
    <2>1. /\ name \in Servers
          /\ fd' = [fd EXCEPT ![c] = name]
          /\ client' = [client EXCEPT ![c] =
                IF server[name] = "open" \/ server[name] \in {"read", "close"}
                THEN "writing" ELSE "opening"]
          /\ server' = IF server[name] = "open" THEN [server EXCEPT ![name] = "read"] ELSE server
          /\ late' = IF server[name] \in {"made", "open", "read"} THEN late ELSE late \cup {c}
      BY <1>3 DEF Fifo!OpenForWrite, Fifo!ClientAt, Fifo!ServerAt, Fifo!HasReader, Fifo!TypeOK
    <2>2. Fifo!TypeOK'
      BY <1>1, <2>1 DEF Fifo!TypeOK
    <2>3. /\ fd'[c] = name /\ \A d \in Clients \ {c} : fd'[d] = fd[d] /\ client'[d] = client[d]
          /\ client'[c] \in {"writing", "opening"}
      BY <2>1 DEF Fifo!TypeOK
    <2>4. Written'
      <3> SUFFICES ASSUME NEW r \in Servers PROVE Whole(printed[r] \o pipe[r], r, fd', sent)
        BY <1>1 DEF Written
      <3>1. /\ Whole(printed[r] \o pipe[r], r, fd, sent) /\ DOMAIN fd = Clients /\ fd[c] # r
            /\ printed[r] \o pipe[r] \in Seq(FifoMessages)
        BY <1>1, FifoTypes DEF Written, Fifo!TypeOK
      <3> QED BY <1>1, <2>1, <3>1, WholeOpened
    <2>5. OnlyLate'
      <3>1. \A s \in Servers : Ended(s)' => Ended(s) /\ (s = name => c \in late')
        BY <1>1, <2>1 DEF Ended, Fifo!TypeOK
      <3>2. late \subseteq late'
        BY <2>1
      <3> QED BY <1>1, <2>3, <3>1, <3>2 DEF OnlyLate
    <2>6. Opened'
      BY <1>1, <2>1, <2>3 DEF Opened, Fifo!TypeOK
    <2> QED BY <2>2, <2>4, <2>5, <2>6
  <1> QED BY <1>2, <1>3

LEMMA ClientLeaves ==
  ASSUME FifoInv, NEW c \in Clients, Fifo!Sigpipe(c) \/ Fifo!Interrupt(c)
  PROVE  FifoInv'
  <1> USE FifoAssumed DEF FifoInv
  <1>1. /\ client' = [client EXCEPT ![c] = "gone"]
        /\ UNCHANGED <<name, server, fd, pipe, printed, sent, late, killed, pipeFaults>>
    BY DEF Fifo!Sigpipe, Fifo!Interrupt, Fifo!ClientAt
  <1>2. Fifo!TypeOK'
    BY <1>1 DEF Fifo!TypeOK
  <1>3. Written'
    BY <1>1 DEF Written
  <1>4. OnlyLate' /\ Opened'
    BY <1>1 DEF OnlyLate, Ended, Opened, Fifo!TypeOK
  <1> QED BY <1>2, <1>3, <1>4

LEMMA FifoNext == FifoInv /\ [Fifo!Next]_fifoVars => FifoInv'
  <1> SUFFICES ASSUME FifoInv, [Fifo!Next]_fifoVars PROVE FifoInv'
    OBVIOUS
  <1>1. CASE UNCHANGED fifoVars
    BY <1>1, FifoTypes DEF fifoVars, FifoInv, Fifo!TypeOK, Written, OnlyLate, Ended, Opened
  <1>2. CASE Fifo!Terminated \/ Fifo!Idle
    BY <1>1, <1>2 DEF Fifo!Terminated, Fifo!Idle, Fifo!vars, fifoVars
  <1>3. CASE Fifo!RemoveName
    <2>1. name \in Servers
      BY <1>3, FifoAssumed DEF Fifo!RemoveName, FifoInv, Fifo!TypeOK
    <2> QED BY <1>3, <2>1, ServerStepInv
  <1> QED BY <1>1, <1>2, <1>3, ServerStepInv, ReadStep, WriteStep, OpenForWriteStep, ClientLeaves
          DEF Fifo!Next, Fifo!ServerStep, Fifo!ClientStep

LEMMA FifoAllPrinted == FifoInv => Fifo!AllPrinted
  <1> SUFFICES ASSUME FifoInv, NEW s \in Servers, NEW c \in Clients \ late,
                      server[s] = "gone", s \notin killed, fd[c] = s
               PROVE  HasAll(printed[s], c, sent[c])
    BY DEF Fifo!AllPrinted, HasAll
  <1>1. /\ printed[s] \in Seq(FifoMessages) /\ pipe[s] \in Seq(FifoMessages)
        /\ Whole(printed[s] \o pipe[s], s, fd, sent)
    BY FifoTypes DEF FifoInv, Written
  <1>2. \A i \in 1..Len(pipe[s]) : pipe[s][i][1] # c
    BY DEF FifoInv, OnlyLate, Ended
  <1> QED BY <1>1, <1>2, WholeFirst

-----------------------------------------------------------------------------
(***************************************************************************)
(* The logger.                                                             *)
(***************************************************************************)
(* A set of numbers has a least one.                                       *)
LEMMA Least ==
  ASSUME NEW T \in SUBSET Nat, T # {}
  PROVE  \E x \in T : \A y \in T : x <= y
  <1> DEFINE R == {ss \in Nat \X Nat : ss[1] < ss[2]}
  <1>1. IsWellFoundedOn(R, Nat)
    BY NatLessThanWellFounded DEF OpToRel
  <1>2. \A x, y \in Nat : <<y, x>> \in R <=> y < x
    OBVIOUS
  <1> HIDE DEF R
  <1>3. PICK x \in T : \A y \in T : ~ (<<y, x>> \in R)
    BY <1>1, WFMin
  <1>4. ASSUME NEW y \in T PROVE x <= y
    <2>1. x \in Nat /\ y \in Nat /\ ~(y < x)
      BY <1>2, <1>3
    <2> QED BY <2>1
  <1> QED BY <1>4

(* The last of a set of places holds an end, or a given piece.             *)
LastIn(places, i)          == \A k \in places : k <= i
Ends(s, places)            == \A i \in places : LastIn(places, i) => s[i][2][2] = "sep"
EndsWith(s, places, piece) == \E i \in places : LastIn(places, i) /\ s[i][2] = piece

Places(p) == Log!PlacesOf(Log!Everything(p), p, copied)

(* Lines are numbered as they are put together.                            *)
Numbered ==
    /\ \A w \in Log!Writers : line[w] <= logged
    /\ \A i \in 1..Len(out) : out[i][2][1] <= logged
    /\ \A p \in LogProcesses : \A i \in 1..Len(buffer[p]) : buffer[p][i][1] <= logged
    /\ synced \cup dropped \cup copied \subseteq 1..logged

(* A process writes under its mutex; it starts and ends as a whole.        *)
Guarded ==
    /\ \A w \in Log!Writers : logAt[w] \in {"text", "sep"} => logMutex[w[1]] = w
    /\ \A p \in LogProcesses : logAt[<<p, 1>>] \in {"none", "gone"} => logAt[<<p, 2>>] \in {"none", "gone"}

(* A process that was not started has written nothing.                     *)
NothingEarly == \A p \in LogProcesses :
    logAt[<<p, 1>>] = "none" => /\ logAt[<<p, 2>>] = "none" /\ buffer[p] = <<>>
                             /\ \A i \in 1..Len(out) : out[i][1] # p

Has(pieces, l) == \E i \in 1..Len(pieces) : pieces[i][1] = l

(* The line of a writer is its own: before PutText it is nowhere, and then *)
(* in no other process's buffer.                                           *)
Active(w) == logAt[w] \in {"lock", "text", "sep"}
OwnLine ==
    /\ \A w \in Log!Writers : Active(w) => line[w] >= 1 /\ line[w] \notin copied \cup dropped
    /\ \A v, w \in Log!Writers : Active(v) /\ Active(w) /\ line[v] = line[w] => v = w
    /\ \A w \in Log!Writers : logAt[w] \in {"lock", "text"} =>
         /\ \A i \in 1..Len(out) : out[i][2][1] # line[w]
         /\ \A p \in LogProcesses : ~Has(buffer[p], line[w])
    /\ \A w \in Log!Writers : logAt[w] = "sep" =>
         \A p \in LogProcesses : p # w[1] => ~Has(buffer[p], line[w])

(* A file that is closed behind every line.                                *)
FileWhole == strategy = "file" =>
    /\ \A p \in LogProcesses : buffer[p] = <<>>
    /\ copied = {} /\ dropped = {}
    /\ \A w \in Log!Writers : logAt[w] # "sep"
    /\ Log!Alternate(out, 1..Len(out)) /\ Ends(out, 1..Len(out))

(* What a process writes ends with the text of the line it is writing, or  *)
(* with the end of a line.  Half a line stays when it is killed.           *)
WrittenBy(p) ==
    /\ Log!Alternate(Log!Everything(p), Places(p))
    /\ logAt[<<p, 1>>] # "gone" /\ (\A w \in Log!Writers : w[1] = p => logAt[w] # "sep")
         => Ends(Log!Everything(p), Places(p))
    /\ \A w \in Log!Writers : w[1] = p /\ logAt[w] = "sep"
         => EndsWith(Log!Everything(p), Places(p), <<line[w], "text">>)

WrittenByEach == \A p \in LogProcesses : WrittenBy(p)

(* A line is in one place at most, if it was not copied, and it is in one  *)
(* from PutText on.                                                        *)
Once ==
    /\ \A i, j \in 1..Len(out) :
         out[i][2] = out[j][2] /\ out[i][2][2] = "text" /\ out[i][2][1] \notin copied => i = j
    /\ \A p, q \in LogProcesses : \A i \in 1..Len(buffer[p]), j \in 1..Len(buffer[q]) :
         buffer[p][i] = buffer[q][j] /\ buffer[p][i][2] = "text" /\ buffer[p][i][1] \notin copied
           => p = q /\ i = j
    /\ \A p \in LogProcesses : \A i \in 1..Len(buffer[p]), j \in 1..Len(out) :
         buffer[p][i] = out[j][2] /\ buffer[p][i][2] = "text" => buffer[p][i][1] \in copied

InPlace(l) ==
    \/ \E i \in 1..Len(out) : out[i][2] = <<l, "text">>
    \/ \E p \in LogProcesses : \E i \in 1..Len(buffer[p]) : buffer[p][i] = <<l, "text">>

NoneMissing ==
    /\ \A l \in synced \ (copied \cup dropped) : InPlace(l)
    /\ \A w \in Log!Writers : logAt[w] = "sep" => InPlace(line[w])

LogInv == /\ Log!TypeOK /\ Numbered /\ Guarded /\ NothingEarly /\ OwnLine
          /\ FileWhole /\ WrittenByEach /\ Once /\ NoneMissing

(* A text behind an end, or an end behind its text.                        *)
LEMMA TextAppended ==
  ASSUME NEW s, NEW t, NEW places \in SUBSET Nat, NEW n \in Nat, NEW l,
         \A i \in places : i < n /\ t[i] = s[i],
         t[n][2] = <<l, "text">>,
         Log!Alternate(s, places), Ends(s, places)
  PROVE  Log!Alternate(t, places \cup {n}) /\ EndsWith(t, places \cup {n}, <<l, "text">>)
  <1>1. ASSUME NEW i \in places, NEW j \in places
        PROVE  Log!Behind(places \cup {n}, i, j) <=> Log!Behind(places, i, j)
    BY DEF Log!Behind
  <1>2. t[n][2][2] = "text" /\ "text" # "sep"
    OBVIOUS
  <1>3. ASSUME NEW i \in places \cup {n}, Log!Behind(places \cup {n}, i, n)
        PROVE  t[i][2][2] = "sep"
    <2>1. i \in places /\ LastIn(places, i)
      BY <1>3 DEF Log!Behind, LastIn
    <2> QED BY <2>1 DEF Ends
  <1>4. ASSUME NEW j \in places, t[j][2][2] = "sep"
        PROVE  \E i \in places \cup {n} :
                 Log!Behind(places \cup {n}, i, j) /\ t[i][2] = <<t[j][2][1], "text">>
    <2>1. PICK i \in places : Log!Behind(places, i, j) /\ s[i][2] = <<s[j][2][1], "text">>
      BY <1>4 DEF Log!Alternate
    <2> QED BY <1>1, <2>1
  <1>5. ASSUME NEW j \in places, t[j][2][2] # "sep", NEW i \in places \cup {n},
               Log!Behind(places \cup {n}, i, j)
        PROVE  t[i][2][2] = "sep"
    <2>1. i \in places
      BY <1>5 DEF Log!Behind
    <2> QED BY <1>1, <1>5, <2>1 DEF Log!Alternate
  <1>6. LastIn(places \cup {n}, n)
    BY DEF LastIn
  <1> QED BY <1>2, <1>3, <1>4, <1>5, <1>6 DEF Log!Alternate, EndsWith

LEMMA SepAppended ==
  ASSUME NEW s, NEW t, NEW places \in SUBSET Nat, NEW n \in Nat, NEW l,
         \A i \in places : i < n /\ t[i] = s[i],
         t[n][2] = <<l, "sep">>,
         Log!Alternate(s, places), EndsWith(s, places, <<l, "text">>)
  PROVE  Log!Alternate(t, places \cup {n}) /\ Ends(t, places \cup {n})
  <1>1. ASSUME NEW i \in places, NEW j \in places
        PROVE  Log!Behind(places \cup {n}, i, j) <=> Log!Behind(places, i, j)
    BY DEF Log!Behind
  <1>2. t[n][2][2] = "sep" /\ t[n][2][1] = l
    OBVIOUS
  <1>3. \E i \in places \cup {n} :
          Log!Behind(places \cup {n}, i, n) /\ t[i][2] = <<t[n][2][1], "text">>
    <2>1. PICK i \in places : LastIn(places, i) /\ s[i][2] = <<l, "text">>
      BY DEF EndsWith
    <2>2. Log!Behind(places \cup {n}, i, n)
      BY <2>1 DEF Log!Behind, LastIn
    <2> QED BY <1>2, <2>1, <2>2
  <1>4. ASSUME NEW j \in places, t[j][2][2] = "sep"
        PROVE  \E i \in places \cup {n} :
                 Log!Behind(places \cup {n}, i, j) /\ t[i][2] = <<t[j][2][1], "text">>
    <2>1. PICK i \in places : Log!Behind(places, i, j) /\ s[i][2] = <<s[j][2][1], "text">>
      BY <1>4 DEF Log!Alternate
    <2> QED BY <1>1, <2>1
  <1>5. ASSUME NEW j \in places, t[j][2][2] # "sep", NEW i \in places \cup {n},
               Log!Behind(places \cup {n}, i, j)
        PROVE  t[i][2][2] = "sep"
    <2>1. i \in places
      BY <1>5 DEF Log!Behind
    <2> QED BY <1>1, <1>5, <2>1 DEF Log!Alternate
  <1>6. ASSUME NEW i \in places \cup {n}, LastIn(places \cup {n}, i)
        PROVE  i = n
    BY <1>6 DEF LastIn
  <1> QED BY <1>2, <1>3, <1>4, <1>5, <1>6 DEF Log!Alternate, Ends

(* The beginning of what alternates.                                       *)
LEMMA CutOff ==
  ASSUME NEW s, NEW t, NEW places \in SUBSET Nat, NEW some \in SUBSET places,
         \A i \in some : t[i] = s[i],
         \A i \in some : \A k \in places : k <= i => k \in some,
         Log!Alternate(s, places)
  PROVE  Log!Alternate(t, some)
  <1>1. ASSUME NEW i \in some, NEW j \in some
        PROVE  Log!Behind(some, i, j) <=> Log!Behind(places, i, j)
    <2>1. ASSUME Log!Behind(some, i, j), NEW k \in places PROVE k <= i \/ k >= j
      <3>1. i \in Nat /\ j \in Nat /\ k \in Nat
        OBVIOUS
      <3>2. k <= j => k \in some
        OBVIOUS
      <3>3. k \in some => k <= i \/ k >= j
        BY <2>1 DEF Log!Behind
      <3> QED BY <3>1, <3>2, <3>3
    <2> QED BY <2>1 DEF Log!Behind
  <1>2. ASSUME NEW j \in some, t[j][2][2] = "sep"
        PROVE  \E i \in some : Log!Behind(some, i, j) /\ t[i][2] = <<t[j][2][1], "text">>
    <2>1. PICK i \in places : Log!Behind(places, i, j) /\ s[i][2] = <<s[j][2][1], "text">>
      BY <1>2 DEF Log!Alternate
    <2>2. i \in some
      <3>1. i <= j
        <4>1. i < j /\ i \in Nat /\ j \in Nat
          BY <2>1 DEF Log!Behind
        <4> QED BY <4>1
      <3> QED BY <3>1
    <2> QED BY <1>1, <2>1, <2>2
  <1>3. ASSUME NEW j \in some, t[j][2][2] # "sep", NEW i \in some, Log!Behind(some, i, j)
        PROVE  t[i][2][2] = "sep"
    BY <1>1, <1>3 DEF Log!Alternate
  <1> QED BY <1>2, <1>3 DEF Log!Alternate

(* What alternates without some of its lines.                              *)
LEMMA LinesTakenOut ==
  ASSUME NEW s, NEW places \in SUBSET Nat, NEW some \in SUBSET places,
         \A i, j \in places : s[i][2][1] = s[j][2][1] /\ i \in some => j \in some,
         \A i \in places : s[i][2] = <<s[i][2][1], s[i][2][2]>>,
         Log!Alternate(s, places)
  PROVE  /\ Log!Alternate(s, some)
         /\ Ends(s, places) => Ends(s, some)
  <1>1. ASSUME NEW i \in some, s[i][2][2] # "sep",
               NEW m \in places, m > i, m \notin some, \A k \in places : k <= i \/ k >= m
        PROVE  FALSE
    <2>1. Log!Behind(places, i, m)
      BY <1>1 DEF Log!Behind
    <2>2. s[m][2][2] = "sep"
      BY <1>1, <2>1 DEF Log!Alternate
    <2>3. PICK x \in places : Log!Behind(places, x, m) /\ s[x][2] = <<s[m][2][1], "text">>
      BY <2>2 DEF Log!Alternate
    <2>4. x = i
      <3>1. x \in Nat /\ i \in Nat /\ m \in Nat
        OBVIOUS
      <3>2. x < m /\ i < m /\ (x <= i \/ x >= m) /\ (i <= x \/ i >= m)
        BY <2>1, <2>3 DEF Log!Behind
      <3> QED BY <3>1, <3>2
    <2>5. s[i][2][1] = s[m][2][1]
      BY <2>3, <2>4
    <2> QED BY <1>1, <2>5
  (* The one behind a text that stays, if there is one, stays.             *)
  <1>2. ASSUME NEW i \in some, s[i][2][2] # "sep", NEW j \in places, j > i
        PROVE  \E m \in some : m > i /\ m <= j /\ \A k \in places : k <= i \/ k >= m
    <2> DEFINE U == {k \in places : k > i}
    <2>1. U \in SUBSET Nat /\ j \in U
      BY <1>2
    <2>2. PICK m \in U : \A k \in U : m <= k
      <3> HIDE DEF U
      <3> QED BY <2>1, Least
    <2>3. m \in places /\ m > i /\ m <= j
      BY <2>1, <2>2
    <2>4. \A k \in places : k <= i \/ k >= m
      <3> SUFFICES ASSUME NEW k \in places, ~(k <= i) PROVE k >= m
        OBVIOUS
      <3>1. k \in Nat /\ i \in Nat /\ m \in Nat /\ k > i
        BY <2>3
      <3> QED BY <2>2, <3>1
    <2> QED BY <1>1, <1>2, <2>3, <2>4
  <1>3. ASSUME NEW j \in some, s[j][2][2] = "sep"
        PROVE  \E i \in some : Log!Behind(some, i, j) /\ s[i][2] = <<s[j][2][1], "text">>
    <2>1. PICK i \in places : Log!Behind(places, i, j) /\ s[i][2] = <<s[j][2][1], "text">>
      BY <1>3 DEF Log!Alternate
    <2>2. i \in some
      BY <2>1
    <2>3. Log!Behind(some, i, j)
      BY <2>1 DEF Log!Behind
    <2> QED BY <2>1, <2>2, <2>3
  <1>4. ASSUME NEW j \in some, s[j][2][2] # "sep", NEW i \in some, Log!Behind(some, i, j)
        PROVE  s[i][2][2] = "sep"
    <2> SUFFICES ASSUME s[i][2][2] # "sep" PROVE FALSE
      OBVIOUS
    <2>1. PICK m \in some : m > i /\ m <= j /\ \A k \in places : k <= i \/ k >= m
      BY <1>2, <1>4 DEF Log!Behind
    <2>2. m = j
      <3>1. m \in Nat /\ j \in Nat /\ i \in Nat
        OBVIOUS
      <3>2. m <= i \/ m >= j
        BY <1>4 DEF Log!Behind
      <3> QED BY <2>1, <3>1, <3>2
    <2>3. Log!Behind(places, i, j)
      BY <2>1, <2>2 DEF Log!Behind
    <2> QED BY <1>4, <2>3 DEF Log!Alternate
  <1>5. ASSUME Ends(s, places), NEW i \in some, LastIn(some, i)
        PROVE  s[i][2][2] = "sep"
    <2> SUFFICES ASSUME s[i][2][2] # "sep" PROVE FALSE
      OBVIOUS
    <2>1. ~LastIn(places, i)
      BY <1>5 DEF Ends
    <2>2. PICK j \in places : ~(j <= i)
      BY <2>1 DEF LastIn
    <2>3. j > i
      <3>1. j \in Nat /\ i \in Nat
        OBVIOUS
      <3> QED BY <2>2, <3>1
    <2>4. PICK m \in some : m > i
      BY <1>2, <2>3
    <2>5. m \in Nat /\ i \in Nat /\ m <= i
      BY <1>5 DEF LastIn
    <2> QED BY <2>4, <2>5
  <1> QED BY <1>3, <1>4, <1>5 DEF Log!Alternate, Ends

(* The same pieces in the same order at other places.                      *)
LEMMA Moved ==
  ASSUME NEW s, NEW t, NEW places \in SUBSET Nat, NEW others \in SUBSET Nat,
         NEW f,
         \A i \in places : f[i] \in others /\ t[f[i]][2] = s[i][2],
         \A i, j \in places : i < j <=> f[i] < f[j],
         \A j \in others : \E i \in places : j = f[i],
         NEW piece
  PROVE  /\ Log!Alternate(s, places) => Log!Alternate(t, others)
         /\ Ends(s, places) => Ends(t, others)
         /\ EndsWith(s, places, piece) => EndsWith(t, others, piece)
  <1>0. \A i, j \in places : i \in Nat /\ j \in Nat /\ f[i] \in Nat /\ f[j] \in Nat
    OBVIOUS
  <1>1. \A i, j \in places : i <= j <=> f[i] <= f[j]
    <2> SUFFICES ASSUME NEW i \in places, NEW j \in places PROVE i <= j <=> f[i] <= f[j]
      OBVIOUS
    <2>1. j < i <=> f[j] < f[i]
      OBVIOUS
    <2> QED BY <1>0, <2>1
  <1>2. ASSUME NEW i \in places, NEW j \in places
        PROVE  Log!Behind(places, i, j) <=> Log!Behind(others, f[i], f[j])
    <2>1. i < j <=> f[i] < f[j]
      OBVIOUS
    <2>2. \A k \in places : (k <= i \/ k >= j) <=> (f[k] <= f[i] \/ f[k] >= f[j])
      <3> SUFFICES ASSUME NEW k \in places
                   PROVE  (k <= i \/ k >= j) <=> (f[k] <= f[i] \/ f[k] >= f[j])
        OBVIOUS
      <3>1. (k <= i <=> f[k] <= f[i]) /\ (j <= k <=> f[j] <= f[k])
        BY <1>1
      <3>2. (k >= j <=> j <= k) /\ (f[k] >= f[j] <=> f[j] <= f[k])
        BY <1>0
      <3> QED BY <3>1, <3>2
    <2> QED BY <2>1, <2>2 DEF Log!Behind
  <1>3. ASSUME NEW i \in places PROVE LastIn(places, i) <=> LastIn(others, f[i])
    <2>1. LastIn(places, i) => LastIn(others, f[i])
      <3> SUFFICES ASSUME LastIn(places, i), NEW b \in others PROVE b <= f[i]
        BY DEF LastIn
      <3>1. PICK k \in places : b = f[k]
        OBVIOUS
      <3>2. k <= i
        BY DEF LastIn
      <3> QED BY <1>1, <3>1, <3>2
    <2>2. LastIn(others, f[i]) => LastIn(places, i)
      BY <1>1 DEF LastIn
    <2> QED BY <2>1, <2>2
  <1>4. ASSUME Log!Alternate(s, places) PROVE Log!Alternate(t, others)
    <2>1. ASSUME NEW b \in others, t[b][2][2] = "sep"
          PROVE  \E a \in others : Log!Behind(others, a, b) /\ t[a][2] = <<t[b][2][1], "text">>
      <3>1. PICK j \in places : b = f[j]
        OBVIOUS
      <3>2. t[b][2] = s[j][2]
        BY <3>1
      <3>3. PICK i \in places : Log!Behind(places, i, j) /\ s[i][2] = <<s[j][2][1], "text">>
        BY <1>4, <2>1, <3>2 DEF Log!Alternate
      <3>4. f[i] \in others /\ t[f[i]][2] = s[i][2] /\ Log!Behind(others, f[i], b)
        BY <1>2, <3>1, <3>3
      <3> QED BY <3>2, <3>3, <3>4
    <2>2. ASSUME NEW b \in others, t[b][2][2] # "sep", NEW a \in others, Log!Behind(others, a, b)
          PROVE  t[a][2][2] = "sep"
      <3>1. PICK i \in places, j \in places : a = f[i] /\ b = f[j]
        OBVIOUS
      <3>2. t[a][2] = s[i][2] /\ t[b][2] = s[j][2]
        BY <3>1
      <3>3. Log!Behind(places, i, j)
        BY <1>2, <2>2, <3>1
      <3> QED BY <1>4, <2>2, <3>2, <3>3 DEF Log!Alternate
    <2> QED BY <2>1, <2>2 DEF Log!Alternate
  <1>5. ASSUME Ends(s, places), NEW b \in others, LastIn(others, b) PROVE t[b][2][2] = "sep"
    <2>1. PICK j \in places : b = f[j]
      OBVIOUS
    <2>2. t[b][2] = s[j][2] /\ LastIn(places, j)
      BY <1>3, <1>5, <2>1
    <2> QED BY <1>5, <2>2 DEF Ends
  <1>6. ASSUME EndsWith(s, places, piece) PROVE EndsWith(t, others, piece)
    <2>1. PICK i \in places : LastIn(places, i) /\ s[i][2] = piece
      BY <1>6 DEF EndsWith
    <2>2. f[i] \in others /\ t[f[i]][2] = piece /\ LastIn(others, f[i])
      BY <1>3, <2>1
    <2> QED BY <2>2 DEF EndsWith
  <1> QED BY <1>4, <1>5, <1>6 DEF Ends

(* What a process has written and has still to write, and the places of    *)
(* its lines in that, for any values of the variables.                     *)
All(o, p, b)            == o \o Log!From(p, b)
Marks(o, p, b, without) == Log!PlacesOf(All(o, p, b), p, without)

LEMMA FromIs ==
  ASSUME NEW p \in LogProcesses, NEW b \in Seq(Log!Piece)
  PROVE  /\ Log!From(p, b) \in Seq(LogProcesses \X Log!Piece) /\ Len(Log!From(p, b)) = Len(b)
         /\ \A i \in 1..Len(b) : Log!From(p, b)[i] = <<p, b[i]>>
  <1> DEFINE s == [i \in 1..Len(b) |-> <<p, b[i]>>]
  <1>1. Len(b) \in Nat /\ \A i \in 1..Len(b) : b[i] \in Log!Piece
    BY LenProperties, ElementOfSeq
  <1>2. \A i \in 1..Len(b) : <<p, b[i]>> \in LogProcesses \X Log!Piece
    BY <1>1
  <1>3. s \in Seq(LogProcesses \X Log!Piece) /\ DOMAIN s = 1..Len(b)
    BY <1>1, <1>2
  <1>4. Log!From(p, b) = s
    BY DEF Log!From
  <1>5. \A i \in 1..Len(b) : s[i] = <<p, b[i]>>
    OBVIOUS
  <1> HIDE DEF s
  <1>6. Len(s) = Len(b)
    BY <1>1, <1>3, LenProperties
  <1> QED BY <1>3, <1>4, <1>5, <1>6

LEMMA AllIs ==
  ASSUME NEW p \in LogProcesses, NEW o \in Seq(LogProcesses \X Log!Piece), NEW b \in Seq(Log!Piece)
  PROVE  /\ All(o, p, b) \in Seq(LogProcesses \X Log!Piece)
         /\ Len(All(o, p, b)) = Len(o) + Len(b) /\ Len(o) \in Nat /\ Len(b) \in Nat
         /\ \A i \in 1..Len(o) : All(o, p, b)[i] = o[i]
         /\ \A i \in 1..Len(b) : All(o, p, b)[Len(o) + i] = <<p, b[i]>>
         /\ \A i \in 1..(Len(o) + Len(b)) :
              i \in 1..Len(o) \/ (i - Len(o) \in 1..Len(b) /\ All(o, p, b)[i] = <<p, b[i - Len(o)]>>)
  <1> DEFINE c == Log!From(p, b)
             s == o \o c
             n == Len(o)
             m == Len(b)
  <1>1. n \in Nat /\ m \in Nat
    BY LenProperties
  <1>2. c \in Seq(LogProcesses \X Log!Piece) /\ Len(c) = m /\ \A i \in 1..m : c[i] = <<p, b[i]>>
    BY FromIs
  <1> HIDE DEF c
  <1>3. /\ s \in Seq(LogProcesses \X Log!Piece) /\ Len(s) = Len(o) + Len(c)
        /\ \A i \in 1..(Len(o) + Len(c)) : s[i] = IF i <= Len(o) THEN o[i] ELSE c[i - Len(o)]
    BY ZenonT(60), <1>2, ConcatProperties
  <1>4. All(o, p, b) = s
    BY DEF All, c
  <1> HIDE DEF s, n, m
  <1>5. Len(s) = n + m /\ \A i \in 1..(n + m) : s[i] = IF i <= n THEN o[i] ELSE c[i - n]
    BY <1>2, <1>3 DEF n
  <1>6. \A i \in 1..n : s[i] = o[i]
    <2>1. \A i \in 1..n : i \in 1..(n + m) /\ i <= n
      BY <1>1
    <2> QED BY <1>5, <2>1
  <1>7. ASSUME NEW i \in 1..(n + m), i \notin 1..n
        PROVE  i - n \in 1..m /\ s[i] = <<p, b[i - n]>>
    <2>1. ~(i <= n) /\ i - n \in 1..m
      BY <1>1, <1>7
    <2> QED BY <1>2, <1>5, <2>1
  <1>8. ASSUME NEW i \in 1..m PROVE s[n + i] = <<p, b[i]>>
    <2>1. n + i \in 1..(n + m) /\ n + i \notin 1..n /\ (n + i) - n = i
      BY <1>1
    <2> DEFINE k == n + i
    <2>2. k \in 1..(n + m) /\ k \notin 1..n /\ k - n = i
      BY <2>1
    <2> HIDE DEF k
    <2>3. s[k] = <<p, b[i]>>
      BY <1>7, <2>2
    <2> QED BY <2>3 DEF k
  <1> QED BY <1>1, <1>3, <1>4, <1>5, <1>6, <1>7, <1>8 DEF n, m

LEMMA MarksAre ==
  ASSUME NEW p \in LogProcesses, NEW o \in Seq(LogProcesses \X Log!Piece), NEW b \in Seq(Log!Piece), NEW x
  PROVE  /\ Marks(o, p, b, x) \in SUBSET Nat
         /\ \A i : i \in Marks(o, p, b, x) <=> /\ i \in 1..(Len(o) + Len(b))
                                               /\ All(o, p, b)[i][1] = p
                                               /\ All(o, p, b)[i][2][1] \notin x
  <1>1. Len(All(o, p, b)) = Len(o) + Len(b) /\ Len(o) \in Nat /\ Len(b) \in Nat
    BY AllIs
  <1>2. \A i \in 1..(Len(o) + Len(b)) : i \in Nat
    BY <1>1
  <1> QED BY <1>1, <1>2 DEF Marks, Log!PlacesOf

(* What is behind everything else is a piece more.                         *)
GrownBy(s, places, t, others, piece) ==
    \E n \in Nat : /\ others = places \cup {n}
                   /\ \A i \in places : i < n /\ t[i] = s[i]
                   /\ t[n][2] = piece

(* A piece put into the buffer.                                            *)
LEMMA PiecePut ==
  ASSUME NEW p \in LogProcesses, NEW o \in Seq(LogProcesses \X Log!Piece), NEW b \in Seq(Log!Piece), NEW x,
         NEW piece \in Log!Piece, piece[1] \notin x
  PROVE  GrownBy(All(o, p, b), Marks(o, p, b, x),
                 All(o, p, Append(b, piece)), Marks(o, p, Append(b, piece), x), piece)
  <1> DEFINE c == Append(b, piece)
             N == Len(o)
             m == Len(b)
             s == All(o, p, b)
             t == All(o, p, c)
             n == N + m + 1
  <1>1. /\ c \in Seq(Log!Piece) /\ Len(c) = m + 1 /\ c[m + 1] = piece
        /\ \A i \in 1..m : c[i] = b[i]
    BY AppendProperties
  <1>2. /\ N \in Nat /\ m \in Nat
        /\ \A i \in 1..N : s[i] = o[i] /\ t[i] = o[i]
        /\ \A i \in 1..m : s[N + i] = <<p, b[i]>>
        /\ \A i \in 1..Len(c) : t[N + i] = <<p, c[i]>>
    <2>1. c \in Seq(Log!Piece)
      BY <1>1
    <2> HIDE DEF c
    <2>2. /\ N \in Nat /\ m \in Nat /\ \A i \in 1..N : s[i] = o[i]
          /\ \A i \in 1..m : s[N + i] = <<p, b[i]>>
      BY SMTT(30), AllIs
    <2>3. /\ \A i \in 1..N : t[i] = o[i]
          /\ \A i \in 1..Len(c) : t[N + i] = <<p, c[i]>>
      BY SMTT(30), <2>1, AllIs
    <2> HIDE DEF s, t, N, m
    <2> QED BY <2>2, <2>3
  <1>3. /\ \A i : i \in Marks(o, p, b, x) <=> i \in 1..(N + m) /\ s[i][1] = p /\ s[i][2][1] \notin x
        /\ \A i : i \in Marks(o, p, c, x) <=> i \in 1..(N + Len(c)) /\ t[i][1] = p /\ t[i][2][1] \notin x
    <2> HIDE DEF c
    <2> QED BY <1>1, MarksAre
  <1> HIDE DEF c, s, t, N, m, n
  <1>4. N + Len(c) = n /\ n \in Nat /\ \A i : i \in 1..n <=> i \in 1..(N + m) \/ i = n
    <2>1. N \in Nat /\ m \in Nat /\ Len(c) = m + 1
      BY <1>1, <1>2
    <2>2. N + Len(c) = n /\ n \in Nat
      BY <2>1 DEF n
    <2>3. \A i : i \in 1..n <=> i \in 1..(N + m) \/ i = n
      <3> DEFINE K == N + m
      <3>1. K \in Nat /\ n = K + 1
        BY <2>1 DEF n
      <3> HIDE DEF K
      <3>2. \A i \in Int : i \in 1..n <=> i \in 1..K \/ i = n
        BY <3>1
      <3>3. \A i : i \in 1..n \/ i \in 1..K \/ i = n => i \in Int
        BY <3>1
      <3> QED BY <3>2, <3>3 DEF K
    <2> QED BY <2>2, <2>3
  <1>5. t[n] = <<p, piece>>
    <2>1. m + 1 \in 1..Len(c) /\ N + (m + 1) = n
      BY <1>1, <1>2 DEF n
    <2>2. t[N + (m + 1)] = <<p, c[m + 1]>>
      BY <1>2, <2>1
    <2> QED BY <1>1, <2>1, <2>2
  <1>6. ASSUME NEW i \in 1..(N + m) PROVE i < n /\ t[i] = s[i]
    <2>1. i < n
      BY <1>2 DEF n
    <2>2. CASE i \in 1..N
      BY <1>2, <2>1, <2>2
    <2>3. CASE i \notin 1..N
      <3> DEFINE k == i - N
      <3>1. k \in 1..m /\ k \in 1..Len(c) /\ N + k = i
        BY <1>1, <1>2, <2>3
      <3> HIDE DEF k
      <3>2. s[N + k] = <<p, b[k]>> /\ t[N + k] = <<p, c[k]>> /\ c[k] = b[k]
        BY <1>1, <1>2, <3>1
      <3> QED BY <2>1, <3>1, <3>2
    <2> QED BY <2>2, <2>3
  <1>7. t[n][1] = p /\ t[n][2] = piece
    BY <1>5
  <1>8. \A i : i \in Marks(o, p, c, x) <=> i \in Marks(o, p, b, x) \/ i = n
    BY <1>3, <1>4, <1>6, <1>7
  <1>9. Marks(o, p, c, x) = Marks(o, p, b, x) \cup {n}
    BY <1>8
  <1>10. \A i \in Marks(o, p, b, x) : i < n /\ t[i] = s[i]
    BY <1>3, <1>6
  <1> QED BY <1>4, <1>7, <1>9, <1>10 DEF c, s, t, GrownBy

(* A process with an empty buffer.                                         *)
LEMMA NothingToWrite ==
  ASSUME NEW p \in LogProcesses, NEW o \in Seq(LogProcesses \X Log!Piece)
  PROVE  All(o, p, <<>>) = o
  <1>1. <<>> \in Seq(Log!Piece) /\ Len(<<>>) = 0
    OBVIOUS
  <1>2. Log!From(p, <<>>) \in Seq(LogProcesses \X Log!Piece) /\ Len(Log!From(p, <<>>)) = 0
    BY <1>1, FromIs
  <1>3. Log!From(p, <<>>) = <<>>
    BY <1>2, EmptySeq
  <1> QED BY <1>3, ConcatEmptySeq DEF All

(* A buffer written by its process.                                        *)
LEMMA Flushed ==
  ASSUME NEW p \in LogProcesses, NEW o \in Seq(LogProcesses \X Log!Piece), NEW b \in Seq(Log!Piece)
  PROVE  All(o \o Log!From(p, b), p, <<>>) = All(o, p, b)
  <1>1. All(o, p, b) \in Seq(LogProcesses \X Log!Piece)
    BY AllIs
  <1> QED BY <1>1, NothingToWrite DEF All

(* A buffer written by another process.                                    *)
LEMMA WrittenByAnother ==
  ASSUME NEW p \in LogProcesses, NEW q \in LogProcesses, p # q,
         NEW o \in Seq(LogProcesses \X Log!Piece), NEW b \in Seq(Log!Piece), NEW c \in Seq(Log!Piece), NEW x,
         NEW piece
  PROVE  LET o2 == o \o Log!From(q, c)
         IN  /\ Log!Alternate(All(o, p, b), Marks(o, p, b, x))
                  => Log!Alternate(All(o2, p, b), Marks(o2, p, b, x))
             /\ Ends(All(o, p, b), Marks(o, p, b, x)) => Ends(All(o2, p, b), Marks(o2, p, b, x))
             /\ EndsWith(All(o, p, b), Marks(o, p, b, x), piece)
                  => EndsWith(All(o2, p, b), Marks(o2, p, b, x), piece)
  <1> DEFINE o2 == All(o, q, c)
             s == All(o, p, b)
             t == All(o2, p, b)
             N == Len(o)
             m == Len(b)
             k == Len(c)
             P == Marks(o, p, b, x)
             Q == Marks(o2, p, b, x)
             f == [i \in Nat |-> IF i <= N THEN i ELSE i + k]
  <1>1. /\ N \in Nat /\ m \in Nat /\ k \in Nat
        /\ o2 \in Seq(LogProcesses \X Log!Piece) /\ Len(o2) = N + k
        /\ \A i \in 1..N : o2[i] = o[i]
        /\ \A i \in 1..k : o2[N + i] = <<q, c[i]>>
    BY AllIs
  <1>2. /\ \A i \in 1..N : s[i] = o[i]
        /\ \A i \in 1..m : s[N + i] = <<p, b[i]>>
    BY AllIs
  <1> HIDE DEF o2
  <1>3. /\ \A i \in 1..(N + k) : t[i] = o2[i]
        /\ \A i \in 1..m : t[(N + k) + i] = <<p, b[i]>>
    <2>1. o2 \in Seq(LogProcesses \X Log!Piece)
      BY <1>1
    <2>2. /\ \A i \in 1..Len(o2) : t[i] = o2[i]
          /\ \A i \in 1..m : t[Len(o2) + i] = <<p, b[i]>>
      BY <2>1, AllIs
    <2>3. Len(o2) = N + k
      BY <1>1
    <2> HIDE DEF t, m, N, k
    <2> QED BY <2>2, <2>3
  <1>4. /\ P \in SUBSET Nat /\ Q \in SUBSET Nat
        /\ \A i : i \in P <=> i \in 1..(N + m) /\ s[i][1] = p /\ s[i][2][1] \notin x
        /\ \A i : i \in Q <=> i \in 1..((N + k) + m) /\ t[i][1] = p /\ t[i][2][1] \notin x
    BY SMTT(30), <1>1, MarksAre
  <1> HIDE DEF s, t, N, m, k, P, Q
  <1>5. /\ \A i \in 1..N : f[i] = i /\ i \in Nat /\ i \in 1..(N + k) /\ i \in 1..((N + k) + m)
        /\ \A i \in 1..m : /\ f[N + i] = (N + k) + i /\ N + i \in Nat
                           /\ N + i \in 1..(N + m) /\ (N + k) + i \in 1..((N + k) + m)
        /\ \A i \in 1..(N + m) : i \in 1..N \/ \E j \in 1..m : i = N + j
        /\ \A i \in 1..((N + k) + m) :
             \/ i \in 1..N \/ \E j \in 1..m : i = (N + k) + j
             \/ \E j \in 1..k : i = N + j
    <2>1. \A i \in 1..N : f[i] = i /\ i \in Nat /\ i \in 1..(N + k) /\ i \in 1..((N + k) + m)
      BY <1>1
    <2>2. \A i \in 1..m : /\ f[N + i] = (N + k) + i /\ N + i \in Nat
                          /\ N + i \in 1..(N + m) /\ (N + k) + i \in 1..((N + k) + m)
      BY <1>1
    <2>3. ASSUME NEW i \in 1..(N + m) PROVE i \in 1..N \/ \E j \in 1..m : i = N + j
      <3>1. i \notin 1..N => i - N \in 1..m /\ i = N + (i - N)
        BY <1>1
      <3> QED BY <3>1
    <2>4. ASSUME NEW i \in 1..((N + k) + m)
          PROVE  \/ i \in 1..N \/ \E j \in 1..m : i = (N + k) + j
                 \/ \E j \in 1..k : i = N + j
      <3>1. CASE i \in 1..N
        BY <3>1
      <3>2. CASE i \notin 1..N /\ i <= N + k
        <4>1. i - N \in 1..k /\ i = N + (i - N)
          BY <1>1, <3>2
        <4> QED BY <4>1
      <3>3. CASE ~(i <= N + k)
        <4>1. i - (N + k) \in 1..m /\ i = (N + k) + (i - (N + k))
          BY <1>1, <3>3
        <4> QED BY <4>1
      <3> QED BY <3>1, <3>2, <3>3
    <2> HIDE DEF f
    <2> QED BY <2>1, <2>2, <2>3, <2>4
  <1>6. \A i \in 1..(N + m) : f[i] \in 1..((N + k) + m) /\ t[f[i]] = s[i]
    <2> SUFFICES ASSUME NEW i \in 1..(N + m) PROVE f[i] \in 1..((N + k) + m) /\ t[f[i]] = s[i]
      OBVIOUS
    <2>1. CASE i \in 1..N
      <3> HIDE DEF f
      <3>1. f[i] = i /\ i \in 1..(N + k) /\ i \in 1..((N + k) + m)
        BY <1>5, <2>1
      <3>2. t[i] = o2[i] /\ o2[i] = o[i] /\ s[i] = o[i]
        BY <1>1, <1>2, <1>3, <2>1, <3>1
      <3> QED BY <3>1, <3>2
    <2>2. CASE \E j \in 1..m : i = N + j
      <3> HIDE DEF f
      <3>1. PICK j \in 1..m : i = N + j
        BY <2>2
      <3>2. f[i] = (N + k) + j /\ (N + k) + j \in 1..((N + k) + m)
        BY <1>5, <3>1
      <3>3. t[(N + k) + j] = <<p, b[j]>> /\ s[N + j] = <<p, b[j]>>
        BY <1>2, <1>3
      <3> QED BY <3>1, <3>2, <3>3
    <2> HIDE DEF f
    <2> QED BY <1>5, <2>1, <2>2
  <1>7. \A i \in P : f[i] \in Q /\ t[f[i]][2] = s[i][2]
    <2> HIDE DEF f
    <2> QED BY SMTT(30), <1>4, <1>6
  <1>8. \A i, j \in P : i < j <=> f[i] < f[j]
    BY <1>1, <1>4
  <1>9. \A j \in Q : \E i \in P : j = f[i]
    <2> SUFFICES ASSUME NEW j \in Q PROVE \E i \in P : j = f[i]
      OBVIOUS
    <2>0. j \in 1..((N + k) + m) /\ t[j][1] = p /\ t[j][2][1] \notin x
      BY <1>4
    <2> HIDE DEF f
    <2>1. CASE j \in 1..N
      <3>0. j \in 1..(N + k) /\ j \in 1..(N + m)
        BY <1>1, <2>1
      <3>1. f[j] = j /\ j \in 1..(N + k) /\ j \in 1..(N + m)
        BY <1>5, <2>1, <3>0
      <3>2. t[j] = s[j]
        BY <1>6, <3>1
      <3> QED BY <1>4, <2>0, <3>1, <3>2
    <2>2. CASE \E a \in 1..m : j = (N + k) + a
      <3>1. PICK a \in 1..m : j = (N + k) + a
        BY <2>2
      <3>2. f[N + a] = j /\ N + a \in 1..(N + m)
        BY <1>5, <3>1
      <3>3. t[j] = s[N + a]
        BY <1>6, <3>2
      <3> QED BY <1>4, <2>0, <3>2, <3>3
    <2>3. CASE \E a \in 1..k : j = N + a
      <3>1. PICK a \in 1..k : j = N + a
        BY <2>3
      <3>2. j \in 1..(N + k)
        BY <1>1, <3>1
      <3>3. t[j] = <<q, c[a]>>
        BY <1>1, <1>3, <3>1, <3>2
      <3> QED BY <2>0, <3>3
    <2> QED BY <1>5, <2>0, <2>1, <2>2, <2>3
  <1> HIDE DEF f
  <1>10. /\ Log!Alternate(s, P) => Log!Alternate(t, Q)
         /\ Ends(s, P) => Ends(t, Q)
         /\ EndsWith(s, P, piece) => EndsWith(t, Q, piece)
    BY <1>4, <1>7, <1>8, <1>9, Moved
  <1>11. o2 = o \o Log!From(q, c)
    BY DEF o2, All
  <1> QED BY <1>10, <1>11 DEF s, t, P, Q

LEMMA LogTypes ==
  ASSUME Log!TypeOK
  PROVE  /\ out \in Seq(LogProcesses \X Log!Piece) /\ Len(out) \in Nat
         /\ \A i \in 1..Len(out) : out[i] \in LogProcesses \X Log!Piece
         /\ \A p \in LogProcesses :
              /\ buffer[p] \in Seq(Log!Piece) /\ Len(buffer[p]) \in Nat
              /\ \A i \in 1..Len(buffer[p]) : buffer[p][i] \in Log!Piece
         /\ \A w \in Log!Writers : w[1] \in LogProcesses /\ w = <<w[1], w[2]>> /\ line[w] \in Nat
         /\ logged \in Nat
  <1>1. out \in Seq(LogProcesses \X Log!Piece)
    BY DEF Log!TypeOK
  <1>2. Len(out) \in Nat /\ \A i \in 1..Len(out) : out[i] \in LogProcesses \X Log!Piece
    BY <1>1, LenProperties, ElementOfSeq
  <1>3. ASSUME NEW p \in LogProcesses
        PROVE  /\ buffer[p] \in Seq(Log!Piece) /\ Len(buffer[p]) \in Nat
               /\ \A i \in 1..Len(buffer[p]) : buffer[p][i] \in Log!Piece
    <2>1. buffer[p] \in Seq(Log!Piece)
      BY DEF Log!TypeOK
    <2> QED BY <2>1, LenProperties, ElementOfSeq
  <1>4. ASSUME NEW w \in Log!Writers
        PROVE  w[1] \in LogProcesses /\ w = <<w[1], w[2]>> /\ line[w] \in 0..MaxLogLines
    BY DEF Log!TypeOK, Log!Writers
  <1>5. logged \in 0..MaxLogLines
    BY DEF Log!TypeOK
  <1>6. \A n \in 0..MaxLogLines : n \in Nat
    OBVIOUS
  <1> QED BY <1>1, <1>2, <1>3, <1>4, <1>5, <1>6

LEMMA InTermsOfAll ==
  ASSUME NEW p \in LogProcesses
  PROVE  /\ Log!Everything(p) = All(out, p, buffer[p])
         /\ Places(p) = Marks(out, p, buffer[p], copied)
         /\ Log!Everything(p)' = All(out', p, buffer'[p])
         /\ Places(p)' = Marks(out', p, buffer'[p], copied')
  BY DEF Log!Everything, Places, All, Marks

(* Who neither puts a piece into the buffer nor loses one.                 *)
LEMMA WrittenAsBefore ==
  ASSUME Log!TypeOK, NEW p \in LogProcesses, WrittenBy(p), copied' = copied,
         \/ All(out', p, buffer'[p]) = All(out, p, buffer[p])
         \/ /\ buffer'[p] = buffer[p]
            /\ \E q \in LogProcesses \ {p}, c \in Seq(Log!Piece) : out' = out \o Log!From(q, c),
         logAt'[<<p, 1>>] # "gone" => logAt[<<p, 1>>] # "gone",
         \A w \in Log!Writers : w[1] = p =>
           (logAt'[w] = "sep" <=> logAt[w] = "sep") /\ (logAt[w] = "sep" => line'[w] = line[w])
  PROVE  WrittenBy(p)'
  <1> DEFINE s == All(out, p, buffer[p])
             t == All(out', p, buffer'[p])
             P == Marks(out, p, buffer[p], copied)
             Q == Marks(out', p, buffer'[p], copied')
  <1>1. /\ Log!Alternate(s, P)
        /\ logAt[<<p, 1>>] # "gone" /\ (\A w \in Log!Writers : w[1] = p => logAt[w] # "sep")
             => Ends(s, P)
        /\ \A w \in Log!Writers : w[1] = p /\ logAt[w] = "sep" => EndsWith(s, P, <<line[w], "text">>)
    BY InTermsOfAll DEF WrittenBy
  <1>2. /\ Log!Alternate(s, P) => Log!Alternate(t, Q)
        /\ Ends(s, P) => Ends(t, Q)
        /\ \A piece : EndsWith(s, P, piece) => EndsWith(t, Q, piece)
    <2>1. CASE t = s
      <3>1. Q = P
        BY <2>1 DEF Marks
      <3> HIDE DEF s, t, P, Q
      <3> QED BY <2>1, <3>1
    <2>2. CASE /\ buffer'[p] = buffer[p]
               /\ \E q \in LogProcesses \ {p}, c \in Seq(Log!Piece) : out' = out \o Log!From(q, c)
      <3>1. PICK q \in LogProcesses, c \in Seq(Log!Piece) : q # p /\ out' = out \o Log!From(q, c)
        BY <2>2
      <3>2. out \in Seq(LogProcesses \X Log!Piece) /\ buffer[p] \in Seq(Log!Piece)
        BY LogTypes
      <3> DEFINE o2 == out \o Log!From(q, c)
      <3>3. ASSUME NEW piece
            PROVE  /\ Log!Alternate(s, P) => Log!Alternate(All(o2, p, buffer[p]), Marks(o2, p, buffer[p], copied))
                   /\ Ends(s, P) => Ends(All(o2, p, buffer[p]), Marks(o2, p, buffer[p], copied))
                   /\ EndsWith(s, P, piece)
                        => EndsWith(All(o2, p, buffer[p]), Marks(o2, p, buffer[p], copied), piece)
        BY <3>1, <3>2, WrittenByAnother
      <3>4. t = All(o2, p, buffer[p]) /\ Q = Marks(o2, p, buffer[p], copied)
        BY <2>2, <3>1
      <3> HIDE DEF s, t, P, Q, o2
      <3> QED BY <3>3, <3>4
    <2> QED BY <2>1, <2>2
  <1>3. /\ Log!Everything(p)' = t /\ Places(p)' = Q
    BY InTermsOfAll
  <1> HIDE DEF s, t, P, Q
  <1>4. logAt'[<<p, 1>>] # "gone" /\ (\A w \in Log!Writers : w[1] = p => logAt'[w] # "sep") => Ends(t, Q)
    BY <1>1, <1>2
  <1>5. \A w \in Log!Writers : w[1] = p /\ logAt'[w] = "sep" => EndsWith(t, Q, <<line'[w], "text">>)
    BY <1>1, <1>2
  <1> QED BY <1>1, <1>2, <1>3, <1>4, <1>5 DEF WrittenBy

LEMMA WrittenByAll ==
  ASSUME Log!TypeOK, WrittenByEach, copied' = copied,
         \/ out' = out /\ buffer' = buffer
         \/ \E q \in LogProcesses, c \in Seq(Log!Piece) :
              /\ out' = out \o Log!From(q, c)
              /\ \A p \in LogProcesses \ {q} : buffer'[p] = buffer[p]
              /\ All(out', q, buffer'[q]) = All(out, q, buffer[q]),
         \A p \in LogProcesses : logAt'[<<p, 1>>] # "gone" => logAt[<<p, 1>>] # "gone",
         \A w \in Log!Writers :
           (logAt'[w] = "sep" <=> logAt[w] = "sep") /\ (logAt[w] = "sep" => line'[w] = line[w])
  PROVE  WrittenByEach'
  <1>1. ASSUME NEW p \in LogProcesses PROVE WrittenBy(p)'
    <2>1. \/ All(out', p, buffer'[p]) = All(out, p, buffer[p])
          \/ /\ buffer'[p] = buffer[p]
             /\ \E q \in LogProcesses \ {p}, c \in Seq(Log!Piece) : out' = out \o Log!From(q, c)
      <3>1. CASE out' = out /\ buffer' = buffer
        BY <3>1
      <3>2. ASSUME NEW q \in LogProcesses, NEW c \in Seq(Log!Piece),
                   out' = out \o Log!From(q, c),
                   \A r \in LogProcesses \ {q} : buffer'[r] = buffer[r],
                   All(out', q, buffer'[q]) = All(out, q, buffer[q])
            PROVE  <2>1!:
        <4>1. CASE p = q
          BY <3>2, <4>1
        <4>2. CASE p # q
          BY <3>2, <4>2
        <4> QED BY <4>1, <4>2
      <3> QED BY <3>1, <3>2
    <2>2. WrittenBy(p)
      BY DEF WrittenByEach
    <2> HIDE DEF WrittenByEach
    <2> QED BY <2>1, <2>2, WrittenAsBefore
  <1> QED BY <1>1 DEF WrittenByEach

LEMMA Running ==
  ASSUME Log!TypeOK, Guarded, NEW p \in LogProcesses
  PROVE  /\ \A w \in Log!Writers : w[1] = p => w = <<p, 1>> \/ w = <<p, 2>>
         /\ \A w \in Log!Writers : w[1] = p /\ logAt[w] \notin {"none", "gone"}
              => logAt[<<p, 1>>] \notin {"none", "gone"}
         /\ Log!Alive(p) => logAt[<<p, 1>>] \notin {"none", "gone"}
  <1>1. \A w \in Log!Writers : w[1] = p => w = <<p, 1>> \/ w = <<p, 2>>
    BY DEF Log!Writers
  <1>2. \A w \in Log!Writers : w[1] = p /\ logAt[w] \notin {"none", "gone"}
              => logAt[<<p, 1>>] \notin {"none", "gone"}
    BY <1>1 DEF Guarded
  <1> QED BY <1>1, <1>2 DEF Log!Alive, Log!Threads

LEMMA LogMessageKeeps ==
  ASSUME LogInv, Log!LoggerAssumption, NEW w \in Log!Writers, Log!LogMessage(w)
  PROVE  LogInv'
  <1>1. /\ Log!TypeOK /\ Numbered /\ Guarded /\ NothingEarly /\ OwnLine
        /\ FileWhole /\ WrittenByEach /\ Once /\ NoneMissing
    BY DEF LogInv
  <1>2. /\ logAt[w] = "idle" /\ logged < MaxLogLines /\ logged' = logged + 1
        /\ line' = [line EXCEPT ![w] = logged + 1] /\ logAt' = [logAt EXCEPT ![w] = "lock"]
        /\ UNCHANGED <<strategy, logMutex, buffer, out, synced, dropped, copied, logFaults>>
    BY DEF Log!LogMessage, Log!Go
  <1>3. MaxLogLines \in Nat /\ logged \in 0..MaxLogLines /\ logged + 1 \in 0..MaxLogLines
        /\ \A n \in Nat : n <= logged => n <= logged + 1 /\ n # logged + 1
    <2>1. MaxLogLines \in Nat /\ logged \in 0..MaxLogLines
      BY <1>1 DEF Log!TypeOK, Log!LoggerAssumption
    <2> QED BY <1>2, <2>1
  <1>4. /\ logAt'[w] = "lock" /\ line'[w] = logged + 1
        /\ \A v \in Log!Writers : v # w => logAt'[v] = logAt[v] /\ line'[v] = line[v]
    BY <1>1, <1>2 DEF Log!TypeOK
  <1>5. Log!TypeOK'
    BY <1>1, <1>2, <1>3 DEF Log!TypeOK
  <1>6. Numbered'
    <2>1. ASSUME NEW v \in Log!Writers PROVE line'[v] <= logged'
      <3>1. line[v] \in Nat /\ line[v] <= logged
        BY <1>1, LogTypes DEF Numbered
      <3>2. CASE v = w
        BY <1>2, <1>3, <1>4, <3>2
      <3>3. CASE v # w
        BY <1>2, <1>3, <1>4, <3>1, <3>3
      <3> QED BY <3>2, <3>3
    <2>2. \A i \in 1..Len(out) : out[i][2][1] <= logged'
      <3>1. \A i \in 1..Len(out) : out[i][2][1] \in Nat /\ out[i][2][1] <= logged
        BY <1>1, LogTypes DEF Numbered, Log!Piece
      <3> QED BY <1>2, <1>3, <3>1
    <2>3. \A p \in LogProcesses : \A i \in 1..Len(buffer[p]) : buffer[p][i][1] <= logged'
      <3>1. \A p \in LogProcesses : \A i \in 1..Len(buffer[p]) :
               buffer[p][i][1] \in Nat /\ buffer[p][i][1] <= logged
        BY <1>1, LogTypes DEF Numbered, Log!Piece
      <3> QED BY <1>2, <1>3, <3>1
    <2>4. synced \cup dropped \cup copied \subseteq 1..logged'
      BY <1>1, <1>2, <1>3 DEF Numbered
    <2> QED BY <1>2, <2>1, <2>2, <2>3, <2>4 DEF Numbered
  <1>7. Guarded' /\ NothingEarly'
    <2>1. \A p \in LogProcesses : <<p, 1>> \in Log!Writers /\ <<p, 2>> \in Log!Writers
      BY DEF Log!Writers
    <2>2. ASSUME NEW p \in LogProcesses
          PROVE  /\ logAt'[<<p, 1>>] \in {"none", "gone"} => logAt'[<<p, 2>>] \in {"none", "gone"}
                 /\ logAt'[<<p, 1>>] = "none" => logAt'[<<p, 2>>] = logAt[<<p, 2>>] /\ logAt[<<p, 1>>] = "none"
      <3>1. logAt[<<p, 2>>] \notin {"none", "gone"} => logAt[<<p, 1>>] \notin {"none", "gone"}
        BY <1>1 DEF Guarded
      <3> QED BY <1>1, <1>2, <1>4, <2>1, <3>1 DEF Guarded, NothingEarly
    <2>3. \A v \in Log!Writers : logAt'[v] \in {"text", "sep"} => logMutex'[v[1]] = v
      BY <1>1, <1>2, <1>4 DEF Guarded
    <2> QED BY <1>1, <1>2, <2>2, <2>3 DEF Guarded, NothingEarly
  <1>8. OwnLine'
    <2>1. \A v \in Log!Writers : v # w => line[v] # logged + 1
      <3>1. \A v \in Log!Writers : line[v] \in Nat /\ line[v] <= logged
        BY <1>1, LogTypes DEF Numbered
      <3> QED BY <1>3, <3>1
    <2>2. \A i \in 1..Len(out) : out[i][2][1] # logged + 1
      <3>1. \A i \in 1..Len(out) : out[i][2][1] \in Nat /\ out[i][2][1] <= logged
        BY <1>1, LogTypes DEF Numbered, Log!Piece
      <3> QED BY <1>3, <3>1
    <2>3. \A p \in LogProcesses : ~Has(buffer[p], logged + 1)
      <3>1. \A p \in LogProcesses : \A i \in 1..Len(buffer[p]) :
               buffer[p][i][1] \in Nat /\ buffer[p][i][1] <= logged
        BY <1>1, LogTypes DEF Numbered, Log!Piece
      <3> QED BY <1>3, <3>1 DEF Has
    <2>4. logged + 1 >= 1 /\ logged + 1 \notin copied \cup dropped
      BY <1>1, <1>3 DEF Numbered
    <2>5. \A v \in Log!Writers : Active(v)' /\ v # w => Active(v) /\ line'[v] = line[v]
      BY <1>4 DEF Active
    <2>6. \A v \in Log!Writers : Active(v)' => line'[v] >= 1 /\ line'[v] \notin copied \cup dropped
      BY <1>1, <1>4, <2>4, <2>5 DEF OwnLine
    <2>7. \A u, v \in Log!Writers : Active(u)' /\ Active(v)' /\ line'[u] = line'[v] => u = v
      BY <1>1, <1>4, <2>1, <2>5 DEF OwnLine
    <2>8. \A v \in Log!Writers : logAt'[v] \in {"lock", "text"} =>
            /\ \A i \in 1..Len(out) : out[i][2][1] # line'[v]
            /\ \A p \in LogProcesses : ~Has(buffer[p], line'[v])
      BY <1>1, <1>4, <2>2, <2>3 DEF OwnLine
    <2>9. \A v \in Log!Writers : logAt'[v] = "sep" =>
            \A p \in LogProcesses : p # v[1] => ~Has(buffer[p], line'[v])
      BY <1>1, <1>4 DEF OwnLine
    <2> QED BY <1>2, <2>6, <2>7, <2>8, <2>9 DEF OwnLine
  <1>9. FileWhole'
    BY <1>1, <1>2, <1>4 DEF FileWhole
  <1>10. WrittenByEach'
    <2>1. \A v \in Log!Writers :
            (logAt'[v] = "sep" <=> logAt[v] = "sep") /\ (logAt[v] = "sep" => line'[v] = line[v])
      BY <1>2, <1>4
    <2>2. \A p \in LogProcesses : logAt'[<<p, 1>>] # "gone" => logAt[<<p, 1>>] # "gone"
      BY <1>1, <1>2, <1>4 DEF Log!TypeOK, Log!Writers
    <2> QED BY <1>1, <1>2, <2>1, <2>2, WrittenByAll
  <1>11. Once' /\ NoneMissing'
    <2>1. \A v \in Log!Writers : logAt'[v] = "sep" => logAt[v] = "sep" /\ line'[v] = line[v]
      BY <1>4
    <2>2. \A l : InPlace(l)' <=> InPlace(l)
      BY <1>2 DEF InPlace
    <2>3. NoneMissing'
      BY <1>1, <1>2, <2>1, <2>2 DEF NoneMissing
    <2> QED BY <1>1, <1>2, <2>3 DEF Once
  <1> QED BY <1>5, <1>6, <1>7, <1>8, <1>9, <1>10, <1>11 DEF LogInv

(* A writer that takes the mutex, or gives its line up.                    *)
LEMMA NothingLogged ==
  ASSUME LogInv, UNCHANGED <<strategy, line, buffer, out, logged, synced, dropped, copied>>,
         logAt' \in [Log!Writers -> {"none", "idle", "lock", "text", "sep", "gone"}],
         \A v \in Log!Writers :
           logAt'[v] = logAt[v] \/ (logAt[v] \in {"lock", "text"} /\ logAt'[v] \in {"text", "idle"})
  PROVE  /\ Numbered' /\ NothingEarly' /\ OwnLine' /\ FileWhole' /\ WrittenByEach' /\ Once' /\ NoneMissing'
         /\ \A p \in LogProcesses :
              logAt'[<<p, 1>>] \in {"none", "gone"} => logAt'[<<p, 2>>] \in {"none", "gone"}
  <1>1. /\ Log!TypeOK /\ Numbered /\ Guarded /\ NothingEarly /\ OwnLine
        /\ FileWhole /\ WrittenByEach /\ Once /\ NoneMissing
    BY DEF LogInv
  <1>2. \A v \in Log!Writers : /\ logAt'[v] = "sep" <=> logAt[v] = "sep"
                               /\ logAt'[v] \in {"lock", "text"} => logAt[v] \in {"lock", "text"}
                               /\ Active(v)' => Active(v)
                               /\ logAt'[v] = "none" <=> logAt[v] = "none"
                               /\ logAt'[v] = "gone" <=> logAt[v] = "gone"
    BY DEF Active
  <1>3. \A p \in LogProcesses : <<p, 1>> \in Log!Writers /\ <<p, 2>> \in Log!Writers
    BY DEF Log!Writers
  <1>4. Numbered' /\ Once'
    BY <1>1 DEF Numbered, Once
  <1>5. NothingEarly' /\ \A p \in LogProcesses :
              logAt'[<<p, 1>>] \in {"none", "gone"} => logAt'[<<p, 2>>] \in {"none", "gone"}
    BY <1>1, <1>2, <1>3 DEF NothingEarly, Guarded
  <1>6. OwnLine'
    <2>1. \A v \in Log!Writers : Active(v)' => line'[v] >= 1 /\ line'[v] \notin copied' \cup dropped'
      BY <1>1, <1>2 DEF OwnLine
    <2>2. \A u, v \in Log!Writers : Active(u)' /\ Active(v)' /\ line'[u] = line'[v] => u = v
      BY <1>1, <1>2 DEF OwnLine
    <2>3. \A v \in Log!Writers : logAt'[v] \in {"lock", "text"} =>
            /\ \A i \in 1..Len(out') : out'[i][2][1] # line'[v]
            /\ \A p \in LogProcesses : ~Has(buffer'[p], line'[v])
      BY <1>1, <1>2 DEF OwnLine
    <2>4. \A v \in Log!Writers : logAt'[v] = "sep" =>
            \A p \in LogProcesses : p # v[1] => ~Has(buffer'[p], line'[v])
      BY <1>1, <1>2 DEF OwnLine
    <2> QED BY <2>1, <2>2, <2>3, <2>4 DEF OwnLine
  <1>7. FileWhole'
    BY <1>1, <1>2 DEF FileWhole
  <1>8. WrittenByEach'
    BY <1>1, <1>2, <1>3, WrittenByAll
  <1>9. NoneMissing'
    <2>1. \A l : InPlace(l)' <=> InPlace(l)
      BY DEF InPlace
    <2> QED BY <1>1, <1>2, <2>1 DEF NoneMissing
  <1> QED BY <1>4, <1>5, <1>6, <1>7, <1>8, <1>9

LEMMA LockKeeps ==
  ASSUME LogInv, Log!LoggerAssumption, NEW w \in Log!Writers, Log!Lock(w)
  PROVE  LogInv'
  <1>1. Log!TypeOK /\ Guarded
    BY DEF LogInv
  <1>2. /\ logAt[w] = "lock" /\ logMutex[w[1]] = Nobody
        /\ logMutex' = [logMutex EXCEPT ![w[1]] = w] /\ logAt' = [logAt EXCEPT ![w] = "text"]
        /\ UNCHANGED <<strategy, line, buffer, out, logged, synced, dropped, copied, logFaults>>
    BY DEF Log!Lock, Log!Unlocked, Log!Go
  <1>3. /\ logAt'[w] = "text" /\ \A v \in Log!Writers : v # w => logAt'[v] = logAt[v]
        /\ logAt' \in [Log!Writers -> {"none", "idle", "lock", "text", "sep", "gone"}]
    BY <1>1, <1>2 DEF Log!TypeOK
  <1>4. /\ Numbered' /\ NothingEarly' /\ OwnLine' /\ FileWhole' /\ WrittenByEach' /\ Once' /\ NoneMissing'
        /\ \A p \in LogProcesses :
             logAt'[<<p, 1>>] \in {"none", "gone"} => logAt'[<<p, 2>>] \in {"none", "gone"}
    BY <1>2, <1>3, NothingLogged
  <1>5. Log!TypeOK'
    BY <1>1, <1>2, <1>3 DEF Log!TypeOK
  <1>6. \A v \in Log!Writers : logAt'[v] \in {"text", "sep"} => logMutex'[v[1]] = v
    <2>1. w[1] \in LogProcesses /\ \A v \in Log!Writers : v[1] \in LogProcesses /\ v # Nobody
      BY DEF Log!Writers, Log!LoggerAssumption
    <2>2. logMutex'[w[1]] = w /\ \A p \in LogProcesses : p # w[1] => logMutex'[p] = logMutex[p]
      BY <1>1, <1>2, <2>1 DEF Log!TypeOK
    <2> QED BY <1>1, <1>2, <1>3, <2>1, <2>2 DEF Guarded
  <1> QED BY <1>4, <1>5, <1>6 DEF LogInv, Guarded

(* After Unlock the other writers of the process are not at the buffer.    *)
LEMMA Unlocking ==
  ASSUME Log!TypeOK, Guarded, NEW w \in Log!Writers, logAt[w] \in {"text", "sep"}, Log!Unlock(w)
  PROVE  /\ logAt' = [logAt EXCEPT ![w] = "idle"] /\ logAt'[w] = "idle"
         /\ \A v \in Log!Writers : v # w => logAt'[v] = logAt[v]
         /\ logAt' \in [Log!Writers -> {"none", "idle", "lock", "text", "sep", "gone"}]
         /\ logMutex' \in [LogProcesses -> Log!Writers \cup {Nobody}]
         /\ \A v \in Log!Writers : v # w /\ v[1] = w[1] => logAt[v] \notin {"text", "sep"}
         /\ \A v \in Log!Writers : logAt'[v] \in {"text", "sep"} => logMutex'[v[1]] = v
         /\ \A p \in LogProcesses :
              logAt'[<<p, 1>>] \in {"none", "gone"} => logAt'[<<p, 2>>] \in {"none", "gone"}
  <1>1. /\ logMutex' = [logMutex EXCEPT ![w[1]] = Nobody] /\ logAt' = [logAt EXCEPT ![w] = "idle"]
    BY DEF Log!Unlock, Log!Go
  <1>2. /\ logAt'[w] = "idle" /\ \A v \in Log!Writers : v # w => logAt'[v] = logAt[v]
        /\ logAt' \in [Log!Writers -> {"none", "idle", "lock", "text", "sep", "gone"}]
    BY <1>1 DEF Log!TypeOK
  <1>3. w[1] \in LogProcesses /\ \A v \in Log!Writers : v[1] \in LogProcesses
    BY DEF Log!Writers
  <1>4. /\ logMutex' \in [LogProcesses -> Log!Writers \cup {Nobody}]
        /\ \A p \in LogProcesses : p # w[1] => logMutex'[p] = logMutex[p]
    BY <1>1, <1>3 DEF Log!TypeOK
  <1>5. \A v \in Log!Writers : v # w /\ v[1] = w[1] => logAt[v] \notin {"text", "sep"}
    BY DEF Guarded
  <1>6. \A p \in LogProcesses : <<p, 1>> \in Log!Writers /\ <<p, 2>> \in Log!Writers
    BY DEF Log!Writers
  <1>7. \A p \in LogProcesses :
          logAt'[<<p, 1>>] \in {"none", "gone"} => logAt'[<<p, 2>>] \in {"none", "gone"}
    <2> SUFFICES ASSUME NEW p \in LogProcesses, logAt'[<<p, 1>>] \in {"none", "gone"}
                 PROVE  logAt'[<<p, 2>>] \in {"none", "gone"}
      OBVIOUS
    <2>1. logAt[<<p, 1>>] \in {"none", "gone"}
      BY <1>2, <1>6
    <2>2. logAt[<<p, 2>>] \in {"none", "gone"}
      BY <2>1 DEF Guarded
    <2> QED BY <1>2, <1>6, <2>2
  <1>8. \A v \in Log!Writers : logAt'[v] \in {"text", "sep"} => logMutex'[v[1]] = v
    BY <1>2, <1>3, <1>4, <1>5 DEF Guarded
  <1> QED BY <1>1, <1>2, <1>4, <1>5, <1>7, <1>8

LEMMA OpenFailsKeeps ==
  ASSUME LogInv, Log!LoggerAssumption, NEW w \in Log!Writers, Log!OpenFails(w)
  PROVE  LogInv'
  <1>1. Log!TypeOK /\ Guarded
    BY DEF LogInv
  <1>2. /\ logAt[w] = "text" /\ Log!Unlock(w)
        /\ UNCHANGED <<strategy, line, buffer, out, logged, synced, dropped, copied>>
    BY DEF Log!OpenFails
  <1>3. logFaults' \in 0..MaxLogFaults
    <2>1. logFaults \in 0..MaxLogFaults /\ logFaults < MaxLogFaults /\ logFaults' = logFaults + 1
      BY <1>1 DEF Log!OpenFails, Log!Fault, Log!TypeOK
    <2>2. MaxLogFaults \in Nat
      BY DEF Log!LoggerAssumption
    <2> QED BY <2>1, <2>2
  <1>4. /\ logAt'[w] = "idle" /\ \A v \in Log!Writers : v # w => logAt'[v] = logAt[v]
        /\ logAt' \in [Log!Writers -> {"none", "idle", "lock", "text", "sep", "gone"}]
        /\ logMutex' \in [LogProcesses -> Log!Writers \cup {Nobody}]
        /\ \A v \in Log!Writers : logAt'[v] \in {"text", "sep"} => logMutex'[v[1]] = v
    BY <1>1, <1>2, Unlocking
  <1>5. /\ Numbered' /\ NothingEarly' /\ OwnLine' /\ FileWhole' /\ WrittenByEach' /\ Once' /\ NoneMissing'
        /\ \A p \in LogProcesses :
             logAt'[<<p, 1>>] \in {"none", "gone"} => logAt'[<<p, 2>>] \in {"none", "gone"}
    BY <1>2, <1>4, NothingLogged
  <1>6. Log!TypeOK'
    BY <1>1, <1>2, <1>3, <1>4 DEF Log!TypeOK
  <1> QED BY <1>4, <1>5, <1>6 DEF LogInv, Guarded

(* A piece put into a buffer.                                              *)
Longer(p, piece) ==
    /\ buffer' \in [LogProcesses -> Seq(Log!Piece)]
    /\ buffer'[p] = Append(buffer[p], piece)
    /\ \A q \in LogProcesses : q # p => buffer'[q] = buffer[q]
    /\ \A q \in LogProcesses : \A i \in 1..Len(buffer[q]) :
         i \in 1..Len(buffer'[q]) /\ buffer'[q][i] = buffer[q][i]
    /\ \A q \in LogProcesses : \A i \in 1..Len(buffer'[q]) :
         \/ i \in 1..Len(buffer[q]) /\ buffer'[q][i] = buffer[q][i]
         \/ q = p /\ i = Len(buffer[p]) + 1 /\ buffer'[q][i] = piece
    /\ Len(buffer'[p]) = Len(buffer[p]) + 1 /\ Len(buffer[p]) \in Nat

LEMMA Put ==
  ASSUME Log!TypeOK, NEW p \in LogProcesses, NEW piece \in Log!Piece,
         buffer' = [buffer EXCEPT ![p] = Append(@, piece)]
  PROVE  Longer(p, piece)
  <1>1. /\ Append(buffer[p], piece) \in Seq(Log!Piece)
        /\ Len(Append(buffer[p], piece)) = Len(buffer[p]) + 1
        /\ \A i \in 1..Len(buffer[p]) : Append(buffer[p], piece)[i] = buffer[p][i]
        /\ Append(buffer[p], piece)[Len(buffer[p]) + 1] = piece
        /\ Len(buffer[p]) \in Nat
    <2>1. buffer[p] \in Seq(Log!Piece)
      BY DEF Log!TypeOK
    <2> QED BY <2>1, AppendProperties, LenProperties
  <1> DEFINE c == Append(buffer[p], piece)
  <1>2. /\ buffer' \in [LogProcesses -> Seq(Log!Piece)]
        /\ buffer'[p] = c
        /\ \A q \in LogProcesses : q # p => buffer'[q] = buffer[q]
    BY <1>1 DEF Log!TypeOK
  <1> HIDE DEF c
  <1>3. /\ Len(c) = Len(buffer[p]) + 1 /\ c[Len(buffer[p]) + 1] = piece
        /\ \A i \in 1..Len(buffer[p]) : i \in 1..Len(c) /\ c[i] = buffer[p][i]
        /\ \A i \in 1..Len(c) : i \in 1..Len(buffer[p]) \/ i = Len(buffer[p]) + 1
    <2>1. /\ Len(c) = Len(buffer[p]) + 1 /\ c[Len(buffer[p]) + 1] = piece
          /\ \A i \in 1..Len(buffer[p]) : c[i] = buffer[p][i]
      BY <1>1 DEF c
    <2>2. Len(buffer[p]) \in Nat
      BY <1>1
    <2>3. \A i \in 1..Len(buffer[p]) : i \in 1..Len(c)
      BY <2>1, <2>2
    <2>4. \A i \in 1..Len(c) : i \in 1..Len(buffer[p]) \/ i = Len(buffer[p]) + 1
      BY <2>1, <2>2
    <2> QED BY <2>1, <2>3, <2>4
  <1>4. ASSUME NEW q \in LogProcesses
        PROVE  /\ \A i \in 1..Len(buffer[q]) : i \in 1..Len(buffer'[q]) /\ buffer'[q][i] = buffer[q][i]
               /\ \A i \in 1..Len(buffer'[q]) :
                    \/ i \in 1..Len(buffer[q]) /\ buffer'[q][i] = buffer[q][i]
                    \/ q = p /\ i = Len(buffer[p]) + 1 /\ buffer'[q][i] = piece
    <2>1. CASE q # p
      BY <1>2, <2>1
    <2>2. CASE q = p
      <3>1. buffer'[q] = c
        BY <1>2, <2>2
      <3> QED BY <1>3, <2>2, <3>1
    <2> QED BY <2>1, <2>2
  <1>5. Len(buffer'[p]) = Len(buffer[p]) + 1 /\ buffer'[p] = Append(buffer[p], piece)
        /\ Len(buffer[p]) \in Nat
    BY <1>1, <1>2, <1>3 DEF c
  <1> QED BY <1>2, <1>4, <1>5 DEF Longer

LEMMA PutTextKeeps ==
  ASSUME LogInv, Log!LoggerAssumption, NEW w \in Log!Writers, Log!PutText(w)
  PROVE  LogInv'
  <1>1. /\ Log!TypeOK /\ Numbered /\ Guarded /\ NothingEarly /\ OwnLine
        /\ FileWhole /\ WrittenByEach /\ Once /\ NoneMissing
    BY DEF LogInv
  <1>p. PICK p : p = w[1]
    OBVIOUS
  <1>t. PICK words : words = <<line[w], "text">>
    OBVIOUS
  <1>2. /\ strategy = "console" /\ logAt[w] = "text"
        /\ buffer' = [buffer EXCEPT ![p] = Append(@, words)] /\ logAt' = [logAt EXCEPT ![w] = "sep"]
        /\ UNCHANGED <<strategy, line, logMutex, out, logged, synced, dropped, copied, logFaults>>
    BY <1>p, <1>t DEF Log!PutText, Log!Text, Log!Go
  <1>3. /\ logAt'[w] = "sep" /\ \A v \in Log!Writers : v # w => logAt'[v] = logAt[v]
        /\ logAt' \in [Log!Writers -> {"none", "idle", "lock", "text", "sep", "gone"}]
    BY <1>1, <1>2 DEF Log!TypeOK
  <1>4. /\ p \in LogProcesses /\ \A v \in Log!Writers : v[1] \in LogProcesses
        /\ \A q \in LogProcesses : <<q, 1>> \in Log!Writers /\ <<q, 2>> \in Log!Writers
    BY <1>p DEF Log!Writers
  <1>5. Active(w) /\ line[w] >= 1 /\ line[w] \notin copied \cup dropped /\ line[w] \in 1..MaxLogLines
    <2>1. Active(w) /\ line[w] >= 1 /\ line[w] \notin copied \cup dropped
      BY <1>1, <1>2 DEF OwnLine, Active
    <2>2. line[w] \in 0..MaxLogLines
      BY <1>1 DEF Log!TypeOK
    <2>3. line[w] \in 1..MaxLogLines
      BY <2>1, <2>2 DEF Log!LoggerAssumption
    <2> QED BY <2>1, <2>3
  <1>6. words \in Log!Piece /\ words[1] = line[w] /\ words[2] = "text"
    BY <1>t, <1>5 DEF Log!Piece
  <1>7. /\ buffer' \in [LogProcesses -> Seq(Log!Piece)]
        /\ buffer'[p] = Append(buffer[p], words)
        /\ \A q \in LogProcesses : q # p => buffer'[q] = buffer[q]
        /\ \A q \in LogProcesses : \A i \in 1..Len(buffer[q]) :
             i \in 1..Len(buffer'[q]) /\ buffer'[q][i] = buffer[q][i]
        /\ \A q \in LogProcesses : \A i \in 1..Len(buffer'[q]) :
             \/ i \in 1..Len(buffer[q]) /\ buffer'[q][i] = buffer[q][i]
             \/ q = p /\ i = Len(buffer[p]) + 1 /\ buffer'[q][i] = words
        /\ Len(buffer'[p]) = Len(buffer[p]) + 1 /\ Len(buffer[p]) \in Nat
    <2>1. buffer' = [buffer EXCEPT ![p] = Append(@, words)] /\ p \in LogProcesses
          /\ words \in Log!Piece /\ Log!TypeOK
      BY <1>1, <1>2, <1>4, <1>6
    <2>2. Longer(p, words)
      BY <2>1, Put
    <2> QED BY <2>2 DEF Longer
  <1>8. Log!TypeOK'
    BY <1>1, <1>2, <1>3, <1>7 DEF Log!TypeOK
  <1>9. Numbered'
    <2>1. line[w] <= logged
      BY <1>1 DEF Numbered
    <2> QED BY <1>1, <1>2, <1>6, <1>7, <2>1 DEF Numbered
  <1>10. Guarded'
    <2>1. \A v \in Log!Writers : logAt'[v] \in {"text", "sep"} => logMutex'[v[1]] = v
      BY <1>1, <1>2, <1>3 DEF Guarded
    <2>2. \A q \in LogProcesses :
            logAt'[<<q, 1>>] \in {"none", "gone"} => logAt'[<<q, 2>>] \in {"none", "gone"}
      <3> SUFFICES ASSUME NEW q \in LogProcesses, logAt'[<<q, 1>>] \in {"none", "gone"}
                   PROVE  logAt'[<<q, 2>>] \in {"none", "gone"}
        OBVIOUS
      <3>1. logAt[<<q, 1>>] = logAt'[<<q, 1>>]
        BY <1>3, <1>4
      <3>2. logAt[<<q, 2>>] \in {"none", "gone"}
        BY <1>1, <3>1 DEF Guarded
      <3> QED BY <1>2, <1>3, <1>4, <3>2
    <2> QED BY <2>1, <2>2 DEF Guarded
  <1>11. NothingEarly'
    <2> SUFFICES ASSUME NEW q \in LogProcesses, logAt'[<<q, 1>>] = "none"
                 PROVE  /\ logAt'[<<q, 2>>] = "none" /\ buffer'[q] = <<>>
                        /\ \A i \in 1..Len(out) : out[i][1] # q
      BY <1>2 DEF NothingEarly
    <2>1. logAt[<<q, 1>>] = "none"
      BY <1>3, <1>4
    <2>2. logAt[<<q, 2>>] = "none" /\ buffer[q] = <<>> /\ \A i \in 1..Len(out) : out[i][1] # q
      BY <1>1, <2>1 DEF NothingEarly
    <2>3. w # <<q, 1>> /\ w # <<q, 2>>
      BY <1>2, <2>1, <2>2
    <2>4. q # p
      BY <1>p, <2>3 DEF Log!Writers
    <2> QED BY <1>3, <1>4, <1>7, <2>2, <2>3, <2>4
  <1>12. OwnLine'
    <2>1. \A v \in Log!Writers : Active(v)' <=> Active(v)
      BY <1>3, <1>5 DEF Active
    <2>2. \A q \in LogProcesses : \A l : Has(buffer'[q], l) => Has(buffer[q], l) \/ (q = p /\ l = line[w])
      BY <1>6, <1>7 DEF Has
    <2>3. \A v \in Log!Writers : Active(v) => line[v] >= 1 /\ line[v] \notin copied \cup dropped
      BY <1>1 DEF OwnLine
    <2>4. \A u, v \in Log!Writers : Active(u) /\ Active(v) /\ line[u] = line[v] => u = v
      BY <1>1 DEF OwnLine
    <2>5. ASSUME NEW v \in Log!Writers, logAt'[v] \in {"lock", "text"}
          PROVE  /\ \A i \in 1..Len(out) : out[i][2][1] # line[v]
                 /\ \A q \in LogProcesses : ~Has(buffer'[q], line[v])
      <3>1. v # w /\ logAt[v] \in {"lock", "text"}
        BY <1>3, <2>5
      <3>2. line[v] # line[w]
        BY <1>5, <2>4, <3>1 DEF Active
      <3> QED BY <1>1, <2>2, <3>1, <3>2 DEF OwnLine
    <2>6. ASSUME NEW v \in Log!Writers, logAt'[v] = "sep", NEW q \in LogProcesses, q # v[1]
          PROVE  ~Has(buffer'[q], line[v])
      <3>1. CASE v = w
        BY <1>p, <1>1, <1>2, <2>2, <2>6, <3>1 DEF OwnLine
      <3>2. CASE v # w
        <4>1. logAt[v] = "sep" /\ line[v] # line[w]
          BY <1>3, <1>5, <2>4, <2>6, <3>2 DEF Active
        <4> QED BY <1>1, <2>2, <2>6, <4>1 DEF OwnLine
      <3> QED BY <3>1, <3>2
    <2> QED BY <1>2, <2>1, <2>3, <2>4, <2>5, <2>6 DEF OwnLine
  <1>13. FileWhole'
    BY <1>2 DEF FileWhole
  <1>14. WrittenByEach'
    <2>1. ASSUME NEW q \in LogProcesses, q # p PROVE WrittenBy(q)'
      <3>1. All(out', q, buffer'[q]) = All(out, q, buffer[q])
        BY <1>2, <1>7, <2>1
      <3>2. \A v \in Log!Writers : v[1] = q =>
              (logAt'[v] = "sep" <=> logAt[v] = "sep") /\ (logAt[v] = "sep" => line'[v] = line[v])
        BY <1>p, <1>2, <1>3, <2>1
      <3>3. logAt'[<<q, 1>>] # "gone" => logAt[<<q, 1>>] # "gone"
        BY <1>2, <1>3, <1>4
      <3>4. WrittenBy(q)
        BY <1>1 DEF WrittenByEach
      <3> QED BY <1>1, <1>2, <3>1, <3>2, <3>3, <3>4, WrittenAsBefore
    <2>2. WrittenBy(p)'
      <3> DEFINE s == All(out, p, buffer[p])
                 t == All(out, p, Append(buffer[p], words))
                 P == Marks(out, p, buffer[p], copied)
                 Q == Marks(out, p, Append(buffer[p], words), copied)
      <3>1. /\ Log!Alternate(s, P) /\ Ends(s, P) /\ P \in SUBSET Nat
        <4>1. \A v \in Log!Writers : v[1] = p => logAt[v] # "sep"
          BY <1>p, <1>1, <1>2 DEF Guarded
        <4>2. logAt[<<p, 1>>] # "gone"
          BY <1>p, <1>1, <1>2, <1>4, Running
        <4>3. WrittenBy(p)
          BY <1>1, <1>4 DEF WrittenByEach
        <4>4. P \in SUBSET Nat
          BY <1>1, <1>4, LogTypes, MarksAre
        <4> QED BY <1>4, <4>1, <4>2, <4>3, <4>4, InTermsOfAll DEF WrittenBy
      <3>2. PICK n \in Nat : /\ Q = P \cup {n} /\ \A i \in P : i < n /\ t[i] = s[i]
                             /\ t[n][2] = words
        <4>1. out \in Seq(LogProcesses \X Log!Piece) /\ buffer[p] \in Seq(Log!Piece)
          BY <1>1, <1>4, LogTypes
        <4>2. words \in Log!Piece /\ words[1] \notin copied
          BY <1>5, <1>6
        <4>3. GrownBy(s, P, t, Q, words)
          BY <1>4, <4>1, <4>2, PiecePut
        <4> QED BY <4>3 DEF GrownBy
      <3> HIDE DEF s, t, P, Q
      <3>3. Log!Alternate(t, Q) /\ EndsWith(t, Q, words)
        BY <1>t, <3>1, <3>2, TextAppended
      <3>4. Log!Everything(p)' = t /\ Places(p)' = Q
        BY <1>2, <1>4, <1>7, InTermsOfAll DEF t, Q
      <3>5. \A v \in Log!Writers : v[1] = p /\ logAt'[v] = "sep" => v = w
        BY <1>p, <1>1, <1>2, <1>3 DEF Guarded
      <3>6. ~(\A v \in Log!Writers : v[1] = p => logAt'[v] # "sep")
        BY <1>p, <1>3
      <3> QED BY <1>t, <1>2, <3>3, <3>4, <3>5, <3>6 DEF WrittenBy
    <2> QED BY <2>1, <2>2 DEF WrittenByEach
  <1>15. Once'
    <2>0. /\ \A i \in 1..Len(out) : out[i][2][1] # line[w]
          /\ \A q \in LogProcesses : \A i \in 1..Len(buffer[q]) : buffer[q][i][1] # line[w]
      BY <1>1, <1>2 DEF OwnLine, Has
    <2>1. ASSUME NEW q \in LogProcesses, NEW r \in LogProcesses,
                 NEW i \in 1..Len(buffer'[q]), NEW j \in 1..Len(buffer'[r]),
                 buffer'[q][i] = buffer'[r][j], buffer'[q][i][2] = "text",
                 buffer'[q][i][1] \notin copied
          PROVE  q = r /\ i = j
      <3>1. CASE i \in 1..Len(buffer[q]) /\ buffer'[q][i] = buffer[q][i]
        <4>0. buffer'[r][j] # words
          BY <1>6, <2>0, <2>1, <3>1
        <4>1. j \in 1..Len(buffer[r]) /\ buffer'[r][j] = buffer[r][j]
          BY <1>7, <4>0
        <4>2. /\ buffer[q][i] = buffer[r][j] /\ buffer[q][i][2] = "text"
              /\ buffer[q][i][1] \notin copied
          BY <2>1, <3>1, <4>1
        <4>3. i \in 1..Len(buffer[q]) /\ j \in 1..Len(buffer[r])
          BY <3>1, <4>1
        <4>4. \A u, v \in LogProcesses : \A a \in 1..Len(buffer[u]), b \in 1..Len(buffer[v]) :
                buffer[u][a] = buffer[v][b] /\ buffer[u][a][2] = "text" /\ buffer[u][a][1] \notin copied
                  => u = v /\ a = b
          BY <1>1 DEF Once
        <4> QED BY <4>2, <4>3, <4>4
      <3>2. CASE q = p /\ i = Len(buffer[p]) + 1 /\ buffer'[q][i] = words
        <4>1. r = p /\ j = Len(buffer[p]) + 1
          BY <1>6, <1>7, <2>0, <2>1, <3>2
        <4> QED BY <3>2, <4>1
      <3> QED BY <1>7, <3>1, <3>2
    <2>2. ASSUME NEW q \in LogProcesses, NEW i \in 1..Len(buffer'[q]), NEW j \in 1..Len(out),
                 buffer'[q][i] = out[j][2], buffer'[q][i][2] = "text"
          PROVE  buffer'[q][i][1] \in copied
      <3>1. i \in 1..Len(buffer[q]) /\ buffer'[q][i] = buffer[q][i]
        BY <1>6, <1>7, <2>0, <2>2
      <3> QED BY <1>1, <2>2, <3>1 DEF Once
    <2>3. \A i, j \in 1..Len(out) :
            out[i][2] = out[j][2] /\ out[i][2][2] = "text" /\ out[i][2][1] \notin copied => i = j
      BY <1>1 DEF Once
    <2>4. UNCHANGED <<out, copied>>
      BY <1>2
    <2> QED BY SMTT(30), <2>1, <2>2, <2>3, <2>4 DEF Once
  <1>16. NoneMissing'
    <2>1. ASSUME NEW l, InPlace(l) PROVE InPlace(l)'
      <3>1. CASE \E i \in 1..Len(out) : out[i][2] = <<l, "text">>
        BY <1>2, <3>1 DEF InPlace
      <3>2. CASE \E q \in LogProcesses : \E i \in 1..Len(buffer[q]) : buffer[q][i] = <<l, "text">>
        <4>0. PICK q \in LogProcesses : \E i \in 1..Len(buffer[q]) : buffer[q][i] = <<l, "text">>
          BY <3>2
        <4>1. PICK i \in 1..Len(buffer[q]) : buffer[q][i] = <<l, "text">>
          BY <4>0
        <4>2. i \in 1..Len(buffer'[q]) /\ buffer'[q][i] = <<l, "text">>
          BY <1>7, <4>1
        <4> QED BY <4>2 DEF InPlace
      <3> QED BY <2>1, <3>1, <3>2 DEF InPlace
    <2>2. InPlace(line[w])'
      <3>1. Len(buffer[p]) + 1 \in 1..Len(buffer'[p]) /\ Len(buffer[p]) + 1 \notin 1..Len(buffer[p])
        BY <1>7
      <3>2. buffer'[p][Len(buffer[p]) + 1] = words
        BY <1>4, <1>7, <3>1
      <3> QED BY <1>t, <1>2, <1>4, <3>1, <3>2 DEF InPlace
    <2>3. \A v \in Log!Writers : logAt'[v] = "sep" => v = w \/ logAt[v] = "sep"
      BY <1>3
    <2> QED BY <1>1, <1>2, <2>1, <2>2, <2>3 DEF NoneMissing
  <1> QED BY <1>8, <1>9, <1>10, <1>11, <1>12, <1>13, <1>14, <1>15, <1>16 DEF LogInv

LEMMA PutSepKeeps ==
  ASSUME LogInv, Log!LoggerAssumption, NEW w \in Log!Writers, Log!PutSep(w)
  PROVE  LogInv'
  <1>1. /\ Log!TypeOK /\ Numbered /\ Guarded /\ NothingEarly /\ OwnLine
        /\ FileWhole /\ WrittenByEach /\ Once /\ NoneMissing
    BY DEF LogInv
  <1>p. PICK p : p = w[1]
    OBVIOUS
  <1>e. PICK sep : sep = <<line[w], "sep">>
    OBVIOUS
  <1>2. /\ logAt[w] = "sep" /\ buffer' = [buffer EXCEPT ![p] = Append(@, sep)]
        /\ synced' = synced \cup {line[w]} /\ Log!Unlock(w)
        /\ UNCHANGED <<strategy, line, out, logged, dropped, copied, logFaults>>
    BY <1>p, <1>e DEF Log!PutSep, Log!Sep
  <1>3. /\ logAt'[w] = "idle" /\ \A v \in Log!Writers : v # w => logAt'[v] = logAt[v]
        /\ logAt' \in [Log!Writers -> {"none", "idle", "lock", "text", "sep", "gone"}]
        /\ logMutex' \in [LogProcesses -> Log!Writers \cup {Nobody}]
        /\ \A v \in Log!Writers : v # w /\ v[1] = p => logAt[v] \notin {"text", "sep"}
        /\ \A v \in Log!Writers : logAt'[v] \in {"text", "sep"} => logMutex'[v[1]] = v
        /\ \A q \in LogProcesses :
              logAt'[<<q, 1>>] \in {"none", "gone"} => logAt'[<<q, 2>>] \in {"none", "gone"}
    BY <1>1, <1>2, <1>p, Unlocking
  <1>4. /\ p \in LogProcesses /\ \A v \in Log!Writers : v[1] \in LogProcesses
        /\ \A q \in LogProcesses : <<q, 1>> \in Log!Writers /\ <<q, 2>> \in Log!Writers
    BY <1>p DEF Log!Writers
  <1>5. Active(w) /\ line[w] >= 1 /\ line[w] \notin copied \cup dropped /\ line[w] \in 1..MaxLogLines
        /\ line[w] \in 1..logged
    <2>1. Active(w) /\ line[w] >= 1 /\ line[w] \notin copied \cup dropped
      BY <1>1, <1>2 DEF OwnLine, Active
    <2>2. line[w] \in 0..MaxLogLines /\ line[w] <= logged /\ logged \in 0..MaxLogLines
      BY <1>1 DEF Log!TypeOK, Numbered
    <2>3. line[w] \in 1..MaxLogLines /\ line[w] \in 1..logged
      BY <2>1, <2>2 DEF Log!LoggerAssumption
    <2> QED BY <2>1, <2>3
  <1>6. sep \in Log!Piece /\ sep[1] = line[w] /\ sep[2] = "sep"
    BY <1>e, <1>5 DEF Log!Piece
  <1>7. Longer(p, sep)
    <2>1. buffer' = [buffer EXCEPT ![p] = Append(@, sep)] /\ p \in LogProcesses
          /\ sep \in Log!Piece /\ Log!TypeOK
      BY <1>1, <1>2, <1>4, <1>6
    <2> QED BY <2>1, Put
  <1>8. /\ buffer' \in [LogProcesses -> Seq(Log!Piece)]
        /\ buffer'[p] = Append(buffer[p], sep)
        /\ \A q \in LogProcesses : q # p => buffer'[q] = buffer[q]
        /\ \A q \in LogProcesses : \A i \in 1..Len(buffer[q]) :
             i \in 1..Len(buffer'[q]) /\ buffer'[q][i] = buffer[q][i]
        /\ \A q \in LogProcesses : \A i \in 1..Len(buffer'[q]) :
             \/ i \in 1..Len(buffer[q]) /\ buffer'[q][i] = buffer[q][i]
             \/ q = p /\ i = Len(buffer[p]) + 1 /\ buffer'[q][i] = sep
    BY <1>7 DEF Longer
  <1>9. Log!TypeOK'
    BY <1>1, <1>2, <1>3, <1>5, <1>8 DEF Log!TypeOK
  <1>10. Numbered'
    <2>1. line[w] <= logged
      BY <1>1 DEF Numbered
    <2>2. synced' \cup dropped' \cup copied' \subseteq 1..logged
      BY <1>1, <1>2, <1>5 DEF Numbered
    <2> QED BY <1>1, <1>2, <1>6, <1>8, <2>1, <2>2 DEF Numbered
  <1>11. Guarded'
    BY <1>3 DEF Guarded
  <1>12. NothingEarly'
    <2> SUFFICES ASSUME NEW q \in LogProcesses, logAt'[<<q, 1>>] = "none"
                 PROVE  /\ logAt'[<<q, 2>>] = "none" /\ buffer'[q] = <<>>
                        /\ \A i \in 1..Len(out) : out[i][1] # q
      BY <1>2 DEF NothingEarly
    <2>1. logAt[<<q, 1>>] = "none"
      BY <1>3, <1>4
    <2>2. logAt[<<q, 2>>] = "none" /\ buffer[q] = <<>> /\ \A i \in 1..Len(out) : out[i][1] # q
      BY <1>1, <2>1 DEF NothingEarly
    <2>3. w # <<q, 1>> /\ w # <<q, 2>>
      BY <1>2, <2>1, <2>2
    <2>4. q # p
      BY <1>p, <2>3 DEF Log!Writers
    <2> QED BY <1>3, <1>4, <1>8, <2>2, <2>3, <2>4
  <1>13. OwnLine'
    <2>1. \A v \in Log!Writers : Active(v)' => Active(v) /\ v # w
      BY <1>3 DEF Active
    <2>2. \A q \in LogProcesses : \A l : Has(buffer'[q], l) => Has(buffer[q], l) \/ l = line[w]
      BY <1>6, <1>8 DEF Has
    <2>3. \A v \in Log!Writers : Active(v) => line[v] >= 1 /\ line[v] \notin copied \cup dropped
      BY <1>1 DEF OwnLine
    <2>4. \A u, v \in Log!Writers : Active(u) /\ Active(v) /\ line[u] = line[v] => u = v
      BY <1>1 DEF OwnLine
    <2>5. \A v \in Log!Writers : Active(v)' => line[v] # line[w]
      BY <1>5, <2>1, <2>4
    <2>6. ASSUME NEW v \in Log!Writers, logAt'[v] \in {"lock", "text"}
          PROVE  /\ \A i \in 1..Len(out) : out[i][2][1] # line[v]
                 /\ \A q \in LogProcesses : ~Has(buffer'[q], line[v])
      <3>1. Active(v)'
        BY <2>6 DEF Active
      <3>2. logAt[v] \in {"lock", "text"} /\ line[v] # line[w]
        BY <1>3, <2>1, <2>5, <2>6, <3>1
      <3> QED BY <1>1, <2>2, <3>2 DEF OwnLine
    <2>7. ASSUME NEW v \in Log!Writers, logAt'[v] = "sep", NEW q \in LogProcesses, q # v[1]
          PROVE  ~Has(buffer'[q], line[v])
      <3>1. Active(v)'
        BY <2>7 DEF Active
      <3>2. logAt[v] = "sep" /\ line[v] # line[w]
        BY <1>3, <2>1, <2>5, <2>7, <3>1
      <3> QED BY <1>1, <2>2, <2>7, <3>2 DEF OwnLine
    <2> QED BY <1>2, <2>1, <2>3, <2>4, <2>6, <2>7 DEF OwnLine
  <1>14. FileWhole'
    BY <1>1, <1>2 DEF FileWhole
  <1>15. WrittenByEach'
    <2>1. ASSUME NEW q \in LogProcesses, q # p PROVE WrittenBy(q)'
      <3>1. All(out', q, buffer'[q]) = All(out, q, buffer[q])
        BY <1>2, <1>8, <2>1
      <3>2. \A v \in Log!Writers : v[1] = q =>
              (logAt'[v] = "sep" <=> logAt[v] = "sep") /\ (logAt[v] = "sep" => line'[v] = line[v])
        BY <1>2, <1>3, <1>p, <2>1
      <3>3. logAt'[<<q, 1>>] # "gone" => logAt[<<q, 1>>] # "gone"
        BY <1>2, <1>3, <1>4
      <3>4. WrittenBy(q)
        BY <1>1 DEF WrittenByEach
      <3> QED BY <1>1, <1>2, <3>1, <3>2, <3>3, <3>4, WrittenAsBefore
    <2>2. WrittenBy(p)'
      <3> DEFINE s == All(out, p, buffer[p])
                 t == All(out, p, Append(buffer[p], sep))
                 P == Marks(out, p, buffer[p], copied)
                 Q == Marks(out, p, Append(buffer[p], sep), copied)
      <3>1. /\ Log!Alternate(s, P) /\ EndsWith(s, P, <<line[w], "text">>) /\ P \in SUBSET Nat
        <4>1. WrittenBy(p)
          BY <1>1, <1>4 DEF WrittenByEach
        <4>2. P \in SUBSET Nat
          BY <1>1, <1>4, LogTypes, MarksAre
        <4> QED BY <1>2, <1>4, <1>p, <4>1, <4>2, InTermsOfAll DEF WrittenBy
      <3>2. PICK n \in Nat : /\ Q = P \cup {n} /\ \A i \in P : i < n /\ t[i] = s[i]
                             /\ t[n][2] = sep
        <4>1. out \in Seq(LogProcesses \X Log!Piece) /\ buffer[p] \in Seq(Log!Piece)
          BY <1>1, <1>4, LogTypes
        <4>2. sep \in Log!Piece /\ sep[1] \notin copied
          BY <1>5, <1>6
        <4>3. GrownBy(s, P, t, Q, sep)
          BY <1>4, <4>1, <4>2, PiecePut
        <4> QED BY <4>3 DEF GrownBy
      <3> HIDE DEF s, t, P, Q
      <3>3. Log!Alternate(t, Q) /\ Ends(t, Q)
        BY <3>1, <3>2, <1>e, SepAppended
      <3>4. Log!Everything(p)' = t /\ Places(p)' = Q
        BY <1>2, <1>4, <1>8, InTermsOfAll DEF t, Q
      <3>5. \A v \in Log!Writers : v[1] = p => logAt'[v] # "sep"
        BY <1>3
      <3> QED BY <3>3, <3>4, <3>5 DEF WrittenBy
    <2> QED BY <2>1, <2>2 DEF WrittenByEach
  <1>16. Once'
    <2>0. \A q, r \in LogProcesses : \A i \in 1..Len(buffer[q]), j \in 1..Len(buffer[r]) :
               buffer[q][i] = buffer[r][j] /\ buffer[q][i][2] = "text" /\ buffer[q][i][1] \notin copied
                 => q = r /\ i = j
      BY <1>1 DEF Once
    <2>1. ASSUME NEW q \in LogProcesses, NEW r \in LogProcesses,
                 NEW i \in 1..Len(buffer'[q]), NEW j \in 1..Len(buffer'[r]),
                 buffer'[q][i] = buffer'[r][j], buffer'[q][i][2] = "text",
                 buffer'[q][i][1] \notin copied
          PROVE  q = r /\ i = j
      <3>1. buffer'[q][i] # sep /\ buffer'[r][j] # sep
        BY <1>6, <2>1
      <3>2. /\ i \in 1..Len(buffer[q]) /\ buffer'[q][i] = buffer[q][i]
            /\ j \in 1..Len(buffer[r]) /\ buffer'[r][j] = buffer[r][j]
        BY <1>8, <3>1
      <3>3. /\ buffer[q][i] = buffer[r][j] /\ buffer[q][i][2] = "text"
            /\ buffer[q][i][1] \notin copied
        BY <2>1, <3>2
      <3>4. i \in 1..Len(buffer[q]) /\ j \in 1..Len(buffer[r])
        BY <3>2
      <3> QED BY <2>0, <3>3, <3>4
    <2>2. ASSUME NEW q \in LogProcesses, NEW i \in 1..Len(buffer'[q]), NEW j \in 1..Len(out),
                 buffer'[q][i] = out[j][2], buffer'[q][i][2] = "text"
          PROVE  buffer'[q][i][1] \in copied
      <3>1. buffer'[q][i] # sep
        BY <1>6, <2>2
      <3>2. i \in 1..Len(buffer[q]) /\ buffer'[q][i] = buffer[q][i]
        BY <1>8, <3>1
      <3> QED BY <1>1, <2>2, <3>2 DEF Once
    <2>3. \A i, j \in 1..Len(out) :
            out[i][2] = out[j][2] /\ out[i][2][2] = "text" /\ out[i][2][1] \notin copied => i = j
      BY <1>1 DEF Once
    <2>4. UNCHANGED <<out, copied>>
      BY <1>2
    <2> QED BY <2>1, <2>2, <2>3, <2>4 DEF Once
  <1>17. NoneMissing'
    <2>1. ASSUME NEW l, InPlace(l) PROVE InPlace(l)'
      <3>1. CASE \E i \in 1..Len(out) : out[i][2] = <<l, "text">>
        BY <1>2, <3>1 DEF InPlace
      <3>2. CASE \E q \in LogProcesses : \E i \in 1..Len(buffer[q]) : buffer[q][i] = <<l, "text">>
        <4>0. PICK q \in LogProcesses : \E i \in 1..Len(buffer[q]) : buffer[q][i] = <<l, "text">>
          BY <3>2
        <4>1. PICK i \in 1..Len(buffer[q]) : buffer[q][i] = <<l, "text">>
          BY <4>0
        <4>2. i \in 1..Len(buffer'[q]) /\ buffer'[q][i] = <<l, "text">>
          BY <1>8, <4>1
        <4> QED BY <4>2 DEF InPlace
      <3> QED BY <2>1, <3>1, <3>2 DEF InPlace
    <2>2. InPlace(line[w])'
      <3>1. InPlace(line[w])
        BY <1>1, <1>2 DEF NoneMissing
      <3>2. PICK l : l = line[w]
        OBVIOUS
      <3>3. InPlace(l)'
        BY <2>1, <3>1, <3>2
      <3> QED BY <1>2, <3>2, <3>3 DEF InPlace
    <2>3. \A v \in Log!Writers : logAt'[v] = "sep" => logAt[v] = "sep"
      BY <1>3
    <2> QED BY <1>1, <1>2, <2>1, <2>2, <2>3 DEF NoneMissing
  <1> QED BY <1>9, <1>10, <1>11, <1>12, <1>13, <1>14, <1>15, <1>16, <1>17 DEF LogInv

(* Pieces that a process writes.                                           *)
Wrote(p, c) ==
    /\ out' \in Seq(LogProcesses \X Log!Piece) /\ out' = out \o Log!From(p, c)
    /\ \A i \in 1..Len(out) : i \in 1..Len(out') /\ out'[i] = out[i]
    /\ \A k \in 1..Len(c) : Len(out) + k \in 1..Len(out') /\ out'[Len(out) + k] = <<p, c[k]>>
    /\ \A i \in 1..Len(out') : i \in 1..Len(out) \/ \E k \in 1..Len(c) : i = Len(out) + k

LEMMA Writing ==
  ASSUME Log!TypeOK, NEW p \in LogProcesses, NEW c \in Seq(Log!Piece), Log!Write(p, c)
  PROVE  Wrote(p, c)
  <1>1. out \in Seq(LogProcesses \X Log!Piece)
    BY LogTypes
  <1> DEFINE s == All(out, p, c)
             n == Len(out)
             m == Len(c)
  <1>2. /\ s \in Seq(LogProcesses \X Log!Piece)
        /\ Len(s) = n + m /\ n \in Nat /\ m \in Nat
        /\ \A i \in 1..n : s[i] = out[i]
        /\ \A i \in 1..m : s[n + i] = <<p, c[i]>>
    BY <1>1, AllIs
  <1>3. out' = s /\ out' = out \o Log!From(p, c)
    BY DEF Log!Write, All
  <1> HIDE DEF s, n, m
  <1>4. \A i \in 1..n : i \in 1..Len(s)
    <2>1. Len(s) = n + m /\ n \in Nat /\ m \in Nat
      BY <1>2
    <2> QED BY <2>1
  <1>5. \A k \in 1..m : n + k \in 1..Len(s)
    <2>1. Len(s) = n + m /\ n \in Nat /\ m \in Nat
      BY <1>2
    <2> QED BY <2>1
  <1>6. \A i \in 1..Len(s) : i \in 1..n \/ \E k \in 1..m : i = n + k
    <2> SUFFICES ASSUME NEW i \in 1..Len(s), i \notin 1..n PROVE \E k \in 1..m : i = n + k
      OBVIOUS
    <2>1. Len(s) = n + m /\ n \in Nat /\ m \in Nat
      BY <1>2
    <2>2. i - n \in 1..m /\ i = n + (i - n)
      BY <2>1
    <2> QED BY <2>2
  <1> QED BY <1>2, <1>3, <1>4, <1>5, <1>6 DEF Wrote, n, m

(* A process writes its buffer, and goes on or exits.                      *)
LEMMA BufferWritten ==
  ASSUME LogInv, Log!LoggerAssumption, NEW p \in LogProcesses, Log!Alive(p),
         Log!Write(p, buffer[p]), buffer' = [buffer EXCEPT ![p] = <<>>],
         UNCHANGED <<strategy, line, logMutex, logged, synced, dropped, copied, logFaults>>,
         logAt' \in [Log!Writers -> {"none", "idle", "lock", "text", "sep", "gone"}],
         \A v \in Log!Writers : logAt'[v] = logAt[v] \/ (logAt[v] = "idle" /\ logAt'[v] = "gone"),
         \A q \in LogProcesses :
           logAt'[<<q, 1>>] \in {"none", "gone"} => logAt'[<<q, 2>>] \in {"none", "gone"}
  PROVE  LogInv'
  <1>1. /\ Log!TypeOK /\ Numbered /\ Guarded /\ NothingEarly /\ OwnLine
        /\ FileWhole /\ WrittenByEach /\ Once /\ NoneMissing
    BY DEF LogInv
  <1>2. buffer[p] \in Seq(Log!Piece) /\ <<>> \in Seq(Log!Piece)
    BY <1>1, LogTypes
  <1>3. /\ buffer' \in [LogProcesses -> Seq(Log!Piece)] /\ buffer'[p] = <<>>
        /\ \A q \in LogProcesses : q # p => buffer'[q] = buffer[q]
    BY <1>1, <1>2 DEF Log!TypeOK
  <1>4. \A q \in LogProcesses : \A i \in 1..Len(buffer'[q]) :
          q # p /\ i \in 1..Len(buffer[q]) /\ buffer'[q][i] = buffer[q][i]
    <2>1. Len(<<>>) = 0
      OBVIOUS
    <2> QED BY <1>3, <2>1
  <1>5. Wrote(p, buffer[p])
    BY <1>1, <1>2, Writing
  <1>6. /\ out' \in Seq(LogProcesses \X Log!Piece) /\ out' = out \o Log!From(p, buffer[p])
        /\ \A i \in 1..Len(out) : i \in 1..Len(out') /\ out'[i] = out[i]
        /\ \A k \in 1..Len(buffer[p]) :
             Len(out) + k \in 1..Len(out') /\ out'[Len(out) + k] = <<p, buffer[p][k]>>
        /\ \A i \in 1..Len(out') :
             i \in 1..Len(out) \/ \E k \in 1..Len(buffer[p]) : i = Len(out) + k
    BY <1>5 DEF Wrote
  <1>7. \A i \in 1..Len(out') :
          \/ i \in 1..Len(out) /\ out'[i] = out[i]
          \/ \E k \in 1..Len(buffer[p]) : i = Len(out) + k /\ out'[i][1] = p /\ out'[i][2] = buffer[p][k]
    <2> SUFFICES ASSUME NEW i \in 1..Len(out'), i \notin 1..Len(out)
                 PROVE  \E k \in 1..Len(buffer[p]) :
                          i = Len(out) + k /\ out'[i][1] = p /\ out'[i][2] = buffer[p][k]
      BY <1>6
    <2>1. PICK k \in 1..Len(buffer[p]) : i = Len(out) + k
      BY <1>6
    <2>2. out'[i] = <<p, buffer[p][k]>>
      BY <1>6, <2>1
    <2> QED BY <2>1, <2>2
  <1>8. \A q \in LogProcesses : <<q, 1>> \in Log!Writers /\ <<q, 2>> \in Log!Writers
    BY DEF Log!Writers
  <1>9. Log!TypeOK'
    BY <1>1, <1>3, <1>6 DEF Log!TypeOK
  <1>10. Numbered'
    <2>1. \A i \in 1..Len(out') : out'[i][2][1] <= logged
      BY <1>1, <1>7 DEF Numbered
    <2>2. \A q \in LogProcesses : \A i \in 1..Len(buffer'[q]) : buffer'[q][i][1] <= logged
      BY <1>1, <1>4 DEF Numbered
    <2> QED BY <1>1, <2>1, <2>2 DEF Numbered
  <1>11. Guarded'
    BY <1>1 DEF Guarded
  <1>12. NothingEarly'
    <2> SUFFICES ASSUME NEW q \in LogProcesses, logAt'[<<q, 1>>] = "none"
                 PROVE  /\ logAt'[<<q, 2>>] = "none" /\ buffer'[q] = <<>>
                        /\ \A i \in 1..Len(out') : out'[i][1] # q
      BY DEF NothingEarly
    <2>1. logAt[<<q, 1>>] = "none"
      BY <1>8
    <2>2. logAt[<<q, 2>>] = "none" /\ buffer[q] = <<>> /\ \A i \in 1..Len(out) : out[i][1] # q
      BY <1>1, <2>1 DEF NothingEarly
    <2>3. q # p
      BY <1>1, <2>1, Running
    <2>4. logAt'[<<q, 2>>] = "none"
      BY <1>8, <2>2
    <2>5. \A i \in 1..Len(out') : out'[i][1] # q
      BY <1>7, <2>2, <2>3
    <2> QED BY <1>3, <2>2, <2>3, <2>4, <2>5
  <1>13. OwnLine'
    <2>0. \A v \in Log!Writers : /\ Active(v)' => Active(v)
                                 /\ logAt'[v] \in {"lock", "text"} => logAt[v] \in {"lock", "text"}
                                 /\ logAt'[v] = "sep" => logAt[v] = "sep"
      BY DEF Active
    <2>1. \A q \in LogProcesses : \A l : Has(buffer'[q], l) => Has(buffer[q], l)
      BY <1>4 DEF Has
    <2>2. \A v \in Log!Writers : logAt[v] \in {"lock", "text"} =>
            /\ \A i \in 1..Len(out) : out[i][2][1] # line[v]
            /\ \A q \in LogProcesses : ~Has(buffer[q], line[v])
      BY <1>1 DEF OwnLine
    <2>3. ASSUME NEW v \in Log!Writers, logAt'[v] \in {"lock", "text"}
          PROVE  /\ \A i \in 1..Len(out') : out'[i][2][1] # line'[v]
                 /\ \A q \in LogProcesses : ~Has(buffer'[q], line'[v])
      <3>1. \A k \in 1..Len(buffer[p]) : buffer[p][k][1] # line[v]
        BY <2>0, <2>2, <2>3 DEF Has
      <3>2. \A i \in 1..Len(out) : out[i][2][1] # line[v]
        BY <2>0, <2>2, <2>3
      <3>3. ASSUME NEW i \in 1..Len(out') PROVE out'[i][2][1] # line[v]
        BY <1>7, <3>1, <3>2
      <3>4. \A q \in LogProcesses : ~Has(buffer'[q], line[v])
        BY <2>0, <2>1, <2>2, <2>3
      <3> QED BY <3>3, <3>4
    <2>4. \A v \in Log!Writers : logAt'[v] = "sep" =>
            \A q \in LogProcesses : q # v[1] => ~Has(buffer'[q], line'[v])
      BY <1>1, <2>0, <2>1 DEF OwnLine
    <2>5. \A v \in Log!Writers : Active(v)' => line'[v] >= 1 /\ line'[v] \notin copied' \cup dropped'
      BY <1>1, <2>0 DEF OwnLine
    <2>6. \A u, v \in Log!Writers : Active(u)' /\ Active(v)' /\ line'[u] = line'[v] => u = v
      BY <1>1, <2>0 DEF OwnLine
    <2> QED BY <2>3, <2>4, <2>5, <2>6 DEF OwnLine
  <1>14. FileWhole'
    <2> SUFFICES ASSUME strategy = "file" PROVE FileWhole'
      BY DEF FileWhole
    <2>1. /\ \A q \in LogProcesses : buffer[q] = <<>>
          /\ copied = {} /\ dropped = {} /\ \A v \in Log!Writers : logAt[v] # "sep"
          /\ Log!Alternate(out, 1..Len(out)) /\ Ends(out, 1..Len(out))
      BY <1>1 DEF FileWhole
    <2>2. out' = out
      <3>1. out' = All(out, p, <<>>)
        BY <2>1 DEF Log!Write, All
      <3>2. All(out, p, <<>>) = out
        <4>1. out \in Seq(LogProcesses \X Log!Piece)
          BY <1>1, LogTypes
        <4> QED BY <1>2, <4>1, NothingToWrite
      <3> QED BY <3>1, <3>2
    <2>3. \A q \in LogProcesses : buffer'[q] = <<>>
      BY <1>3, <2>1
    <2>4. \A v \in Log!Writers : logAt'[v] # "sep"
      BY <2>1
    <2> QED BY <2>1, <2>2, <2>3, <2>4 DEF FileWhole
  <1>15. WrittenByEach'
    <2>1. All(out', p, buffer'[p]) = All(out, p, buffer[p])
      <3>1. out \in Seq(LogProcesses \X Log!Piece)
        BY <1>1, LogTypes
      <3>2. PICK o : o = out
        OBVIOUS
      <3>3. PICK b : b = buffer[p]
        OBVIOUS
      <3>4. All(o \o Log!From(p, b), p, <<>>) = All(o, p, b)
        BY <1>2, <3>1, <3>2, <3>3, Flushed
      <3>5. out' = o \o Log!From(p, b) /\ buffer'[p] = <<>>
        BY <1>3, <1>6, <3>2, <3>3
      <3> QED BY <3>2, <3>3, <3>4, <3>5
    <2>2. \A q \in LogProcesses : logAt'[<<q, 1>>] # "gone" => logAt[<<q, 1>>] # "gone"
      BY <1>8
    <2>3. \A v \in Log!Writers :
            (logAt'[v] = "sep" <=> logAt[v] = "sep") /\ (logAt[v] = "sep" => line'[v] = line[v])
      OBVIOUS
    <2>4. \E q \in LogProcesses, c \in Seq(Log!Piece) :
              /\ out' = out \o Log!From(q, c)
              /\ \A r \in LogProcesses \ {q} : buffer'[r] = buffer[r]
              /\ All(out', q, buffer'[q]) = All(out, q, buffer[q])
      BY <1>2, <1>3, <1>6, <2>1
    <2> QED BY <1>1, <2>2, <2>3, <2>4, WrittenByAll
  <1>16. Once'
    <2>0. /\ \A i, j \in 1..Len(out) :
               out[i][2] = out[j][2] /\ out[i][2][2] = "text" /\ out[i][2][1] \notin copied => i = j
          /\ \A q, r \in LogProcesses : \A i \in 1..Len(buffer[q]), j \in 1..Len(buffer[r]) :
               buffer[q][i] = buffer[r][j] /\ buffer[q][i][2] = "text" /\ buffer[q][i][1] \notin copied
                 => q = r /\ i = j
          /\ \A q \in LogProcesses : \A i \in 1..Len(buffer[q]), j \in 1..Len(out) :
               buffer[q][i] = out[j][2] /\ buffer[q][i][2] = "text" => buffer[q][i][1] \in copied
      BY <1>1 DEF Once
    <2>1. ASSUME NEW i \in 1..Len(out'), NEW j \in 1..Len(out'),
                 out'[i][2] = out'[j][2], out'[i][2][2] = "text", out'[i][2][1] \notin copied
          PROVE  i = j
      <3>1. CASE i \in 1..Len(out) /\ out'[i] = out[i] /\ j \in 1..Len(out) /\ out'[j] = out[j]
        BY <2>0, <2>1, <3>1
      <3>2. ASSUME i \in 1..Len(out), out'[i] = out[i],
                   NEW k \in 1..Len(buffer[p]), out'[j][2] = buffer[p][k]
            PROVE  FALSE
        BY <2>0, <2>1, <3>2
      <3>3. ASSUME j \in 1..Len(out), out'[j] = out[j],
                   NEW k \in 1..Len(buffer[p]), out'[i][2] = buffer[p][k]
            PROVE  FALSE
        BY <2>0, <2>1, <3>3
      <3>4. ASSUME NEW k \in 1..Len(buffer[p]), i = Len(out) + k, out'[i][2] = buffer[p][k],
                   NEW m \in 1..Len(buffer[p]), j = Len(out) + m, out'[j][2] = buffer[p][m]
            PROVE  i = j
        <4>1. k = m
          BY <2>0, <2>1, <3>4
        <4> QED BY <3>4, <4>1
      <3> QED BY <1>7, <3>1, <3>2, <3>3, <3>4
    <2>2. ASSUME NEW q \in LogProcesses, NEW r \in LogProcesses,
                 NEW i \in 1..Len(buffer'[q]), NEW j \in 1..Len(buffer'[r]),
                 buffer'[q][i] = buffer'[r][j], buffer'[q][i][2] = "text",
                 buffer'[q][i][1] \notin copied
          PROVE  q = r /\ i = j
      BY <1>4, <2>0, <2>2
    <2>3. ASSUME NEW q \in LogProcesses, NEW i \in 1..Len(buffer'[q]), NEW j \in 1..Len(out'),
                 buffer'[q][i] = out'[j][2], buffer'[q][i][2] = "text"
          PROVE  buffer'[q][i][1] \in copied
      <3>0. q # p /\ i \in 1..Len(buffer[q]) /\ buffer'[q][i] = buffer[q][i]
        BY <1>4
      <3>1. CASE j \in 1..Len(out) /\ out'[j] = out[j]
        BY <2>0, <2>3, <3>0, <3>1
      <3>2. ASSUME NEW k \in 1..Len(buffer[p]), out'[j][2] = buffer[p][k]
            PROVE  buffer'[q][i][1] \in copied
        BY <2>0, <2>3, <3>0, <3>2
      <3> QED BY <1>7, <3>1, <3>2
    <2> QED BY <2>1, <2>2, <2>3 DEF Once
  <1>17. NoneMissing'
    <2>1. ASSUME NEW l, InPlace(l) PROVE InPlace(l)'
      <3>1. CASE \E i \in 1..Len(out) : out[i][2] = <<l, "text">>
        BY <1>6, <3>1 DEF InPlace
      <3>2. CASE \E q \in LogProcesses : \E i \in 1..Len(buffer[q]) : buffer[q][i] = <<l, "text">>
        <4>0. PICK q \in LogProcesses : \E i \in 1..Len(buffer[q]) : buffer[q][i] = <<l, "text">>
          BY <3>2
        <4>1. PICK i \in 1..Len(buffer[q]) : buffer[q][i] = <<l, "text">>
          BY <4>0
        <4>2. CASE q # p
          BY <1>3, <4>1, <4>2 DEF InPlace
        <4>3. CASE q = p
          <5>1. Len(out) + i \in 1..Len(out') /\ out'[Len(out) + i] = <<p, buffer[p][i]>>
            BY <1>6, <4>1, <4>3
          <5>2. out'[Len(out) + i][2] = <<l, "text">>
            BY <4>1, <4>3, <5>1
          <5> QED BY <5>1, <5>2 DEF InPlace
        <4> QED BY <4>2, <4>3
      <3> QED BY <2>1, <3>1, <3>2 DEF InPlace
    <2>2. \A v \in Log!Writers : logAt'[v] = "sep" => logAt[v] = "sep"
      OBVIOUS
    <2>3. \A l \in synced' \ (copied' \cup dropped') : InPlace(l)'
      BY <1>1, <2>1 DEF NoneMissing
    <2>4. ASSUME NEW v \in Log!Writers, logAt'[v] = "sep" PROVE InPlace(line[v])'
      <3>1. PICK l : l = line[v]
        OBVIOUS
      <3>2. InPlace(l)'
        BY <1>1, <2>1, <2>2, <2>4, <3>1 DEF NoneMissing
      <3> QED BY <3>1, <3>2 DEF InPlace
    <2> QED BY <2>3, <2>4 DEF NoneMissing
  <1> QED BY <1>9, <1>10, <1>11, <1>12, <1>13, <1>14, <1>15, <1>16, <1>17 DEF LogInv

LEMMA FlushKeeps ==
  ASSUME LogInv, Log!LoggerAssumption, NEW p \in LogProcesses, Log!Flush(p)
  PROVE  LogInv'
  <1>1. /\ Log!Alive(p) /\ Log!Write(p, buffer[p]) /\ buffer' = [buffer EXCEPT ![p] = <<>>]
        /\ UNCHANGED <<strategy, line, logMutex, logged, synced, dropped, copied, logFaults>>
        /\ logAt' = logAt
    BY DEF Log!Flush
  <1>2. Log!TypeOK /\ Guarded
    BY DEF LogInv
  <1>3. /\ logAt' \in [Log!Writers -> {"none", "idle", "lock", "text", "sep", "gone"}]
        /\ \A q \in LogProcesses :
             logAt'[<<q, 1>>] \in {"none", "gone"} => logAt'[<<q, 2>>] \in {"none", "gone"}
    BY <1>1, <1>2 DEF Log!TypeOK, Guarded
  <1> QED BY <1>1, <1>3, BufferWritten

(* The threads of a process that ends.                                     *)
LEMMA Ending ==
  ASSUME Log!TypeOK, Guarded, NEW p \in LogProcesses, Log!Alive(p),
         logAt' = [w \in Log!Writers |-> IF w \in Log!Threads(p) THEN "gone" ELSE logAt[w]]
  PROVE  /\ logAt' \in [Log!Writers -> {"none", "idle", "lock", "text", "sep", "gone"}]
         /\ logAt'[<<p, 1>>] = "gone"
         /\ \A w \in Log!Writers : w[1] = p => logAt'[w] \in {"none", "gone"}
         /\ \A w \in Log!Writers : w[1] # p => logAt'[w] = logAt[w]
         /\ \A w \in Log!Writers : logAt'[w] = logAt[w] \/ (w \in Log!Threads(p) /\ logAt'[w] = "gone")
         /\ \A q \in LogProcesses :
              logAt'[<<q, 1>>] \in {"none", "gone"} => logAt'[<<q, 2>>] \in {"none", "gone"}
  <1>1. \A q \in LogProcesses : <<q, 1>> \in Log!Writers /\ <<q, 2>> \in Log!Writers
    BY DEF Log!Writers
  <1>2. logAt' \in [Log!Writers -> {"none", "idle", "lock", "text", "sep", "gone"}]
    BY DEF Log!TypeOK
  <1>3. logAt[<<p, 1>>] \notin {"none", "gone"}
    BY Running
  <1>4. <<p, 1>> \in Log!Threads(p)
    BY <1>1, <1>3 DEF Log!Threads
  <1>5. \A w \in Log!Writers : logAt'[w] = logAt[w] \/ (w \in Log!Threads(p) /\ logAt'[w] = "gone")
    OBVIOUS
  <1>6. \A w \in Log!Writers : w[1] # p => logAt'[w] = logAt[w]
    BY DEF Log!Threads
  <1>7. \A w \in Log!Writers : w[1] = p => logAt'[w] \in {"none", "gone"}
    BY DEF Log!Threads
  <1>8. ASSUME NEW q \in LogProcesses, logAt'[<<q, 1>>] \in {"none", "gone"}
        PROVE  logAt'[<<q, 2>>] \in {"none", "gone"}
    <2>1. CASE q = p
      BY <1>1, <1>7, <2>1
    <2>2. CASE q # p
      <3>1. logAt'[<<q, 1>>] = logAt[<<q, 1>>] /\ logAt'[<<q, 2>>] = logAt[<<q, 2>>]
        BY <1>1, <1>6, <2>2
      <3> QED BY <1>8, <3>1 DEF Guarded
    <2> QED BY <2>1, <2>2
  <1>9. logAt'[<<p, 1>>] = "gone"
    BY <1>1, <1>4
  <1> QED BY <1>2, <1>5, <1>6, <1>7, <1>8, <1>9

LEMMA ExitKeeps ==
  ASSUME LogInv, Log!LoggerAssumption, NEW p \in LogProcesses, Log!Exit(p)
  PROVE  LogInv'
  <1>1. /\ Log!Alive(p) /\ Log!Write(p, buffer[p]) /\ buffer' = [buffer EXCEPT ![p] = <<>>]
        /\ UNCHANGED <<strategy, line, logMutex, logged, synced, dropped, copied, logFaults>>
        /\ \A w \in Log!Threads(p) : logAt[w] = "idle"
        /\ logAt' = [w \in Log!Writers |-> IF w \in Log!Threads(p) THEN "gone" ELSE logAt[w]]
    BY DEF Log!Exit
  <1>2. Log!TypeOK /\ Guarded
    BY DEF LogInv
  <1>3. /\ logAt' \in [Log!Writers -> {"none", "idle", "lock", "text", "sep", "gone"}]
        /\ \A w \in Log!Writers : logAt'[w] = logAt[w] \/ (w \in Log!Threads(p) /\ logAt'[w] = "gone")
        /\ \A q \in LogProcesses :
             logAt'[<<q, 1>>] \in {"none", "gone"} => logAt'[<<q, 2>>] \in {"none", "gone"}
    BY <1>1, <1>2, Ending
  <1>4. \A w \in Log!Writers : logAt'[w] = logAt[w] \/ (logAt[w] = "idle" /\ logAt'[w] = "gone")
    BY <1>1, <1>3
  <1> QED BY <1>1, <1>3, <1>4, BufferWritten

LEMMA KillKeeps ==
  ASSUME LogInv, Log!LoggerAssumption, NEW p \in LogProcesses, Log!Kill(p)
  PROVE  LogInv'
  <1>1. /\ Log!TypeOK /\ Numbered /\ Guarded /\ NothingEarly /\ OwnLine
        /\ FileWhole /\ WrittenByEach /\ Once /\ NoneMissing
    BY DEF LogInv
  <1>2. /\ Log!Alive(p)
        /\ logAt' = [w \in Log!Writers |-> IF w \in Log!Threads(p) THEN "gone" ELSE logAt[w]]
        /\ dropped' = dropped \cup Log!Lines(buffer[p])
        /\ buffer' = [buffer EXCEPT ![p] = <<>>]
        /\ logMutex' = [logMutex EXCEPT ![p] = Nobody]
        /\ UNCHANGED <<strategy, line, out, logged, synced, copied>>
    BY DEF Log!Kill
  <1>3. /\ logAt' \in [Log!Writers -> {"none", "idle", "lock", "text", "sep", "gone"}]
        /\ logAt'[<<p, 1>>] = "gone"
        /\ \A w \in Log!Writers : w[1] = p => logAt'[w] \in {"none", "gone"}
        /\ \A w \in Log!Writers : w[1] # p => logAt'[w] = logAt[w]
        /\ \A q \in LogProcesses :
             logAt'[<<q, 1>>] \in {"none", "gone"} => logAt'[<<q, 2>>] \in {"none", "gone"}
    BY <1>1, <1>2, Ending
  <1>4. buffer[p] \in Seq(Log!Piece) /\ <<>> \in Seq(Log!Piece)
    BY <1>1, LogTypes
  <1>5. /\ buffer' \in [LogProcesses -> Seq(Log!Piece)] /\ buffer'[p] = <<>>
        /\ \A q \in LogProcesses : q # p => buffer'[q] = buffer[q]
    BY <1>1, <1>2, <1>4 DEF Log!TypeOK
  <1>6. \A q \in LogProcesses : \A i \in 1..Len(buffer'[q]) :
          q # p /\ i \in 1..Len(buffer[q]) /\ buffer'[q][i] = buffer[q][i]
    <2>1. Len(<<>>) = 0
      OBVIOUS
    <2> QED BY <1>5, <2>1
  <1>7. \A q \in LogProcesses : <<q, 1>> \in Log!Writers /\ <<q, 2>> \in Log!Writers
    BY DEF Log!Writers
  <1>8. /\ logMutex' \in [LogProcesses -> Log!Writers \cup {Nobody}]
        /\ \A q \in LogProcesses : q # p => logMutex'[q] = logMutex[q]
    BY <1>1, <1>2 DEF Log!TypeOK
  <1>9. \A l \in Log!Lines(buffer[p]) : l \in 1..MaxLogLines /\ l <= logged /\ Has(buffer[p], l)
    <2>1. \A i \in 1..Len(buffer[p]) : buffer[p][i][1] \in 1..MaxLogLines /\ buffer[p][i][1] <= logged
      BY <1>1, LogTypes DEF Log!Piece, Numbered
    <2> QED BY <2>1 DEF Log!Lines, Has
  <1>10. Log!TypeOK'
    <2>1. logFaults' \in 0..MaxLogFaults
      <3>1. logFaults \in 0..MaxLogFaults /\ logFaults < MaxLogFaults /\ logFaults' = logFaults + 1
        BY <1>1 DEF Log!Kill, Log!Fault, Log!TypeOK
      <3>2. MaxLogFaults \in Nat
        BY DEF Log!LoggerAssumption
      <3> QED BY <3>1, <3>2
    <2>2. synced \cup dropped' \cup copied \subseteq 1..MaxLogLines
      BY <1>1, <1>2, <1>9 DEF Log!TypeOK
    <2> QED BY <1>1, <1>2, <1>3, <1>5, <1>8, <2>1, <2>2 DEF Log!TypeOK
  <1>11. Numbered'
    <2>1. \A q \in LogProcesses : \A i \in 1..Len(buffer'[q]) : buffer'[q][i][1] <= logged
      BY <1>1, <1>6 DEF Numbered
    <2>2. synced \cup dropped' \cup copied \subseteq 1..logged
      <3>1. \A l \in 1..MaxLogLines : l <= logged => l \in 1..logged
        BY <1>1, LogTypes
      <3> QED BY <1>1, <1>2, <1>9, <3>1 DEF Numbered
    <2> QED BY <1>1, <1>2, <2>1, <2>2 DEF Numbered
  <1>12. Guarded'
    <2>1. \A w \in Log!Writers : logAt'[w] \in {"text", "sep"} => logMutex'[w[1]] = w
      <3>1. \A w \in Log!Writers : w[1] \in LogProcesses
        BY <1>1, LogTypes
      <3> QED BY <1>1, <1>3, <1>8, <3>1 DEF Guarded
    <2> QED BY <1>3, <2>1 DEF Guarded
  <1>13. NothingEarly'
    <2> SUFFICES ASSUME NEW q \in LogProcesses, logAt'[<<q, 1>>] = "none"
                 PROVE  /\ logAt'[<<q, 2>>] = "none" /\ buffer'[q] = <<>>
                        /\ \A i \in 1..Len(out) : out[i][1] # q
      BY <1>2 DEF NothingEarly
    <2>1. q # p
      BY <1>3
    <2>2. logAt'[<<q, 1>>] = logAt[<<q, 1>>] /\ logAt'[<<q, 2>>] = logAt[<<q, 2>>]
      BY <1>3, <1>7, <2>1
    <2> QED BY <1>1, <1>5, <2>1, <2>2 DEF NothingEarly
  <1>14. OwnLine'
    <2>0. \A v \in Log!Writers : /\ Active(v)' => Active(v) /\ v[1] # p
                                 /\ logAt'[v] \in {"lock", "text"} => logAt[v] \in {"lock", "text"}
                                 /\ logAt'[v] = "sep" => logAt[v] = "sep"
      BY <1>3 DEF Active
    <2>1. \A q \in LogProcesses : \A l : Has(buffer'[q], l) => Has(buffer[q], l)
      BY <1>6 DEF Has
    <2>2. ASSUME NEW v \in Log!Writers, Active(v)'
          PROVE  line'[v] >= 1 /\ line'[v] \notin copied' \cup dropped'
      <3>1. Active(v) /\ v[1] # p /\ line'[v] = line[v]
        BY <1>2, <2>0, <2>2
      <3>2. line[v] >= 1 /\ line[v] \notin copied \cup dropped
        BY <1>1, <3>1 DEF OwnLine
      <3>3. ~Has(buffer[p], line[v])
        <4>1. CASE logAt[v] \in {"lock", "text"}
          BY <1>1, <4>1 DEF OwnLine
        <4>2. CASE logAt[v] = "sep"
          BY <1>1, <3>1, <4>2 DEF OwnLine
        <4> QED BY <3>1, <4>1, <4>2 DEF Active
      <3>4. line[v] \notin Log!Lines(buffer[p])
        BY <1>9, <3>3
      <3> QED BY <1>2, <3>1, <3>2, <3>4
    <2>3. \A u, v \in Log!Writers : Active(u)' /\ Active(v)' /\ line'[u] = line'[v] => u = v
      BY <1>1, <1>2, <2>0 DEF OwnLine
    <2>4. \A v \in Log!Writers : logAt'[v] \in {"lock", "text"} =>
            /\ \A i \in 1..Len(out') : out'[i][2][1] # line'[v]
            /\ \A q \in LogProcesses : ~Has(buffer'[q], line'[v])
      BY <1>1, <1>2, <2>0, <2>1 DEF OwnLine
    <2>5. \A v \in Log!Writers : logAt'[v] = "sep" =>
            \A q \in LogProcesses : q # v[1] => ~Has(buffer'[q], line'[v])
      BY <1>1, <1>2, <2>0, <2>1 DEF OwnLine
    <2> QED BY <2>2, <2>3, <2>4, <2>5 DEF OwnLine
  <1>15. FileWhole'
    <2> SUFFICES ASSUME strategy = "file" PROVE FileWhole'
      BY <1>2 DEF FileWhole
    <2>1. /\ \A q \in LogProcesses : buffer[q] = <<>>
          /\ copied = {} /\ dropped = {} /\ \A v \in Log!Writers : logAt[v] # "sep"
          /\ Log!Alternate(out, 1..Len(out)) /\ Ends(out, 1..Len(out))
      BY <1>1 DEF FileWhole
    <2>2. dropped' = {}
      <3>1. Len(<<>>) = 0 /\ buffer[p] = <<>>
        BY <2>1
      <3>2. Log!Lines(buffer[p]) = {}
        BY <3>1 DEF Log!Lines
      <3> QED BY <1>2, <2>1, <3>2
    <2>3. \A q \in LogProcesses : buffer'[q] = <<>>
      BY <1>5, <2>1
    <2>4. \A v \in Log!Writers : logAt'[v] # "sep"
      BY <1>3, <2>1
    <2> QED BY <1>2, <2>1, <2>2, <2>3, <2>4 DEF FileWhole
  <1>16. WrittenByEach'
    <2>1. ASSUME NEW q \in LogProcesses, q # p PROVE WrittenBy(q)'
      <3>1. All(out', q, buffer'[q]) = All(out, q, buffer[q])
        BY <1>2, <1>5, <2>1
      <3>2. logAt'[<<q, 1>>] # "gone" => logAt[<<q, 1>>] # "gone"
        BY <1>3, <1>7, <2>1
      <3>3. \A w \in Log!Writers : w[1] = q =>
              (logAt'[w] = "sep" <=> logAt[w] = "sep") /\ (logAt[w] = "sep" => line'[w] = line[w])
        BY <1>2, <1>3, <2>1
      <3>4. WrittenBy(q)
        BY <1>1 DEF WrittenByEach
      <3>5. copied' = copied
        BY <1>2
      <3> QED BY <1>1, <3>1, <3>2, <3>3, <3>4, <3>5, WrittenAsBefore
    <2>2. WrittenBy(p)'
      <3> DEFINE s == All(out, p, buffer[p])
                 P == Marks(out, p, buffer[p], copied)
                 t == All(out, p, <<>>)
                 Q == Marks(out, p, <<>>, copied)
      <3>1. Log!Alternate(s, P)
        BY <1>1, InTermsOfAll DEF WrittenByEach, WrittenBy
      <3>2. out \in Seq(LogProcesses \X Log!Piece) /\ Len(<<>>) = 0
        BY <1>1, LogTypes
      <3>3. /\ P \in SUBSET Nat
            /\ \A i : i \in P <=> /\ i \in 1..(Len(out) + Len(buffer[p]))
                                  /\ s[i][1] = p /\ s[i][2][1] \notin copied
        BY <1>4, <3>2, MarksAre
      <3>4. \A i : i \in Q <=> /\ i \in 1..(Len(out) + Len(<<>>))
                               /\ t[i][1] = p /\ t[i][2][1] \notin copied
        BY <1>4, <3>2, MarksAre
      <3>5. /\ Len(out) \in Nat /\ Len(buffer[p]) \in Nat
            /\ \A i \in 1..Len(out) : s[i] = out[i]
        BY <1>4, <3>2, AllIs
      <3>6. t = out
        BY <3>2, NothingToWrite
      <3> HIDE DEF s, t, P, Q
      <3>7. PICK n : n = Len(out)
        OBVIOUS
      <3>8. PICK m : m = Len(buffer[p])
        OBVIOUS
      <3>9. /\ n \in Nat /\ m \in Nat
            /\ \A i : i \in P <=> /\ i \in 1..(n + m) /\ s[i][1] = p /\ s[i][2][1] \notin copied
            /\ \A i : i \in Q <=> /\ i \in 1..(n + 0) /\ t[i][1] = p /\ t[i][2][1] \notin copied
            /\ \A i \in 1..n : t[i] = s[i]
        BY <3>2, <3>3, <3>4, <3>5, <3>6, <3>7, <3>8
      <3>10. n + 0 = n /\ \A i \in 1..n : i \in 1..(n + m)
        BY <3>9
      <3>11. /\ \A i \in Q : i \in 1..n /\ t[i] = s[i] /\ i \in P
             /\ \A i \in P : i \in 1..n => i \in Q
        BY <3>9, <3>10
      <3>12. ASSUME NEW i \in Q, NEW k \in P, k <= i PROVE k \in Q
        <4>1. i \in 1..n /\ k \in 1..(n + m) /\ k <= i
          BY <3>9, <3>11, <3>12
        <4>2. k \in 1..n
          BY <3>9, <4>1
        <4> QED BY <3>11, <4>2
      <3>13. Log!Alternate(t, Q)
        BY <3>1, <3>3, <3>11, <3>12, CutOff
      <3>14. Log!Everything(p)' = t /\ Places(p)' = Q
        BY <1>2, <1>5, InTermsOfAll DEF t, Q
      <3>15. \A w \in Log!Writers : w[1] = p => logAt'[w] # "sep"
        BY <1>3
      <3> QED BY <1>3, <3>13, <3>14, <3>15 DEF WrittenBy
    <2> QED BY <2>1, <2>2 DEF WrittenByEach
  <1>17. Once'
    <2>0. \A q, r \in LogProcesses : \A i \in 1..Len(buffer[q]), j \in 1..Len(buffer[r]) :
               buffer[q][i] = buffer[r][j] /\ buffer[q][i][2] = "text" /\ buffer[q][i][1] \notin copied
                 => q = r /\ i = j
      BY <1>1 DEF Once
    <2>1. ASSUME NEW q \in LogProcesses, NEW r \in LogProcesses,
                 NEW i \in 1..Len(buffer'[q]), NEW j \in 1..Len(buffer'[r]),
                 buffer'[q][i] = buffer'[r][j], buffer'[q][i][2] = "text",
                 buffer'[q][i][1] \notin copied
          PROVE  q = r /\ i = j
      <3>1. /\ i \in 1..Len(buffer[q]) /\ buffer'[q][i] = buffer[q][i]
            /\ j \in 1..Len(buffer[r]) /\ buffer'[r][j] = buffer[r][j]
        BY <1>6
      <3>2. /\ buffer[q][i] = buffer[r][j] /\ buffer[q][i][2] = "text"
            /\ buffer[q][i][1] \notin copied
        BY <2>1, <3>1
      <3>3. i \in 1..Len(buffer[q]) /\ j \in 1..Len(buffer[r])
        BY <3>1
      <3> QED BY <2>0, <3>2, <3>3
    <2>2. ASSUME NEW q \in LogProcesses, NEW i \in 1..Len(buffer'[q]), NEW j \in 1..Len(out),
                 buffer'[q][i] = out[j][2], buffer'[q][i][2] = "text"
          PROVE  buffer'[q][i][1] \in copied
      <3>1. i \in 1..Len(buffer[q]) /\ buffer'[q][i] = buffer[q][i]
        BY <1>6
      <3> QED BY <1>1, <2>2, <3>1 DEF Once
    <2>3. \A i, j \in 1..Len(out) :
            out[i][2] = out[j][2] /\ out[i][2][2] = "text" /\ out[i][2][1] \notin copied => i = j
      BY <1>1 DEF Once
    <2>4. UNCHANGED <<out, copied>>
      BY <1>2
    <2> QED BY <2>1, <2>2, <2>3, <2>4 DEF Once
  <1>18. NoneMissing'
    <2>1. ASSUME NEW l, InPlace(l), ~Has(buffer[p], l) PROVE InPlace(l)'
      <3>1. CASE \E i \in 1..Len(out) : out[i][2] = <<l, "text">>
        BY <1>2, <3>1 DEF InPlace
      <3>2. CASE \E q \in LogProcesses : \E i \in 1..Len(buffer[q]) : buffer[q][i] = <<l, "text">>
        <4>0. PICK q \in LogProcesses : \E i \in 1..Len(buffer[q]) : buffer[q][i] = <<l, "text">>
          BY <3>2
        <4>1. PICK i \in 1..Len(buffer[q]) : buffer[q][i] = <<l, "text">>
          BY <4>0
        <4>2. q # p
          BY <2>1, <4>1 DEF Has
        <4> QED BY <1>5, <4>1, <4>2 DEF InPlace
      <3> QED BY <2>1, <3>1, <3>2 DEF InPlace
    <2>2. \A l \in synced' \ (copied' \cup dropped') : InPlace(l)'
      <3>1. ASSUME NEW l \in synced, l \notin copied, l \notin dropped' PROVE InPlace(l)'
        <4>1. l \notin dropped /\ l \notin Log!Lines(buffer[p])
          BY <1>2, <3>1
        <4>2. ~Has(buffer[p], l)
          BY <4>1 DEF Has, Log!Lines
        <4>3. InPlace(l)
          BY <1>1, <3>1, <4>1 DEF NoneMissing
        <4> QED BY <2>1, <4>2, <4>3
      <3> QED BY <1>2, <3>1
    <2>3. ASSUME NEW v \in Log!Writers, logAt'[v] = "sep" PROVE InPlace(line[v])'
      <3>1. PICK l : l = line[v]
        OBVIOUS
      <3>2. logAt[v] = "sep" /\ v[1] # p
        BY <1>3, <2>3
      <3>3. InPlace(l) /\ ~Has(buffer[p], l)
        BY <1>1, <3>1, <3>2 DEF NoneMissing, OwnLine
      <3>4. InPlace(l)'
        BY <2>1, <3>3
      <3> QED BY <1>2, <3>1, <3>4 DEF InPlace
    <2> QED BY <2>2, <2>3 DEF NoneMissing
  <1> QED BY <1>10, <1>11, <1>12, <1>13, <1>14, <1>15, <1>16, <1>17, <1>18 DEF LogInv

(* A line that is written behind whole lines.                              *)
LEMMA LineAppended ==
  ASSUME NEW s, NEW t, NEW n \in Nat, NEW places \in SUBSET (1..n), NEW l,
         \A i \in 1..n : t[i] = s[i],
         t[n + 1][2] = <<l, "text">>, t[n + 2][2] = <<l, "sep">>,
         Log!Alternate(s, places), Ends(s, places)
  PROVE  /\ Log!Alternate(t, places \cup {n + 1, n + 2})
         /\ Ends(t, places \cup {n + 1, n + 2})
  <1> DEFINE a == n + 1
             b == n + 2
             more == places \cup {a}
  <1>1. /\ places \in SUBSET Nat /\ a \in Nat /\ b \in Nat /\ more \in SUBSET Nat
        /\ \A i \in places : i < a /\ t[i] = s[i]
        /\ \A i \in more : i < b
    OBVIOUS
  <1>2. t[a][2] = <<l, "text">> /\ t[b][2] = <<l, "sep">>
    OBVIOUS
  <1>3. places \cup {n + 1, n + 2} = more \cup {b}
    OBVIOUS
  <1>4. Log!Alternate(t, more) /\ EndsWith(t, more, <<l, "text">>)
    <2> HIDE DEF a, b
    <2> QED BY <1>1, <1>2, TextAppended
  <1>5. Log!Alternate(t, more \cup {b}) /\ Ends(t, more \cup {b})
    <2> HIDE DEF a, b, more
    <2> QED BY <1>1, <1>2, <1>4, SepAppended
  <1> QED BY <1>3, <1>5

LEMMA AppendToFileKeeps ==
  ASSUME LogInv, Log!LoggerAssumption, NEW w \in Log!Writers, Log!AppendToFile(w)
  PROVE  LogInv'
  <1>1. /\ Log!TypeOK /\ Numbered /\ Guarded /\ NothingEarly /\ OwnLine
        /\ FileWhole /\ WrittenByEach /\ Once /\ NoneMissing
    BY DEF LogInv
  <1>p. PICK p : p = w[1]
    OBVIOUS
  <1>l. PICK l : l = line[w]
    OBVIOUS
  <1> DEFINE c == << <<l, "text">>, <<l, "sep">> >>
  <1>2. /\ strategy = "file" /\ logAt[w] = "text" /\ Log!Unlock(w)
        /\ Log!Write(p, c) /\ buffer' = buffer /\ synced' = synced \cup {l}
        /\ UNCHANGED <<strategy, line, logged, dropped, copied, logFaults>>
    BY <1>p, <1>l DEF Log!AppendToFile, Log!CloseFile, Log!Text, Log!Sep
  <1>3. /\ p \in LogProcesses
        /\ \A q \in LogProcesses : <<q, 1>> \in Log!Writers /\ <<q, 2>> \in Log!Writers
    BY <1>p DEF Log!Writers
  <1>4. /\ logAt'[w] = "idle" /\ \A v \in Log!Writers : v # w => logAt'[v] = logAt[v]
        /\ logAt' \in [Log!Writers -> {"none", "idle", "lock", "text", "sep", "gone"}]
        /\ logMutex' \in [LogProcesses -> Log!Writers \cup {Nobody}]
        /\ \A v \in Log!Writers : logAt'[v] \in {"text", "sep"} => logMutex'[v[1]] = v
        /\ \A q \in LogProcesses :
             logAt'[<<q, 1>>] \in {"none", "gone"} => logAt'[<<q, 2>>] \in {"none", "gone"}
    BY <1>1, <1>2, Unlocking
  <1>5. Active(w) /\ l \in 1..MaxLogLines /\ l \in 1..logged /\ l <= logged
    <2>1. Active(w) /\ l >= 1 /\ l <= logged
      BY <1>1, <1>2, <1>l DEF OwnLine, Active, Numbered
    <2>2. l \in 0..MaxLogLines /\ logged \in Nat
      BY <1>1, <1>l, LogTypes DEF Log!TypeOK
    <2> QED BY <2>1, <2>2 DEF Log!LoggerAssumption
  <1>6. /\ c \in Seq(Log!Piece) /\ Len(c) = 2 /\ c[1] = <<l, "text">> /\ c[2] = <<l, "sep">>
        /\ \A k \in 1..Len(c) : c[k][1] = l /\ (c[k] = <<l, "text">> \/ c[k] = <<l, "sep">>)
        /\ \A k \in 1..Len(c) : c[k][2] = "text" => k = 1
    <2>1. <<l, "text">> \in Log!Piece /\ <<l, "sep">> \in Log!Piece
      BY <1>5 DEF Log!Piece
    <2>2. c \in Seq(Log!Piece) /\ Len(c) = 2 /\ c[1] = <<l, "text">> /\ c[2] = <<l, "sep">>
      BY <2>1
    <2>3. \A k \in 1..Len(c) : k = 1 \/ k = 2
      BY <2>2
    <2> QED BY <2>2, <2>3
  <1> HIDE DEF c
  <1>7. Wrote(p, c)
    BY <1>1, <1>2, <1>3, <1>6, Writing
  <1>8. /\ out' \in Seq(LogProcesses \X Log!Piece) /\ out' = out \o Log!From(p, c)
        /\ \A i \in 1..Len(out) : i \in 1..Len(out') /\ out'[i] = out[i]
        /\ \A k \in 1..Len(c) : Len(out) + k \in 1..Len(out') /\ out'[Len(out) + k] = <<p, c[k]>>
        /\ \A i \in 1..Len(out') : i \in 1..Len(out) \/ \E k \in 1..Len(c) : i = Len(out) + k
    BY <1>7 DEF Wrote
  <1>9. \A i \in 1..Len(out') :
          \/ i \in 1..Len(out) /\ out'[i] = out[i]
          \/ \E k \in 1..Len(c) : i = Len(out) + k /\ out'[i][1] = p /\ out'[i][2] = c[k]
    <2> SUFFICES ASSUME NEW i \in 1..Len(out'), i \notin 1..Len(out)
                 PROVE  \E k \in 1..Len(c) : i = Len(out) + k /\ out'[i][1] = p /\ out'[i][2] = c[k]
      BY <1>8
    <2>1. PICK k \in 1..Len(c) : i = Len(out) + k
      BY <1>8
    <2>2. out'[i] = <<p, c[k]>>
      BY <1>8, <2>1
    <2> QED BY <2>1, <2>2
  <1>10. /\ \A q \in LogProcesses : buffer[q] = <<>> /\ buffer'[q] = <<>>
         /\ copied = {} /\ dropped = {} /\ \A v \in Log!Writers : logAt[v] # "sep"
         /\ Log!Alternate(out, 1..Len(out)) /\ Ends(out, 1..Len(out))
    BY <1>1, <1>2 DEF FileWhole
  <1>11. \A v \in Log!Writers : logAt'[v] # "sep"
    BY <1>4, <1>10
  <1>12. PICK n : n = Len(out)
    OBVIOUS
  <1>13. /\ n \in Nat /\ \A i \in 1..n : out'[i] = out[i]
         /\ out'[n + 1] = <<p, <<l, "text">>>> /\ out'[n + 2] = <<p, <<l, "sep">>>>
         /\ 1..Len(out') = (1..n) \cup {n + 1, n + 2}
         /\ n + 1 \in 1..Len(out') /\ n + 2 \in 1..Len(out')
    <2>1. n \in Nat
      BY <1>1, <1>12, LogTypes
    <2>2. 1 \in 1..Len(c) /\ 2 \in 1..Len(c) /\ \A k \in 1..Len(c) : k = 1 \/ k = 2
      BY <1>6
    <2>3. out'[n + 1] = <<p, c[1]>> /\ out'[n + 2] = <<p, c[2]>>
      BY <1>8, <1>12, <2>2
    <2>4. n + 1 \in 1..Len(out') /\ n + 2 \in 1..Len(out') /\ \A i \in 1..n : i \in 1..Len(out')
      BY <1>8, <1>12, <2>2
    <2>5. \A i \in 1..Len(out') : i \in 1..n \/ i = n + 1 \/ i = n + 2
      BY <1>8, <1>12, <2>2
    <2>6. 1..Len(out') = (1..n) \cup {n + 1, n + 2}
      BY <2>4, <2>5
    <2> QED BY <1>6, <1>8, <1>12, <2>1, <2>3, <2>4, <2>6
  <1>14. out'[n + 1][2] = <<l, "text">> /\ out'[n + 2][2] = <<l, "sep">>
    BY <1>13
  <1>15. Log!TypeOK'
    <2>1. synced' \cup dropped \cup copied \subseteq 1..MaxLogLines
      BY <1>1, <1>2, <1>5 DEF Log!TypeOK
    <2> QED BY <1>1, <1>2, <1>4, <1>8, <2>1 DEF Log!TypeOK
  <1>16. Numbered'
    <2>1. \A i \in 1..Len(out') : out'[i][2][1] <= logged
      BY <1>1, <1>5, <1>6, <1>9 DEF Numbered
    <2>2. synced' \cup dropped \cup copied \subseteq 1..logged
      BY <1>1, <1>2, <1>5 DEF Numbered
    <2> QED BY <1>1, <1>2, <2>1, <2>2 DEF Numbered
  <1>17. Guarded'
    BY <1>4 DEF Guarded
  <1>18. NothingEarly'
    <2> SUFFICES ASSUME NEW q \in LogProcesses, logAt'[<<q, 1>>] = "none"
                 PROVE  /\ logAt'[<<q, 2>>] = "none" /\ buffer'[q] = <<>>
                        /\ \A i \in 1..Len(out') : out'[i][1] # q
      BY DEF NothingEarly
    <2>1. <<q, 1>> # w
      BY <1>4
    <2>2. logAt[<<q, 1>>] = "none"
      BY <1>3, <1>4, <2>1
    <2>3. logAt[<<q, 2>>] = "none" /\ \A i \in 1..Len(out) : out[i][1] # q
      BY <1>1, <2>2 DEF NothingEarly
    <2>4. <<q, 2>> # w
      BY <1>2, <2>3
    <2>5. q # p
      BY <1>p, <2>1, <2>4 DEF Log!Writers
    <2>6. logAt'[<<q, 2>>] = "none"
      BY <1>3, <1>4, <2>3, <2>4
    <2>7. \A i \in 1..Len(out') : out'[i][1] # q
      BY <1>9, <2>3, <2>5
    <2> QED BY <1>10, <2>6, <2>7
  <1>19. OwnLine'
    <2>1. \A v \in Log!Writers : /\ Active(v)' => Active(v) /\ v # w
                                 /\ logAt'[v] \in {"lock", "text"} => logAt[v] \in {"lock", "text"} /\ v # w
      BY <1>4 DEF Active
    <2>2. \A v \in Log!Writers : Active(v)' => line'[v] >= 1 /\ line'[v] \notin copied' \cup dropped'
      BY <1>1, <1>2, <2>1 DEF OwnLine
    <2>3. \A u, v \in Log!Writers : Active(u)' /\ Active(v)' /\ line'[u] = line'[v] => u = v
      BY <1>1, <1>2, <2>1 DEF OwnLine
    <2>4. ASSUME NEW v \in Log!Writers, logAt'[v] \in {"lock", "text"}
          PROVE  /\ \A i \in 1..Len(out') : out'[i][2][1] # line'[v]
                 /\ \A q \in LogProcesses : ~Has(buffer'[q], line'[v])
      <3>1. logAt[v] \in {"lock", "text"} /\ v # w /\ Active(v)
        BY <2>1, <2>4 DEF Active
      <3>2. line[v] # l
        BY <1>1, <1>5, <1>l, <3>1 DEF OwnLine
      <3>3. \A i \in 1..Len(out) : out[i][2][1] # line[v]
        BY <1>1, <3>1 DEF OwnLine
      <3>4. ASSUME NEW i \in 1..Len(out') PROVE out'[i][2][1] # line[v]
        BY <1>6, <1>9, <3>2, <3>3
      <3>5. \A q \in LogProcesses : ~Has(buffer'[q], line[v])
        BY <1>1, <1>2, <3>1 DEF OwnLine
      <3> QED BY <1>2, <3>4, <3>5
    <2> QED BY <1>11, <2>2, <2>3, <2>4 DEF OwnLine
  <1>20. FileWhole'
    <2>1. (1..n) \in SUBSET (1..n)
      OBVIOUS
    <2>2. Log!Alternate(out', (1..n) \cup {n + 1, n + 2}) /\ Ends(out', (1..n) \cup {n + 1, n + 2})
      BY <1>10, <1>12, <1>13, <1>14, <2>1, LineAppended
    <2> QED BY <1>2, <1>10, <1>11, <1>13, <2>2 DEF FileWhole
  <1>21. WrittenByEach'
    <2>1. ASSUME NEW q \in LogProcesses, q # p PROVE WrittenBy(q)'
      <3>1. \E r \in LogProcesses \ {q}, d \in Seq(Log!Piece) : out' = out \o Log!From(r, d)
        BY <1>3, <1>6, <1>8, <2>1
      <3>2. logAt'[<<q, 1>>] # "gone" => logAt[<<q, 1>>] # "gone"
        BY <1>2, <1>3, <1>4
      <3>3. \A v \in Log!Writers : v[1] = q =>
              (logAt'[v] = "sep" <=> logAt[v] = "sep") /\ (logAt[v] = "sep" => line'[v] = line[v])
        BY <1>2, <1>10, <1>11
      <3>4. WrittenBy(q)
        BY <1>1 DEF WrittenByEach
      <3>5. copied' = copied /\ buffer'[q] = buffer[q]
        BY <1>2
      <3> QED BY <1>1, <3>1, <3>2, <3>3, <3>4, <3>5, WrittenAsBefore
    <2>2. WrittenBy(p)'
      <3> DEFINE P == Marks(out, p, <<>>, {})
                 Q == Marks(out', p, <<>>, {})
      <3>1. Log!Alternate(out, P) /\ Ends(out, P)
        <4>1. All(out, p, <<>>) = out
          BY <1>1, <1>3, LogTypes, NothingToWrite
        <4>2. logAt[<<p, 1>>] # "gone"
          BY <1>1, <1>2, <1>3, <1>p, Running
        <4>3. Log!Everything(p) = out /\ Places(p) = P
          BY <1>3, <1>10, <4>1, InTermsOfAll
        <4> QED BY <1>1, <1>3, <1>10, <4>2, <4>3 DEF WrittenByEach, WrittenBy
      <3>2. /\ Len(<<>>) = 0 /\ <<>> \in Seq(Log!Piece)
            /\ All(out, p, <<>>) = out /\ All(out', p, <<>>) = out'
        <4>1. All(out, p, <<>>) = out
          BY <1>1, <1>3, LogTypes, NothingToWrite
        <4>2. All(out', p, <<>>) = out'
          BY <1>3, <1>8, NothingToWrite
        <4> QED BY <4>1, <4>2
      <3>3. /\ Len(out) + 0 = n /\ Len(out') + 0 = n + 2
            /\ out \in Seq(LogProcesses \X Log!Piece)
        <4>1. out \in Seq(LogProcesses \X Log!Piece)
          BY <1>1, LogTypes
        <4>2. PICK k : k = Len(out')
          OBVIOUS
        <4>3. k \in Nat
          BY <1>8, <4>2, LenProperties
        <4>4. 1..k = (1..n) \cup {n + 1, n + 2}
          BY <1>13, <4>2
        <4>5. k = n + 2
          <5>1. n + 2 \in 1..k /\ k \in 1..k
            BY <1>13, <4>3, <4>4
          <5>2. k \in 1..n \/ k = n + 1 \/ k = n + 2
            BY <4>4, <5>1
          <5> QED BY <1>13, <4>3, <5>1, <5>2
        <4> QED BY <1>12, <1>13, <4>1, <4>2, <4>3, <4>5
      <3>4. \A i : i \in P <=> i \in 1..n /\ out[i][1] = p
        <4>1. \A i : i \in P <=> /\ i \in 1..(Len(out) + Len(<<>>))
                                 /\ All(out, p, <<>>)[i][1] = p
                                 /\ All(out, p, <<>>)[i][2][1] \notin {}
          <5>1. /\ p \in LogProcesses /\ out \in Seq(LogProcesses \X Log!Piece)
                /\ <<>> \in Seq(Log!Piece)
            BY <1>3, <3>2, <3>3
          <5> QED BY <5>1, MarksAre
        <4> HIDE DEF P
        <4> QED BY <3>2, <3>3, <4>1
      <3>5. \A i : i \in Q <=> i \in 1..(n + 2) /\ out'[i][1] = p
        <4>1. PICK o : o = out'
          OBVIOUS
        <4>2. \A i : i \in Marks(o, p, <<>>, {}) <=> /\ i \in 1..(Len(o) + Len(<<>>))
                                                     /\ All(o, p, <<>>)[i][1] = p
                                                     /\ All(o, p, <<>>)[i][2][1] \notin {}
          <5>1. /\ p \in LogProcesses /\ o \in Seq(LogProcesses \X Log!Piece)
                /\ <<>> \in Seq(Log!Piece)
            BY <1>3, <1>8, <3>2, <4>1
          <5> HIDE DEF P, Q
          <5> QED BY ONLY <5>1, MarksAre
        <4>3. Q = Marks(o, p, <<>>, {}) /\ All(o, p, <<>>) = o /\ Len(o) + 0 = n + 2
          BY <3>2, <3>3, <4>1
        <4> HIDE DEF Q
        <4> QED BY <3>2, <4>1, <4>2, <4>3
      <3> HIDE DEF P, Q
      <3>6. Q = P \cup {n + 1, n + 2} /\ P \in SUBSET (1..n)
        <4>1. \A i : i \in 1..(n + 2) <=> i \in 1..n \/ i = n + 1 \/ i = n + 2
          <5>1. \A i \in Int : i \in 1..(n + 2) <=> i \in 1..n \/ i = n + 1 \/ i = n + 2
            BY <1>13
          <5>2. n + 1 \in Int /\ n + 2 \in Int
            BY <1>13
          <5> QED BY <5>1, <5>2
        <4>2. \A i \in 1..n : out'[i][1] = out[i][1]
          BY <1>13
        <4>3. out'[n + 1][1] = p /\ out'[n + 2][1] = p
          BY <1>13
        <4> QED BY <3>4, <3>5, <4>1, <4>2, <4>3
      <3>7. Log!Alternate(out', Q) /\ Ends(out', Q)
        BY <1>13, <1>14, <3>1, <3>6, LineAppended
      <3>8. Log!Everything(p)' = out' /\ Places(p)' = Q
        BY <1>2, <1>3, <1>10, <3>2, InTermsOfAll DEF Q
      <3> QED BY <1>11, <3>7, <3>8 DEF WrittenBy
    <2> QED BY <2>1, <2>2 DEF WrittenByEach
  <1>22. Once'
    <2>1. ASSUME NEW i \in 1..Len(out'), NEW j \in 1..Len(out'),
                 out'[i][2] = out'[j][2], out'[i][2][2] = "text", out'[i][2][1] \notin copied
          PROVE  i = j
      <3>1. \A k \in 1..Len(out) : out[k][2][1] # l
        BY <1>1, <1>2, <1>l DEF OwnLine
      <3>2. CASE i \in 1..Len(out) /\ out'[i] = out[i] /\ j \in 1..Len(out) /\ out'[j] = out[j]
        BY <1>1, <2>1, <3>2 DEF Once
      <3>3. ASSUME i \in 1..Len(out), out'[i] = out[i], NEW k \in 1..Len(c), out'[j][2] = c[k]
            PROVE  FALSE
        BY <1>6, <2>1, <3>1, <3>3
      <3>4. ASSUME j \in 1..Len(out), out'[j] = out[j], NEW k \in 1..Len(c), out'[i][2] = c[k]
            PROVE  FALSE
        BY <1>6, <2>1, <3>1, <3>4
      <3>5. ASSUME NEW k \in 1..Len(c), i = Len(out) + k, out'[i][2] = c[k],
                   NEW m \in 1..Len(c), j = Len(out) + m, out'[j][2] = c[m]
            PROVE  i = j
        <4>1. k = 1 /\ m = 1
          BY <1>6, <2>1, <3>5
        <4> QED BY <3>5, <4>1
      <3> QED BY <1>9, <3>2, <3>3, <3>4, <3>5
    <2>2. \A q \in LogProcesses : \A i \in 1..Len(buffer'[q]) : FALSE
      <3>1. Len(<<>>) = 0
        OBVIOUS
      <3> QED BY <1>10, <3>1
    <2> QED BY <1>2, <2>1, <2>2 DEF Once
  <1>23. NoneMissing'
    <2>1. ASSUME NEW k, InPlace(k) PROVE InPlace(k)'
      <3>1. CASE \E i \in 1..Len(out) : out[i][2] = <<k, "text">>
        BY <1>8, <3>1 DEF InPlace
      <3>2. CASE \E q \in LogProcesses : \E i \in 1..Len(buffer[q]) : buffer[q][i] = <<k, "text">>
        BY <1>2, <3>2 DEF InPlace
      <3> QED BY <2>1, <3>1, <3>2 DEF InPlace
    <2>2. InPlace(l)'
      BY <1>13, <1>14 DEF InPlace
    <2>3. \A k \in synced' \ (copied' \cup dropped') : InPlace(k)'
      BY <1>1, <1>2, <2>1, <2>2 DEF NoneMissing
    <2> QED BY <1>11, <2>3 DEF NoneMissing
  <1> QED BY <1>15, <1>16, <1>17, <1>18, <1>19, <1>20, <1>21, <1>22, <1>23 DEF LogInv

LEMMA LogForkKeeps ==
  ASSUME LogInv, Log!LoggerAssumption, NEW p \in LogProcesses, NEW q \in LogProcesses, Log!Fork(p, q)
  PROVE  LogInv'
  <1>1. /\ Log!TypeOK /\ Numbered /\ Guarded /\ NothingEarly /\ OwnLine
        /\ FileWhole /\ WrittenByEach /\ Once /\ NoneMissing
    BY DEF LogInv
  <1>2. /\ Log!Threads(p) = {<<p, 1>>} /\ logAt[<<p, 1>>] = "idle" /\ logAt[<<q, 1>>] = "none"
        /\ buffer' = [buffer EXCEPT ![q] = buffer[p]]
        /\ copied' = copied \cup Log!Lines(buffer[p])
        /\ logAt' = [logAt EXCEPT ![<<q, 1>>] = "idle"]
        /\ UNCHANGED <<strategy, line, logMutex, out, logged, synced, dropped, logFaults>>
    BY DEF Log!Fork, Log!Go
  <1>3. \A r \in LogProcesses : <<r, 1>> \in Log!Writers /\ <<r, 2>> \in Log!Writers
    BY DEF Log!Writers
  <1>4. /\ logAt'[<<q, 1>>] = "idle" /\ \A w \in Log!Writers : w # <<q, 1>> => logAt'[w] = logAt[w]
        /\ logAt' \in [Log!Writers -> {"none", "idle", "lock", "text", "sep", "gone"}]
    BY <1>1, <1>2, <1>3 DEF Log!TypeOK
  <1>5. /\ buffer[p] \in Seq(Log!Piece) /\ buffer' \in [LogProcesses -> Seq(Log!Piece)]
        /\ buffer'[q] = buffer[p] /\ p # q
        /\ \A r \in LogProcesses : r # q => buffer'[r] = buffer[r]
    BY <1>1, <1>2 DEF Log!TypeOK
  <1>6. logAt[<<q, 2>>] = "none" /\ buffer[q] = <<>> /\ \A i \in 1..Len(out) : out[i][1] # q
    BY <1>1, <1>2 DEF NothingEarly
  <1>7. \A w \in Log!Writers : w[1] = p \/ w[1] = q => logAt[w] \in {"none", "gone", "idle"}
    <2>1. logAt[<<p, 2>>] \in {"none", "gone"}
      <3>1. <<p, 2>> \notin Log!Threads(p)
        BY <1>2
      <3> QED BY <1>3, <3>1 DEF Log!Threads
    <2> QED BY <1>2, <1>6, <2>1 DEF Log!Writers
  <1>8. \A w \in Log!Writers : /\ Active(w)' => Active(w) /\ w[1] # p /\ w[1] # q
                               /\ logAt'[w] \in {"lock", "text"} => logAt[w] \in {"lock", "text"}
                               /\ logAt'[w] = "sep" <=> logAt[w] = "sep"
    BY <1>2, <1>4, <1>7 DEF Active
  <1>9. \A l : l \in Log!Lines(buffer[p]) <=> Has(buffer[p], l)
    BY DEF Log!Lines, Has
  <1>10. \A w \in Log!Writers : Active(w) => line[w] \notin Log!Lines(buffer[p])
    <2>1. ASSUME NEW w \in Log!Writers, Active(w) PROVE ~Has(buffer[p], line[w])
      <3>1. w[1] # p
        BY <1>7, <2>1 DEF Active
      <3>2. CASE logAt[w] \in {"lock", "text"}
        BY <1>1, <3>2 DEF OwnLine
      <3>3. CASE logAt[w] = "sep"
        BY <1>1, <3>1, <3>3 DEF OwnLine
      <3> QED BY <2>1, <3>2, <3>3 DEF Active
    <2> QED BY <1>9, <2>1
  <1>11. \A l \in Log!Lines(buffer[p]) : l \in 1..MaxLogLines /\ l <= logged
    <2>1. \A i \in 1..Len(buffer[p]) : buffer[p][i][1] \in 1..MaxLogLines /\ buffer[p][i][1] <= logged
      BY <1>1, LogTypes DEF Log!Piece, Numbered
    <2> QED BY <2>1 DEF Log!Lines
  <1>12. Log!TypeOK'
    <2>1. synced \cup dropped \cup copied' \subseteq 1..MaxLogLines
      BY <1>1, <1>2, <1>11 DEF Log!TypeOK
    <2> QED BY <1>1, <1>2, <1>4, <1>5, <2>1 DEF Log!TypeOK
  <1>13. Numbered'
    <2>1. \A r \in LogProcesses : \A i \in 1..Len(buffer'[r]) : buffer'[r][i][1] <= logged
      BY <1>1, <1>5 DEF Numbered
    <2>2. synced \cup dropped \cup copied' \subseteq 1..logged
      <3>1. \A l \in 1..MaxLogLines : l <= logged => l \in 1..logged
        BY <1>1, LogTypes
      <3> QED BY <1>1, <1>2, <1>11, <3>1 DEF Numbered
    <2> QED BY <1>1, <1>2, <2>1, <2>2 DEF Numbered
  <1>14. Guarded'
    <2>1. \A w \in Log!Writers : logAt'[w] \in {"text", "sep"} => logMutex'[w[1]] = w
      BY <1>1, <1>2, <1>4 DEF Guarded
    <2>2. ASSUME NEW r \in LogProcesses, logAt'[<<r, 1>>] \in {"none", "gone"}
          PROVE  logAt'[<<r, 2>>] \in {"none", "gone"}
      <3>1. r # q
        BY <1>4, <2>2
      <3>2. logAt'[<<r, 1>>] = logAt[<<r, 1>>] /\ logAt'[<<r, 2>>] = logAt[<<r, 2>>]
        BY <1>3, <1>4, <3>1
      <3> QED BY <1>1, <2>2, <3>2 DEF Guarded
    <2> QED BY <2>1, <2>2 DEF Guarded
  <1>15. NothingEarly'
    <2> SUFFICES ASSUME NEW r \in LogProcesses, logAt'[<<r, 1>>] = "none"
                 PROVE  /\ logAt'[<<r, 2>>] = "none" /\ buffer'[r] = <<>>
                        /\ \A i \in 1..Len(out) : out[i][1] # r
      BY <1>2 DEF NothingEarly
    <2>1. r # q
      BY <1>4
    <2>2. logAt'[<<r, 1>>] = logAt[<<r, 1>>] /\ logAt'[<<r, 2>>] = logAt[<<r, 2>>]
      BY <1>3, <1>4, <2>1
    <2> QED BY <1>1, <1>5, <2>1, <2>2 DEF NothingEarly
  <1>16. OwnLine'
    <2>1. ASSUME NEW v \in Log!Writers, Active(v)'
          PROVE  line'[v] >= 1 /\ line'[v] \notin copied' \cup dropped'
      <3>1. Active(v)
        BY <1>8, <2>1
      <3> QED BY <1>1, <1>2, <1>10, <3>1 DEF OwnLine
    <2>2. \A u, v \in Log!Writers : Active(u)' /\ Active(v)' /\ line'[u] = line'[v] => u = v
      BY <1>1, <1>2, <1>8 DEF OwnLine
    <2>3. ASSUME NEW v \in Log!Writers, logAt'[v] \in {"lock", "text"}
          PROVE  /\ \A i \in 1..Len(out') : out'[i][2][1] # line'[v]
                 /\ \A r \in LogProcesses : ~Has(buffer'[r], line'[v])
      <3>1. logAt[v] \in {"lock", "text"}
        BY <1>8, <2>3
      <3>2. /\ \A i \in 1..Len(out) : out[i][2][1] # line[v]
            /\ \A r \in LogProcesses : ~Has(buffer[r], line[v])
        BY <1>1, <3>1 DEF OwnLine
      <3>3. \A r \in LogProcesses : ~Has(buffer'[r], line[v])
        BY <1>5, <3>2
      <3> QED BY <1>2, <3>2, <3>3
    <2>4. ASSUME NEW v \in Log!Writers, logAt'[v] = "sep", NEW r \in LogProcesses, r # v[1]
          PROVE  ~Has(buffer'[r], line'[v])
      <3>1. logAt[v] = "sep" /\ v[1] # p
        BY <1>7, <1>8, <2>4
      <3>2. ~Has(buffer[r], line[v]) /\ ~Has(buffer[p], line[v])
        BY <1>1, <2>4, <3>1 DEF OwnLine
      <3>3. buffer'[r] = buffer[r] \/ buffer'[r] = buffer[p]
        BY <1>5
      <3> QED BY <1>2, <3>2, <3>3
    <2> QED BY <2>1, <2>2, <2>3, <2>4 DEF OwnLine
  <1>17. FileWhole'
    <2> SUFFICES ASSUME strategy = "file" PROVE FileWhole'
      BY <1>2 DEF FileWhole
    <2>1. /\ \A r \in LogProcesses : buffer[r] = <<>>
          /\ copied = {} /\ dropped = {} /\ \A v \in Log!Writers : logAt[v] # "sep"
          /\ Log!Alternate(out, 1..Len(out)) /\ Ends(out, 1..Len(out))
      BY <1>1 DEF FileWhole
    <2>2. copied' = {}
      <3>1. Len(<<>>) = 0 /\ buffer[p] = <<>>
        BY <2>1
      <3>2. Log!Lines(buffer[p]) = {}
        BY <3>1 DEF Log!Lines
      <3> QED BY <1>2, <2>1, <3>2
    <2>3. \A r \in LogProcesses : buffer'[r] = <<>>
      BY <1>5, <2>1
    <2>4. \A v \in Log!Writers : logAt'[v] # "sep"
      BY <1>8, <2>1
    <2> QED BY <1>2, <2>1, <2>2, <2>3, <2>4 DEF FileWhole
  <1>18. WrittenByEach'
    <2>0. out \in Seq(LogProcesses \X Log!Piece) /\ \A r \in LogProcesses : buffer[r] \in Seq(Log!Piece)
      BY <1>1, LogTypes
    <2>1. ASSUME NEW r \in LogProcesses, r # q PROVE WrittenBy(r)'
      <3> DEFINE s == All(out, r, buffer[r])
                 P == Marks(out, r, buffer[r], copied)
                 Q == Marks(out, r, buffer[r], copied')
      <3>1. /\ Log!Alternate(s, P)
            /\ logAt[<<r, 1>>] # "gone" /\ (\A v \in Log!Writers : v[1] = r => logAt[v] # "sep") => Ends(s, P)
            /\ \A v \in Log!Writers : v[1] = r /\ logAt[v] = "sep" => EndsWith(s, P, <<line[v], "text">>)
        BY <1>1, InTermsOfAll DEF WrittenByEach, WrittenBy
      <3>2. /\ P \in SUBSET Nat
            /\ \A i : i \in P <=> /\ i \in 1..(Len(out) + Len(buffer[r]))
                                  /\ s[i][1] = r /\ s[i][2][1] \notin copied
        BY <2>0, MarksAre
      <3>3. \A i : i \in Q <=> /\ i \in 1..(Len(out) + Len(buffer[r]))
                               /\ s[i][1] = r /\ s[i][2][1] \notin copied'
        <4>1. PICK x : x = copied'
          OBVIOUS
        <4>2. \A i : i \in Marks(out, r, buffer[r], x) <=>
                       /\ i \in 1..(Len(out) + Len(buffer[r]))
                       /\ s[i][1] = r /\ s[i][2][1] \notin x
          BY <2>0, MarksAre
        <4> HIDE DEF s
        <4> QED BY <4>1, <4>2
      <3>4. \A i \in P : s[i][2] = <<s[i][2][1], s[i][2][2]>>
        <4>1. s \in Seq(LogProcesses \X Log!Piece) /\ Len(s) = Len(out) + Len(buffer[r])
          <5>1. PICK o : o = out
            OBVIOUS
          <5>2. PICK b : b = buffer[r]
            OBVIOUS
          <5>3. All(o, r, b) \in Seq(LogProcesses \X Log!Piece) /\ Len(All(o, r, b)) = Len(o) + Len(b)
            <6>1. o \in Seq(LogProcesses \X Log!Piece) /\ b \in Seq(Log!Piece) /\ r \in LogProcesses
              BY <2>0, <5>1, <5>2
            <6> QED BY <6>1, AllIs
          <5> QED BY <5>1, <5>2, <5>3
        <4> HIDE DEF s, P
        <4>2. \A i \in 1..Len(s) : s[i] \in LogProcesses \X Log!Piece
          BY <4>1, ElementOfSeq
        <4>3. \A i \in P : i \in 1..Len(s)
          BY <3>2, <4>1
        <4> QED BY <4>2, <4>3 DEF Log!Piece
      <3>5. Log!Everything(r)' = s /\ Places(r)' = Q
        BY <1>2, <1>5, <2>1, InTermsOfAll
      <3> HIDE DEF s, P, Q
      <3>6. Q \in SUBSET P /\ \A i, j \in P : s[i][2][1] = s[j][2][1] /\ i \in Q => j \in Q
        BY <1>2, <3>2, <3>3
      <3>7. Log!Alternate(s, Q) /\ (Ends(s, P) => Ends(s, Q))
        BY <3>1, <3>2, <3>4, <3>6, LinesTakenOut
      <3>8. ASSUME NEW v \in Log!Writers, v[1] = r, logAt'[v] = "sep"
            PROVE  EndsWith(s, Q, <<line'[v], "text">>)
        <4>1. logAt[v] = "sep"
          BY <1>8, <3>8
        <4>2. PICK i \in P : LastIn(P, i) /\ s[i][2] = <<line[v], "text">>
          BY <3>1, <3>8, <4>1 DEF EndsWith
        <4>3. line[v] \notin Log!Lines(buffer[p])
          BY <1>10, <4>1 DEF Active
        <4>4. i \in Q
          BY <1>2, <3>2, <3>3, <4>2, <4>3
        <4>5. LastIn(Q, i)
          BY <3>6, <4>2 DEF LastIn
        <4> QED BY <1>2, <4>2, <4>4, <4>5 DEF EndsWith
      <3>9. logAt'[<<r, 1>>] # "gone" /\ (\A v \in Log!Writers : v[1] = r => logAt'[v] # "sep") => Ends(s, Q)
        <4>1. logAt'[<<r, 1>>] = logAt[<<r, 1>>]
          BY <1>3, <1>4, <2>1
        <4> QED BY <1>8, <3>1, <3>7, <4>1
      <3> QED BY <3>5, <3>7, <3>8, <3>9 DEF WrittenBy
    <2>2. WrittenBy(q)'
      <3> DEFINE t == All(out, q, buffer[p])
                 Q == Marks(out, q, buffer[p], copied')
      <3>1. Log!Everything(q)' = t /\ Places(q)' = Q
        BY <1>2, <1>5, InTermsOfAll
      <3>2. \A i : i \in Q <=> /\ i \in 1..(Len(out) + Len(buffer[p]))
                               /\ t[i][1] = q /\ t[i][2][1] \notin copied'
        <4>1. PICK x : x = copied'
          OBVIOUS
        <4>2. \A i : i \in Marks(out, q, buffer[p], x) <=>
                       /\ i \in 1..(Len(out) + Len(buffer[p]))
                       /\ t[i][1] = q /\ t[i][2][1] \notin x
          BY <2>0, MarksAre
        <4> HIDE DEF t
        <4> QED BY <4>1, <4>2
      <3>3. /\ \A i \in 1..Len(out) : t[i] = out[i]
            /\ \A i \in 1..(Len(out) + Len(buffer[p])) :
                 \/ i \in 1..Len(out)
                 \/ (i - Len(out) \in 1..Len(buffer[p]) /\ t[i] = <<q, buffer[p][i - Len(out)]>>)
        BY <2>0, AllIs
      <3> HIDE DEF t, Q
      <3>4. \A i : i \notin Q
        <4> SUFFICES ASSUME NEW i, i \in Q PROVE FALSE
          OBVIOUS
        <4>1. i \in 1..(Len(out) + Len(buffer[p])) /\ t[i][1] = q /\ t[i][2][1] \notin copied'
          BY <3>2
        <4>2. CASE i \in 1..Len(out)
          BY <1>6, <3>3, <4>1, <4>2
        <4>3. CASE i - Len(out) \in 1..Len(buffer[p]) /\ t[i] = <<q, buffer[p][i - Len(out)]>>
          <5>1. PICK k \in 1..Len(buffer[p]) : t[i] = <<q, buffer[p][k]>>
            BY <4>3
          <5>2. t[i][2][1] \in Log!Lines(buffer[p])
            BY <5>1 DEF Log!Lines
          <5> QED BY <1>2, <4>1, <5>2
        <4> QED BY <3>3, <4>1, <4>2, <4>3
      <3>5. Log!Alternate(t, Q) /\ Ends(t, Q)
        BY <3>4 DEF Log!Alternate, Ends
      <3>6. \A v \in Log!Writers : v[1] = q => logAt'[v] # "sep"
        BY <1>7, <1>8
      <3> QED BY <3>1, <3>5, <3>6 DEF WrittenBy
    <2> QED BY <2>1, <2>2 DEF WrittenByEach
  <1>19. Once'
    <2>0. \A r, u \in LogProcesses : \A i \in 1..Len(buffer[r]), j \in 1..Len(buffer[u]) :
               buffer[r][i] = buffer[u][j] /\ buffer[r][i][2] = "text" /\ buffer[r][i][1] \notin copied
                 => r = u /\ i = j
      BY <1>1 DEF Once
    <2>1. ASSUME NEW r \in LogProcesses, NEW u \in LogProcesses,
                 NEW i \in 1..Len(buffer'[r]), NEW j \in 1..Len(buffer'[u]),
                 buffer'[r][i] = buffer'[u][j], buffer'[r][i][2] = "text",
                 buffer'[r][i][1] \notin copied'
          PROVE  r = u /\ i = j
      <3>1. r # q
        <4>1. r = q => buffer'[r][i][1] \in Log!Lines(buffer[p])
          BY <1>5 DEF Log!Lines
        <4> QED BY <1>2, <2>1, <4>1
      <3>2. u # q
        <4>1. u = q => buffer'[u][j][1] \in Log!Lines(buffer[p])
          BY <1>5 DEF Log!Lines
        <4> QED BY <1>2, <2>1, <4>1
      <3>3. /\ buffer[r][i] = buffer[u][j] /\ buffer[r][i][2] = "text"
            /\ buffer[r][i][1] \notin copied
        BY <1>2, <1>5, <2>1, <3>1, <3>2
      <3>4. i \in 1..Len(buffer[r]) /\ j \in 1..Len(buffer[u])
        BY <1>5, <3>1, <3>2
      <3> QED BY <2>0, <3>3, <3>4
    <2>2. ASSUME NEW r \in LogProcesses, NEW i \in 1..Len(buffer'[r]), NEW j \in 1..Len(out),
                 buffer'[r][i] = out[j][2], buffer'[r][i][2] = "text"
          PROVE  buffer'[r][i][1] \in copied'
      <3>1. CASE r = q
        <4>1. buffer'[r][i][1] \in Log!Lines(buffer[p])
          BY <1>5, <3>1 DEF Log!Lines
        <4> QED BY <1>2, <4>1
      <3>2. CASE r # q
        <4>1. buffer'[r] = buffer[r]
          BY <1>5, <3>2
        <4>2. buffer[r][i][1] \in copied
          BY <1>1, <2>2, <4>1 DEF Once
        <4> QED BY <1>2, <4>1, <4>2
      <3> QED BY <3>1, <3>2
    <2>3. \A i, j \in 1..Len(out) :
            out[i][2] = out[j][2] /\ out[i][2][2] = "text" /\ out[i][2][1] \notin copied => i = j
      BY <1>1 DEF Once
    <2>4. out' = out /\ copied \subseteq copied'
      BY <1>2
    <2> QED BY <2>1, <2>2, <2>3, <2>4 DEF Once
  <1>20. NoneMissing'
    <2>1. ASSUME NEW l, InPlace(l) PROVE InPlace(l)'
      <3>1. CASE \E i \in 1..Len(out) : out[i][2] = <<l, "text">>
        BY <1>2, <3>1 DEF InPlace
      <3>2. CASE \E r \in LogProcesses : \E i \in 1..Len(buffer[r]) : buffer[r][i] = <<l, "text">>
        <4>0. PICK r \in LogProcesses : \E i \in 1..Len(buffer[r]) : buffer[r][i] = <<l, "text">>
          BY <3>2
        <4>1. PICK i \in 1..Len(buffer[r]) : buffer[r][i] = <<l, "text">>
          BY <4>0
        <4>2. r # q
          <5>1. Len(<<>>) = 0
            OBVIOUS
          <5> QED BY <1>6, <5>1
        <4> QED BY <1>5, <4>1, <4>2 DEF InPlace
      <3> QED BY <2>1, <3>1, <3>2 DEF InPlace
    <2>2. \A l \in synced' \ (copied' \cup dropped') : InPlace(l)'
      BY <1>1, <1>2, <2>1 DEF NoneMissing
    <2>3. ASSUME NEW v \in Log!Writers, logAt'[v] = "sep" PROVE InPlace(line[v])'
      <3>1. PICK l : l = line[v]
        OBVIOUS
      <3>2. logAt[v] = "sep"
        BY <1>8, <2>3
      <3>3. InPlace(l)'
        BY <1>1, <2>1, <3>1, <3>2 DEF NoneMissing
      <3> QED BY <1>2, <3>1, <3>3 DEF InPlace
    <2> QED BY <2>2, <2>3 DEF NoneMissing
  <1> QED BY <1>12, <1>13, <1>14, <1>15, <1>16, <1>17, <1>18, <1>19, <1>20 DEF LogInv

LEMMA LogKeeps ==
  ASSUME LogInv, Log!LoggerAssumption, Log!Next \/ UNCHANGED logVars
  PROVE  LogInv'
  <1>1. CASE UNCHANGED logVars
    <2>1. /\ Log!TypeOK /\ Numbered /\ Guarded /\ NothingEarly /\ OwnLine
          /\ FileWhole /\ WrittenByEach /\ Once /\ NoneMissing
      BY DEF LogInv
    <2>2. UNCHANGED <<strategy, logAt, line, logMutex, buffer, out, logged, synced, dropped, copied, logFaults>>
      BY <1>1 DEF logVars
    <2>3. Log!TypeOK' /\ Numbered' /\ Guarded' /\ NothingEarly'
      BY <2>1, <2>2 DEF Log!TypeOK, Numbered, Guarded, NothingEarly
    <2>4. OwnLine' /\ FileWhole'
      BY <2>1, <2>2 DEF OwnLine, Active, FileWhole
    <2>5. Once' /\ NoneMissing'
      <3>1. \A l : InPlace(l)' <=> InPlace(l)
        BY <2>2 DEF InPlace
      <3> QED BY <2>1, <2>2, <3>1 DEF Once, NoneMissing
    <2>6. WrittenByEach'
      BY <2>1, <2>2, WrittenByAll DEF NothingEarly
    <2> QED BY <2>3, <2>4, <2>5, <2>6 DEF LogInv
  <1>2. ASSUME NEW w \in Log!Writers, Log!LogMessage(w) \/ Log!SyncLog(w) PROVE LogInv'
    BY <1>2, LogMessageKeeps, LockKeeps, PutTextKeeps, PutSepKeeps, AppendToFileKeeps,
       OpenFailsKeeps DEF Log!SyncLog
  <1>3. ASSUME NEW p \in LogProcesses, Log!Flush(p) \/ Log!Exit(p) \/ Log!Kill(p) PROVE LogInv'
    BY <1>3, FlushKeeps, ExitKeeps, KillKeeps
  <1>4. ASSUME NEW p \in LogProcesses, NEW q \in LogProcesses, Log!Fork(p, q) PROVE LogInv'
    BY <1>4, LogForkKeeps
  <1>5. CASE Log!Terminated
    BY <1>1, <1>5 DEF Log!Terminated, Log!vars, logVars
  <1> QED BY <1>1, <1>2, <1>3, <1>4, <1>5 DEF Log!Next

LEMMA LogBegins ==
  ASSUME Log!Init, Log!LoggerAssumption
  PROVE  LogInv
  <1>1. /\ strategy \in {"console", "file"}
        /\ line = [w \in Log!Writers |-> 0] /\ logMutex = [p \in LogProcesses |-> Nobody]
        /\ buffer = [p \in LogProcesses |-> <<>>] /\ out = <<>> /\ logged = 0
        /\ synced = {} /\ dropped = {} /\ copied = {} /\ logFaults = 0
    BY DEF Log!Init
  <1>2. PICK several \in BOOLEAN :
          logAt = [w \in Log!Writers |-> IF w[1] = First /\ (several \/ w[2] = 1) THEN "idle" ELSE "none"]
    BY DEF Log!Init
  <1>3. Len(<<>>) = 0 /\ <<>> \in Seq(Log!Piece) /\ <<>> \in Seq(LogProcesses \X Log!Piece)
    OBVIOUS
  <1>4. MaxLogLines \in Nat /\ MaxLogFaults \in Nat
    BY DEF Log!LoggerAssumption
  <1>5. \A w \in Log!Writers : logAt[w] \in {"idle", "none"}
    BY <1>2
  <1>6. Log!TypeOK
    BY <1>1, <1>2, <1>3, <1>4 DEF Log!TypeOK
  <1>7. Numbered
    BY <1>1, <1>3 DEF Numbered
  <1>8. Guarded /\ NothingEarly
    <2>1. ASSUME NEW p \in LogProcesses, logAt[<<p, 1>>] \in {"none", "gone"} PROVE logAt[<<p, 2>>] = "none"
      <3>1. <<p, 1>> \in Log!Writers /\ <<p, 2>> \in Log!Writers
        BY DEF Log!Writers
      <3>2. p # First
        BY <1>2, <2>1, <3>1
      <3> QED BY <1>2, <3>1, <3>2
    <2> QED BY <1>1, <1>3, <1>5, <2>1 DEF Guarded, NothingEarly
  <1>9. OwnLine
    BY <1>5 DEF OwnLine, Active
  <1>10. Log!Alternate(<<>>, {}) /\ Ends(<<>>, {})
    BY DEF Log!Alternate, Ends
  <1>11. FileWhole
    <2>1. 1..Len(out) = {}
      BY <1>1, <1>3
    <2> QED BY <1>1, <1>5, <1>10, <2>1 DEF FileWhole
  <1>12. WrittenByEach
    <2> SUFFICES ASSUME NEW p \in LogProcesses PROVE WrittenBy(p)
      BY DEF WrittenByEach
    <2>1. Log!Everything(p) = <<>>
      BY <1>1, <1>3, NothingToWrite, InTermsOfAll
    <2>2. Places(p) = {}
      BY <1>3, <2>1 DEF Places, Log!PlacesOf
    <2> QED BY <1>5, <1>10, <2>1, <2>2 DEF WrittenBy
  <1>13. Once /\ NoneMissing
    BY <1>1, <1>3, <1>5 DEF Once, NoneMissing
  <1> QED BY <1>6, <1>7, <1>8, <1>9, <1>11, <1>12, <1>13 DEF LogInv

LEMMA LogInvSays ==
  ASSUME LogInv
  PROVE  Log!TypeOK /\ Log!WholeLines /\ Log!EachLineOnce
  <1>1. /\ Log!TypeOK /\ FileWhole /\ WrittenByEach /\ Once /\ NoneMissing
    BY DEF LogInv
  <1>2. Log!WholeLines
    BY <1>1 DEF Log!WholeLines, WrittenByEach, WrittenBy, Places, FileWhole
  <1>3. ASSUME NEW l \in synced \ (copied \cup dropped)
        PROVE  Log!Cardinality(Log!InOut(l)) + Log!Cardinality(Log!InBuffer(l)) = 1
    <2>0. \A S : Log!Cardinality(S) = Cardinality(S)
      BY DEF Log!Cardinality, Cardinality
    <2>1. /\ \A i, j \in 1..Len(out) : out[i][2] = <<l, "text">> /\ out[j][2] = <<l, "text">> => i = j
          /\ \A p, q \in LogProcesses : \A i \in 1..Len(buffer[p]), j \in 1..Len(buffer[q]) :
               buffer[p][i] = <<l, "text">> /\ buffer[q][j] = <<l, "text">> => p = q
          /\ \A p \in LogProcesses : \A i \in 1..Len(buffer[p]), j \in 1..Len(out) :
               ~(buffer[p][i] = <<l, "text">> /\ out[j][2] = <<l, "text">>)
      <3>1. <<l, "text">>[1] = l /\ <<l, "text">>[2] = "text" /\ l \notin copied
        OBVIOUS
      <3>2. PICK t : t = <<l, "text">>
        OBVIOUS
      <3>3. t[1] = l /\ t[2] = "text"
        BY <3>1, <3>2
      <3>4. ASSUME NEW i \in 1..Len(out), NEW j \in 1..Len(out), out[i][2] = t, out[j][2] = t
            PROVE  i = j
        BY <1>1, <3>1, <3>3, <3>4 DEF Once
      <3>5. ASSUME NEW p \in LogProcesses, NEW q \in LogProcesses,
                   NEW i \in 1..Len(buffer[p]), NEW j \in 1..Len(buffer[q]),
                   buffer[p][i] = t, buffer[q][j] = t
            PROVE  p = q
        <4>1. buffer[p][i] = buffer[q][j] /\ buffer[p][i][2] = "text" /\ buffer[p][i][1] \notin copied
          BY <3>1, <3>3, <3>5
        <4> QED BY <1>1, <4>1 DEF Once
      <3>6. ASSUME NEW p \in LogProcesses, NEW i \in 1..Len(buffer[p]), NEW j \in 1..Len(out),
                   buffer[p][i] = t, out[j][2] = t
            PROVE  FALSE
        BY <1>1, <3>1, <3>3, <3>6 DEF Once
      <3> QED BY <3>2, <3>4, <3>5, <3>6
    <2>2. InPlace(l)
      BY <1>1 DEF NoneMissing
    <2>3. CASE \E i \in 1..Len(out) : out[i][2] = <<l, "text">>
      <3>1. PICK i \in 1..Len(out) : out[i][2] = <<l, "text">>
        BY <2>3
      <3>2. Log!InOut(l) = {i} /\ Log!InBuffer(l) = {}
        BY <2>1, <3>1 DEF Log!InOut, Log!InBuffer
      <3>3. Cardinality({i}) = 1 /\ Cardinality({}) = 0
        BY FS_Singleton, FS_EmptySet
      <3> QED BY <2>0, <3>2, <3>3
    <2>4. CASE \E p \in LogProcesses : \E i \in 1..Len(buffer[p]) : buffer[p][i] = <<l, "text">>
      <3>1. PICK p \in LogProcesses : \E i \in 1..Len(buffer[p]) : buffer[p][i] = <<l, "text">>
        BY <2>4
      <3>2. Log!InOut(l) = {} /\ Log!InBuffer(l) = {p}
        <4>1. PICK i \in 1..Len(buffer[p]) : buffer[p][i] = <<l, "text">>
          BY <3>1
        <4> QED BY <2>1, <3>1, <4>1 DEF Log!InOut, Log!InBuffer
      <3>3. Cardinality({p}) = 1 /\ Cardinality({}) = 0
        BY FS_Singleton, FS_EmptySet
      <3> QED BY <2>0, <3>2, <3>3
    <2> QED BY <2>2, <2>3, <2>4 DEF InPlace
  <1>4. strategy = "file" => copied = {} /\ dropped = {}
    BY <1>1 DEF FileWhole
  <1> QED BY <1>1, <1>2, <1>3, <1>4 DEF Log!EachLineOnce

-----------------------------------------------------------------------------
(***************************************************************************)
(* The programs side by side.                                              *)
(***************************************************************************)
IInv == /\ program \in Programs
        /\ PoolInv /\ SemInv /\ FifoInv /\ ChatInv /\ ThreadInv /\ SaleInv
        /\ LogInv

(* The inductive invariant of the specification: that of every program.    *)
THEOREM Invariance == Spec => []IInv
  <1>1. Init => IInv
    BY PoolInit, SemInit, FifoInit, ChatInit, ThreadInit, SaleInit, LogBegins, Assumptions
       DEF Init, IInv
  <1>2. IInv /\ [Next]_vars => IInv'
    <2> SUFFICES ASSUME IInv, [Next]_vars PROVE IInv'
      OBVIOUS
    <2>1. program' = program
      BY DEF Next, PoolStep, SemaphoreStep, FifoStep, ChatStep, ThreadStep, SaleStep, LogStep,
             vars
    <2>2. /\ [Pool!Next]_poolVars /\ [Semaphore!Next]_semaphoreVars
          /\ [Fifo!Next]_fifoVars /\ [Chat!Next]_chatVars
          /\ [Thread!Next]_threadVars /\ [Sale!Next]_saleVars /\ [Log!Next]_logVars
      BY OneProgramSteps
    <2> QED BY <2>1, <2>2, PoolNext, SemNext, FifoNext, ChatNext, ThreadNext, SaleNext,
            LogKeeps, Assumptions DEF IInv
  <1> QED BY <1>1, <1>2, PTL DEF Spec

(* Every variable of every program keeps its type: _next of the channel    *)
(* manager indexes a channel, a queue or pipe holds no more than the       *)
(* kernel allows, and no counter leaves its range.                         *)
THEOREM TypeCorrect == Spec => []TypeOK
  <1>1. IInv => TypeOK
    BY LogInvSays DEF IInv, TypeOK, PoolInv, SemInv, FifoInv, ChatInv, ThreadInv, SaleInv
  <1> QED BY <1>1, Invariance, PTL

(* A child of the process pool that exits has executed every task that was *)
(* sent to it: it leaves its loop at the end of file, behind the last one. *)
THEOREM ChildrenDrained == Spec => []ExitsDrained
  <1>1. IInv => ExitsDrained
    BY PoolDrained DEF IInv, ExitsDrained
  <1> QED BY <1>1, Invariance, PTL

(* The System V semaphore counts exactly who is between P and V, whoever   *)
(* is killed there, and the mutex of the ticket sale lets each ticket be   *)
(* sold once, whoever sells.                                               *)
THEOREM MutualExclusion == Spec => []Exclusive
  <1>1. IInv => Exclusive
    BY SemExclusive DEF IInv, Exclusive, SaleInv
  <1> QED BY <1>1, Invariance, PTL

(* The FIFO's server prints all that its clients wrote, in their order,    *)
(* before it ends; the chat's server what came before the first "quit".    *)
THEOREM NothingUnprinted == Spec => []PrintedAsSent
  <1>1. IInv => PrintedAsSent
    BY FifoAllPrinted, ChatPrintsToQuit DEF IInv, PrintedAsSent
  <1> QED BY <1>1, Invariance, PTL

(* A thread that a Thread object has started is joined or detached, or can *)
(* still be joined, unless it was lost in one of three orders: Start over  *)
(* its id, a detached flag set before the thread had set _isrunning, or a  *)
(* Detach after its Stop.                                                  *)
THEOREM ThreadsKept == Spec => []NoneLost
  <1>1. IInv => NoneLost
    BY DEF IInv, NoneLost, ThreadInv
  <1> QED BY <1>1, Invariance, PTL

(* With any number of processes, lines and kills, lines are not torn and   *)
(* written once, copies of a forked buffer apart.                          *)
THEOREM LogWhole == Spec => []LogIntact
  <1>1. IInv => LogIntact
    BY LogInvSays DEF IInv, LogIntact
  <1> QED BY <1>1, Invariance, PTL
=============================================================================
