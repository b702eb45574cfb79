------------------------------ MODULE RingQueue ------------------------------
(***************************************************************************)
(* The ring queue of src/threadsynchronization/4.Sem_Ring/RingQueue.hpp:   *)
(* a vector of _cap slots, two counting semaphores, one mutex for the      *)
(* producers and one for the consumers, used by threads that loop for ever *)
(* (Main.cc: three producers and two consumers).                           *)
(*                                                                         *)
(* A producer and a consumer hold different locks, so the accesses to the  *)
(* slots are not ordered by a lock; only the semaphores keep them apart.   *)
(* The write and the read of a slot therefore have a program point of      *)
(* their own.  _p_step is touched only under _pmutex and _c_step only      *)
(* under _cmutex, so the index update and the unlock are one step.         *)
(***************************************************************************)
EXTENDS Integers, Sequences, FiniteSets

CONSTANTS Producers, Consumers,
          Cap,     \* _cap
          Items,   \* the data that producers put
          Unset,   \* a value-initialised T
          Nobody   \* the owner of a free mutex

ASSUME RingAssumption ==
    /\ IsFiniteSet(Producers) /\ IsFiniteSet(Consumers)
    /\ Producers \cap Consumers = {}
    /\ Cap \in Nat \ {0}
    /\ Unset \in Items
    /\ Nobody \notin Producers \cup Consumers

VARIABLES
    rq,         \* _rq
    blank_sem,  \* _blank_sem
    date_sem,   \* _date_sem
    p_step,     \* _p_step
    c_step,     \* _c_step
    pmutex,     \* owner of _pmutex
    cmutex,     \* owner of _cmutex
    pc,         \* where each thread is in Equeue or Pop
    in,         \* argument of each producer's last call
    out         \* *out of each consumer's last call

vars == <<rq, blank_sem, date_sem, p_step, c_step, pmutex, cmutex, pc, in, out>>

Slots == 0..(Cap - 1)
Threads == Producers \cup Consumers
PC == {"outside", "P", "lock", "access", "advance", "V"}

Init == /\ rq = [s \in Slots |-> Unset]
        /\ blank_sem = Cap
        /\ date_sem = 0
        /\ p_step = 0
        /\ c_step = 0
        /\ pmutex = Nobody
        /\ cmutex = Nobody
        /\ pc = [t \in Threads |-> "outside"]
        /\ in = [p \in Producers |-> Unset]
        /\ out = [c \in Consumers |-> Unset]

At(t, l)      == pc[t] = l
Goto(t, l)    == pc' = [pc EXCEPT ![t] = l]
NextSlotNoWrap(i) == i + 1
NextSlot(i)   == (i + 1) % Cap

-----------------------------------------------------------------------------
(* Equeue                                                                  *)
CallEqueue(p) ==
    /\ At(p, "outside")
    /\ Goto(p, "P")
    /\ \E d \in Items : in' = [in EXCEPT ![p] = d]
    /\ UNCHANGED <<rq, blank_sem, date_sem, p_step, c_step, pmutex, cmutex, out>>

BlankP(p) ==
    /\ At(p, "P")
    /\ blank_sem > 0
    /\ blank_sem' = blank_sem - 1
    /\ Goto(p, "lock")
    /\ UNCHANGED <<rq, date_sem, p_step, c_step, pmutex, cmutex, in, out>>

PLockWithoutMutex(p) ==
    /\ At(p, "lock")
    /\ pmutex' = p
    /\ Goto(p, "access")
    /\ UNCHANGED <<rq, blank_sem, date_sem, p_step, c_step, cmutex, in, out>>

PLock(p) ==
    /\ At(p, "lock")
    /\ pmutex = Nobody
    /\ pmutex' = p
    /\ Goto(p, "access")
    /\ UNCHANGED <<rq, blank_sem, date_sem, p_step, c_step, cmutex, in, out>>

Write(p) ==
    /\ At(p, "access")
    /\ rq' = [rq EXCEPT ![p_step] = in[p]]
    /\ Goto(p, "advance")
    /\ UNCHANGED <<blank_sem, date_sem, p_step, c_step, pmutex, cmutex, in, out>>

PAdvance(p) ==
    /\ At(p, "advance")
    /\ p_step' = NextSlot(p_step)
    /\ pmutex' = Nobody
    /\ Goto(p, "V")
    /\ UNCHANGED <<rq, blank_sem, date_sem, c_step, cmutex, in, out>>

DateV(p) ==
    /\ At(p, "V")
    /\ date_sem' = date_sem + 1
    /\ Goto(p, "outside")
    /\ UNCHANGED <<rq, blank_sem, p_step, c_step, pmutex, cmutex, in, out>>

Equeue(p) == BlankP(p) \/ PLock(p) \/ Write(p) \/ PAdvance(p) \/ DateV(p)

-----------------------------------------------------------------------------
(* Pop                                                                     *)
CallPop(c) ==
    /\ At(c, "outside")
    /\ Goto(c, "P")
    /\ UNCHANGED <<rq, blank_sem, date_sem, p_step, c_step, pmutex, cmutex, in, out>>

DateP(c) ==
    /\ At(c, "P")
    /\ date_sem > 0
    /\ date_sem' = date_sem - 1
    /\ Goto(c, "lock")
    /\ UNCHANGED <<rq, blank_sem, p_step, c_step, pmutex, cmutex, in, out>>

CLockWithoutMutex(c) ==
    /\ At(c, "lock")
    /\ cmutex' = c
    /\ Goto(c, "access")
    /\ UNCHANGED <<rq, blank_sem, date_sem, p_step, c_step, pmutex, in, out>>

CLock(c) ==
    /\ At(c, "lock")
    /\ cmutex = Nobody
    /\ cmutex' = c
    /\ Goto(c, "access")
    /\ UNCHANGED <<rq, blank_sem, date_sem, p_step, c_step, pmutex, in, out>>

Read(c) ==
    /\ At(c, "access")
    /\ out' = [out EXCEPT ![c] = rq[c_step]]
    /\ Goto(c, "advance")
    /\ UNCHANGED <<rq, blank_sem, date_sem, p_step, c_step, pmutex, cmutex, in>>

CAdvance(c) ==
    /\ At(c, "advance")
    /\ c_step' = NextSlot(c_step)
    /\ cmutex' = Nobody
    /\ Goto(c, "V")
    /\ UNCHANGED <<rq, blank_sem, date_sem, p_step, pmutex, in, out>>

BlankVOnce  == blank_sem' = blank_sem + 1

BlankV(c) ==
    /\ At(c, "V")
    /\ BlankVOnce
    /\ Goto(c, "outside")
    /\ UNCHANGED <<rq, date_sem, p_step, c_step, pmutex, cmutex, in, out>>

Pop(c) == DateP(c) \/ CLock(c) \/ Read(c) \/ CAdvance(c) \/ BlankV(c)

-----------------------------------------------------------------------------
Next == \/ \E p \in Producers : CallEqueue(p) \/ Equeue(p)
        \/ \E c \in Consumers : CallPop(c) \/ Pop(c)

(* Threads loop for ever, and a thread that can go on eventually does.     *)
(* Nothing is assumed about which of several waiting threads sem_post or   *)
(* pthread_mutex_unlock lets through, so one thread may starve.            *)
Fairness ==
    /\ \A p \in Producers : WF_vars(CallEqueue(p)) /\ WF_vars(Equeue(p))
    /\ \A c \in Consumers : WF_vars(CallPop(c)) /\ WF_vars(Pop(c))

Safety == Init /\ [][Next]_vars
Spec   == Safety /\ Fairness

-----------------------------------------------------------------------------
(* Properties.                                                             *)

InP(l) == {p \in Producers : pc[p] \in l}
InC(l) == {c \in Consumers : pc[c] \in l}

(* Types; the steps index the vector and the semaphores stay in 0.._cap.   *)
TypeOK ==
    /\ rq \in [Slots -> Items]
    /\ blank_sem \in 0..Cap
    /\ date_sem \in 0..Cap
    /\ p_step \in Slots
    /\ c_step \in Slots
    /\ pmutex \in Producers \cup {Nobody}
    /\ cmutex \in Consumers \cup {Nobody}
    /\ pc \in [Threads -> PC]
    /\ in \in [Producers -> Items]
    /\ out \in [Consumers -> Items]

(* Items written and not yet read.                                         *)
Unread == (date_sem + Cardinality(InP({"advance", "V"})))
              + Cardinality(InC({"lock", "access"}))

(* The place after the last place whose read is complete.                  *)
ReadStep == IF InC({"advance"}) # {} THEN NextSlot(c_step) ELSE c_step

(* Producers and consumers hold different locks and still never touch the  *)
(* same slot at the same time, and no two producers or two consumers do.   *)
NoSlotRace ==
    /\ InP({"access"}) # {} /\ InC({"access"}) # {} => p_step # c_step
    /\ Cardinality(InP({"access", "advance"})) <= 1
    /\ Cardinality(InC({"access", "advance"})) <= 1

(* The ring is a bounded FIFO whose contents are the unread slots, oldest  *)
(* first; an item enters with the write of its slot and leaves with the    *)
(* read.                                                                   *)
FIFO == INSTANCE BoundedFIFO WITH
    Capacity <- Cap, offered <- in, received <- out,
    items <- [i \in 1..Unread |-> rq[(ReadStep + i - 1) % Cap]]

ImplementsFIFO == FIFO!Spec
=============================================================================
