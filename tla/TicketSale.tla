----------------------------- MODULE TicketSale -----------------------------
(***************************************************************************)
(* src/threadmutualexclusion: threads sell tickets from one counter, each  *)
(* turn of their loop under a LockGuard, which unlocks at the end of the   *)
(* turn and also where `break` leaves the loop.                            *)
(***************************************************************************)
EXTENDS Naturals, FiniteSets

CONSTANTS Sellers,      \* 1..4: the threads t1 to t4, in their order
          Tickets,      \* `ticket` in the beginning
          Free          \* owner of a mutex that nobody holds

(* What the specification assumes of its constants.                        *)
SaleAssumption ==
    /\ Cardinality(Sellers) \in Nat \ {0} /\ Sellers = 1..Cardinality(Sellers)
    /\ Tickets \in Nat /\ Free \notin Sellers

VARIABLES
    main,       \* what main does with which thread
    at,         \* where each thread is
    _mutex,     \* owner of the mutex
    ticket,
    sold        \* history: how often each ticket was printed

vars == <<main, at, _mutex, ticket, sold>>

Count == Cardinality(Sellers)

Init == /\ main = <<"create", 1>>
        /\ at = [s \in Sellers |-> "none"]
        /\ _mutex = Free
        /\ ticket = Tickets
        /\ sold = [n \in 1..Tickets |-> 0]

Go(s, where) == at' = [at EXCEPT ![s] = where]

After(what, s, then) == IF s < Count THEN <<what, s + 1>> ELSE then

-----------------------------------------------------------------------------
(* main.  The ids of threads that could not be created are never set, and  *)
(* joining them would be undefined: the model creates all threads.         *)
Create(s) ==
    /\ main = <<"create", s>>
    /\ Go(s, "loop")
    /\ main' = After("create", s, <<"join", 1>>)
    /\ UNCHANGED <<_mutex, ticket, sold>>

Join(s) ==
    /\ main = <<"join", s>> /\ at[s] = "ended"
    /\ main' = After("join", s, <<"ended", 0>>)
    /\ UNCHANGED <<at, _mutex, ticket, sold>>

-----------------------------------------------------------------------------
(* One turn of route's loop: the guard locks, ...                          *)
Lock(s) ==
    /\ at[s] = "loop" /\ _mutex = Free
    /\ _mutex' = s
    /\ Go(s, IF ticket > 0 THEN "print" ELSE "break")
    /\ UNCHANGED <<main, ticket, sold>>

(* ... printf reads the counter after usleep, ...                          *)
Sell(s) ==
    /\ at[s] = "print"
    /\ sold' = [sold EXCEPT ![ticket] = @ + 1]
    /\ Go(s, "count")
    /\ UNCHANGED <<main, _mutex, ticket>>

(* ... the counter goes down, and the guard's destructor unlocks.          *)
UnlockAtEnd(s) == _mutex' = IF at[s] = "break" THEN _mutex ELSE Free
Unlock(s)      == _mutex' = Free

Decrement(s) ==
    /\ at[s] = "count"
    /\ ticket' = ticket - 1
    /\ Unlock(s)
    /\ Go(s, "loop")
    /\ UNCHANGED <<main, sold>>

Break(s) ==
    /\ at[s] = "break"
    /\ Unlock(s)
    /\ Go(s, "ended")
    /\ UNCHANGED <<main, ticket, sold>>

-----------------------------------------------------------------------------
CreateRest == \E s \in Sellers \ {1} : Create(s)
Route(s)   == Lock(s) \/ Sell(s) \/ Decrement(s) \/ Break(s)

Terminated == main = <<"ended", 0>> /\ UNCHANGED vars

Next == Create(1) \/ CreateRest \/ Terminated \/ \E s \in Sellers : Join(s) \/ Route(s)

(* Main and the threads are scheduled.  The mutex is not assumed fair: a   *)
(* thread may take it again and again, as long as there are tickets.       *)
Fairness == /\ WF_vars(CreateRest)
            /\ \A s \in Sellers : WF_vars(Route(s)) /\ WF_vars(Join(s))

Spec == Init /\ [][Next]_vars /\ Fairness

-----------------------------------------------------------------------------
(* Types.                                                                  *)
TypeOK ==
    /\ main \in {"create", "join"} \X Sellers \cup {<<"ended", 0>>}
    /\ at \in [Sellers -> {"none", "loop", "print", "count", "break", "ended"}]
    /\ _mutex \in Sellers \cup {Free}
    /\ ticket \in 0..Tickets
    /\ sold \in [1..Tickets -> Nat]

(* No ticket is sold twice or left out, and none below 1 is sold: those    *)
(* above the counter are sold, and the one at the counter is too while its *)
(* seller is between printf and the decrement.                             *)
SoldOnce ==
    \A n \in 1..Tickets :
        sold[n] = IF n > ticket \/ (n = ticket /\ \E s \in Sellers : at[s] = "count")
                  THEN 1 ELSE 0

(* Once the sale is open every thread comes to its end, although the last  *)
(* turn leaves the loop in the middle of the locked part.                  *)
SaleEnds == at[1] # "none" ~> main = <<"ended", 0>>
=============================================================================
