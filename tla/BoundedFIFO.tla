---------------------------- MODULE BoundedFIFO ----------------------------
(***************************************************************************)
(* What a producer/consumer queue promises: a consumer receives the oldest *)
(* item that nobody has received yet, and at most Capacity items are in    *)
(* between.  The blocking queue and the ring queue both implement it.      *)
(***************************************************************************)
EXTENDS Naturals, Sequences

CONSTANTS Producers, Consumers, Items, Capacity

VARIABLES offered,   \* the item each producer is putting or put last
          items,     \* put and not yet received, oldest first
          received   \* the last item each consumer received

vars == <<offered, items, received>>

Init == /\ offered \in [Producers -> Items]
        /\ items = <<>>
        /\ received \in [Consumers -> Items]

Offer(p) == /\ \E d \in Items : offered' = [offered EXCEPT ![p] = d]
            /\ UNCHANGED <<items, received>>

Put(p) == /\ Len(items) < Capacity
          /\ items' = Append(items, offered[p])
          /\ UNCHANGED <<offered, received>>

Get(c) == /\ items # <<>>
          /\ received' = [received EXCEPT ![c] = Head(items)]
          /\ items' = Tail(items)
          /\ UNCHANGED offered

Transfer == (\E p \in Producers : Put(p)) \/ (\E c \in Consumers : Get(c))

Next == Transfer \/ \E p \in Producers : Offer(p)

(* There is always room or an item, so Transfer is always enabled, and     *)
(* this is its weak fairness: the two sides never wait for each other in   *)
(* vain.                                                                   *)
Progress == []<><<Transfer>>_vars

Safety == Init /\ [][Next]_vars

Spec == Safety /\ Progress
=============================================================================
