------------------------------ MODULE ChatRoom ------------------------------
(***************************************************************************)
(* What the chat server promises, without sockets, threads or locks: a     *)
(* posted message reaches, at one instant, exactly the members, its author *)
(* among them.  Posting makes the author a member; posting a farewell      *)
(* ends the membership.                                                    *)
(***************************************************************************)
EXTENDS Sequences

CONSTANTS Users,
          Messages,     \* everything that can be posted
          Author(_),    \* who wrote a message
          Farewell(_)   \* whether it is the author's last word

VARIABLES members, seen

vars == <<members, seen>>

Init == members = {} /\ seen = [u \in Users |-> <<>>]

Post(m) ==
    LET audience == members \cup {Author(m)}
    IN  /\ seen' = [u \in Users |-> IF u \in audience THEN Append(seen[u], m) ELSE seen[u]]
        /\ members' = IF Farewell(m) THEN members \ {Author(m)} ELSE audience

Next == \E m \in Messages : Post(m)

Spec == Init /\ [][Next]_vars
=============================================================================
