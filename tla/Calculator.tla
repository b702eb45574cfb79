----------------------------- MODULE Calculator -----------------------------
(***************************************************************************)
(* What a calculator service promises to one client, without a connection, *)
(* buffers or packets: every message that is a request is answered once,   *)
(* correctly and in order, other messages are ignored, and answers arrive  *)
(* in the order in which they were given.                                  *)
(***************************************************************************)
EXTENDS Naturals, Sequences

CONSTANTS Messages,        \* everything a client may ask
          Answers,
          IsRequest(_),    \* whether a message is a request
          Correct(_, _)    \* whether an answer is right for a request

VARIABLES asked, answered, shown,
          heard     \* how many messages have been answered or ignored

vars == <<asked, heard, answered, shown>>

Init == asked = <<>> /\ heard = 0 /\ answered = <<>> /\ shown = <<>>

Ask(m) == /\ asked' = Append(asked, m)
          /\ UNCHANGED <<heard, answered, shown>>

Hear == heard < Len(asked) /\ heard' = heard + 1

Ignore == /\ Hear /\ ~IsRequest(asked[heard'])
          /\ UNCHANGED <<asked, answered, shown>>

Give == /\ Hear /\ IsRequest(asked[heard'])
        /\ \E a \in Answers : /\ Correct(asked[heard'], a)
                               /\ answered' = Append(answered, a)
        /\ UNCHANGED <<asked, shown>>

Show == /\ Len(shown) < Len(answered)
        /\ shown' = Append(shown, answered[Len(shown) + 1])
        /\ UNCHANGED <<asked, heard, answered>>

Next == \/ \E m \in Messages : Ask(m)
        \/ Ignore
        \/ Give
        \/ Show

Spec == Init /\ [][Next]_vars
=============================================================================
