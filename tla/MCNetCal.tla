------------------------------ MODULE MCNetCal ------------------------------
(* Model checking of NetCal with ints of three bits: sums that overflow,   *)
(* every sign of a division, divisions by zero, the one that traps, an     *)
(* operator that does not exist, and one that is an operator only in its   *)
(* low bits.                                                               *)
EXTENDS NetCal

R(x, oper, y) == [x |-> x, y |-> y, oper |-> oper]

MCRequests == {R(3, Plus, 1), R(-4, Minus, 2), R(-3, Times, 3), R(-3, Slash, 2),
               R(3, Slash, 0), R(IntMin, Slash, -1), R(-3, Percent, -2),
               R(1, Percent, 0), R(1, 94, 1), R(2, Plus + Chars, 1)}

(* An empty body, and one with a separator inside.                         *)
MCGarbage == {<<>>, <<CR, LF, 1>>}

MCMistyped == {<<34, 34, LF>>}

(* No header at all, and a word.                                           *)
MCBadHeaders == {<<>>, <<65>>}
=============================================================================
