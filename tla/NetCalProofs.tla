---------------------------- MODULE NetCalProofs ----------------------------
(***************************************************************************)
(* Proofs about a connection of the network calculator, for ints of any    *)
(* width, any requests and other messages, any number of them, and any way *)
(* in which the stream is cut.                                             *)
(***************************************************************************)
EXTENDS NetCal, FiniteSetTheorems, SequenceTheorems, WellFoundedInduction, TLAPS

(* A set of numbers that is not empty has a least element: with it, facts  *)
(* about recursive functions are proved from their least counterexample.   *)
LEMMA Least ==
  ASSUME NEW T \in SUBSET Nat, T # {}
  PROVE  \E x \in T : \A y \in T : x <= y
  <1> DEFINE R == {ss \in Nat \X Nat : ss[1] < ss[2]}
  <1>1. IsWellFoundedOn(R, Nat)
    BY NatLessThanWellFounded DEF OpToRel
  <1>2. \A x, y \in Nat : <<y, x>> \in R <=> y < x
    OBVIOUS
  <1> HIDE DEF R
  <1>3. PICK x \in T : \A y \in T : ~ (<<y, x>> \in R)
    BY <1>1, WFMin
  <1>4. ASSUME NEW y \in T PROVE x <= y
    <2>1. x \in Nat /\ y \in Nat /\ ~(y < x)
      BY <1>2, <1>3
    <2> QED BY <2>1
  <1> QED BY <1>4

(***************************************************************************)
(* The numeral of a length and its value.                                  *)
(***************************************************************************)
Numeral == 0..(Radix - 1)

LEMMA LastDigit ==
  ASSUME NEW n \in Nat, n >= Radix
  PROVE  /\ n \div Radix \in Nat /\ n \div Radix < n
         /\ n % Radix \in Numeral
         /\ n = (n \div Radix) * Radix + (n % Radix)
  <1>1. Radix \in 2..10
    BY NetCalAssumption DEF LF
  <1>2. ASSUME NEW d \in 2..10, n >= d
        PROVE  /\ n \div d \in Nat /\ n \div d < n
               /\ n % d \in 0..(d - 1)
               /\ n = (n \div d) * d + (n % d)
    <2>1. CASE d = 2
      BY <1>2, <2>1
    <2>2. CASE d = 3
      BY <1>2, <2>2
    <2>3. CASE d = 4
      BY <1>2, <2>3
    <2>4. CASE d = 5
      BY <1>2, <2>4
    <2>5. CASE d = 6
      BY <1>2, <2>5
    <2>6. CASE d = 7
      BY <1>2, <2>6
    <2>7. CASE d = 8
      BY <1>2, <2>7
    <2>8. CASE d = 9
      BY <1>2, <2>8
    <2>9. CASE d = 10
      BY <1>2, <2>9
    <2> QED BY <2>1, <2>2, <2>3, <2>4, <2>5, <2>6, <2>7, <2>8, <2>9
  <1> QED BY <1>1, <1>2 DEF Numeral

(* f is to_string up to n. *)
ToStringUpTo(n, f) ==
    f = [m \in 0..n |-> IF m < Radix THEN <<m>> ELSE Append(f[m \div Radix], m % Radix)]

LEMMA ToStringExists == \A n \in Nat : \E f : ToStringUpTo(n, f)
  <1> DEFINE T == {n \in Nat : ~ \E f : ToStringUpTo(n, f)}
  <1> SUFFICES ASSUME T # {} PROVE FALSE
    OBVIOUS
  <1>1. PICK x \in T : \A y \in T : x <= y
    BY Least
  <1>2. x \in Nat
    OBVIOUS
  <1>3. PICK g : x > 0 => ToStringUpTo(x - 1, g)
    <2>1. CASE x = 0
      BY <2>1
    <2>2. CASE x > 0
      <3>1. x - 1 \in Nat /\ ~(x <= x - 1)
        BY <1>2, <2>2
      <3> QED BY <1>1, <3>1
    <2> QED BY <1>2, <2>1, <2>2
  <1> DEFINE f == [m \in 0..x |-> IF m < Radix THEN <<m>>
                                  ELSE Append(g[m \div Radix], m % Radix)]
  <1>4. ASSUME NEW m \in 0..x, ~(m < Radix) PROVE f[m \div Radix] = g[m \div Radix]
    <2>1. m \in Nat /\ m >= Radix
      BY <1>4, NetCalAssumption
    <2>2. PICK k : k = m \div Radix
      OBVIOUS
    <2>3. k \in Nat /\ k < m
      BY <2>1, <2>2, LastDigit
    <2>4. k \in 0..x /\ k \in 0..(x - 1) /\ x > 0
      BY <1>2, <2>3
    <2>5. f[k] = IF k < Radix THEN <<k>> ELSE Append(g[k \div Radix], k % Radix)
      BY <2>4
    <2>6. g[k] = IF k < Radix THEN <<k>> ELSE Append(g[k \div Radix], k % Radix)
      BY <1>3, <2>4 DEF ToStringUpTo
    <2> QED BY <2>2, <2>5, <2>6
  <1>5. \A m \in 0..x : f[m] = IF m < Radix THEN <<m>> ELSE Append(f[m \div Radix], m % Radix)
    BY <1>4
  <1>6. f = [m \in 0..x |-> f[m]]
    OBVIOUS
  <1> HIDE DEF f
  <1>7. ToStringUpTo(x, f)
    BY <1>5, <1>6 DEF ToStringUpTo
  <1> QED BY <1>7

LEMMA ToStringAgree ==
  ASSUME NEW n \in Nat, NEW k \in Nat, NEW f, NEW g, ToStringUpTo(n, f), ToStringUpTo(k, g)
  PROVE  \A m \in Nat : m <= n /\ m <= k => f[m] = g[m]
  <1> DEFINE T == {m \in Nat : m <= n /\ m <= k /\ f[m] # g[m]}
  <1> SUFFICES ASSUME T # {} PROVE FALSE
    OBVIOUS
  <1>1. PICK m \in T : \A y \in T : m <= y
    BY Least
  <1>2. m \in Nat /\ m \in 0..n /\ m \in 0..k
    OBVIOUS
  <1>3. f[m] = IF m < Radix THEN <<m>> ELSE Append(f[m \div Radix], m % Radix)
    BY <1>2 DEF ToStringUpTo
  <1>4. g[m] = IF m < Radix THEN <<m>> ELSE Append(g[m \div Radix], m % Radix)
    BY <1>2 DEF ToStringUpTo
  <1>5. PICK d : d = m \div Radix
    OBVIOUS
  <1>6. ~(m < Radix)
    BY <1>3, <1>4
  <1>7. d \in Nat /\ d < m
    BY <1>2, <1>5, <1>6, LastDigit, NetCalAssumption
  <1>8. f[d] = g[d]
    BY <1>1, <1>2, <1>7
  <1> QED BY <1>3, <1>4, <1>5, <1>6, <1>8

LEMMA ToStringStep ==
  \A n \in Nat : to_string[n] = IF n < Radix THEN <<n>>
                                ELSE Append(to_string[n \div Radix], n % Radix)
  <1> DEFINE F(n) == CHOOSE f : ToStringUpTo(n, f)
             h == [n \in Nat |-> F(n)[n]]
             Rule(f) == f = [n \in Nat |-> IF n < Radix THEN <<n>>
                                           ELSE Append(f[n \div Radix], n % Radix)]
  <1>1. \A n \in Nat : ToStringUpTo(n, F(n))
    BY ToStringExists
  <1> HIDE DEF F
  <1>2. ASSUME NEW n \in Nat
        PROVE  h[n] = IF n < Radix THEN <<n>> ELSE Append(h[n \div Radix], n % Radix)
    <2>1. F(n)[n] = IF n < Radix THEN <<n>> ELSE Append(F(n)[n \div Radix], n % Radix)
      <3>1. n \in 0..n
        OBVIOUS
      <3> QED BY <1>1, <3>1 DEF ToStringUpTo
    <2>2. ASSUME ~(n < Radix) PROVE F(n)[n \div Radix] = h[n \div Radix]
      <3>1. PICK d : d = n \div Radix
        OBVIOUS
      <3>2. d \in Nat /\ d < n
        BY <2>2, <3>1, LastDigit, NetCalAssumption
      <3>3. F(n)[d] = F(d)[d]
        BY <1>1, <3>2, ToStringAgree
      <3> QED BY <3>1, <3>2, <3>3
    <2>3. h[n] = F(n)[n]
      OBVIOUS
    <2> HIDE DEF h
    <2> QED BY <2>1, <2>2, <2>3
  <1>3. h = [n \in Nat |-> h[n]]
    OBVIOUS
  <1> HIDE DEF h
  <1>4. Rule(h)
    BY <1>2, <1>3
  <1>5. to_string = CHOOSE f : Rule(f)
    BY DEF to_string
  <1>6. Rule(to_string)
    BY <1>4, <1>5
  <1> QED BY <1>6

(* v is the function value of stoi up to position n.                       *)
ValueTo(digits, n, v) ==
    v = [i \in 0..n |-> IF i = 0 THEN 0 ELSE v[i - 1] * Radix + digits[i]]

LEMMA ValueExists ==
  ASSUME NEW digits
  PROVE  \A n \in Nat : \E v : ValueTo(digits, n, v)
  <1> DEFINE T == {n \in Nat : ~ \E v : ValueTo(digits, n, v)}
  <1> SUFFICES ASSUME T # {} PROVE FALSE
    OBVIOUS
  <1>1. PICK x \in T : \A y \in T : x <= y
    BY Least
  <1>2. x \in Nat
    OBVIOUS
  <1>3. PICK g : x > 0 => ValueTo(digits, x - 1, g)
    <2>1. CASE x = 0
      BY <2>1
    <2>2. CASE x > 0
      <3>1. x - 1 \in Nat /\ ~(x <= x - 1)
        BY <1>2, <2>2
      <3> QED BY <1>1, <3>1
    <2> QED BY <1>2, <2>1, <2>2
  <1> DEFINE v == [i \in 0..x |-> IF i = 0 THEN 0 ELSE g[i - 1] * Radix + digits[i]]
  <1>4. ASSUME NEW i \in 1..x PROVE v[i - 1] = g[i - 1]
    <2>1. i - 1 \in 0..x /\ i - 1 \in 0..(x - 1) /\ x > 0
      BY <1>2
    <2> QED BY <1>3, <2>1 DEF ValueTo
  <1>5. \A i \in 0..x : v[i] = IF i = 0 THEN 0 ELSE v[i - 1] * Radix + digits[i]
    <2> SUFFICES ASSUME NEW i \in 0..x
                 PROVE  v[i] = IF i = 0 THEN 0 ELSE v[i - 1] * Radix + digits[i]
      OBVIOUS
    <2>1. CASE i = 0
      BY <2>1
    <2>2. CASE i # 0
      <3>1. i \in 1..x
        BY <1>2, <2>2
      <3>2. v[i] = g[i - 1] * Radix + digits[i]
        BY <2>2
      <3> HIDE DEF v
      <3> QED BY <1>4, <2>2, <3>1, <3>2
    <2> QED BY <2>1, <2>2
  <1>6. v = [i \in 0..x |-> v[i]]
    OBVIOUS
  <1> HIDE DEF v
  <1>7. ValueTo(digits, x, v)
    BY <1>5, <1>6 DEF ValueTo
  <1> QED BY <1>7

LEMMA ValueAgree ==
  ASSUME NEW s, NEW t, NEW n \in Nat, NEW k \in Nat, NEW v, NEW w,
         ValueTo(s, n, v), ValueTo(t, k, w), n <= k, \A i \in 1..n : s[i] = t[i]
  PROVE  v[n] = w[n]
  <1> DEFINE T == {m \in Nat : m <= n /\ v[m] # w[m]}
  <1> SUFFICES ASSUME T # {} PROVE FALSE
    OBVIOUS
  <1>1. PICK m \in T : \A y \in T : m <= y
    BY Least
  <1>2. m \in Nat /\ m \in 0..n /\ m \in 0..k
    OBVIOUS
  <1>3. v[m] = IF m = 0 THEN 0 ELSE v[m - 1] * Radix + s[m]
    BY <1>2 DEF ValueTo
  <1>4. w[m] = IF m = 0 THEN 0 ELSE w[m - 1] * Radix + t[m]
    BY <1>2 DEF ValueTo
  <1>5. m # 0 /\ s[m] = t[m]
    BY <1>2, <1>3, <1>4
  <1>6. m - 1 \in Nat /\ m - 1 < m /\ m - 1 <= n
    BY <1>2, <1>5
  <1>7. v[m - 1] = w[m - 1]
    BY <1>1, <1>6
  <1> QED BY <1>3, <1>4, <1>5, <1>7

LEMMA StoiValue ==
  ASSUME NEW digits, Len(digits) \in Nat
  PROVE  \E v : ValueTo(digits, Len(digits), v) /\ stoi(digits) = v[Len(digits)]
  <1> DEFINE v == CHOOSE w : ValueTo(digits, Len(digits), w)
  <1>1. ValueTo(digits, Len(digits), v)
    BY ValueExists
  <1>2. stoi(digits) = v[Len(digits)]
    BY DEF stoi, ValueTo
  <1> QED BY <1>1, <1>2

LEMMA StoiAppend ==
  ASSUME NEW s \in Seq(Nat), NEW d \in Nat
  PROVE  /\ stoi(<<d>>) = d
         /\ stoi(Append(s, d)) = stoi(s) * Radix + d
  <1>1. PICK v : ValueTo(s, Len(s), v) /\ stoi(s) = v[Len(s)]
    BY StoiValue
  <1>2. PICK t : t = Append(s, d)
    OBVIOUS
  <1>3. Len(s) \in Nat /\ Len(t) = Len(s) + 1 /\ t[Len(t)] = d /\ \A i \in 1..Len(s) : s[i] = t[i]
    BY <1>2
  <1>4. PICK w : ValueTo(t, Len(t), w) /\ stoi(t) = w[Len(t)]
    BY <1>3, StoiValue
  <1>5. w[Len(s)] = v[Len(s)]
    <2>1. Len(t) \in Nat /\ Len(s) <= Len(t)
      BY <1>3
    <2> QED BY <1>1, <1>3, <1>4, <2>1, ValueAgree
  <1>6. w[Len(t)] = w[Len(t) - 1] * Radix + t[Len(t)]
    BY <1>3, <1>4 DEF ValueTo
  <1>7. stoi(t) = stoi(s) * Radix + d
    BY <1>1, <1>3, <1>4, <1>5, <1>6
  <1>8. PICK o : o = <<d>>
    OBVIOUS
  <1>9. Len(o) = 1 /\ o[1] = d
    BY <1>8
  <1>10. PICK u : ValueTo(o, Len(o), u) /\ stoi(o) = u[Len(o)]
    <2>1. Len(o) \in Nat
      BY <1>9
    <2> QED BY <2>1, StoiValue
  <1>11. u[1] = u[0] * Radix + d /\ u[0] = 0
    BY <1>9, <1>10 DEF ValueTo
  <1>12. stoi(o) = d
    BY <1>9, <1>10, <1>11, NetCalAssumption
  <1> QED BY <1>2, <1>7, <1>8, <1>12

(* stoi is the inverse of to_string.                                       *)
LEMMA NumeralOfLength ==
  ASSUME NEW n \in Nat
  PROVE  to_string[n] \in Seq(Numeral) /\ stoi(to_string[n]) = n
  <1> DEFINE Good(m) == to_string[m] \in Seq(Numeral) /\ stoi(to_string[m]) = m
             T == {m \in Nat : ~Good(m)}
  <1> SUFFICES ASSUME T # {} PROVE FALSE
    OBVIOUS
  <1>1. PICK x \in T : \A y \in T : x <= y
    BY Least
  <1>2. x \in Nat /\ ~Good(x) /\ \A y \in Nat : y < x => Good(y)
    BY <1>1
  <1>3. Radix \in Nat /\ Numeral \subseteq Nat
    BY NetCalAssumption DEF Numeral
  <1>4. CASE x < Radix
    <2>1. to_string[x] = <<x>> /\ x \in Numeral
      <3>1. x \in Numeral
        BY <1>2, <1>3, <1>4 DEF Numeral
      <3>2. to_string[x] = <<x>>
        BY <1>2, <1>4, ToStringStep
      <3> QED BY <3>1, <3>2
    <2>2. <<x>> \in Seq(Numeral) /\ <<>> \in Seq(Nat)
      BY <2>1
    <2>3. stoi(<<x>>) = x
      BY <1>2, <2>2, StoiAppend
    <2> QED BY <1>2, <2>1, <2>2, <2>3
  <1>5. CASE ~(x < Radix)
    <2>1. PICK q, d : q = x \div Radix /\ d = x % Radix
      OBVIOUS
    <2>2. q \in Nat /\ q < x /\ d \in Numeral /\ x = q * Radix + d
      BY <1>2, <1>3, <1>5, <2>1, LastDigit
    <2>3. to_string[x] = Append(to_string[q], d)
      BY <1>2, <1>5, <2>1, ToStringStep
    <2>4. to_string[q] \in Seq(Numeral) /\ stoi(to_string[q]) = q
      BY <1>2, <2>2
    <2>5. to_string[q] \in Seq(Nat) /\ d \in Nat
      BY <1>3, <2>2, <2>4, SeqMonotonic
    <2>6. stoi(to_string[x]) = x
      BY <2>2, <2>3, <2>4, <2>5, StoiAppend
    <2>7. to_string[x] \in Seq(Numeral)
      BY <2>2, <2>3, <2>4
    <2> QED BY <1>2, <2>6, <2>7
  <1> QED BY <1>4, <1>5

Strings == Seq(Nat)

(***************************************************************************)
(* Concatenations of strings.                                              *)
(***************************************************************************)

(* f is the function flatten of FlattenSeq up to n.                        *)
FlattenTo(seqs, n, f) ==
    f = [i \in 1..n |-> IF i = 1 THEN seqs[i] ELSE f[i - 1] \o seqs[i]]

LEMMA FlattenExists ==
  ASSUME NEW seqs
  PROVE  \A n \in Nat : \E f : FlattenTo(seqs, n, f)
  <1> DEFINE T == {n \in Nat : ~ \E f : FlattenTo(seqs, n, f)}
  <1> SUFFICES ASSUME T # {} PROVE FALSE
    OBVIOUS
  <1>1. PICK x \in T : \A y \in T : x <= y
    BY Least
  <1>2. x \in Nat
    OBVIOUS
  <1>3. PICK g : x > 0 => FlattenTo(seqs, x - 1, g)
    <2>1. CASE x = 0
      BY <2>1
    <2>2. CASE x > 0
      <3>1. x - 1 \in Nat /\ ~(x <= x - 1)
        BY <1>2, <2>2
      <3> QED BY <1>1, <3>1
    <2> QED BY <1>2, <2>1, <2>2
  <1> DEFINE f == [i \in 1..x |-> IF i = 1 THEN seqs[i] ELSE g[i - 1] \o seqs[i]]
  <1>4. ASSUME NEW i \in 2..x PROVE f[i - 1] = g[i - 1]
    <2>1. i - 1 \in 1..x /\ i - 1 \in 1..(x - 1) /\ x > 0
      BY <1>2
    <2> QED BY <1>3, <2>1 DEF FlattenTo
  <1>5. \A i \in 1..x : f[i] = IF i = 1 THEN seqs[i] ELSE f[i - 1] \o seqs[i]
    <2> SUFFICES ASSUME NEW i \in 1..x
                 PROVE  f[i] = IF i = 1 THEN seqs[i] ELSE f[i - 1] \o seqs[i]
      OBVIOUS
    <2>1. CASE i = 1
      BY <2>1
    <2>2. CASE i # 1
      <3>1. i \in 2..x
        BY <1>2, <2>2
      <3>2. f[i] = g[i - 1] \o seqs[i]
        BY <2>2
      <3> HIDE DEF f
      <3> QED BY <1>4, <2>2, <3>1, <3>2
    <2> QED BY <2>1, <2>2
  <1>6. f = [i \in 1..x |-> f[i]]
    OBVIOUS
  <1> HIDE DEF f
  <1>7. FlattenTo(seqs, x, f)
    BY <1>5, <1>6 DEF FlattenTo
  <1> QED BY <1>7

LEMMA FlattenAgree ==
  ASSUME NEW s, NEW t, NEW n \in Nat, NEW k \in Nat, NEW f, NEW g, n # 0,
         FlattenTo(s, n, f), FlattenTo(t, k, g), n <= k, \A i \in 1..n : s[i] = t[i]
  PROVE  f[n] = g[n]
  <1> DEFINE T == {m \in Nat : m # 0 /\ m <= n /\ f[m] # g[m]}
  <1> SUFFICES ASSUME T # {} PROVE FALSE
    OBVIOUS
  <1>1. PICK m \in T : \A y \in T : m <= y
    BY Least
  <1>2. m \in Nat /\ m \in 1..n /\ m \in 1..k
    OBVIOUS
  <1>3. f[m] = IF m = 1 THEN s[m] ELSE f[m - 1] \o s[m]
    BY <1>2 DEF FlattenTo
  <1>4. g[m] = IF m = 1 THEN t[m] ELSE g[m - 1] \o t[m]
    BY <1>2 DEF FlattenTo
  <1>5. m # 1 /\ s[m] = t[m]
    BY <1>2, <1>3, <1>4
  <1>6. m - 1 \in Nat /\ m - 1 # 0 /\ m - 1 < m /\ m - 1 <= n
    BY <1>2, <1>5
  <1>7. f[m - 1] = g[m - 1]
    BY <1>1, <1>6
  <1> QED BY <1>3, <1>4, <1>5, <1>7

LEMMA FlattenValue ==
  ASSUME NEW seqs, Len(seqs) \in Nat, Len(seqs) # 0
  PROVE  \E f : FlattenTo(seqs, Len(seqs), f) /\ FlattenSeq(seqs) = f[Len(seqs)]
  <1> DEFINE f == CHOOSE g : FlattenTo(seqs, Len(seqs), g)
  <1>1. FlattenTo(seqs, Len(seqs), f)
    BY FlattenExists
  <1>2. FlattenSeq(seqs) = f[Len(seqs)]
    BY DEF FlattenSeq, FlattenTo
  <1> QED BY <1>1, <1>2

LEMMA Associative == \A a, b, c \in Strings : (a \o b) \o c = a \o (b \o c)
  BY SMTT(30), ConcatAssociative DEF Strings

LEMMA FlattenEmpty == FlattenSeq(<<>>) = <<>>
  BY DEF FlattenSeq

LEMMA FlattenAppend ==
  ASSUME NEW seqs \in Seq(Strings), NEW s \in Strings
  PROVE  FlattenSeq(Append(seqs, s)) = FlattenSeq(seqs) \o s
  <1>1. PICK t : t = Append(seqs, s)
    OBVIOUS
  <1>2. /\ Len(seqs) \in Nat /\ Len(t) = Len(seqs) + 1 /\ t[Len(t)] = s
        /\ \A i \in 1..Len(seqs) : seqs[i] = t[i]
    BY <1>1
  <1>3. PICK g : FlattenTo(t, Len(t), g) /\ FlattenSeq(t) = g[Len(t)]
    <2>1. Len(t) \in Nat /\ Len(t) # 0
      BY <1>2
    <2> QED BY <2>1, FlattenValue
  <1>4. g[Len(t)] = IF Len(t) = 1 THEN t[Len(t)] ELSE g[Len(t) - 1] \o t[Len(t)]
    <2>1. Len(t) \in 1..Len(t)
      BY <1>2
    <2> QED BY <1>3, <2>1 DEF FlattenTo
  <1>5. CASE Len(seqs) = 0
    <2>1. seqs = <<>>
      BY <1>5, EmptySeq
    <2>2. FlattenSeq(t) = s
      BY <1>2, <1>3, <1>4, <1>5
    <2>3. <<>> \o s = s
      BY ConcatEmptySeq DEF Strings
    <2> QED BY <1>1, <2>1, <2>2, <2>3, FlattenEmpty
  <1>6. CASE Len(seqs) # 0
    <2>1. PICK f : FlattenTo(seqs, Len(seqs), f) /\ FlattenSeq(seqs) = f[Len(seqs)]
      BY <1>2, <1>6, FlattenValue
    <2>2. Len(t) \in Nat /\ Len(seqs) <= Len(t) /\ Len(t) # 1 /\ Len(t) - 1 = Len(seqs)
      BY <1>2, <1>6
    <2>3. f[Len(seqs)] = g[Len(seqs)]
      BY <1>2, <1>3, <1>6, <2>1, <2>2, FlattenAgree
    <2> QED BY <1>1, <1>2, <1>3, <1>4, <2>1, <2>2, <2>3
  <1> QED BY <1>5, <1>6

LEMMA FlattenIsString ==
  ASSUME NEW seqs \in Seq(Strings)
  PROVE  FlattenSeq(seqs) \in Strings
  <1> DEFINE T == {n \in Nat : \E s \in Seq(Strings) :
                                   Len(s) = n /\ FlattenSeq(s) \notin Strings}
  <1>1. T = {}
    <2> SUFFICES ASSUME T # {} PROVE FALSE
      OBVIOUS
    <2>1. PICK n \in T : \A y \in T : n <= y
      BY Least
    <2>2. PICK s \in Seq(Strings) : Len(s) = n /\ FlattenSeq(s) \notin Strings
      OBVIOUS
    <2>3. s # <<>>
      BY <2>2, FlattenEmpty DEF Strings
    <2>4. PICK f \in Seq(Strings), e \in Strings : s = Append(f, e)
      BY <2>3, SequenceEmptyOrAppend
    <2>5. Len(f) \in Nat /\ Len(f) < n
      BY <2>2, <2>4
    <2>6. FlattenSeq(f) \in Strings
      BY <2>1, <2>5
    <2>7. FlattenSeq(s) \in Strings
      BY <2>4, <2>6, FlattenAppend, ConcatProperties DEF Strings
    <2> QED BY <2>2, <2>7
  <1>2. Len(seqs) \in Nat
    OBVIOUS
  <1> QED BY <1>1, <1>2

LEMMA FlattenFirst ==
  ASSUME NEW first \in Strings, NEW seqs \in Seq(Strings)
  PROVE  FlattenSeq(<<first>> \o seqs) = first \o FlattenSeq(seqs)
  <1> DEFINE Good(s) == FlattenSeq(<<first>> \o s) = first \o FlattenSeq(s)
             T == {n \in Nat : \E s \in Seq(Strings) : Len(s) = n /\ ~Good(s)}
  <1>1. T = {}
    <2> SUFFICES ASSUME T # {} PROVE FALSE
      OBVIOUS
    <2>1. PICK n \in T : \A y \in T : n <= y
      BY Least
    <2>2. PICK s \in Seq(Strings) : Len(s) = n /\ ~Good(s)
      OBVIOUS
    <2>3. <<first>> \in Seq(Strings) /\ <<>> \in Seq(Strings)
      OBVIOUS
    <2>4. s # <<>>
      <3>1. <<first>> \o <<>> = Append(<<>>, first)
        BY <2>3, AppendIsConcat, ConcatEmptySeq
      <3>2. FlattenSeq(<<first>> \o <<>>) = <<>> \o first
        BY <2>3, <3>1, FlattenAppend, FlattenEmpty
      <3>3. <<>> \o first = first /\ first \o <<>> = first
        BY ConcatEmptySeq DEF Strings
      <3> QED BY <2>2, <3>2, <3>3, FlattenEmpty
    <2>5. PICK f \in Seq(Strings), e \in Strings : s = Append(f, e)
      BY <2>4, SequenceEmptyOrAppend
    <2>6. Len(f) \in Nat /\ Len(f) < n
      BY SMTT(30), <2>2, <2>5
    <2>7. Good(f)
      <3>1. ~Good(f) => Len(f) \in T
        BY <2>6
      <3> HIDE DEF T, Good
      <3>2. ~(n <= Len(f)) /\ n \in T
        BY <2>1, <2>6 DEF T
      <3> QED BY <2>1, <3>1, <3>2
    <2>8. <<first>> \o s = Append(<<first>> \o f, e) /\ <<first>> \o f \in Seq(Strings)
      <3>1. <<e>> \in Seq(Strings)
        OBVIOUS
      <3>2. s = f \o <<e>> /\ <<first>> \o f \in Seq(Strings)
        BY <2>3, <2>5, AppendIsConcat, ConcatProperties
      <3>3. (<<first>> \o f) \o <<e>> = <<first>> \o (f \o <<e>>)
        BY SMTT(30), <2>3, <3>1, ConcatAssociative
      <3>4. Append(<<first>> \o f, e) = (<<first>> \o f) \o <<e>>
        BY <3>2, AppendIsConcat
      <3> QED BY <3>2, <3>3, <3>4
    <2>9. FlattenSeq(<<first>> \o s) = (first \o FlattenSeq(f)) \o e
      BY <2>7, <2>8, FlattenAppend
    <2>10. FlattenSeq(s) = FlattenSeq(f) \o e
      BY <2>5, FlattenAppend
    <2>11. (first \o FlattenSeq(f)) \o e = first \o (FlattenSeq(f) \o e)
      <3>1. PICK u : u = FlattenSeq(f)
        OBVIOUS
      <3>2. u \in Strings
        BY <3>1, FlattenIsString
      <3>3. (first \o u) \o e = first \o (u \o e)
        BY <2>5, <3>2, Associative
      <3> QED BY <3>1, <3>3
    <2> QED BY <2>2, <2>9, <2>10, <2>11
  <1>2. Len(seqs) \in Nat
    OBVIOUS
  <1>3. Good(seqs)
    BY <1>1, <1>2
  <1> QED BY <1>3

LEMMA LengthIsNumeral ==
  ASSUME NEW n \in Nat
  PROVE  IsNumeral(to_string[n])
  <1>1. PICK d : d = to_string[n]
    OBVIOUS
  <1>2. d \in Seq(Numeral) /\ Len(d) # 0
    <2>1. d \in Seq(Numeral)
      BY <1>1, NumeralOfLength
    <2>2. CASE n < Radix
      <3>1. d = <<n>>
        BY <1>1, <2>2, ToStringStep
      <3> QED BY <2>1, <3>1
    <2>3. CASE ~(n < Radix)
      <3>1. PICK q, x : q = n \div Radix /\ x = n % Radix
        OBVIOUS
      <3>2. q \in Nat /\ x \in Numeral
        <4>1. n >= Radix
          BY <2>3, NetCalAssumption
        <4> QED BY <3>1, <4>1, LastDigit
      <3>3. d = Append(to_string[q], x)
        BY <1>1, <2>3, <3>1, ToStringStep
      <3>4. to_string[q] \in Seq(Numeral)
        BY <3>2, NumeralOfLength
      <3>5. PICK t : t = to_string[q]
        OBVIOUS
      <3>6. Len(t) \in Nat /\ Len(d) = Len(t) + 1
        BY <3>2, <3>3, <3>4, <3>5, AppendProperties
      <3> QED BY <2>1, <3>6
    <2> QED BY <2>1, <2>2, <2>3
  <1>3. d # <<>> /\ d[1] \in Numeral
    <2>1. Len(d) \in Nat /\ 1 \in 1..Len(d)
      BY <1>2
    <2> QED BY <1>2, <2>1, ElementOfSeq
  <1>4. \A x \in Numeral : x < Radix
    BY NetCalAssumption DEF Numeral
  <1> QED BY <1>1, <1>3, <1>4 DEF IsNumeral

(***************************************************************************)
(* A packet, and what Decode makes of a buffer that begins with one.       *)
(***************************************************************************)
LEMMA NumeralIsString ==
  ASSUME NEW n \in Nat
  PROVE  /\ to_string[n] \in Strings
         /\ \A i \in 1..Len(to_string[n]) : to_string[n][i] \in Nat /\ to_string[n][i] < LF
  <1>1. PICK d : d = to_string[n]
    OBVIOUS
  <1>2. d \in Seq(Numeral) /\ Numeral \subseteq Nat
    BY <1>1, NumeralOfLength, NetCalAssumption DEF Numeral
  <1>3. d \in Strings
    BY <1>2, SeqMonotonic DEF Strings
  <1>4. \A x \in Numeral : x < LF
    BY NetCalAssumption DEF Numeral, LF
  <1>5. \A i \in 1..Len(d) : d[i] \in Nat /\ d[i] < LF
    BY <1>2, <1>4, ElementOfSeq
  <1> QED BY <1>1, <1>3, <1>5

IsJoin(c, a, b) ==
    /\ c \in Seq(Nat) /\ Len(a) \in Nat /\ Len(b) \in Nat
    /\ Len(c) = Len(a) + Len(b)
    /\ \A i \in 1..Len(a) : c[i] = a[i]
    /\ \A i \in 1..Len(b) : c[Len(a) + i] = b[i]

LEMMA Joined == \A a, b \in Seq(Nat) : IsJoin(a \o b, a, b)
  <1> SUFFICES ASSUME NEW a \in Seq(Nat), NEW b \in Seq(Nat) PROVE IsJoin(a \o b, a, b)
    OBVIOUS
  <1>1. PICK c : c = a \o b
    OBVIOUS
  <1>2. /\ c \in Seq(Nat) /\ Len(a) \in Nat /\ Len(b) \in Nat
        /\ Len(c) = Len(a) + Len(b)
        /\ \A i \in 1..(Len(a) + Len(b)) :
               c[i] = IF i <= Len(a) THEN a[i] ELSE b[i - Len(a)]
    BY <1>1, ConcatProperties
  <1>3. ASSUME NEW i \in 1..Len(a) PROVE c[i] = a[i]
    <2>1. i \in 1..(Len(a) + Len(b)) /\ i <= Len(a)
      BY <1>2
    <2> QED BY <1>2, <2>1
  <1>4. ASSUME NEW i \in 1..Len(b) PROVE c[Len(a) + i] = b[i]
    <2>1. PICK k : k = Len(a) + i
      OBVIOUS
    <2>2. k \in 1..(Len(a) + Len(b)) /\ ~(k <= Len(a)) /\ k - Len(a) = i
      BY SMTT(30), <1>2, <2>1
    <2> QED BY <1>2, <2>1, <2>2
  <1> QED BY <1>1, <1>2, <1>3, <1>4 DEF IsJoin

(* The header, the separator, the body and the end of a packet, and what   *)
(* follows it.                                                             *)
IsPacket(s, body, rest, h, l) ==
    /\ h \in Nat /\ l \in Nat /\ s \in Strings
    /\ Len(s) = h + 2 + l + 2 + Len(rest)
    /\ \A i \in 1..h : s[i] = to_string[l][i]
    /\ s[h + 1] = CR /\ s[h + 2] = LF
    /\ \A i \in 1..l : s[h + 2 + i] = body[i]
    /\ \A i \in 1..Len(rest) : s[h + 2 + l + 2 + i] = rest[i]

LEMMA Packet ==
  ASSUME NEW body \in Strings, NEW rest \in Strings
  PROVE  /\ Encode(body) \in Strings
         /\ IsPacket(Encode(body) \o rest, body, rest, Len(to_string[Len(body)]), Len(body))
  <1>0. PICK h, l, s : /\ h = Len(to_string[Len(body)]) /\ l = Len(body)
                       /\ s = Encode(body) \o rest
    OBVIOUS
  <1>1. PICK d, p, q, e : /\ d = to_string[l] /\ p = d \o sep /\ q = p \o body
                          /\ e = q \o sep
    OBVIOUS
  <1>2. d \in Seq(Nat) /\ Len(d) = h /\ body \in Seq(Nat) /\ rest \in Seq(Nat)
    <2>1. l \in Nat
      BY <1>0 DEF Strings
    <2> QED BY <1>0, <1>1, <2>1, NumeralIsString DEF Strings
  <1>3. sep \in Seq(Nat) /\ Len(sep) = 2 /\ sep[1] = CR /\ sep[2] = LF
    BY DEF sep, CR, LF
  <1>4. /\ p \in Seq(Nat) /\ h \in Nat /\ Len(p) = h + 2
        /\ \A i \in 1..h : p[i] = d[i]
        /\ \A i \in 1..2 : p[h + i] = sep[i]
    <2>1. IsJoin(p, d, sep)
      BY <1>1, <1>2, <1>3, Joined
    <2> QED BY <1>2, <1>3, <2>1 DEF IsJoin
  <1>5. /\ q \in Seq(Nat) /\ l \in Nat /\ Len(q) = h + 2 + l
        /\ \A i \in 1..(h + 2) : q[i] = p[i]
        /\ \A i \in 1..l : q[h + 2 + i] = body[i]
    <2>1. IsJoin(q, p, body)
      BY <1>1, <1>2, <1>4, Joined
    <2> QED BY <1>0, <1>4, <2>1 DEF IsJoin
  <1>6. /\ e \in Seq(Nat) /\ Len(e) = h + 2 + l + 2
        /\ \A i \in 1..(h + 2 + l) : e[i] = q[i]
    <2>1. IsJoin(e, q, sep)
      BY <1>1, <1>3, <1>5, Joined
    <2> QED BY <1>3, <1>5, <2>1 DEF IsJoin
  <1>7. e = Encode(body)
    BY <1>0, <1>1 DEF Encode
  <1>8. /\ s \in Seq(Nat) /\ Len(s) = h + 2 + l + 2 + Len(rest)
        /\ \A i \in 1..(h + 2 + l + 2) : s[i] = e[i]
        /\ \A i \in 1..Len(rest) : s[h + 2 + l + 2 + i] = rest[i]
    <2>1. IsJoin(s, e, rest)
      BY <1>0, <1>2, <1>6, <1>7, Joined
    <2> QED BY <1>6, <2>1 DEF IsJoin
  <1>9. \A i \in 1..(h + 2 + l) : s[i] = q[i]
    <2> SUFFICES ASSUME NEW i \in 1..(h + 2 + l) PROVE s[i] = q[i]
      OBVIOUS
    <2>1. i \in 1..(h + 2 + l + 2)
      BY <1>4, <1>5
    <2> QED BY <1>6, <1>8, <2>1
  <1>10. \A i \in 1..(h + 2) : s[i] = p[i]
    <2> SUFFICES ASSUME NEW i \in 1..(h + 2) PROVE s[i] = p[i]
      OBVIOUS
    <2>1. i \in 1..(h + 2 + l)
      BY <1>4, <1>5
    <2> QED BY <1>5, <1>9, <2>1
  <1>11. \A i \in 1..h : s[i] = d[i]
    <2> SUFFICES ASSUME NEW i \in 1..h PROVE s[i] = d[i]
      OBVIOUS
    <2>1. i \in 1..(h + 2)
      BY <1>4
    <2> QED BY <1>4, <1>10, <2>1
  <1>12. s[h + 1] = CR /\ s[h + 2] = LF
    <2>1. h + 1 \in 1..(h + 2) /\ h + 2 \in 1..(h + 2)
      BY <1>4
    <2>2. s[h + 1] = p[h + 1] /\ s[h + 2] = p[h + 2]
      BY <1>10, <2>1
    <2> QED BY <1>3, <1>4, <2>2
  <1>13. \A i \in 1..l : s[h + 2 + i] = body[i]
    <2> SUFFICES ASSUME NEW i \in 1..l PROVE s[h + 2 + i] = body[i]
      OBVIOUS
    <2>1. PICK k : k = h + 2 + i
      OBVIOUS
    <2>2. k \in 1..(h + 2 + l)
      BY <1>4, <1>5, <2>1
    <2>3. s[k] = q[k]
      BY <1>9, <2>2
    <2> QED BY <1>5, <2>1, <2>3
  <1>14. IsPacket(s, body, rest, h, l)
    BY <1>1, <1>4, <1>5, <1>8, <1>11, <1>12, <1>13 DEF IsPacket, Strings
  <1> QED BY <1>0, <1>6, <1>7, <1>14 DEF Strings

LEMMA EncodeIsString ==
  ASSUME NEW body \in Strings
  PROVE  Encode(body) \in Strings /\ Encode(body) # <<>>
  <1>1. PICK h, l, s : /\ h = Len(to_string[Len(body)]) /\ l = Len(body)
                       /\ s = Encode(body) \o <<>>
    OBVIOUS
  <1>2. PICK none : none = <<>>
    OBVIOUS
  <1>3. none \in Strings /\ Len(none) = 0
    BY <1>2 DEF Strings
  <1>4. Encode(body) \in Strings /\ IsPacket(s, body, none, h, l)
    BY <1>1, <1>2, <1>3, Packet
  <1>5. s = Encode(body) /\ Len(s) > 0
    <2>1. s = Encode(body)
      BY <1>1, <1>4, ConcatEmptySeq DEF Strings
    <2> QED BY <1>3, <1>4, <2>1 DEF IsPacket
  <1> QED BY <1>2, <1>3, <1>4, <1>5

(* A header is found where the first packet has its length.                *)
LEMMA HeaderFirst ==
  ASSUME NEW body \in Strings, NEW rest \in Strings,
         NEW buffer \in Strings, NEW more \in Strings,
         buffer \o more = Encode(body) \o rest, Separators(buffer) # {}
  PROVE  /\ HeaderSize(buffer) = Len(to_string[Len(body)])
         /\ Header(buffer) = to_string[Len(body)]
  <1>1. PICK h, l, s : /\ h = Len(to_string[Len(body)]) /\ l = Len(body)
                       /\ s = Encode(body) \o rest
    OBVIOUS
  <1>3. /\ h \in Nat /\ l \in Nat /\ s \in Strings
        /\ Len(s) = h + 2 + l + 2 + Len(rest)
        /\ \A i \in 1..h : s[i] = to_string[l][i]
        /\ s[h + 1] = CR /\ s[h + 2] = LF
        /\ \A i \in 1..l : s[h + 2 + i] = body[i]
        /\ \A i \in 1..Len(rest) : s[h + 2 + l + 2 + i] = rest[i]
    <2>1. IsPacket(s, body, rest, h, l)
      BY <1>1, Packet
    <2> QED BY <2>1 DEF IsPacket
  <1>2. h \in Nat /\ l \in Nat
    BY <1>3
  <1>4. /\ buffer \in Seq(Nat) /\ more \in Seq(Nat) /\ rest \in Seq(Nat) /\ s \in Seq(Nat)
        /\ body \in Seq(Nat)
    BY <1>3 DEF Strings
  <1>5. /\ Len(buffer) \in Nat /\ Len(more) \in Nat /\ Len(s) = Len(buffer) + Len(more)
        /\ \A i \in 1..Len(buffer) : buffer[i] = s[i]
        /\ \A i \in 1..Len(more) : more[i] = s[Len(buffer) + i]
    <2>1. IsJoin(s, buffer, more)
      BY <1>1, <1>4, Joined
    <2> QED BY <2>1 DEF IsJoin
  <1>6. \A i \in 1..h : s[i] # CR
    <2> SUFFICES ASSUME NEW i \in 1..h PROVE s[i] # CR
      OBVIOUS
    <2>1. to_string[l][i] \in Nat /\ to_string[l][i] < LF
      BY <1>1, <1>2, NumeralIsString
    <2> QED BY <1>3, <2>1 DEF CR, LF
  <1>7. /\ h + 1 \in Separators(buffer)
        /\ \A i \in Separators(buffer) : i \in Nat /\ h + 1 <= i
    <2>1. \A i \in Separators(buffer) : i \in Nat /\ h + 1 <= i /\ i + 1 <= Len(buffer)
      BY <1>2, <1>5, <1>6 DEF Separators
    <2>2. Separators(buffer) # {}
      OBVIOUS
    <2>3. h + 2 <= Len(buffer)
      BY <1>2, <1>5, <2>1, <2>2
    <2>4. h + 1 \in Separators(buffer)
      <3>1. h + 1 \in 1..(Len(buffer) - 1) /\ (h + 1) + 1 = h + 2
            /\ h + 1 \in 1..Len(buffer) /\ h + 2 \in 1..Len(buffer)
        BY <1>2, <1>5, <2>3
      <3>2. buffer[h + 1] = CR /\ buffer[(h + 1) + 1] = LF
        BY <1>3, <1>5, <3>1
      <3> QED BY <3>1, <3>2 DEF Separators
    <2> QED BY <2>1, <2>4
  <1>8. HeaderSize(buffer) = h
    <2>1. Min(Separators(buffer)) = h + 1
      BY <1>2, <1>7 DEF Min
    <2> QED BY <1>2, <2>1 DEF HeaderSize
  <1>9. Header(buffer) = to_string[l]
    <2>1. PICK d : d = to_string[l]
      OBVIOUS
    <2>2. d \in Seq(Nat) /\ Len(d) = h
      BY <1>1, <1>2, <2>1, NumeralIsString DEF Strings
    <2>3. h + 1 <= Len(buffer)
      BY <1>2, <1>5, <1>7 DEF Separators
    <2>4. PICK t : t = SubSeq(buffer, 1, h)
      OBVIOUS
    <2>5. t \in Seq(Nat) /\ Len(t) = h /\ \A i \in 1..h : t[i] = buffer[i]
      BY SMTT(30), <1>2, <1>4, <2>3, <2>4
    <2>6. \A i \in 1..h : t[i] = d[i]
      <3> SUFFICES ASSUME NEW i \in 1..h PROVE t[i] = d[i]
        OBVIOUS
      <3>1. i \in 1..Len(buffer)
        BY <1>2, <1>5, <2>3
      <3> QED BY <1>3, <1>5, <2>1, <2>5, <3>1
    <2>7. t = d
      BY <2>2, <2>5, <2>6, SeqEqual
    <2> QED BY <1>8, <2>1, <2>4, <2>7 DEF Header
  <1> QED BY <1>1, <1>8, <1>9

(* Decode takes the first packet out of a buffer if it is complete there,  *)
(* however much of what follows has arrived with it.                       *)
Decoded(buffer, more, body, rest) ==
    /\ Package(buffer) = body
    /\ Erased(buffer) \in Strings
    /\ Erased(buffer) \o more = rest

LEMMA DecodeFirst ==
  ASSUME NEW body \in Strings, NEW rest \in Strings,
         NEW buffer \in Strings, NEW more \in Strings,
         buffer \o more = Encode(body) \o rest, Complete(buffer)
  PROVE  Decoded(buffer, more, body, rest)
  <1>1. PICK h, l, s : /\ h = Len(to_string[Len(body)]) /\ l = Len(body)
                       /\ s = Encode(body) \o rest
    OBVIOUS
  <1>3. /\ h \in Nat /\ l \in Nat /\ s \in Strings
        /\ Len(s) = h + 2 + l + 2 + Len(rest)
        /\ \A i \in 1..h : s[i] = to_string[l][i]
        /\ s[h + 1] = CR /\ s[h + 2] = LF
        /\ \A i \in 1..l : s[h + 2 + i] = body[i]
        /\ \A i \in 1..Len(rest) : s[h + 2 + l + 2 + i] = rest[i]
    <2>1. IsPacket(s, body, rest, h, l)
      BY <1>1, Packet
    <2> QED BY <2>1 DEF IsPacket
  <1>2. h \in Nat /\ l \in Nat
    BY <1>3
  <1>4. /\ buffer \in Seq(Nat) /\ more \in Seq(Nat) /\ rest \in Seq(Nat) /\ s \in Seq(Nat)
        /\ body \in Seq(Nat)
    BY <1>3 DEF Strings
  <1>5. /\ Len(buffer) \in Nat /\ Len(more) \in Nat /\ Len(s) = Len(buffer) + Len(more)
        /\ \A i \in 1..Len(buffer) : buffer[i] = s[i]
        /\ \A i \in 1..Len(more) : more[i] = s[Len(buffer) + i]
    <2>1. IsJoin(s, buffer, more)
      BY <1>1, <1>4, Joined
    <2> QED BY <2>1 DEF IsJoin
  <1>6. HeaderSize(buffer) = h /\ Header(buffer) = to_string[l]
    BY <1>1, HeaderFirst DEF Complete
  <1>8. HeaderSize(buffer) = h
    BY <1>6
  <1>9. BodySize(buffer) = l
    BY <1>2, <1>6, NumeralOfLength DEF BodySize
  <1>10. Len(sep) = 2
    BY DEF sep
  <1>11. target_len(buffer) = h + 2 + l + 2
    BY <1>2, <1>8, <1>9, <1>10 DEF target_len
  <1>12. Len(buffer) >= h + 2 + l + 2
    BY <1>11 DEF Complete
  <1>13. Package(buffer) = body
    <2>1. PICK t : t = SubSeq(buffer, h + 2 + 1, h + 2 + l)
      OBVIOUS
    <2>2. t \in Seq(Nat) /\ Len(t) = l /\ \A i \in 1..l : t[i] = buffer[h + 2 + i]
      BY SMTT(30), <1>2, <1>4, <1>12, <2>1
    <2>3. \A i \in 1..l : t[i] = body[i]
      <3> SUFFICES ASSUME NEW i \in 1..l PROVE t[i] = body[i]
        OBVIOUS
      <3>1. h + 2 + i \in 1..Len(buffer)
        BY <1>2, <1>5, <1>12
      <3> QED BY <1>3, <1>5, <2>2, <3>1
    <2>4. t = body
      BY <1>1, <1>4, <2>2, <2>3, SeqEqual
    <2>5. Package(buffer) = t
      BY <1>8, <1>9, <1>10, <2>1 DEF Package
    <2> QED BY <2>4, <2>5
  <1>14. PICK w : w = SubSeq(buffer, h + 2 + l + 2 + 1, Len(buffer))
    OBVIOUS
  <1>15. w = Erased(buffer)
    BY <1>11, <1>14 DEF Erased
  <1>16. /\ w \in Seq(Nat) /\ Len(w) = Len(buffer) - (h + 2 + l + 2)
         /\ \A i \in 1..Len(w) : w[i] = buffer[h + 2 + l + 2 + i]
    <2>1. PICK k : k = h + 2 + l + 2
      OBVIOUS
    <2>2. k \in Nat /\ k <= Len(buffer) /\ w = SubSeq(buffer, k + 1, Len(buffer))
      BY <1>2, <1>12, <1>14, <2>1
    <2>3. \A i \in (k + 1)..Len(buffer) : buffer[i] \in Nat
      <3> SUFFICES ASSUME NEW i \in (k + 1)..Len(buffer) PROVE buffer[i] \in Nat
        OBVIOUS
      <3>1. i \in 1..Len(buffer)
        BY <1>5, <2>2
      <3> QED BY <1>4, <3>1, ElementOfSeq
    <2>4. k + 1 \in Int /\ Len(buffer) \in Int
      BY <1>5, <2>2
    <2>5. /\ w \in Seq(Nat)
          /\ Len(w) = IF k + 1 <= Len(buffer) THEN Len(buffer) - (k + 1) + 1 ELSE 0
          /\ \A i \in 1..(Len(buffer) - (k + 1) + 1) : w[i] = buffer[(k + 1) + i - 1]
      BY <2>2, <2>3, <2>4, SubSeqProperties
    <2>6. Len(w) = Len(buffer) - k
      BY <1>5, <2>2, <2>5
    <2>7. \A i \in 1..Len(w) : w[i] = buffer[k + i]
      <3> SUFFICES ASSUME NEW i \in 1..Len(w) PROVE w[i] = buffer[k + i]
        OBVIOUS
      <3>1. i \in 1..(Len(buffer) - (k + 1) + 1) /\ (k + 1) + i - 1 = k + i
        BY <1>5, <2>2, <2>6
      <3> QED BY <2>5, <3>1
    <2> QED BY <2>1, <2>5, <2>6, <2>7
  <1>17. w \o more = rest
    <2>1. PICK z : z = w \o more
      OBVIOUS
    <2>2. /\ z \in Seq(Nat) /\ Len(z) = Len(w) + Len(more)
          /\ \A i \in 1..(Len(w) + Len(more)) :
                 z[i] = IF i <= Len(w) THEN w[i] ELSE more[i - Len(w)]
      BY <1>4, <1>16, <2>1, ConcatProperties
    <2>3. Len(z) = Len(rest)
      <3>1. Len(rest) \in Nat /\ Len(z) = Len(buffer) - (h + 2 + l + 2) + Len(more)
        BY <1>4, <1>16, <2>2
      <3>2. Len(buffer) + Len(more) = h + 2 + l + 2 + Len(rest)
        BY <1>3, <1>5
      <3> QED BY <1>2, <1>5, <3>1, <3>2
    <2>4. \A i \in 1..Len(rest) : z[i] = rest[i]
      <3> SUFFICES ASSUME NEW i \in 1..Len(rest) PROVE z[i] = rest[i]
        OBVIOUS
      <3>1. s[h + 2 + l + 2 + i] = rest[i]
        BY <1>3
      <3>2. CASE i <= Len(w)
        <4>1. i \in 1..Len(w) /\ h + 2 + l + 2 + i \in 1..Len(buffer)
          BY <1>2, <1>5, <1>12, <1>16, <3>2
        <4> QED BY <1>5, <1>16, <2>2, <2>3, <3>1, <3>2, <4>1
      <3>3. CASE ~(i <= Len(w))
        <4>1. i - Len(w) \in 1..Len(more)
              /\ Len(buffer) + (i - Len(w)) = h + 2 + l + 2 + i
          BY SMTT(30), <1>2, <1>5, <1>12, <1>16, <2>2, <2>3, <3>3
        <4>2. more[i - Len(w)] = s[h + 2 + l + 2 + i]
          BY <1>5, <4>1
        <4> QED BY <2>2, <2>3, <3>1, <3>3, <4>2
      <3> QED BY <3>2, <3>3
    <2>5. z = rest
      BY <1>4, <2>2, <2>3, <2>4, SeqEqual
    <2> QED BY <2>1, <2>5
  <1> QED BY <1>13, <1>15, <1>16, <1>17 DEF Strings, Decoded

(* A packet with a bad header is never complete, and where its header is   *)
(* there stoi throws.  Nothing is decoded from an empty buffer.            *)
Tails == Broken \cup {<<>>}

LEMMA BrokenNeverComplete ==
  ASSUME NEW tail \in Tails
  PROVE  /\ tail \in Strings
         /\ \A buffer, more \in Strings : buffer \o more = tail =>
                /\ ~Complete(buffer)
                /\ tail = <<>> => Separators(buffer) = {}
  <1>1. CASE tail = <<>>
    <2>1. tail \in Strings
      BY <1>1 DEF Strings
    <2>2. ASSUME NEW buffer \in Strings, NEW more \in Strings, buffer \o more = tail
          PROVE  Separators(buffer) = {}
      <3>1. Len(buffer) = 0
        BY <1>1, <2>2, ConcatEqualIffEmpty DEF Strings
      <3> QED BY <3>1 DEF Separators
    <2> QED BY <2>1, <2>2 DEF Complete
  <1>2. CASE tail \in Broken
    <2>1. PICK h \in BadHeaders : tail = h \o sep
      BY <1>2 DEF Broken
    <2>2. h \in Seq(Nat) /\ ~IsNumeral(h) /\ \A i \in 1..Len(h) : h[i] # CR
      BY NetCalAssumption
    <2>3. sep \in Seq(Nat) /\ Len(sep) = 2 /\ sep[1] = CR /\ sep[2] = LF
      BY DEF sep, CR, LF
    <2>4. /\ tail \in Seq(Nat) /\ Len(h) \in Nat /\ Len(tail) = Len(h) + 2
          /\ \A i \in 1..Len(h) : tail[i] = h[i]
      <3>1. IsJoin(tail, h, sep)
        BY <2>1, <2>2, <2>3, Joined
      <3> QED BY <2>3, <3>1 DEF IsJoin
    <2>5. tail # <<>>
      BY <2>4
    <2>6. ASSUME NEW buffer \in Strings, NEW more \in Strings, buffer \o more = tail,
                 Complete(buffer)
          PROVE  FALSE
      <3>1. buffer \in Seq(Nat) /\ more \in Seq(Nat)
        BY DEF Strings
      <3>2. /\ Len(buffer) \in Nat /\ Len(more) \in Nat
            /\ Len(tail) = Len(buffer) + Len(more)
            /\ \A i \in 1..Len(buffer) : tail[i] = buffer[i]
        <4>1. IsJoin(tail, buffer, more)
          BY <2>6, <3>1, Joined
        <4> QED BY <4>1 DEF IsJoin
      <3>3. PICK k : k = Len(h)
        OBVIOUS
      <3>4. \A i \in Separators(buffer) : i = k + 1 /\ k <= Len(buffer)
        <4> SUFFICES ASSUME NEW i \in Separators(buffer) PROVE i = k + 1 /\ k <= Len(buffer)
          OBVIOUS
        <4>1. i \in Nat /\ i >= 1 /\ i + 1 <= Len(buffer) /\ buffer[i] = CR
          BY <3>2 DEF Separators
        <4>2. tail[i] = CR
          BY <3>2, <4>1
        <4>3. ~(i <= k)
          BY <2>2, <2>4, <3>3, <4>1, <4>2
        <4>4. i <= k + 1 /\ k + 1 <= Len(buffer)
          BY <2>4, <3>2, <3>3, <4>1, <4>3
        <4> QED BY <2>4, <3>3, <4>1, <4>3, <4>4
      <3>5. Separators(buffer) = {k + 1} /\ k <= Len(buffer)
        <4>1. Separators(buffer) # {}
          BY <2>6 DEF Complete
        <4> QED BY <3>4, <4>1
      <3>6. HeaderSize(buffer) = k
        <4>1. k \in Nat
          BY <2>4, <3>3
        <4>2. Min(Separators(buffer)) = k + 1
          BY <3>5, <4>1 DEF Min
        <4> QED BY <4>1, <4>2 DEF HeaderSize
      <3>7. Header(buffer) = h
        <4>1. PICK t : t = SubSeq(buffer, 1, k)
          OBVIOUS
        <4>2. k \in Nat /\ k <= Len(buffer)
          BY <2>4, <3>3, <3>5
        <4>3. t \in Seq(Nat) /\ Len(t) = k /\ \A i \in 1..k : t[i] = buffer[i]
          BY SMTT(30), <3>1, <4>1, <4>2
        <4>4. \A i \in 1..k : t[i] = h[i]
          <5> SUFFICES ASSUME NEW i \in 1..k PROVE t[i] = h[i]
            OBVIOUS
          <5>1. i \in 1..Len(buffer)
            BY <3>2, <4>2
          <5> QED BY <2>4, <3>2, <3>3, <4>3, <5>1
        <4>5. t = h
          BY <2>2, <3>3, <4>3, <4>4, SeqEqual
        <4> QED BY <3>6, <4>1, <4>5 DEF Header
      <3> QED BY <2>2, <2>6, <3>7 DEF Complete
    <2> QED BY <2>4, <2>5, <2>6 DEF Strings
  <1> QED BY <1>1, <1>2 DEF Tails

(***************************************************************************)
(* Serialization.                                                          *)
(***************************************************************************)
LEMMA IntsAre == Half \in Nat /\ Half >= 1 /\ \A n : n \in Ints <=> n \in Int /\ -Half <= n /\ n < Half
  BY NetCalAssumption DEF Ints, IntMin, IntMax

LEMMA NumberIsString ==
  ASSUME NEW n \in Int
  PROVE  /\ Number(n) \in Seq(Nat)
         /\ n < 0 => Number(n) = <<45, 256 - n>>
         /\ n >= 0 => Number(n) = <<n + 256>>
  <1>1. CASE n < 0
    BY <1>1 DEF Number, Digits, Minus
  <1>2. CASE n >= 0
    BY <1>2 DEF Number, Digits
  <1> QED BY <1>1, <1>2

LEMMA BodiesAreStrings ==
  /\ \A r \in Requests : RequestBody(r) \in Strings
  /\ \A a \in Responses : ResponseBody(a) \in Strings
  /\ Bodies \subseteq Strings
  <1>1. ASSUME NEW r \in Requests PROVE RequestBody(r) \in Strings
    <2>1. r.oper \in Nat /\ r.x \in Int /\ r.y \in Int
      BY NetCalAssumption, IntsAre
    <2>2. PICK a, b, c : a = Number(r.x) /\ b = Number(r.y) /\ c = <<r.oper>>
      OBVIOUS
    <2>3. a \in Seq(Nat) /\ b \in Seq(Nat) /\ c \in Seq(Nat) /\ <<LF>> \in Seq(Nat)
      <3>1. a \in Seq(Nat) /\ b \in Seq(Nat)
        BY <2>1, <2>2, NumberIsString
      <3>2. c \in Seq(Nat)
        BY <2>1, <2>2
      <3>3. <<LF>> \in Seq(Nat)
        BY DEF LF
      <3> QED BY <3>1, <3>2, <3>3
    <2>4. c \o a \in Seq(Nat)
      BY <2>3, ConcatProperties
    <2>5. (c \o a) \o b \in Seq(Nat)
      BY <2>3, <2>4, ConcatProperties
    <2>6. ((c \o a) \o b) \o <<LF>> \in Seq(Nat)
      BY <2>3, <2>5, ConcatProperties
    <2> QED BY <2>2, <2>6 DEF RequestBody, Strings
  <1>2. ASSUME NEW a \in Responses PROVE ResponseBody(a) \in Strings
    <2>1. a.result \in Int /\ a.code \in Int
      BY IntsAre DEF Responses
    <2>2. PICK b, c : b = Number(a.result) /\ c = Number(a.code)
      OBVIOUS
    <2>3. b \in Seq(Nat) /\ c \in Seq(Nat) /\ <<LF>> \in Seq(Nat)
      <3>1. b \in Seq(Nat) /\ c \in Seq(Nat)
        BY <2>1, <2>2, NumberIsString
      <3>2. <<LF>> \in Seq(Nat)
        BY DEF LF
      <3> QED BY <3>1, <3>2
    <2>4. b \o c \in Seq(Nat)
      BY <2>3, ConcatProperties
    <2>5. (b \o c) \o <<LF>> \in Seq(Nat)
      BY <2>3, <2>4, ConcatProperties
    <2> QED BY <2>2, <2>5 DEF ResponseBody, Strings
  <1>3. Garbage \subseteq Strings /\ Mistyped \subseteq Strings
    BY NetCalAssumption DEF Strings
  <1> QED BY <1>1, <1>2, <1>3 DEF Bodies, RequestBodies

(* What the client reads is the response that the server serialized.       *)
LEMMA ResponseParsed ==
  ASSUME NEW a \in Responses
  PROVE  ParseResponse(ResponseBody(a)) = a
  <1>1. ASSUME NEW b \in Responses, ResponseBody(a) = ResponseBody(b)
        PROVE  a = b
    <2>1. /\ a.result \in Int /\ b.result \in Int /\ a.code \in Nat /\ b.code \in Nat
          /\ a = [result |-> a.result, code |-> a.code]
          /\ b = [result |-> b.result, code |-> b.code]
      BY IntsAre DEF Responses
    <2>2. ASSUME NEW c \in Responses, c.result \in Int, c.code \in Nat
          PROVE  /\ c.result < 0 => /\ ResponseBody(c)[1] = 45
                                    /\ ResponseBody(c)[2] = 256 - c.result
                                    /\ ResponseBody(c)[3] = c.code + 256
                 /\ c.result >= 0 => /\ ResponseBody(c)[1] = c.result + 256
                                     /\ ResponseBody(c)[2] = c.code + 256
      <3>1. Number(c.code) = <<c.code + 256>>
        <4>1. c.code \in Int /\ c.code >= 0
          BY <2>2
        <4> QED BY <4>1, NumberIsString
      <3>2. CASE c.result < 0
        <4>1. Number(c.result) = <<45, 256 - c.result>>
          BY <2>2, <3>2, NumberIsString
        <4>2. ResponseBody(c) = <<45, 256 - c.result>> \o <<c.code + 256>> \o <<LF>>
          BY <3>1, <4>1 DEF ResponseBody
        <4> QED BY <2>2, <3>2, <4>2
      <3>3. CASE c.result >= 0
        <4>1. Number(c.result) = <<c.result + 256>>
          BY <2>2, <3>3, NumberIsString
        <4>2. ResponseBody(c) = <<c.result + 256>> \o <<c.code + 256>> \o <<LF>>
          BY <3>1, <4>1 DEF ResponseBody
        <4> QED BY <2>2, <3>3, <4>2
      <3> QED BY <2>2, <3>2, <3>3
    <2>3. a.result = b.result /\ a.code = b.code
      BY <1>1, <2>1, <2>2
    <2> QED BY <2>1, <2>3
  <1>2. ParseResponse(ResponseBody(a)) \in Responses
        /\ ResponseBody(a) = ResponseBody(ParseResponse(ResponseBody(a)))
    BY DEF ParseResponse
  <1> QED BY <1>1, <1>2

(***************************************************************************)
(* The arithmetic of Execute.                                              *)
(***************************************************************************)
LEMMA Euclid ==
  ASSUME NEW a \in Int, NEW b \in Nat, b > 0
  PROVE  /\ a \div b \in Int /\ a % b \in Int
         /\ 0 <= a % b /\ a % b < b /\ a = b * (a \div b) + (a % b)
  OBVIOUS

LEMMA Multiple ==
  ASSUME NEW k \in Int, NEW b \in Nat, b > 0
  PROVE  (b * k) % b = 0
  <1>1. PICK p, d, m : p = b * k /\ d = p \div b /\ m = p % b
    OBVIOUS
  <1>2. p \in Int /\ d \in Int /\ m \in Int /\ 0 <= m /\ m < b /\ p = b * d + m
    BY <1>1, Euclid
  <1>3. m = b * (k - d)
    BY <1>1, <1>2
  <1>4. PICK t : t = k - d
    OBVIOUS
  <1>5. t \in Int /\ m = b * t
    BY <1>2, <1>3, <1>4
  <1>6. ~(t >= 1)
    BY <1>2, <1>5
  <1>7. ~(t <= -1)
    BY <1>2, <1>5
  <1>8. t = 0
    BY <1>5, <1>6, <1>7
  <1> QED BY <1>1, <1>5, <1>8

LEMMA WrapKeepsLowBits ==
  ASSUME NEW n \in Int
  PROVE  Wrap(n) \in Ints /\ (Wrap(n) - n) % (2 * Half) = 0
  <1>1. PICK M, a : M = 2 * Half /\ a = n + Half
    OBVIOUS
  <1>2. M \in Nat /\ M > 0 /\ a \in Int /\ Half \in Nat
    BY <1>1, IntsAre
  <1>3. PICK d, m : d = a \div M /\ m = a % M
    OBVIOUS
  <1>4. d \in Int /\ m \in Int /\ 0 <= m /\ m < M /\ a = M * d + m
    BY <1>2, <1>3, Euclid
  <1>5. Wrap(n) = m - Half
    <2>1. n - (-Half) = a /\ m + (-Half) = m - Half
      BY <1>1, <1>2, <1>4
    <2> QED BY <1>1, <1>3, <2>1 DEF Wrap, IntMin
  <1>6. Wrap(n) \in Ints
    BY <1>1, <1>2, <1>4, <1>5, IntsAre
  <1>7. Wrap(n) - n = M * (-d)
    <2>1. PICK z : z = M * d
      OBVIOUS
    <2>2. M * (-d) = -z /\ z \in Int
      BY <1>2, <1>4, <2>1
    <2> QED BY <1>1, <1>2, <1>4, <1>5, <2>1, <2>2
  <1>8. (M * (-d)) % M = 0
    <2>1. -d \in Int
      BY <1>4
    <2> QED BY <1>2, <2>1, Multiple
  <1> QED BY <1>1, <1>6, <1>7, <1>8

(* The quotient is cut towards zero, so the remainder has the sign of x.   *)
LEMMA Division ==
  ASSUME NEW x \in Ints, NEW y \in Ints, y # 0, ~(x = IntMin /\ y = -1)
  PROVE  \E q, m \in Ints : /\ q = Quotient(x, y) /\ m = x - y * q
                            /\ x = q * y + m
                            /\ Magnitude(m) < Magnitude(y)
                            /\ m = 0 \/ (m < 0) = (x < 0)
  <1>1. /\ Half \in Nat /\ Half >= 1 /\ x \in Int /\ -Half <= x /\ x < Half
        /\ y \in Int /\ -Half <= y /\ y < Half
    BY IntsAre
  <1>2. PICK a, b : a = Magnitude(x) /\ b = Magnitude(y)
    OBVIOUS
  <1>3. /\ a \in Nat /\ b \in Nat /\ b > 0 /\ a <= Half
        /\ (x < 0 /\ a = -x) \/ (x >= 0 /\ a = x /\ a < Half)
        /\ (y < 0 /\ b = -y) \/ (y > 0 /\ b = y)
    BY <1>1, <1>2 DEF Magnitude
  <1>4. PICK k, j : k = a \div b /\ j = a % b
    OBVIOUS
  <1>5. k \in Int /\ j \in Int /\ 0 <= j /\ j < b /\ a = b * k + j
    BY <1>3, <1>4, Euclid
  <1>6. PICK p : p = b * k
    OBVIOUS
  <1>7. p \in Int /\ a = p + j
    BY <1>3, <1>5, <1>6
  <1>8. k >= 0
    <2> SUFFICES ASSUME k <= -1 PROVE FALSE
      BY <1>5
    <2>1. p <= -b
      BY <1>3, <1>5, <1>6
    <2> QED BY <1>3, <1>5, <1>7, <2>1
  <1>9. k <= p /\ (b >= 2 => 2 * k <= p)
    BY <1>3, <1>5, <1>6, <1>8
  <1>10. (x < 0) = (y < 0) => k < Half
    <2> SUFFICES ASSUME (x < 0) = (y < 0) PROVE k < Half
      OBVIOUS
    <2>3. CASE x >= 0
      BY <1>1, <1>3, <1>5, <1>7, <1>9, <2>3
    <2> SUFFICES ASSUME x < 0, y < 0 PROVE k < Half
      BY <1>1, <2>3
    <2>1. CASE b = 1
      <3>1. y = -1
        BY <1>1, <1>3, <2>1
      <3>2. x # -Half
        BY <3>1 DEF IntMin
      <3> QED BY <1>1, <1>3, <1>5, <1>7, <1>9, <3>2
    <2>2. CASE b >= 2
      BY <1>1, <1>3, <1>5, <1>7, <1>8, <1>9, <2>2
    <2> QED BY <1>3, <2>1, <2>2
  <1>11. PICK q, m : q = Quotient(x, y) /\ m = x - y * q
    OBVIOUS
  <1>12. q = IF (x < 0) = (y < 0) THEN k ELSE -k
    BY <1>2, <1>4, <1>11 DEF Quotient
  <1>13. (x < 0 => y * q = -p) /\ (x >= 0 => y * q = p)
    <2>1. CASE y < 0 /\ x < 0
      BY <1>1, <1>3, <1>5, <1>6, <1>12, <2>1
    <2>2. CASE y < 0 /\ x >= 0
      BY <1>1, <1>3, <1>5, <1>6, <1>12, <2>2
    <2>3. CASE y > 0 /\ x < 0
      BY <1>1, <1>3, <1>5, <1>6, <1>12, <2>3
    <2>4. CASE y > 0 /\ x >= 0
      BY <1>1, <1>3, <1>5, <1>6, <1>12, <2>4
    <2>5. (x < 0 \/ x >= 0) /\ (y < 0 \/ y > 0)
      BY <1>1
    <2> QED BY <2>1, <2>2, <2>3, <2>4, <2>5
  <1>14. m = IF x < 0 THEN -j ELSE j
    BY <1>1, <1>3, <1>5, <1>7, <1>11, <1>13
  <1>15. q \in Int /\ m \in Int /\ x = q * y + m
    <2>1. q \in Int /\ m \in Int
      BY <1>5, <1>12, <1>14
    <2> QED BY <1>1, <1>11, <2>1
  <1>16. q \in Ints
    BY <1>3, <1>5, <1>7, <1>8, <1>9, <1>10, <1>12, <1>15, IntsAre
  <1>17. m \in Ints
    BY <1>3, <1>5, <1>7, <1>8, <1>9, <1>14, <1>15, IntsAre
  <1>18. Magnitude(m) = j
    BY <1>5, <1>14 DEF Magnitude
  <1>19. m = 0 \/ (m < 0) = (x < 0)
    BY <1>1, <1>5, <1>14
  <1> QED BY <1>2, <1>5, <1>11, <1>15, <1>16, <1>17, <1>18, <1>19

(* Execute gives a response that is right, unless the calculation traps.   *)
LEMMA ExecuteIsCorrect ==
  ASSUME NEW body, IsRequest(body), ~Traps(ParseRequest(body))
  PROVE  /\ Execute(ParseRequest(body)) \in Responses
         /\ Correct(body, Execute(ParseRequest(body)))
  <1>1. PICK r : r = ParseRequest(body)
    OBVIOUS
  <1>2. PICK sent \in Requests : r = [sent EXCEPT !.oper = @ % Chars]
    <2>1. PICK c : c = CHOOSE p \in Requests : body = RequestBody(p)
      OBVIOUS
    <2>2. c \in Requests
      BY <2>1 DEF IsRequest, RequestBodies
    <2> QED BY <1>1, <2>1, <2>2 DEF ParseRequest
  <1>3. r.x \in Ints /\ r.y \in Ints /\ r.x \in Int /\ r.y \in Int
    <2>1. sent \in [x : Ints, y : Ints, oper : Nat]
      BY NetCalAssumption
    <2> QED BY <1>2, <2>1, IntsAre
  <1>4. 0 \in Ints /\ 0 \in 0..3 /\ 1 \in 0..3 /\ 2 \in 0..3 /\ 3 \in 0..3
    BY IntsAre
  <1>5. CASE r.oper = Plus
    <2>1. r.x + r.y \in Int
      BY <1>3
    <2>2. Execute(r) = [result |-> Wrap(r.x + r.y), code |-> 0]
      BY <1>5 DEF Execute, Success, Plus, Minus, Times, Slash, Percent
    <2>3. Execute(r) \in Responses
      BY <1>4, <2>1, <2>2, WrapKeepsLowBits DEF Responses
    <2> QED BY <1>1, <1>5, <2>1, <2>2, <2>3, WrapKeepsLowBits DEF Correct
  <1>6. CASE r.oper = Minus
    <2>1. r.x - r.y \in Int
      BY <1>3
    <2>2. Execute(r) = [result |-> Wrap(r.x - r.y), code |-> 0]
      BY <1>6 DEF Execute, Success, Plus, Minus, Times, Slash, Percent
    <2>3. Execute(r) \in Responses
      BY <1>4, <2>1, <2>2, WrapKeepsLowBits DEF Responses
    <2> QED BY <1>1, <1>6, <2>1, <2>2, <2>3, WrapKeepsLowBits DEF Correct
  <1>7. CASE r.oper = Times
    <2>1. r.x * r.y \in Int
      BY <1>3
    <2>2. Execute(r) = [result |-> Wrap(r.x * r.y), code |-> 0]
      BY <1>7 DEF Execute, Success, Plus, Minus, Times, Slash, Percent
    <2>3. Execute(r) \in Responses
      BY <1>4, <2>1, <2>2, WrapKeepsLowBits DEF Responses
    <2> QED BY <1>1, <1>7, <2>1, <2>2, <2>3, WrapKeepsLowBits DEF Correct
  <1>8. CASE r.oper = Slash
    <2>1. CASE r.y = 0
      <3>1. Execute(r) = [result |-> 0, code |-> 1]
        BY <1>8, <2>1 DEF Execute, Failure, Plus, Minus, Times, Slash, Percent
      <3> QED BY <1>1, <1>4, <1>8, <2>1, <3>1 DEF Correct, Responses
    <2>2. CASE r.y # 0
      <3>1. PICK q, m \in Ints : /\ q = Quotient(r.x, r.y) /\ r.x = q * r.y + m
                                 /\ Magnitude(m) < Magnitude(r.y)
                                 /\ m = 0 \/ (m < 0) = (r.x < 0)
        BY <1>1, <1>3, <1>8, <2>2, Division DEF Traps
      <3>2. Execute(r) = [result |-> q, code |-> 0]
        BY <1>8, <2>2, <3>1 DEF Execute, Success, Plus, Minus, Times, Slash, Percent
      <3>3. q \in Ints /\ m \in Ints
        BY <3>1
      <3>4. Execute(r) \in Responses
        BY <1>4, <3>2, <3>3 DEF Responses
      <3> QED BY <1>1, <1>8, <3>1, <3>2, <3>4 DEF Correct
    <2> QED BY <2>1, <2>2
  <1>9. CASE r.oper = Percent
    <2>1. CASE r.y = 0
      <3>1. Execute(r) = [result |-> 0, code |-> 2]
        BY <1>9, <2>1 DEF Execute, Failure, Plus, Minus, Times, Slash, Percent
      <3> QED BY <1>1, <1>4, <1>9, <2>1, <3>1 DEF Correct, Responses
    <2>2. CASE r.y # 0
      <3>1. PICK q, m \in Ints : /\ q = Quotient(r.x, r.y) /\ m = r.x - r.y * q
                                 /\ r.x = q * r.y + m
                                 /\ Magnitude(m) < Magnitude(r.y)
                                 /\ m = 0 \/ (m < 0) = (r.x < 0)
        BY <1>1, <1>3, <1>9, <2>2, Division DEF Traps
      <3>2. Execute(r) = [result |-> m, code |-> 0]
        BY <1>9, <2>2, <3>1 DEF Execute, Success, Plus, Minus, Times, Slash, Percent
      <3>3. q \in Ints /\ m \in Ints
        BY <3>1
      <3>4. Execute(r) \in Responses
        BY <1>4, <3>2, <3>3 DEF Responses
      <3>5. PICK a : a = Execute(r)
        OBVIOUS
      <3>6. a.result = m /\ a.code = 0
        BY <3>2, <3>5
      <3>7. Correct(body, a)
        BY <1>1, <1>9, <3>1, <3>3, <3>6 DEF Correct
      <3> QED BY <1>1, <3>4, <3>5, <3>7
    <2> QED BY <2>1, <2>2
  <1>10. CASE r.oper \notin {Plus, Minus, Times, Slash, Percent}
    <2>1. Execute(r) = [result |-> 0, code |-> 3]
      BY <1>10 DEF Execute, Failure
    <2> QED BY <1>1, <1>4, <1>10, <2>1 DEF Correct, Responses
  <1> QED BY <1>5, <1>6, <1>7, <1>8, <1>9, <1>10

(***************************************************************************)
(* Sequences of packets.                                                   *)
(***************************************************************************)
Encoded(bodies) == [i \in 1..Len(bodies) |-> Encode(bodies[i])]

LEMMA EncodedIs ==
  ASSUME NEW bodies \in Seq(Strings)
  PROVE  /\ Encoded(bodies) \in Seq(Strings) /\ Len(Encoded(bodies)) = Len(bodies)
         /\ \A i \in 1..Len(bodies) : Encoded(bodies)[i] = Encode(bodies[i])
  <1>1. Len(bodies) \in Nat /\ \A i \in 1..Len(bodies) : bodies[i] \in Strings
    OBVIOUS
  <1>2. \A i \in 1..Len(bodies) : Encode(bodies[i]) \in Strings
    BY <1>1, EncodeIsString
  <1>3. Encoded(bodies) \in [1..Len(bodies) -> Strings]
    BY <1>2 DEF Encoded
  <1>4. Encoded(bodies) \in Seq(Strings) /\ Len(Encoded(bodies)) = Len(bodies)
    BY <1>1, <1>3
  <1> QED BY <1>4 DEF Encoded

LEMMA PacketsIs ==
  ASSUME NEW bodies \in Seq(Strings)
  PROVE  Packets(bodies) \in Strings /\ Packets(bodies) = FlattenSeq(Encoded(bodies))
  <1>1. Packets(bodies) = FlattenSeq(Encoded(bodies))
    BY DEF Packets, Encoded
  <1>2. FlattenSeq(Encoded(bodies)) \in Strings
    BY EncodedIs, FlattenIsString
  <1> QED BY <1>1, <1>2

LEMMA PacketsEmpty == Packets(<<>>) = <<>>
  <1>1. PICK none : none = <<>>
    OBVIOUS
  <1>2. none \in Seq(Strings) /\ Len(none) = 0
    BY <1>1
  <1>3. Encoded(none) \in Seq(Strings) /\ Len(Encoded(none)) = 0
    BY <1>2, EncodedIs
  <1>4. Encoded(none) = <<>>
    BY <1>3, EmptySeq
  <1> QED BY <1>1, <1>2, <1>4, PacketsIs, FlattenEmpty

LEMMA PacketsAppend ==
  ASSUME NEW bodies \in Seq(Strings), NEW body \in Strings
  PROVE  Packets(Append(bodies, body)) = Packets(bodies) \o Encode(body)
  <1>1. PICK s : s = Append(bodies, body)
    OBVIOUS
  <1>2. /\ s \in Seq(Strings) /\ Len(bodies) \in Nat /\ Len(s) = Len(bodies) + 1
        /\ s[Len(bodies) + 1] = body
        /\ \A i \in 1..Len(bodies) : s[i] = bodies[i]
    BY <1>1, AppendProperties
  <1>3. PICK b, c, e : b = Encoded(bodies) /\ c = Encoded(s) /\ e = Encode(body)
    OBVIOUS
  <1>4. /\ b \in Seq(Strings) /\ Len(b) = Len(bodies)
        /\ \A i \in 1..Len(bodies) : b[i] = Encode(bodies[i])
    BY <1>3, EncodedIs
  <1>5. /\ c \in Seq(Strings) /\ Len(c) = Len(s)
        /\ \A i \in 1..Len(s) : c[i] = Encode(s[i])
    BY <1>2, <1>3, EncodedIs
  <1>6. e \in Strings
    BY <1>3, EncodeIsString
  <1>7. PICK d : d = Append(b, e)
    OBVIOUS
  <1>8. /\ d \in Seq(Strings) /\ Len(d) = Len(b) + 1 /\ d[Len(b) + 1] = e
        /\ \A i \in 1..Len(b) : d[i] = b[i]
    BY <1>4, <1>6, <1>7, AppendProperties
  <1>9. c = d
    <2>1. Len(c) = Len(d)
      BY <1>2, <1>4, <1>5, <1>8
    <2>2. ASSUME NEW i \in 1..Len(c) PROVE c[i] = d[i]
      <3>1. CASE i = Len(bodies) + 1
        BY <1>2, <1>3, <1>4, <1>5, <1>8, <2>2, <3>1
      <3>2. CASE i \in 1..Len(bodies)
        <4>1. i \in 1..Len(s) /\ i \in 1..Len(b)
          BY <1>2, <1>4, <3>2
        <4> QED BY <1>2, <1>4, <1>5, <1>8, <3>2, <4>1
      <3> QED BY <1>2, <1>5, <2>2, <3>1, <3>2
    <2> QED BY <1>5, <1>8, <2>1, <2>2, SeqEqual
  <1>10. FlattenSeq(d) = FlattenSeq(b) \o e
    BY <1>4, <1>6, <1>7, FlattenAppend
  <1> QED BY <1>1, <1>2, <1>3, <1>9, <1>10, PacketsIs

LEMMA FromIs ==
  ASSUME NEW S, NEW s \in Seq(S), NEW k \in 0..Len(s)
  PROVE  /\ From(s, k) \in Seq(S) /\ Len(From(s, k)) = Len(s) - k
         /\ \A i \in 1..(Len(s) - k) : From(s, k)[i] = s[k + i]
  <1>1. Len(s) \in Nat /\ k \in Nat /\ k <= Len(s)
    OBVIOUS
  <1>2. k + 1 \in Int /\ Len(s) \in Int /\ \A i \in (k + 1)..Len(s) : s[i] \in S
    <2>1. \A i \in (k + 1)..Len(s) : i \in 1..Len(s)
      BY <1>1
    <2> QED BY <1>1, <2>1, ElementOfSeq
  <1>3. PICK t : t = SubSeq(s, k + 1, Len(s))
    OBVIOUS
  <1>4. /\ t \in Seq(S)
        /\ Len(t) = IF k + 1 <= Len(s) THEN Len(s) - (k + 1) + 1 ELSE 0
        /\ \A i \in 1..(Len(s) - (k + 1) + 1) : t[i] = s[(k + 1) + i - 1]
    BY <1>2, <1>3, SubSeqProperties
  <1>5. Len(t) = Len(s) - k
    BY <1>1, <1>4
  <1>6. \A i \in 1..(Len(s) - k) : t[i] = s[k + i]
    <2> SUFFICES ASSUME NEW i \in 1..(Len(s) - k) PROVE t[i] = s[k + i]
      OBVIOUS
    <2>1. i \in 1..(Len(s) - (k + 1) + 1) /\ (k + 1) + i - 1 = k + i
      BY <1>1
    <2> QED BY <1>4, <2>1
  <1> QED BY <1>3, <1>4, <1>5, <1>6 DEF From

(* One body more is one packet more behind the others.                     *)
LEMMA OneMore ==
  ASSUME NEW bodies \in Seq(Strings), NEW k \in 0..Len(bodies), NEW body \in Strings
  PROVE  Packets(From(Append(bodies, body), k)) = Packets(From(bodies, k)) \o Encode(body)
  <1>1. PICK s : s = Append(bodies, body)
    OBVIOUS
  <1>2. /\ s \in Seq(Strings) /\ Len(bodies) \in Nat /\ Len(s) = Len(bodies) + 1
        /\ s[Len(bodies) + 1] = body
        /\ \A i \in 1..Len(bodies) : s[i] = bodies[i]
    BY <1>1, AppendProperties
  <1>3. PICK f, g : f = From(bodies, k) /\ g = From(s, k)
    OBVIOUS
  <1>4. /\ f \in Seq(Strings) /\ Len(f) = Len(bodies) - k
        /\ \A i \in 1..(Len(bodies) - k) : f[i] = bodies[k + i]
    BY <1>3, FromIs
  <1>5. /\ g \in Seq(Strings) /\ Len(g) = Len(s) - k
        /\ \A i \in 1..(Len(s) - k) : g[i] = s[k + i]
    <2>1. k \in 0..Len(s)
      BY <1>2
    <2> QED BY <1>2, <1>3, <2>1, FromIs
  <1>6. PICK d : d = Append(f, body)
    OBVIOUS
  <1>7. /\ d \in Seq(Strings) /\ Len(d) = Len(f) + 1 /\ d[Len(f) + 1] = body
        /\ \A i \in 1..Len(f) : d[i] = f[i]
    BY <1>4, <1>6, AppendProperties
  <1>8. g = d
    <2>1. Len(g) = Len(d) /\ Len(g) \in Nat
      BY <1>2, <1>4, <1>5, <1>7
    <2>2. ASSUME NEW i \in 1..Len(g) PROVE g[i] = d[i]
      <3>1. CASE i = Len(f) + 1
        <4>1. k + i = Len(bodies) + 1 /\ i \in 1..(Len(s) - k)
          BY <1>2, <1>4, <1>5, <2>2, <3>1
        <4> QED BY <1>2, <1>5, <1>7, <3>1, <4>1
      <3>2. CASE i # Len(f) + 1
        <4>1. i \in 1..Len(f) /\ k + i \in 1..Len(bodies) /\ i \in 1..(Len(s) - k)
              /\ i \in 1..(Len(bodies) - k)
          BY <1>2, <1>4, <1>5, <1>7, <2>1, <2>2, <3>2
        <4> QED BY <1>2, <1>4, <1>5, <1>7, <4>1
      <3> QED BY <3>1, <3>2
    <2> QED BY <1>5, <1>7, <2>1, <2>2, SeqEqual
  <1>9. Packets(d) = Packets(f) \o Encode(body)
    BY <1>4, <1>6, PacketsAppend
  <1> QED BY <1>1, <1>3, <1>8, <1>9

(* The first of the bodies that are left is the first packet.              *)
LEMMA FirstLeft ==
  ASSUME NEW bodies \in Seq(Strings), NEW k \in Nat, k < Len(bodies)
  PROVE  Packets(From(bodies, k)) = Encode(bodies[k + 1]) \o Packets(From(bodies, k + 1))
  <1>1. Len(bodies) \in Nat /\ k \in 0..Len(bodies) /\ k + 1 \in 0..Len(bodies)
        /\ bodies[k + 1] \in Strings
    <2>1. Len(bodies) \in Nat
      OBVIOUS
    <2>2. k + 1 \in 1..Len(bodies)
      BY <2>1
    <2> QED BY <2>1, <2>2, ElementOfSeq
  <1>2. PICK f, g : f = From(bodies, k) /\ g = From(bodies, k + 1)
    OBVIOUS
  <1>3. /\ f \in Seq(Strings) /\ Len(f) = Len(bodies) - k
        /\ \A i \in 1..(Len(bodies) - k) : f[i] = bodies[k + i]
    BY <1>1, <1>2, FromIs
  <1>4. /\ g \in Seq(Strings) /\ Len(g) = Len(bodies) - (k + 1)
        /\ \A i \in 1..(Len(bodies) - (k + 1)) : g[i] = bodies[(k + 1) + i]
    BY <1>1, <1>2, FromIs
  <1>5. PICK b, c, e : b = Encoded(f) /\ c = Encoded(g) /\ e = Encode(bodies[k + 1])
    OBVIOUS
  <1>6. /\ b \in Seq(Strings) /\ Len(b) = Len(f)
        /\ \A i \in 1..Len(f) : b[i] = Encode(f[i])
    BY <1>3, <1>5, EncodedIs
  <1>7. /\ c \in Seq(Strings) /\ Len(c) = Len(g)
        /\ \A i \in 1..Len(g) : c[i] = Encode(g[i])
    BY <1>4, <1>5, EncodedIs
  <1>8. e \in Strings
    BY <1>1, <1>5, EncodeIsString
  <1>9. PICK o, d : o = <<e>> /\ d = o \o c
    OBVIOUS
  <1>10. o \in Seq(Strings) /\ Len(o) = 1 /\ o[1] = e
    BY <1>8, <1>9
  <1>11. /\ d \in Seq(Strings) /\ Len(d) = 1 + Len(c)
         /\ \A i \in 1..(1 + Len(c)) : d[i] = IF i <= 1 THEN o[i] ELSE c[i - 1]
    BY <1>7, <1>9, <1>10, ConcatProperties
  <1>12. b = d
    <2>1. Len(b) = Len(d) /\ Len(b) \in Nat /\ Len(c) \in Nat
      BY <1>1, <1>3, <1>4, <1>6, <1>7, <1>11
    <2>2. ASSUME NEW i \in 1..Len(b) PROVE b[i] = d[i]
      <3>1. i \in 1..(1 + Len(c)) /\ i \in 1..Len(f) /\ i \in 1..(Len(bodies) - k)
        BY <1>3, <1>6, <1>11, <2>1, <2>2
      <3>2. b[i] = Encode(bodies[k + i])
        BY <1>3, <1>6, <3>1
      <3>3. CASE i = 1
        BY <1>5, <1>10, <1>11, <3>1, <3>2, <3>3
      <3>4. CASE i # 1
        <4>1. PICK j : j = i - 1
          OBVIOUS
        <4>2. j \in 1..Len(g) /\ j \in 1..(Len(bodies) - (k + 1)) /\ (k + 1) + j = k + i
              /\ ~(i <= 1)
          <5>1. PICK a, b1 : a = Len(bodies) /\ b1 = Len(g)
            OBVIOUS
          <5>2. a \in Nat /\ b1 = a - (k + 1) /\ i \in 1..(a - k)
            BY <1>1, <1>4, <3>1, <5>1
          <5>3. j \in 1..b1 /\ j \in 1..(a - (k + 1)) /\ (k + 1) + j = k + i /\ ~(i <= 1)
            BY <3>4, <4>1, <5>2
          <5> QED BY <5>1, <5>3
        <4>3. d[i] = c[j]
          BY <1>11, <3>1, <4>1, <4>2
        <4>4. c[j] = Encode(bodies[k + i])
          BY <1>4, <1>7, <4>2
        <4> QED BY <3>2, <4>3, <4>4
      <3> QED BY <3>3, <3>4
    <2> QED BY <1>6, <1>11, <2>1, <2>2, SeqEqual
  <1>13. FlattenSeq(d) = e \o FlattenSeq(c)
    BY <1>7, <1>8, <1>9, FlattenFirst
  <1> QED BY <1>2, <1>3, <1>4, <1>5, <1>12, <1>13, PacketsIs

(* Decode on a buffer that, with what is on its way to it, is the packets  *)
(* that are left and a packet with a bad header, if there is one.          *)
Left(bodies, k, tail) == Packets(From(bodies, k)) \o tail

LEMMA NothingLeft ==
  ASSUME NEW bodies \in Seq(Strings), NEW tail \in Strings
  PROVE  Left(bodies, Len(bodies), tail) = tail
  <1>1. PICK f : f = From(bodies, Len(bodies))
    OBVIOUS
  <1>2. Len(bodies) \in Nat
    OBVIOUS
  <1>3. f \in Seq(Strings) /\ Len(f) = 0
    BY <1>1, <1>2, FromIs
  <1>4. f = <<>>
    BY <1>3, EmptySeq
  <1>5. Packets(f) = <<>>
    BY <1>4, PacketsEmpty
  <1>6. <<>> \o tail = tail
    BY ConcatEmptySeq DEF Strings
  <1> QED BY <1>1, <1>5, <1>6 DEF Left

LEMMA SomethingLeft ==
  ASSUME NEW bodies \in Seq(Strings), NEW k \in Nat, k < Len(bodies), NEW tail \in Strings
  PROVE  /\ bodies[k + 1] \in Strings /\ Left(bodies, k + 1, tail) \in Strings
         /\ Left(bodies, k, tail) = Encode(bodies[k + 1]) \o Left(bodies, k + 1, tail)
  <1>1. PICK body, p, g : /\ body = bodies[k + 1] /\ g = From(bodies, k + 1)
                          /\ p = Packets(g)
    OBVIOUS
  <1>2. body \in Strings /\ p \in Strings
    <2>1. Len(bodies) \in Nat
      OBVIOUS
    <2>2. k + 1 \in 1..Len(bodies) /\ k + 1 \in 0..Len(bodies)
      BY <2>1
    <2>3. g \in Seq(Strings)
      BY <1>1, <2>2, FromIs
    <2> QED BY <1>1, <2>2, <2>3, ElementOfSeq, PacketsIs
  <1>3. PICK e : e = Encode(body)
    OBVIOUS
  <1>4. e \in Strings
    BY <1>2, <1>3, EncodeIsString
  <1>5. Packets(From(bodies, k)) = e \o p
    BY <1>1, <1>3, FirstLeft
  <1>6. (e \o p) \o tail = e \o (p \o tail)
    BY <1>2, <1>4, Associative
  <1>7. p \o tail \in Strings
    BY <1>2, ConcatProperties DEF Strings
  <1> QED BY <1>1, <1>2, <1>3, <1>5, <1>6, <1>7 DEF Left

FirstTaken(bodies, k, tail, buffer, more) ==
    /\ k < Len(bodies)
    /\ Package(buffer) = bodies[k + 1]
    /\ Erased(buffer) \in Strings
    /\ Erased(buffer) \o more = Left(bodies, k + 1, tail)

LEMMA DecodeBefore ==
  ASSUME NEW bodies \in Seq(Strings), NEW k \in 0..Len(bodies),
         NEW tail \in Tails,
         NEW buffer \in Strings, NEW more \in Strings,
         buffer \o more = Left(bodies, k, tail), Complete(buffer)
  PROVE  FirstTaken(bodies, k, tail, buffer, more)
  <1>1. Len(bodies) \in Nat /\ k \in Nat /\ k <= Len(bodies)
    OBVIOUS
  <1>2. tail \in Strings
    BY BrokenNeverComplete
  <1>3. k < Len(bodies)
    <2> SUFFICES ASSUME k = Len(bodies) PROVE FALSE
      BY <1>1
    <2>1. buffer \o more = tail
      BY <1>2, NothingLeft
    <2> QED BY <2>1, BrokenNeverComplete
  <1>4. PICK body, rest : body = bodies[k + 1] /\ rest = Left(bodies, k + 1, tail)
    OBVIOUS
  <1>5. body \in Strings /\ rest \in Strings /\ buffer \o more = Encode(body) \o rest
    BY <1>1, <1>2, <1>3, <1>4, SomethingLeft
  <1>6. Decoded(buffer, more, body, rest)
    BY <1>5, DecodeFirst
  <1> QED BY <1>3, <1>4, <1>6 DEF Decoded, FirstTaken

(* stoi throws only at the packet with the bad header.                     *)
LEMMA ThrowsAtBroken ==
  ASSUME NEW bodies \in Seq(Strings), NEW k \in 0..Len(bodies),
         NEW tail \in Tails,
         NEW buffer \in Strings, NEW more \in Strings,
         buffer \o more = Left(bodies, k, tail), StoiThrows(buffer)
  PROVE  k = Len(bodies) /\ tail # <<>>
  <1>1. Len(bodies) \in Nat /\ k \in Nat /\ k <= Len(bodies)
    OBVIOUS
  <1>2. tail \in Strings
    BY BrokenNeverComplete
  <1>3. Separators(buffer) # {} /\ ~IsNumeral(Header(buffer))
    BY DEF StoiThrows
  <1>4. ASSUME k < Len(bodies) PROVE FALSE
    <2>1. PICK body, rest : body = bodies[k + 1] /\ rest = Left(bodies, k + 1, tail)
      OBVIOUS
    <2>2. body \in Strings /\ rest \in Strings /\ buffer \o more = Encode(body) \o rest
      BY <1>1, <1>2, <1>4, <2>1, SomethingLeft
    <2>3. Header(buffer) = to_string[Len(body)]
      BY <1>3, <2>2, HeaderFirst
    <2>4. Len(body) \in Nat
      BY <2>2 DEF Strings
    <2> QED BY <1>3, <2>3, <2>4, LengthIsNumeral
  <1>5. k = Len(bodies)
    BY <1>1, <1>4
  <1>6. buffer \o more = tail
    BY <1>2, <1>5, NothingLeft
  <1> QED BY <1>3, <1>5, <1>6, BrokenNeverComplete

(* The server's answers are followed by nothing.                           *)
LEMMA DecodeNext ==
  ASSUME NEW bodies \in Seq(Strings), NEW k \in 0..Len(bodies),
         NEW buffer \in Strings, NEW more \in Strings,
         buffer \o more = Packets(From(bodies, k)), Complete(buffer)
  PROVE  /\ k < Len(bodies)
         /\ Package(buffer) = bodies[k + 1]
         /\ Erased(buffer) \in Strings
         /\ Erased(buffer) \o more = Packets(From(bodies, k + 1))
  <1>1. Len(bodies) \in Nat /\ k \in Nat /\ k <= Len(bodies)
    OBVIOUS
  <1>2. \A j \in 0..Len(bodies) : Left(bodies, j, <<>>) = Packets(From(bodies, j))
    <2> SUFFICES ASSUME NEW j \in 0..Len(bodies)
                 PROVE  Left(bodies, j, <<>>) = Packets(From(bodies, j))
      OBVIOUS
    <2>1. Packets(From(bodies, j)) \in Strings
      BY FromIs, PacketsIs
    <2> QED BY <2>1, ConcatEmptySeq DEF Left, Strings
  <1>3. PICK none : none = <<>>
    OBVIOUS
  <1>4. /\ k < Len(bodies)
        /\ Package(buffer) = bodies[k + 1]
        /\ Erased(buffer) \in Strings
        /\ Erased(buffer) \o more = Left(bodies, k + 1, none)
    <2>1. none \in Tails /\ buffer \o more = Left(bodies, k, none)
      BY <1>2, <1>3 DEF Tails
    <2>2. FirstTaken(bodies, k, none, buffer, more)
      BY <2>1, DecodeBefore
    <2> QED BY <2>2 DEF FirstTaken
  <1>5. k + 1 \in 0..Len(bodies)
    BY <1>1, <1>4
  <1> QED BY <1>2, <1>3, <1>4, <1>5

(* A Recv moves bytes from the stream to the buffer.                       *)
LEMMA Received ==
  ASSUME NEW buffer \in Strings, NEW stream \in Strings, NEW n \in 1..Len(stream)
  PROVE  /\ buffer \o Piece(stream, n) \in Strings
         /\ Rest(stream, n) \in Strings
         /\ (buffer \o Piece(stream, n)) \o Rest(stream, n) = buffer \o stream
  <1>1. PICK p, r : p = Piece(stream, n) /\ r = Rest(stream, n)
    OBVIOUS
  <1>2. buffer \in Seq(Nat) /\ stream \in Seq(Nat) /\ Len(stream) \in Nat
    BY DEF Strings
  <1>3. p \in Seq(Nat) /\ r \in Seq(Nat)
    <2>1. n \in 0..Len(stream)
      BY <1>2
    <2>2. r \in Seq(Nat)
      BY <1>1, <1>2, <2>1, FromIs DEF Rest, From
    <2>3. p \in Seq(Nat)
      BY <1>1, <1>2 DEF Piece
    <2> QED BY <2>2, <2>3
  <1>4. p \o r = stream
    <2>1. 1 \in 1..(Len(stream) + 1) /\ n \in (1 - 1)..Len(stream)
          /\ Len(stream) \in n..Len(stream)
      BY <1>2
    <2>2. SubSeq(stream, 1, n) \o SubSeq(stream, n + 1, Len(stream))
            = SubSeq(stream, 1, Len(stream))
      BY <1>2, <2>1, ConcatAdjacentSubSeq
    <2> QED BY <1>1, <1>2, <2>2, SubSeqFull DEF Piece, Rest
  <1>5. (buffer \o p) \o r = buffer \o (p \o r)
    BY <1>3, Associative DEF Strings
  <1>6. buffer \o p \in Seq(Nat)
    BY <1>2, <1>3, ConcatProperties
  <1> QED BY <1>1, <1>3, <1>4, <1>5, <1>6 DEF Strings

(***************************************************************************)
(* The bodies that are sent, and their number.                             *)
(***************************************************************************)
LEMMA ResponseBodiesAre ==
  ASSUME NEW answers \in Seq(Responses)
  PROVE  /\ ResponseBodies(answers) \in Seq(Strings)
         /\ Len(ResponseBodies(answers)) = Len(answers)
         /\ \A i \in 1..Len(answers) : ResponseBodies(answers)[i] = ResponseBody(answers[i])
  <1>1. Len(answers) \in Nat /\ \A i \in 1..Len(answers) : answers[i] \in Responses
    OBVIOUS
  <1>2. \A i \in 1..Len(answers) : ResponseBody(answers[i]) \in Strings
    BY <1>1, BodiesAreStrings
  <1>3. ResponseBodies(answers) \in [1..Len(answers) -> Strings]
    BY <1>2 DEF ResponseBodies
  <1>4. ResponseBodies(answers) \in Seq(Strings)
        /\ Len(ResponseBodies(answers)) = Len(answers)
    BY <1>1, <1>3
  <1> QED BY <1>4 DEF ResponseBodies

LEMMA ResponseBodiesAppend ==
  ASSUME NEW answers \in Seq(Responses), NEW a \in Responses
  PROVE  ResponseBodies(Append(answers, a))
           = Append(ResponseBodies(answers), ResponseBody(a))
  <1>1. PICK s, b, c, e : /\ s = Append(answers, a) /\ b = ResponseBodies(answers)
                          /\ c = ResponseBodies(s) /\ e = ResponseBody(a)
    OBVIOUS
  <1>2. /\ s \in Seq(Responses) /\ Len(answers) \in Nat /\ Len(s) = Len(answers) + 1
        /\ s[Len(answers) + 1] = a
        /\ \A i \in 1..Len(answers) : s[i] = answers[i]
    BY <1>1, AppendProperties
  <1>3. /\ b \in Seq(Strings) /\ Len(b) = Len(answers)
        /\ \A i \in 1..Len(answers) : b[i] = ResponseBody(answers[i])
    BY <1>1, ResponseBodiesAre
  <1>4. /\ c \in Seq(Strings) /\ Len(c) = Len(s)
        /\ \A i \in 1..Len(s) : c[i] = ResponseBody(s[i])
    BY <1>1, <1>2, ResponseBodiesAre
  <1>5. e \in Strings
    BY <1>1, BodiesAreStrings
  <1>6. PICK d : d = Append(b, e)
    OBVIOUS
  <1>7. /\ d \in Seq(Strings) /\ Len(d) = Len(b) + 1 /\ d[Len(b) + 1] = e
        /\ \A i \in 1..Len(b) : d[i] = b[i]
    BY <1>3, <1>5, <1>6, AppendProperties
  <1>8. c = d
    <2>1. Len(c) = Len(d)
      BY <1>2, <1>3, <1>4, <1>7
    <2>2. ASSUME NEW i \in 1..Len(c) PROVE c[i] = d[i]
      <3>1. CASE i = Len(answers) + 1
        BY <1>1, <1>2, <1>3, <1>4, <1>7, <2>2, <3>1
      <3>2. CASE i \in 1..Len(answers)
        <4>1. i \in 1..Len(s) /\ i \in 1..Len(b)
          BY <1>2, <1>3, <3>2
        <4> QED BY <1>2, <1>3, <1>4, <1>7, <3>2, <4>1
      <3> QED BY <1>2, <1>4, <2>2, <3>1, <3>2
    <2> QED BY <1>4, <1>7, <2>1, <2>2, SeqEqual
  <1> QED BY <1>1, <1>6, <1>8

(* The requests among the first k bodies.                                  *)
RequestsAmong(bodies, k) == {i \in 1..k : IsRequest(bodies[i])}

LEMMA RequestsAmongAppend ==
  ASSUME NEW bodies \in Seq(Bodies), NEW k \in 0..Len(bodies), NEW body \in Bodies
  PROVE  RequestsAmong(Append(bodies, body), k) = RequestsAmong(bodies, k)
  <1>1. PICK s : s = Append(bodies, body)
    OBVIOUS
  <1>2. \A i \in 1..Len(bodies) : s[i] = bodies[i]
    BY <1>1, AppendProperties
  <1>3. \A i \in 1..k : i \in 1..Len(bodies)
    <2>1. Len(bodies) \in Nat
      OBVIOUS
    <2> QED BY <2>1
  <1> QED BY <1>1, <1>2, <1>3 DEF RequestsAmong

LEMMA OneMoreTaken ==
  ASSUME NEW bodies, NEW k \in Nat
  PROVE  /\ ~IsRequest(bodies[k + 1]) => RequestsAmong(bodies, k + 1) = RequestsAmong(bodies, k)
         /\ IsRequest(bodies[k + 1]) =>
                Cardinality(RequestsAmong(bodies, k + 1))
                  = Cardinality(RequestsAmong(bodies, k)) + 1
  <1>1. PICK A, B : A = RequestsAmong(bodies, k) /\ B = RequestsAmong(bodies, k + 1)
    OBVIOUS
  <1>2. A \subseteq 1..k
    BY <1>1 DEF RequestsAmong
  <1>3. IsFiniteSet(A)
    <2>1. IsFiniteSet(1..k)
      BY FS_Interval
    <2> QED BY <1>2, <2>1, FS_Subset
  <1>4. k + 1 \notin A
    BY <1>2
  <1>5. ASSUME ~IsRequest(bodies[k + 1]) PROVE A = B
    BY <1>1, <1>5 DEF RequestsAmong
  <1>6. ASSUME IsRequest(bodies[k + 1]) PROVE Cardinality(B) = Cardinality(A) + 1
    <2>1. B = A \cup {k + 1}
      BY <1>1, <1>6 DEF RequestsAmong
    <2> QED BY <1>3, <1>4, <2>1, FS_AddElement
  <1> QED BY <1>1, <1>5, <1>6

(***************************************************************************)
(* The inductive invariant.                                                *)
(***************************************************************************)
ServerStream == spc # "closed" => inbuffer \o up = Left(asked, taken, broken)
Counted      == Len(answered) = Cardinality(RequestsAmong(asked, taken))
ClientStream ==
    ~foreign /\ cpc # "gone" =>
        resp_buff \o down = Packets(From(ResponseBodies(answered), Len(shown)))
ShownAreAnswers == Len(shown) <= Len(answered)

IInv == TypeOK /\ ServerStream /\ Counted /\ ClientStream /\ ShownAreAnswers /\ EndsForCause

LEMMA FramingParts == Framing <=> ServerStream /\ Counted /\ ClientStream
  BY DEF Framing, ServerStream, Counted, ClientStream, RequestsAmong, Left

(* What TypeOK says of the sequences, as strings.                          *)
LEMMA Typed ==
  ASSUME TypeOK
  PROVE  /\ up \in Strings /\ down \in Strings /\ resp_buff \in Strings /\ inbuffer \in Strings
         /\ asked \in Seq(Bodies) /\ asked \in Seq(Strings)
         /\ answered \in Seq(Responses) /\ shown \in Seq(Responses)
         /\ ResponseBodies(answered) \in Seq(Strings)
         /\ Len(ResponseBodies(answered)) = Len(answered)
         /\ Len(asked) \in Nat /\ Len(answered) \in Nat /\ Len(shown) \in Nat
         /\ taken \in Nat /\ taken \in 0..Len(asked)
         /\ broken \in Tails /\ broken \in Strings
  <1>1. up \in Strings /\ down \in Strings /\ resp_buff \in Strings /\ inbuffer \in Strings
    BY DEF TypeOK, Strings
  <1>2. asked \in Seq(Bodies) /\ answered \in Seq(Responses) /\ shown \in Seq(Responses)
    BY DEF TypeOK
  <1>3. asked \in Seq(Strings)
    BY <1>2, BodiesAreStrings, SeqMonotonic
  <1>4. ResponseBodies(answered) \in Seq(Strings)
        /\ Len(ResponseBodies(answered)) = Len(answered)
    BY <1>2, ResponseBodiesAre
  <1>5. Len(asked) \in Nat /\ Len(answered) \in Nat /\ Len(shown) \in Nat
    BY <1>2
  <1>6. taken \in Nat /\ taken \in 0..Len(asked)
    BY <1>5 DEF TypeOK
  <1>7. broken \in Tails /\ broken \in Strings
    <2>1. broken \in Tails
      BY DEF TypeOK, Tails
    <2> QED BY <2>1, BrokenNeverComplete
  <1> QED BY <1>1, <1>2, <1>3, <1>4, <1>5, <1>6, <1>7

LEMMA Initially == Init => IInv
  <1> SUFFICES ASSUME Init PROVE IInv
    OBVIOUS
  <1>1. PICK none : none = <<>>
    OBVIOUS
  <1>2. /\ none \in Seq(Nat) /\ none \in Seq(Bodies) /\ none \in Seq(Responses)
        /\ none \in Seq(Strings) /\ Len(none) = 0 /\ none \o none = none
    BY <1>1
  <1>3. TypeOK
    BY <1>1, <1>2 DEF TypeOK, Init
  <1>4. From(none, 0) = none
    <2>1. From(none, 0) \in Seq(Strings) /\ Len(From(none, 0)) = 0
      <3>1. PICK k : k = 0
        OBVIOUS
      <3>2. k \in 0..Len(none) /\ Len(none) - k = 0
        BY <1>2, <3>1
      <3>3. From(none, k) \in Seq(Strings) /\ Len(From(none, k)) = Len(none) - k
        BY <1>2, <3>2, FromIs
      <3> QED BY <3>1, <3>2, <3>3
    <2> QED BY <1>1, <2>1, EmptySeq
  <1>5. ServerStream
    BY <1>1, <1>2, <1>4, PacketsEmpty DEF Init, ServerStream, Left
  <1>6. ClientStream
    <2>1. ResponseBodies(none) \in Seq(Strings) /\ Len(ResponseBodies(none)) = 0
      BY <1>2, ResponseBodiesAre
    <2>2. ResponseBodies(none) = none
      BY <1>1, <2>1, EmptySeq
    <2> QED BY <1>1, <1>2, <1>4, <2>2, PacketsEmpty DEF Init, ClientStream
  <1>7. Counted
    <2>1. RequestsAmong(asked, taken) = {}
      BY DEF Init, RequestsAmong
    <2> QED BY <1>1, <1>2, <2>1, FS_EmptySet DEF Init, Counted
  <1>8. ShownAreAnswers
    BY <1>1, <1>2 DEF Init, ShownAreAnswers
  <1>9. EndsForCause
    BY DEF Init, EndsForCause
  <1> QED BY <1>3, <1>5, <1>6, <1>7, <1>8, <1>9 DEF IInv

(* A body is sent: its packet is behind the others.                        *)
LEMMA SendKeeps ==
  ASSUME IInv, NEW body \in Bodies, Send(body)
  PROVE  /\ up' \in Seq(Nat) /\ asked' \in Seq(Bodies) /\ taken \in 0..Len(asked')
         /\ spc # "closed" /\ broken = <<>>
         /\ inbuffer \o up' = Left(asked', taken, broken)
         /\ RequestsAmong(asked', taken) = RequestsAmong(asked, taken)
  <1>1. TypeOK /\ ServerStream
    BY DEF IInv
  <1>2. up' = up \o Encode(body) /\ asked' = Append(asked, body)
    BY DEF Send
  <1>3. body \in Strings
    BY BodiesAreStrings
  <1>4. PICK e : e = Encode(body)
    OBVIOUS
  <1>5. e \in Strings
    BY <1>3, <1>4, EncodeIsString
  <1>6. up' \in Seq(Nat)
    BY <1>1, <1>2, <1>4, <1>5, Typed, ConcatProperties DEF Strings
  <1>7. asked' \in Seq(Bodies) /\ Len(asked') = Len(asked) + 1
    BY <1>1, <1>2, Typed, AppendProperties
  <1>8. taken \in 0..Len(asked')
    BY <1>1, <1>7, Typed
  <1>9. RequestsAmong(asked', taken) = RequestsAmong(asked, taken)
    BY <1>1, <1>2, Typed, RequestsAmongAppend
  <1>10. spc # "closed" /\ broken = <<>>
    BY DEF Send
  <1>11. inbuffer \o up' = Left(asked', taken, broken)
    <2>1. inbuffer \o up' = (inbuffer \o up) \o e
      BY ZenonT(60), <1>1, <1>2, <1>4, <1>5, Typed, Associative
    <2>2. inbuffer \o up = Left(asked, taken, broken)
      BY <1>1, <1>10 DEF ServerStream
    <2>3. Packets(From(asked', taken)) = Packets(From(asked, taken)) \o e
      BY <1>1, <1>2, <1>3, <1>4, Typed, OneMore
    <2>4. \A bodies \in Seq(Strings) : taken \in 0..Len(bodies) =>
            Left(bodies, taken, <<>>) = Packets(From(bodies, taken))
      <3> SUFFICES ASSUME NEW bodies \in Seq(Strings), taken \in 0..Len(bodies)
                   PROVE  Left(bodies, taken, <<>>) = Packets(From(bodies, taken))
        OBVIOUS
      <3>1. Packets(From(bodies, taken)) \in Strings
        BY FromIs, PacketsIs
      <3> QED BY <3>1, ConcatEmptySeq DEF Left, Strings
    <2>5. asked \in Seq(Strings) /\ asked' \in Seq(Strings) /\ taken \in 0..Len(asked)
      BY <1>1, <1>7, Typed, BodiesAreStrings, SeqMonotonic
    <2> QED BY <1>8, <1>10, <2>1, <2>2, <2>3, <2>4, <2>5
  <1> QED BY <1>6, <1>7, <1>8, <1>9, <1>10, <1>11

LEMMA SendRequestKeeps == IInv /\ SendRequest => IInv'
  <1> SUFFICES ASSUME IInv, SendRequest PROVE IInv'
    OBVIOUS
  <1>1. PICK r \in Requests : Send(RequestBody(r))
    BY DEF SendRequest
  <1>2. RequestBody(r) \in Bodies
    BY <1>1 DEF Bodies, RequestBodies
  <1>3. /\ up' \in Seq(Nat) /\ asked' \in Seq(Bodies) /\ taken \in 0..Len(asked')
        /\ spc # "closed" /\ inbuffer \o up' = Left(asked', taken, broken)
        /\ RequestsAmong(asked', taken) = RequestsAmong(asked, taken)
    BY <1>1, <1>2, SendKeeps
  <1>4. /\ cpc' = "wait" /\ cpc = "input"
        /\ UNCHANGED <<foreign, resp_buff, broken, shown, down, spc, inbuffer, taken, answered>>
    BY <1>1 DEF SendRequest, serverVars, Send
  <1>5. TypeOK'
    BY <1>3, <1>4 DEF IInv, TypeOK
  <1>6. ServerStream'
    BY <1>3, <1>4 DEF ServerStream
  <1>7. Counted'
    BY <1>3, <1>4 DEF IInv, Counted
  <1>8. ClientStream'
    BY <1>4 DEF IInv, ClientStream
  <1>9. ShownAreAnswers'
    BY <1>4 DEF IInv, ShownAreAnswers
  <1>10. EndsForCause'
    BY <1>3, <1>4 DEF EndsForCause
  <1> QED BY <1>5, <1>6, <1>7, <1>8, <1>9, <1>10 DEF IInv

LEMMA ForeignSendKeeps == IInv /\ ForeignSend => IInv'
  <1> SUFFICES ASSUME IInv, ForeignSend PROVE IInv'
    OBVIOUS
  <1>1. PICK body \in Bodies : Send(body)
    BY DEF ForeignSend, Bodies, RequestBodies
  <1>2. /\ up' \in Seq(Nat) /\ asked' \in Seq(Bodies) /\ taken \in 0..Len(asked')
        /\ spc # "closed" /\ inbuffer \o up' = Left(asked', taken, broken)
        /\ RequestsAmong(asked', taken) = RequestsAmong(asked, taken)
    BY <1>1, SendKeeps
  <1>3. UNCHANGED <<foreign, cpc, resp_buff, broken, shown, down, spc, inbuffer, taken, answered>>
    BY DEF ForeignSend, serverVars, peerVars
  <1>4. TypeOK'
    BY <1>2, <1>3 DEF IInv, TypeOK
  <1>5. ServerStream'
    BY <1>2, <1>3 DEF ServerStream
  <1>6. Counted'
    BY <1>2, <1>3 DEF IInv, Counted
  <1>7. ClientStream'
    BY <1>3 DEF IInv, ClientStream
  <1>8. ShownAreAnswers'
    BY <1>3 DEF IInv, ShownAreAnswers
  <1>9. EndsForCause'
    BY <1>2, <1>3 DEF EndsForCause
  <1> QED BY <1>4, <1>5, <1>6, <1>7, <1>8, <1>9 DEF IInv

LEMMA ForeignBreakKeeps == IInv /\ ForeignBreak => IInv'
  <1> SUFFICES ASSUME IInv, ForeignBreak PROVE IInv'
    OBVIOUS
  <1>1. TypeOK /\ ServerStream /\ Counted /\ ClientStream /\ ShownAreAnswers
    BY DEF IInv
  <1>2. PICK h \in BadHeaders : broken' = h \o sep /\ up' = up \o broken'
    BY DEF ForeignBreak
  <1>3. /\ foreign /\ spc # "closed" /\ broken = <<>>
        /\ UNCHANGED <<foreign, cpc, resp_buff, shown, down, asked, spc, inbuffer, taken, answered>>
    BY DEF ForeignBreak, serverVars
  <1>4. PICK tail : tail = broken'
    OBVIOUS
  <1>5. tail \in Broken /\ tail \in Strings
    <2>1. tail \in Broken
      BY <1>2, <1>4 DEF Broken
    <2>2. tail \in Tails
      BY <2>1 DEF Tails
    <2> QED BY <2>1, <2>2, BrokenNeverComplete
  <1>6. up' \in Strings
    BY <1>1, <1>2, <1>4, <1>5, Typed, ConcatProperties DEF Strings
  <1>7. TypeOK'
    <2>1. broken' \in Broken \cup {<<>>} /\ up' \in Seq(Nat)
      BY <1>4, <1>5, <1>6 DEF Strings
    <2> QED BY <1>1, <1>3, <2>1 DEF TypeOK, Broken
  <1>8. ServerStream'
    <2>1. PICK p : p = Packets(From(asked, taken))
      OBVIOUS
    <2>2. p \in Strings
      BY <1>1, <2>1, Typed, FromIs, PacketsIs
    <2>3. inbuffer \o up = p
      <3>1. inbuffer \o up = p \o <<>>
        BY <1>1, <1>3, <2>1 DEF ServerStream, Left
      <3> QED BY <2>2, <3>1, ConcatEmptySeq DEF Strings
    <2>4. inbuffer \o up' = (inbuffer \o up) \o tail
      BY ZenonT(60), <1>1, <1>2, <1>4, <1>5, Typed, Associative
    <2>5. (inbuffer \o up)' = Packets(From(asked', taken')) \o broken'
      BY <1>3, <1>4, <2>1, <2>3, <2>4
    <2> QED BY <2>5 DEF ServerStream, Left
  <1>9. Counted' /\ ClientStream' /\ ShownAreAnswers'
    BY <1>1, <1>3 DEF Counted, ClientStream, ShownAreAnswers
  <1>10. EndsForCause'
    BY <1>3 DEF EndsForCause
  <1> QED BY <1>7, <1>8, <1>9, <1>10 DEF IInv

(* What the client decodes is the first response that it has not shown.    *)
LEMMA ResponseDecoded ==
  ASSUME IInv, ~foreign, cpc = "wait", NEW n \in 1..Len(down),
         NEW buffer, buffer = resp_buff \o Piece(down, n)
  PROVE  /\ buffer \in Strings /\ Rest(down, n) \in Strings
         /\ buffer \o Rest(down, n) = Packets(From(ResponseBodies(answered), Len(shown)))
         /\ Complete(buffer) =>
              /\ Len(shown) < Len(answered)
              /\ answered[Len(shown) + 1] \in Responses
              /\ ParseResponse(Package(buffer)) = answered[Len(shown) + 1]
              /\ Erased(buffer) \in Strings
              /\ Erased(buffer) \o Rest(down, n)
                   = Packets(From(ResponseBodies(answered), Len(shown) + 1))
  <1>1. TypeOK /\ ClientStream /\ ShownAreAnswers
    BY DEF IInv
  <1>2. PICK more : more = Rest(down, n)
    OBVIOUS
  <1>3. buffer \in Strings /\ more \in Strings /\ buffer \o more = resp_buff \o down
    BY <1>1, <1>2, Typed, Received
  <1>4. resp_buff \o down = Packets(From(ResponseBodies(answered), Len(shown)))
    BY <1>1 DEF ClientStream
  <1>5. PICK bodies, k : bodies = ResponseBodies(answered) /\ k = Len(shown)
    OBVIOUS
  <1>6. bodies \in Seq(Strings) /\ Len(bodies) = Len(answered) /\ k \in 0..Len(bodies) /\ k \in Nat
    BY <1>1, <1>5, Typed DEF ShownAreAnswers
  <1>7. ASSUME Complete(buffer)
        PROVE  /\ k < Len(answered)
               /\ answered[k + 1] \in Responses
               /\ ParseResponse(Package(buffer)) = answered[k + 1]
               /\ Erased(buffer) \in Strings
               /\ Erased(buffer) \o more = Packets(From(bodies, k + 1))
    <2>1. buffer \o more = Packets(From(bodies, k))
      BY <1>3, <1>4, <1>5
    <2>2. /\ k < Len(bodies)
          /\ Package(buffer) = bodies[k + 1]
          /\ Erased(buffer) \in Strings
          /\ Erased(buffer) \o more = Packets(From(bodies, k + 1))
      BY ZenonT(60), <1>3, <1>6, <1>7, <2>1, DecodeNext
    <2>3. k + 1 \in 1..Len(answered)
      BY <1>1, <1>6, <2>2, Typed
    <2>4. answered[k + 1] \in Responses
      BY <1>1, <2>3, Typed, ElementOfSeq
    <2>5. bodies[k + 1] = ResponseBody(answered[k + 1])
      BY <1>1, <1>5, <2>3, Typed, ResponseBodiesAre
    <2> QED BY <1>6, <2>2, <2>4, <2>5, ResponseParsed
  <1> QED BY <1>2, <1>3, <1>4, <1>5, <1>7

LEMMA GetResponseKeeps == IInv /\ GetResponse => IInv'
  <1> SUFFICES ASSUME IInv, GetResponse PROVE IInv'
    OBVIOUS
  <1>1. TypeOK /\ ServerStream /\ Counted /\ ShownAreAnswers /\ EndsForCause
    BY DEF IInv
  <1>2. PICK n \in 1..Len(down) :
         LET b == resp_buff \o Piece(down, n)
         IN  /\ down' = Rest(down, n)
             /\ \/ /\ ~Complete(b)
                   /\ resp_buff' = b
                   /\ UNCHANGED <<cpc, shown>>
                \/ /\ Complete(b)
                   /\ resp_buff' = Erased(b)
                   /\ shown' = Append(shown, ParseResponse(Package(b)))
                   /\ cpc' = "input"
    BY DEF GetResponse
  <1>3. /\ ~foreign /\ cpc = "wait"
        /\ UNCHANGED <<foreign, up, broken, asked, spc, inbuffer, taken, answered>>
    BY DEF GetResponse, serverVars
  <1>4. PICK buffer : buffer = resp_buff \o Piece(down, n)
    OBVIOUS
  <1>5. /\ buffer \in Strings /\ Rest(down, n) \in Strings
        /\ buffer \o Rest(down, n) = Packets(From(ResponseBodies(answered), Len(shown)))
        /\ Complete(buffer) =>
              /\ Len(shown) < Len(answered)
              /\ answered[Len(shown) + 1] \in Responses
              /\ ParseResponse(Package(buffer)) = answered[Len(shown) + 1]
              /\ Erased(buffer) \in Strings
              /\ Erased(buffer) \o Rest(down, n)
                   = Packets(From(ResponseBodies(answered), Len(shown) + 1))
    BY <1>3, <1>4, ResponseDecoded
  <1>6. ServerStream' /\ Counted' /\ EndsForCause'
    <2>1. cpc' # "gone"
      BY <1>2, <1>3
    <2> QED BY <1>1, <1>3, <2>1 DEF ServerStream, Counted, EndsForCause
  <1>7. CASE ~Complete(buffer)
    <2>1. down' = Rest(down, n) /\ resp_buff' = buffer /\ UNCHANGED <<cpc, shown>>
      BY <1>2, <1>4, <1>7
    <2>2. TypeOK'
      BY <1>1, <1>3, <1>5, <2>1 DEF TypeOK, Strings
    <2>3. ClientStream'
      BY <1>3, <1>5, <2>1 DEF ClientStream
    <2>4. ShownAreAnswers'
      BY <1>1, <1>3, <2>1 DEF ShownAreAnswers
    <2> QED BY <1>6, <2>2, <2>3, <2>4 DEF IInv
  <1>8. CASE Complete(buffer)
    <2>1. PICK a : a = answered[Len(shown) + 1]
      OBVIOUS
    <2>2. /\ down' = Rest(down, n) /\ resp_buff' = Erased(buffer)
          /\ shown' = Append(shown, a) /\ cpc' = "input" /\ a \in Responses
      BY <1>2, <1>4, <1>5, <1>8, <2>1
    <2>3. shown' \in Seq(Responses) /\ Len(shown') = Len(shown) + 1
      BY <1>1, <2>2, Typed, AppendProperties
    <2>4. TypeOK'
      BY <1>1, <1>3, <1>5, <1>8, <2>2, <2>3 DEF TypeOK, Strings
    <2>5. ClientStream'
      BY <1>3, <1>5, <1>8, <2>2, <2>3 DEF ClientStream
    <2>6. ShownAreAnswers'
      BY <1>1, <1>3, <1>5, <1>8, <2>3, Typed DEF ShownAreAnswers
    <2> QED BY <1>6, <2>4, <2>5, <2>6 DEF IInv
  <1> QED BY <1>7, <1>8

LEMMA RecvKeeps == IInv /\ Recv => IInv'
  <1> SUFFICES ASSUME IInv, Recv PROVE IInv'
    OBVIOUS
  <1>1. TypeOK /\ ServerStream /\ Counted /\ ClientStream /\ ShownAreAnswers
    BY DEF IInv
  <1>2. PICK n \in 1..Len(up) : inbuffer' = inbuffer \o Piece(up, n) /\ up' = Rest(up, n)
    BY DEF Recv
  <1>3. /\ spc = "recv" /\ spc' = "decode"
        /\ UNCHANGED <<foreign, cpc, resp_buff, broken, shown, down, asked, taken, answered>>
    BY DEF Recv, peerVars
  <1>4. inbuffer' \in Strings /\ up' \in Strings /\ inbuffer' \o up' = inbuffer \o up
    BY <1>1, <1>2, Typed, Received
  <1>5. TypeOK'
    BY <1>1, <1>3, <1>4 DEF TypeOK, Strings
  <1>6. ServerStream'
    BY <1>1, <1>3, <1>4 DEF ServerStream
  <1>7. Counted' /\ ClientStream' /\ ShownAreAnswers' /\ EndsForCause'
    BY <1>1, <1>3 DEF Counted, ClientStream, ShownAreAnswers, EndsForCause
  <1> QED BY <1>5, <1>6, <1>7 DEF IInv

(* What the server decodes is the first body that it has not taken.        *)
LEMMA RequestDecoded ==
  ASSUME IInv, spc = "decode", Complete(inbuffer)
  PROVE  /\ taken < Len(asked) /\ taken + 1 \in 0..Len(asked)
         /\ Package(inbuffer) = asked[taken + 1]
         /\ Erased(inbuffer) \in Strings
         /\ Erased(inbuffer) \o up = Left(asked, taken + 1, broken)
  <1>1. TypeOK /\ ServerStream
    BY DEF IInv
  <1>2. inbuffer \o up = Left(asked, taken, broken)
    BY <1>1 DEF ServerStream
  <1>3. PICK bodies, k, tail, buffer, more :
           bodies = asked /\ k = taken /\ tail = broken /\ buffer = inbuffer /\ more = up
    OBVIOUS
  <1>4. /\ bodies \in Seq(Strings) /\ k \in 0..Len(bodies)
        /\ tail \in Tails /\ buffer \in Strings /\ more \in Strings
    BY <1>1, <1>3, Typed
  <1>5. /\ k < Len(bodies)
        /\ Package(buffer) = bodies[k + 1]
        /\ Erased(buffer) \in Strings
        /\ Erased(buffer) \o more = Left(bodies, k + 1, tail)
    <2>1. buffer \o more = Left(bodies, k, tail) /\ Complete(buffer)
      BY <1>2, <1>3
    <2>2. FirstTaken(bodies, k, tail, buffer, more)
      BY <1>4, <2>1, DecodeBefore
    <2> QED BY <2>2 DEF FirstTaken
  <1>6. taken + 1 \in 0..Len(asked)
    BY <1>1, <1>3, <1>5, Typed
  <1> QED BY <1>3, <1>5, <1>6

(* The server ends by an exception only at a body that does so, or at the  *)
(* packet with the bad header.                                             *)
LEMMA Thrown == ASSUME IInv, Throw PROVE EndsForCause'
  <1>1. TypeOK /\ ServerStream
    BY DEF IInv
  <1>2. spc = "decode" /\ UNCHANGED <<asked, taken, broken>>
    BY DEF Throw, peerVars
  <1>3. CASE StoiThrows(inbuffer)
    <2>1. inbuffer \o up = Left(asked, taken, broken)
      BY <1>1, <1>2 DEF ServerStream
    <2>2. taken = Len(asked) /\ broken # <<>>
      <3>1. PICK bodies, k, tail, buffer, more :
               bodies = asked /\ k = taken /\ tail = broken /\ buffer = inbuffer /\ more = up
        OBVIOUS
      <3>2. /\ bodies \in Seq(Strings) /\ k \in 0..Len(bodies)
            /\ tail \in Tails /\ buffer \in Strings /\ more \in Strings
        BY <1>1, <3>1, Typed
      <3>3. k = Len(bodies) /\ tail # <<>>
        BY ZenonT(60), <1>3, <2>1, <3>1, <3>2, ThrowsAtBroken
      <3> QED BY <3>1, <3>3
    <2>3. ~(taken < Len(asked))
      BY <1>1, <2>2, Typed
    <2> QED BY <1>2, <2>2, <2>3 DEF EndsForCause
  <1>4. CASE Complete(inbuffer) /\ Package(inbuffer) \in Mistyped
    <2>1. taken < Len(asked) /\ Package(inbuffer) = asked[taken + 1]
      BY <1>2, <1>4, RequestDecoded
    <2> QED BY <1>2, <1>4, <2>1 DEF EndsForCause, Kills
  <1> QED BY <1>3, <1>4 DEF Throw

LEMMA Trapped == ASSUME IInv, Trap PROVE EndsForCause'
  <1>1. /\ spc = "decode" /\ Complete(inbuffer) /\ IsRequest(Package(inbuffer))
        /\ Traps(ParseRequest(Package(inbuffer)))
        /\ UNCHANGED <<asked, taken, broken>>
    BY DEF Trap, peerVars
  <1>2. taken < Len(asked) /\ Package(inbuffer) = asked[taken + 1]
    BY <1>1, RequestDecoded
  <1> QED BY <1>1, <1>2 DEF EndsForCause, Kills

LEMMA SkipKeeps == IInv /\ Skip => IInv'
  <1> SUFFICES ASSUME IInv, Skip PROVE IInv'
    OBVIOUS
  <1>1. TypeOK /\ ServerStream /\ Counted /\ ClientStream /\ ShownAreAnswers
    BY DEF IInv
  <1>2. /\ spc = "decode" /\ Complete(inbuffer) /\ ~IsRequest(Package(inbuffer))
        /\ inbuffer' = Erased(inbuffer) /\ taken' = taken + 1
        /\ UNCHANGED <<foreign, cpc, resp_buff, broken, shown, up, down, asked, spc, answered>>
    BY DEF Skip, peerVars
  <1>3. /\ taken + 1 \in 0..Len(asked)
        /\ Package(inbuffer) = asked[taken + 1]
        /\ Erased(inbuffer) \in Strings
        /\ Erased(inbuffer) \o up = Left(asked, taken + 1, broken)
    BY <1>2, RequestDecoded
  <1>4. TypeOK'
    BY <1>1, <1>2, <1>3 DEF TypeOK, Strings
  <1>5. ServerStream'
    BY <1>2, <1>3 DEF ServerStream
  <1>6. Counted'
    <2>1. RequestsAmong(asked, taken + 1) = RequestsAmong(asked, taken)
      BY <1>1, <1>2, <1>3, Typed, OneMoreTaken
    <2> QED BY <1>1, <1>2, <2>1 DEF Counted
  <1>7. ClientStream' /\ ShownAreAnswers' /\ EndsForCause'
    BY <1>1, <1>2 DEF ClientStream, ShownAreAnswers, EndsForCause
  <1> QED BY <1>4, <1>5, <1>6, <1>7 DEF IInv

(* The response of Answer is right, and its packet is behind the others.   *)
LEMMA Answered ==
  ASSUME IInv, spc = "decode", Complete(inbuffer), IsRequest(Package(inbuffer)),
         ~Traps(ParseRequest(Package(inbuffer))),
         NEW a, a = Execute(ParseRequest(Package(inbuffer)))
  PROVE  /\ a \in Responses /\ Correct(asked[taken + 1], a) /\ IsRequest(asked[taken + 1])
         /\ Append(answered, a) \in Seq(Responses)
         /\ Len(Append(answered, a)) = Len(answered) + 1
         /\ down \o Encode(ResponseBody(a)) \in Strings
         /\ ~foreign /\ cpc # "gone" =>
              resp_buff \o (down \o Encode(ResponseBody(a)))
                = Packets(From(ResponseBodies(Append(answered, a)), Len(shown)))
  <1>1. TypeOK /\ ClientStream /\ ShownAreAnswers
    BY DEF IInv
  <1>2. Package(inbuffer) = asked[taken + 1]
    BY RequestDecoded
  <1>3. a \in Responses /\ Correct(asked[taken + 1], a) /\ IsRequest(asked[taken + 1])
    BY <1>2, ExecuteIsCorrect
  <1>4. Append(answered, a) \in Seq(Responses) /\ Len(Append(answered, a)) = Len(answered) + 1
    BY <1>1, <1>3, Typed, AppendProperties
  <1>5. PICK body, e : body = ResponseBody(a) /\ e = Encode(body)
    OBVIOUS
  <1>6. body \in Strings /\ e \in Strings
    BY <1>3, <1>5, BodiesAreStrings, EncodeIsString
  <1>7. down \o e \in Strings
    BY <1>1, <1>6, Typed, ConcatProperties DEF Strings
  <1>8. ASSUME ~foreign, cpc # "gone"
        PROVE  resp_buff \o (down \o e)
                 = Packets(From(ResponseBodies(Append(answered, a)), Len(shown)))
    <2>1. PICK bodies, k : bodies = ResponseBodies(answered) /\ k = Len(shown)
      OBVIOUS
    <2>2. bodies \in Seq(Strings) /\ k \in 0..Len(bodies)
      BY <1>1, <2>1, Typed DEF ShownAreAnswers
    <2>3. resp_buff \o down = Packets(From(bodies, k))
      BY <1>1, <1>8, <2>1 DEF ClientStream
    <2>4. resp_buff \o (down \o e) = (resp_buff \o down) \o e
      BY ZenonT(60), <1>1, <1>6, Typed, Associative
    <2>5. ResponseBodies(Append(answered, a)) = Append(bodies, body)
      BY <1>1, <1>3, <1>5, <2>1, Typed, ResponseBodiesAppend
    <2>6. Packets(From(Append(bodies, body), k)) = Packets(From(bodies, k)) \o e
      BY <1>5, <1>6, <2>2, OneMore
    <2> QED BY <2>1, <2>3, <2>4, <2>5, <2>6
  <1> QED BY <1>3, <1>4, <1>5, <1>7, <1>8

LEMMA AnswerKeeps == IInv /\ Answer => IInv'
  <1> SUFFICES ASSUME IInv, Answer PROVE IInv'
    OBVIOUS
  <1>1. TypeOK /\ ServerStream /\ Counted /\ ClientStream /\ ShownAreAnswers
    BY DEF IInv
  <1>2. PICK a : a = Execute(ParseRequest(Package(inbuffer)))
    OBVIOUS
  <1>3. /\ spc = "decode" /\ Complete(inbuffer) /\ IsRequest(Package(inbuffer))
        /\ ~Traps(ParseRequest(Package(inbuffer)))
        /\ \/ /\ answered' = Append(answered, a)
              /\ down' = down \o Encode(ResponseBody(a))
              /\ taken' = taken + 1
              /\ spc' = "decode"
           \/ /\ cpc = "gone"
              /\ spc' = "closed"
              /\ UNCHANGED <<taken, answered, down>>
        /\ inbuffer' = Erased(inbuffer)
        /\ UNCHANGED <<foreign, cpc, resp_buff, broken, shown, up, asked>>
    BY <1>2 DEF Answer, peerVars
  <1>4. /\ taken + 1 \in 0..Len(asked)
        /\ Package(inbuffer) = asked[taken + 1]
        /\ Erased(inbuffer) \in Strings
        /\ Erased(inbuffer) \o up = Left(asked, taken + 1, broken)
    BY <1>3, RequestDecoded
  <1>5. CASE /\ answered' = Append(answered, a)
             /\ down' = down \o Encode(ResponseBody(a))
             /\ taken' = taken + 1
             /\ spc' = "decode"
    <2>1. /\ Append(answered, a) \in Seq(Responses)
          /\ Len(Append(answered, a)) = Len(answered) + 1
          /\ IsRequest(asked[taken + 1])
          /\ down \o Encode(ResponseBody(a)) \in Strings
          /\ ~foreign /\ cpc # "gone" =>
               resp_buff \o (down \o Encode(ResponseBody(a)))
                 = Packets(From(ResponseBodies(Append(answered, a)), Len(shown)))
      BY <1>2, <1>3, Answered
    <2>2. TypeOK'
      <3>1. /\ (foreign \in BOOLEAN)' /\ (cpc \in {"input", "wait", "gone"})'
            /\ (up \in Seq(Nat))' /\ (resp_buff \in Seq(Nat))' /\ (shown \in Seq(Responses))'
            /\ (asked \in Seq(Bodies))' /\ (broken \in Broken \cup {<<>>})'
        BY <1>1, <1>3 DEF TypeOK, Broken
      <3>2. /\ (down \in Seq(Nat))' /\ (inbuffer \in Seq(Nat))'
            /\ (spc \in {"recv", "decode", "closed"})'
        BY <1>3, <1>4, <1>5, <2>1 DEF Strings
      <3>3. (taken \in 0..Len(asked))' /\ (answered \in Seq(Responses))'
        BY <1>3, <1>4, <1>5, <2>1
      <3> QED BY <3>1, <3>2, <3>3 DEF TypeOK
    <2>3. ServerStream'
      BY <1>3, <1>4, <1>5 DEF ServerStream
    <2>4. Counted'
      <3>1. Cardinality(RequestsAmong(asked, taken + 1))
              = Cardinality(RequestsAmong(asked, taken)) + 1
        BY <1>1, <2>1, Typed, OneMoreTaken
      <3> QED BY <1>1, <1>3, <1>5, <2>1, <3>1 DEF Counted
    <2>5. ClientStream'
      BY <1>3, <1>5, <2>1 DEF ClientStream
    <2>6. ShownAreAnswers'
      BY <1>1, <1>3, <1>5, <2>1, Typed DEF ShownAreAnswers
    <2>7. EndsForCause'
      BY <1>5 DEF EndsForCause
    <2> QED BY <2>2, <2>3, <2>4, <2>5, <2>6, <2>7 DEF IInv
  <1>6. CASE cpc = "gone" /\ spc' = "closed" /\ UNCHANGED <<taken, answered, down>>
    <2>1. TypeOK'
      BY <1>1, <1>3, <1>4, <1>6 DEF TypeOK, Strings
    <2>2. ServerStream' /\ Counted' /\ ClientStream' /\ ShownAreAnswers' /\ EndsForCause'
      BY <1>1, <1>3, <1>6
         DEF ServerStream, Counted, ClientStream, ShownAreAnswers, EndsForCause
    <2> QED BY <2>1, <2>2 DEF IInv
  <1> QED BY <1>3, <1>5, <1>6

(* The steps that send, receive and decode nothing that counts.            *)
LEMMA OtherKeeps ==
  IInv /\ (ServerQuit \/ ForeignReceive \/ Leave \/ RecvEnd \/ DecodeFails \/ Trap \/ Throw
           \/ Terminated \/ UNCHANGED vars) => IInv'
  <1> SUFFICES ASSUME IInv,
                      ServerQuit \/ ForeignReceive \/ Leave \/ RecvEnd \/ DecodeFails \/ Trap \/ Throw
                        \/ Terminated \/ UNCHANGED vars
               PROVE  IInv'
    OBVIOUS
  <1>1. TypeOK /\ ServerStream /\ Counted /\ ClientStream /\ ShownAreAnswers
    BY DEF IInv
  <1>2. /\ UNCHANGED <<foreign, up, resp_buff, broken, asked, shown, inbuffer, taken, answered>>
        /\ cpc' \in {cpc, "gone"}
        /\ spc' = spc \/ spc' = "closed" \/ (spc # "closed" /\ spc' = "recv")
        /\ UNCHANGED down \/ (foreign /\ down' = <<>>)
    BY DEF ServerQuit, ForeignReceive, Leave, RecvEnd, DecodeFails, Trap, Throw, Terminated,
           vars, peerVars, serverVars
  <1>3. TypeOK'
    <2>1. (down \in Seq(Nat))'
      <3>1. <<>> \in Seq(Nat) /\ down \in Seq(Nat)
        BY <1>1 DEF TypeOK
      <3> QED BY <1>2, <3>1
    <2> QED BY <1>1, <1>2, <2>1 DEF TypeOK, Broken
  <1>4. ServerStream'
    BY <1>1, <1>2 DEF ServerStream
  <1>5. Counted' /\ ClientStream' /\ ShownAreAnswers'
    BY <1>1, <1>2 DEF Counted, ClientStream, ShownAreAnswers
  <1>6. EndsForCause'
    <2>1. CASE Trap
      BY <2>1, Trapped
    <2>2. CASE Throw
      BY <2>2, Thrown
    <2>3. CASE ~Trap /\ ~Throw
      <3>1. EndsForCause
        BY DEF IInv
      <3>2. \/ UNCHANGED <<spc, cpc>>
            \/ cpc' = "gone"
            \/ spc' # "closed"
        BY <2>3 DEF ServerQuit, ForeignReceive, Leave, RecvEnd, DecodeFails, Terminated,
                    vars, peerVars, serverVars
      <3> QED BY <1>2, <3>1, <3>2 DEF EndsForCause
    <2> QED BY <2>1, <2>2, <2>3
  <1> QED BY <1>3, <1>4, <1>5, <1>6 DEF IInv

LEMMA Inductive == IInv /\ [Next]_vars => IInv'
  BY SendRequestKeeps, ForeignSendKeeps, ForeignBreakKeeps, GetResponseKeeps, RecvKeeps, SkipKeeps,
     AnswerKeeps, OtherKeeps DEF Next, GetRequest

(* Both buffers are cuts of what was sent, whichever the moment.            *)
THEOREM Invariance == Safety => []IInv
  <1>1. IInv /\ [Next]_vars => IInv'
    BY Inductive
  <1> QED BY <1>1, Initially, PTL DEF Safety

(* Every variable of a connection of the network calculator stays in its   *)
(* domain.                                                                 *)
THEOREM TypeCorrect == Spec => []TypeOK
  <1>1. IInv => TypeOK
    BY DEF IInv
  <1> QED BY <1>1, Invariance, PTL DEF Spec

(* However the stream is cut, what is buffered and under way are exactly   *)
(* the packets not yet taken out, and each request taken is answered once. *)
THEOREM Framed == Spec => []Framing
  <1>1. IInv => Framing
    BY FramingParts DEF IInv
  <1> QED BY <1>1, Invariance, PTL DEF Spec

(* While the peer is there the server ends only at a body or a packet that *)
(* ends it, with everything before it dealt with: no cut of the stream     *)
(* makes it read a header where there is none.                             *)
THEOREM EndsOnlyForCause == Spec => []EndsForCause
  <1>1. IInv => EndsForCause
    BY DEF IInv
  <1> QED BY <1>1, Invariance, PTL DEF Spec

(***************************************************************************)
(* The connection is a calculator.                                         *)
(***************************************************************************)
LEMMA CalculatorInit == Init => Service!Init
  BY DEF Init, Service!Init

LEMMA CalculatorStep == IInv /\ [Next]_vars => [Service!Next]_Service!vars
  <1> SUFFICES ASSUME IInv, [Next]_vars PROVE [Service!Next]_Service!vars
    OBVIOUS
  <1>1. TypeOK
    BY DEF IInv
  <1>2. ASSUME NEW body \in Bodies, Send(body), UNCHANGED <<shown, taken, answered>>
        PROVE  Service!Next
    <2>1. Service!Ask(body)
      BY <1>2 DEF Send, Service!Ask
    <2> QED BY <2>1 DEF Service!Next
  <1>3. CASE SendRequest
    <2>1. PICK r \in Requests : Send(RequestBody(r))
      BY <1>3 DEF SendRequest
    <2>2. RequestBody(r) \in Bodies
      BY <2>1 DEF Bodies, RequestBodies
    <2> QED BY <1>2, <1>3, <2>1, <2>2 DEF SendRequest, serverVars
  <1>4. CASE ForeignSend
    <2>1. PICK body \in Bodies : Send(body)
      BY <1>4 DEF ForeignSend, Bodies, RequestBodies
    <2> QED BY <1>2, <1>4, <2>1 DEF ForeignSend, serverVars, peerVars
  <1>5. CASE GetResponse
    <2>1. PICK n \in 1..Len(down) :
           LET b == resp_buff \o Piece(down, n)
           IN  \/ UNCHANGED shown
               \/ Complete(b) /\ shown' = Append(shown, ParseResponse(Package(b)))
      BY <1>5 DEF GetResponse
    <2>2. PICK buffer : buffer = resp_buff \o Piece(down, n)
      OBVIOUS
    <2>3. ~foreign /\ cpc = "wait" /\ UNCHANGED <<asked, taken, answered>>
      BY <1>5 DEF GetResponse, serverVars
    <2>4. CASE UNCHANGED shown
      BY <2>3, <2>4 DEF Service!vars
    <2>5. CASE Complete(buffer) /\ shown' = Append(shown, ParseResponse(Package(buffer)))
      <3>1. /\ Len(shown) < Len(answered)
            /\ ParseResponse(Package(buffer)) = answered[Len(shown) + 1]
        BY <2>2, <2>3, <2>5, ResponseDecoded
      <3>2. Service!Show
        BY <2>3, <2>5, <3>1 DEF Service!Show
      <3> QED BY <3>2 DEF Service!Next
    <2> QED BY <2>1, <2>2, <2>4, <2>5
  <1>6. CASE Skip
    <2>1. /\ taken < Len(asked) /\ ~IsRequest(asked[taken + 1]) /\ taken' = taken + 1
          /\ UNCHANGED <<asked, answered, shown>>
      BY <1>6, RequestDecoded DEF Skip, peerVars
    <2>2. Service!Ignore
      BY <2>1 DEF Service!Ignore, Service!Hear
    <2> QED BY <2>2 DEF Service!Next
  <1>7. CASE Answer
    <2>1. PICK a : a = Execute(ParseRequest(Package(inbuffer)))
      OBVIOUS
    <2>2. /\ spc = "decode" /\ Complete(inbuffer) /\ IsRequest(Package(inbuffer))
          /\ ~Traps(ParseRequest(Package(inbuffer)))
          /\ \/ answered' = Append(answered, a) /\ taken' = taken + 1
             \/ UNCHANGED <<taken, answered>>
          /\ UNCHANGED <<asked, shown>>
      BY <1>7, <2>1 DEF Answer, peerVars
    <2>3. CASE UNCHANGED <<taken, answered>>
      BY <2>2, <2>3 DEF Service!vars
    <2>4. CASE answered' = Append(answered, a) /\ taken' = taken + 1
      <3>1. a \in Responses /\ Correct(asked[taken + 1], a) /\ IsRequest(asked[taken + 1])
        BY <2>1, <2>2, Answered
      <3>2. taken < Len(asked)
        BY <2>2, RequestDecoded
      <3>3. Service!Give
        BY <2>2, <2>4, <3>1, <3>2 DEF Service!Give, Service!Hear
      <3> QED BY <3>3 DEF Service!Next
    <2> QED BY <2>2, <2>3, <2>4
  <1>8. CASE Recv \/ ServerQuit \/ ForeignReceive \/ Leave \/ RecvEnd \/ DecodeFails \/ Trap
             \/ Throw \/ ForeignBreak
             \/ Terminated \/ UNCHANGED vars
    <2>1. UNCHANGED <<asked, taken, answered, shown>>
      BY <1>8 DEF Recv, ServerQuit, ForeignReceive, Leave, RecvEnd, DecodeFails, Trap, Throw, ForeignBreak,
                  Terminated, vars, peerVars, serverVars
    <2> QED BY <2>1 DEF Service!vars
  <1> QED BY <1>3, <1>4, <1>5, <1>6, <1>7, <1>8 DEF Next, GetRequest

(* Every request is answered once, in order and correctly, whatever else   *)
(* the peer sends and however the stream is cut, and the answers are shown *)
(* in that order.                                                          *)
THEOREM Refinement == Safety => ImplementsCalculator
  <1>1. IInv /\ [Next]_vars => [Service!Next]_Service!vars
    BY CalculatorStep
  <1> QED BY <1>1, CalculatorInit, Invariance, PTL DEF Safety, ImplementsCalculator, Service!Spec
=============================================================================
