-------------------------- MODULE ChatServerProofs --------------------------
(***************************************************************************)
(* Proofs about ChatServer for any clients, any threads and any bound on   *)
(* what the clients type: its types, that the list of online users is what *)
(* the routed messages say, and that it implements ChatRoom.               *)
(***************************************************************************)
EXTENDS ChatServer, SequenceTheorems, TLAPS

(* The members of the room after the messages r.                           *)
StayedIn(r, c) ==
    \E i \in 1..Len(r) :
        /\ r[i].from = c /\ r[i].kind # "quit"
        /\ \A j \in (i + 1)..Len(r) : r[j].from # c

Sending(w, c) == wpc[w] = "send" /\ wmsg[w].from = c

(* A client numbers its datagrams within the bound: the first and the last *)
(* line are not counted in extra.                                          *)
Counted == \A c \in Clients : count[c] <= extra + (IF c \in left THEN 2 ELSE 1)

(* The mutex is held by the thread that is inside MessageRoute's lock, and *)
(* so there is at most one.                                                *)
LockHeld == \A w \in Workers : mutex = w <=> InProgress(w)

(* Where a thread is in its loop.  What IsExist answered is still true     *)
(* when AddUser acts on it.                                                *)
TaskHeld == \A w \in Workers :
    /\ wpc[w] # "idle" => wmsg[w] \in Message
    /\ wpc[w] = "add" => idx[w] = 1 /\ ~IsExist(wmsg[w].from)
    /\ wpc[w] = "send" => idx[w] >= 1 /\ IsExist(wmsg[w].from)
    /\ wpc[w] \notin {"add", "send"} => idx[w] = 0

(* The list is that of the routed messages, with the author of the one     *)
(* that is being sent.                                                     *)
Listed == \A c \in Clients :
    IsExist(c) <=> StayedIn(routed, c) \/ \E w \in Workers : Sending(w, c)

(* The users the loop has passed have the message, and nothing after it.   *)
Delivered == \A w \in Workers : \A i \in 1..(idx[w] - 1) :
    inbox[online[i]] # <<>> /\ Last(inbox[online[i]]) = wmsg[w]

IInv == /\ TypeOK /\ Counted /\ LockHeld /\ TaskHeld
        /\ ListedOnce /\ Listed /\ Delivered

-----------------------------------------------------------------------------
(***************************************************************************)
(* Sequences.                                                              *)
(***************************************************************************)
(* RemoveFirst takes out the only occurrence of an element and moves what  *)
(* follows one place forward.                                              *)
LEMMA Removed ==
  ASSUME NEW S, NEW s \in Seq(S), NEW i \in 1..Len(s), \A j \in 1..Len(s) : s[j] = s[i] => j = i
  PROVE  /\ RemoveFirst(s, s[i]) \in Seq(S)
         /\ Len(RemoveFirst(s, s[i])) = Len(s) - 1
         /\ \A j \in 1..Len(s) - 1 :
               RemoveFirst(s, s[i])[j] = IF j < i THEN s[j] ELSE s[j + 1]
  <1>1. Len(s) \in Nat /\ \A j \in 1..Len(s) : s[j] \in S
    BY LenProperties, ElementOfSeq
  <1>2. RemoveFirst(s, s[i]) = SubSeq(s, 1, i - 1) \o SubSeq(s, i + 1, Len(s))
    <2>1. {j \in 1..Len(s) : s[j] = s[i]} = {i}
      OBVIOUS
    <2>2. Min({i}) = i
      BY <1>1 DEF Min
    <2>3. SelectInSeq(s, LAMBDA v : v = s[i]) = i
      BY <2>1, <2>2 DEF SelectInSeq
    <2> QED BY <2>3 DEF RemoveFirst, RemoveAt
  <1> DEFINE a == SubSeq(s, 1, i - 1)
             b == SubSeq(s, i + 1, Len(s))
  <1>3. /\ a \in Seq(S) /\ Len(a) = i - 1 /\ \A j \in 1..i - 1 : a[j] = s[j]
    BY <1>1, SubSeqProperties
  <1>4. /\ b \in Seq(S) /\ Len(b) = Len(s) - i /\ \A j \in 1..Len(s) - i : b[j] = s[i + j]
    BY <1>1, SubSeqProperties
  <1>5. RemoveFirst(s, s[i]) = a \o b
    BY <1>2
  <1> HIDE DEF a, b
  <1>6. /\ a \o b \in Seq(S) /\ Len(a \o b) = Len(a) + Len(b)
        /\ \A j \in 1..Len(a) + Len(b) : (a \o b)[j] = IF j <= Len(a) THEN a[j] ELSE b[j - Len(a)]
    BY <1>3, <1>4, ConcatProperties
  <1>7. \A j \in 1..Len(s) - 1 : (a \o b)[j] = IF j < i THEN s[j] ELSE s[j + 1]
    <2> SUFFICES ASSUME NEW j \in 1..Len(s) - 1
                 PROVE  (a \o b)[j] = IF j < i THEN s[j] ELSE s[j + 1]
      OBVIOUS
    <2>1. j \in 1..Len(a) + Len(b)
      BY <1>1, <1>3, <1>4
    <2>2. (a \o b)[j] = IF j <= Len(a) THEN a[j] ELSE b[j - Len(a)]
      BY <1>6, <2>1
    <2>3. CASE j < i
      <3>1. j \in 1..i - 1 /\ j <= Len(a)
        BY <2>3, <1>1, <1>3
      <3> QED BY <3>1, <2>2, <2>3, <1>3
    <2>4. CASE ~(j < i)
      <3>1. j - Len(a) \in 1..Len(s) - i /\ ~(j <= Len(a)) /\ i + (j - Len(a)) = j + 1
        BY <2>4, <1>1, <1>3
      <3>2. b[j - Len(a)] = s[i + (j - Len(a))]
        BY <3>1, <1>4
      <3> QED BY <3>1, <3>2, <2>2, <2>4
    <2> QED BY <2>3, <2>4
  <1> QED BY <1>1, <1>3, <1>4, <1>5, <1>6, <1>7

LEMMA InTheList ==
  ASSUME NEW s, NEW c
  PROVE  c \in ToSet(s) <=> \E i \in DOMAIN s : s[i] = c
  BY DEF ToSet

LEMMA RemovedOnce ==
  ASSUME NEW S, NEW s \in Seq(S), NEW e \in ToSet(s),
         \A i, j \in 1..Len(s) : s[i] = s[j] => i = j
  PROVE  /\ RemoveFirst(s, e) \in Seq(S)
         /\ \A i, j \in 1..Len(RemoveFirst(s, e)) :
               RemoveFirst(s, e)[i] = RemoveFirst(s, e)[j] => i = j
         /\ \A c : c \in ToSet(RemoveFirst(s, e)) <=> c \in ToSet(s) /\ c # e
  <1> DEFINE r == RemoveFirst(s, e)
             n == Len(s)
  <1>1. n \in Nat /\ DOMAIN s = 1..n
    BY LenProperties
  <1>2. PICK k \in 1..n : s[k] = e
    BY <1>1, InTheList
  <1>3. /\ r \in Seq(S) /\ Len(r) = n - 1
        /\ \A j \in 1..(n - 1) : r[j] = IF j < k THEN s[j] ELSE s[j + 1]
    BY <1>2, Removed
  <1>4. DOMAIN r = 1..(n - 1)
    BY <1>3, LenProperties
  <1> HIDE DEF r, n
  <1>5. ASSUME NEW i \in 1..(n - 1), NEW j \in 1..(n - 1), r[i] = r[j]
        PROVE  i = j
    <2> DEFINE at(x) == IF x < k THEN x ELSE x + 1
    <2>1. at(i) \in 1..n /\ at(j) \in 1..n /\ (at(i) = at(j) => i = j)
      BY <1>1, <1>2
    <2>2. r[i] = s[at(i)] /\ r[j] = s[at(j)]
      BY <1>3
    <2> HIDE DEF at
    <2> QED BY <1>5, <2>1, <2>2 DEF n
  <1>6. ASSUME NEW c
        PROVE  c \in ToSet(r) <=> c \in ToSet(s) /\ c # e
    <2>1. c \in ToSet(r) <=> \E j \in 1..(n - 1) : r[j] = c
      BY <1>4, InTheList
    <2>2. c \in ToSet(s) <=> \E j \in 1..n : s[j] = c
      BY <1>1, InTheList
    <2>3. ASSUME NEW j \in 1..(n - 1), r[j] = c
          PROVE  (\E i \in 1..n : s[i] = c) /\ c # e
      <3>1. CASE j < k
        <4>1. j \in 1..n /\ j # k /\ s[j] = c
          BY <1>1, <1>2, <1>3, <2>3, <3>1
        <4> QED BY <4>1, <1>2 DEF n
      <3>2. CASE ~(j < k)
        <4>1. j + 1 \in 1..n /\ j + 1 # k /\ s[j + 1] = c
          BY <1>1, <1>2, <1>3, <2>3, <3>2
        <4> QED BY <4>1, <1>2 DEF n
      <3> QED BY <3>1, <3>2
    <2>4. ASSUME NEW i \in 1..n, s[i] = c, c # e
          PROVE  \E j \in 1..(n - 1) : r[j] = c
      <3>1. i # k
        BY <2>4, <1>2
      <3>2. CASE i < k
        <4>1. i \in 1..(n - 1)
          BY <3>2, <1>1, <1>2
        <4> QED BY <4>1, <3>2, <1>3, <2>4
      <3>3. CASE i > k
        <4>1. i - 1 \in 1..(n - 1) /\ ~(i - 1 < k) /\ (i - 1) + 1 = i
          BY <3>3, <1>1, <1>2
        <4>2. r[i - 1] = c
          BY <4>1, <1>3, <2>4
        <4> QED BY <4>1, <4>2
      <3> QED BY <3>1, <3>2, <3>3, <1>1, <1>2
    <2> QED BY <2>1, <2>2, <2>3, <2>4
  <1> QED BY <1>3, <1>5, <1>6 DEF r

LEMMA StayedAfter ==
  ASSUME NEW r \in Seq(Message), NEW m \in Message, NEW c \in Clients
  PROVE  StayedIn(Append(r, m), c)
           <=> IF m.from = c THEN m.kind # "quit" ELSE StayedIn(r, c)
  <1> DEFINE n == Len(r)
             s == Append(r, m)
  <1>1. /\ n \in Nat /\ Len(s) = n + 1 /\ s[n + 1] = m
        /\ \A i \in 1..n : s[i] = r[i]
    BY AppendProperties, LenProperties
  <1>2. StayedIn(r, c) <=> \E i \in 1..n : /\ r[i].from = c /\ r[i].kind # "quit"
                                           /\ \A j \in (i + 1)..n : r[j].from # c
    BY DEF StayedIn
  <1>3. StayedIn(s, c) <=> \E i \in 1..(n + 1) : /\ s[i].from = c /\ s[i].kind # "quit"
                                                 /\ \A j \in (i + 1)..(n + 1) : s[j].from # c
    BY <1>1 DEF StayedIn
  <1> HIDE DEF n, s
  <1>4. CASE m.from = c
    <2>1. \A i \in 1..n : n + 1 \in (i + 1)..(n + 1)
      BY <1>1
    <2>2. (n + 1) + 1 > n + 1 /\ n + 1 \in 1..(n + 1)
      BY <1>1
    <2>3. \A i \in 1..(n + 1) : i \in 1..n \/ i = n + 1
      BY <1>1
    <2>4. (n + 1 + 1)..(n + 1) = {}
      BY <1>1
    <2>5. StayedIn(s, c) <=> s[n + 1].from = c /\ s[n + 1].kind # "quit"
      BY <1>1, <1>3, <1>4, <2>1, <2>2, <2>3, <2>4
    <2> QED BY <1>1, <1>4, <2>5 DEF s
  <1>5. CASE m.from # c
    <2>1. \A i \in 1..(n + 1) : i \in 1..n \/ i = n + 1
      BY <1>1
    <2>2. \A i \in 1..n : i \in 1..(n + 1)
      BY <1>1
    <2>3. ASSUME NEW i \in 1..n
          PROVE  (\A j \in (i + 1)..(n + 1) : s[j].from # c) <=> (\A j \in (i + 1)..n : r[j].from # c)
      <3>1. \A j \in (i + 1)..n : j \in 1..n /\ j \in (i + 1)..(n + 1)
        BY <1>1
      <3>2. \A j \in (i + 1)..(n + 1) : j \in (i + 1)..n \/ j = n + 1
        BY <1>1
      <3> QED BY <1>1, <1>5, <3>1, <3>2
    <2> QED BY <1>1, <1>2, <1>3, <1>5, <2>1, <2>2, <2>3 DEF s
  <1> QED BY <1>4, <1>5

-----------------------------------------------------------------------------
(***************************************************************************)
(* What happens outside the lock.                                          *)
(***************************************************************************)
LEMMA RouteUntouched ==
  ASSUME IInv, UNCHANGED <<taskVars, routeVars>>
  PROVE  /\ LockHeld' /\ TaskHeld' /\ ListedOnce' /\ Listed' /\ Delivered'
         /\ idx' \in [Workers -> Nat] /\ \A w \in Workers : idx'[w] <= Len(online') + 1
  BY DEF IInv, TypeOK, taskVars, routeVars, LockHeld, TaskHeld, ListedOnce, Listed, Delivered,
         InProgress, IsExist, Sending

LEMMA ClientSends ==
  ASSUME IInv, NEW c \in Clients, Send(c)
  PROVE  IInv'
  <1>1. /\ LockHeld' /\ TaskHeld' /\ ListedOnce' /\ Listed' /\ Delivered'
        /\ idx' \in [Workers -> Nat] /\ \A w \in Workers : idx'[w] <= Len(online') + 1
    BY RouteUntouched DEF Send
  <1>2. /\ MaxExtra \in Nat /\ count \in [Clients -> 0..(MaxExtra + 2)]
        /\ extra \in 0..MaxExtra /\ left \subseteq Clients
        /\ \A d \in Clients : count[d] <= extra + (IF d \in left THEN 2 ELSE 1)
        /\ c \notin left /\ count[c] <= extra + 1
    BY ChatAssumption DEF IInv, TypeOK, Counted, Send
  <1>3. /\ count' = [count EXCEPT ![c] = @ + 1]
        /\ extra' \in 0..MaxExtra /\ left' \subseteq Clients /\ left \subseteq left'
        /\ extra <= extra'
        /\ count[c] + 1 <= extra' + (IF c \in left' THEN 2 ELSE 1)
        /\ \E kind \in {"text", "empty", "quit"} :
              net' = net \cup {[from |-> c, no |-> count[c] + 1, kind |-> kind]}
    <2>1. CASE count[c] = 0 /\ SendTo(c, "text") /\ UNCHANGED <<left, extra>>
      BY <1>2, <2>1 DEF SendTo
    <2>2. CASE /\ count[c] > 0 /\ OneMore
               /\ \E kind \in {"text", "empty"} : SendTo(c, kind)
               /\ UNCHANGED left
      BY <1>2, <2>2 DEF SendTo, OneMore
    <2>3. CASE count[c] > 0 /\ SendTo(c, "quit") /\ left' = left \cup {c} /\ UNCHANGED extra
      BY <1>2, <2>3 DEF SendTo
    <2> QED BY <2>1, <2>2, <2>3 DEF Send
  <1>4. Counted'
    BY <1>2, <1>3 DEF Counted
  <1>5. /\ count' \in [Clients -> 0..(MaxExtra + 2)]
        /\ count[c] + 1 \in 1..(MaxExtra + 2)
    BY <1>2, <1>3
  <1>6. net' \subseteq Message
    BY <1>3, <1>5 DEF IInv, TypeOK, Message
  <1>7. UNCHANGED <<queue, wpc, wmsg, mutex, online, inbox, routed>>
    BY DEF Send, taskVars, routeVars
  <1>8. TypeOK'
    BY <1>1, <1>3, <1>5, <1>6, <1>7 DEF IInv, TypeOK
  <1> QED BY <1>1, <1>4, <1>8 DEF IInv

LEMMA NetworkLoses ==
  ASSUME IInv, NEW m \in net, Lose(m)
  PROVE  IInv'
  <1>1. /\ LockHeld' /\ TaskHeld' /\ ListedOnce' /\ Listed' /\ Delivered'
        /\ idx' \in [Workers -> Nat] /\ \A w \in Workers : idx'[w] <= Len(online') + 1
    BY RouteUntouched DEF Lose
  <1>2. Counted' /\ net' \subseteq Message
    BY DEF IInv, TypeOK, Counted, Lose
  <1> QED BY <1>1, <1>2 DEF IInv, TypeOK, Lose, taskVars, routeVars

LEMMA ServerReceives ==
  ASSUME IInv, NEW m \in net, Receive(m)
  PROVE  IInv'
  <1>1. /\ LockHeld' /\ TaskHeld' /\ ListedOnce' /\ Listed' /\ Delivered'
        /\ idx' \in [Workers -> Nat] /\ \A w \in Workers : idx'[w] <= Len(online') + 1
    BY RouteUntouched DEF Receive
  <1>2. extra' \in 0..MaxExtra /\ extra <= extra' /\ UNCHANGED <<count, left>>
    BY ChatAssumption DEF IInv, TypeOK, Receive, OneMore
  <1>3. Counted'
    BY SMTT(30), <1>2, ChatAssumption DEF IInv, TypeOK, Counted
  <1>4. net' \subseteq Message /\ queue' \in Seq(Message)
    BY AppendProperties DEF IInv, TypeOK, Receive
  <1> QED BY <1>1, <1>2, <1>3, <1>4 DEF IInv, TypeOK, Receive, taskVars, routeVars

-----------------------------------------------------------------------------
(***************************************************************************)
(* A thread of the pool.                                                   *)
(***************************************************************************)
LEMMA ThreadTakes ==
  ASSUME IInv, NEW w \in Workers, TakeTask(w)
  PROVE  IInv'
  <1>1. /\ wpc[w] = "idle" /\ queue # <<>> /\ queue \in Seq(Message)
        /\ wpc \in [Workers -> {"idle", "lock", "test", "add", "send"}]
        /\ wpc' = [wpc EXCEPT ![w] = "lock"]
        /\ wmsg' = [wmsg EXCEPT ![w] = Head(queue)] /\ queue' = Tail(queue)
        /\ wmsg \in [Workers -> Message \cup {Nobody}]
        /\ UNCHANGED <<count, left, net, extra, idx, mutex, online, inbox, routed>>
    BY DEF IInv, TypeOK, TakeTask, WGoto, netVars, routeVars
  <1>2. Head(queue) \in Message /\ queue' \in Seq(Message)
    BY <1>1, HeadTailProperties
  <1>3. TypeOK'
    BY <1>1, <1>2 DEF IInv, TypeOK
  <1>4. Counted' /\ ListedOnce'
    BY <1>1 DEF IInv, Counted, ListedOnce
  <1>5. LockHeld' /\ TaskHeld'
    BY <1>1, <1>2 DEF IInv, LockHeld, TaskHeld, InProgress, IsExist
  <1>6. Listed'
    BY <1>1 DEF IInv, Listed, IsExist, Sending
  <1>7. Delivered'
    <2>1. idx[w] = 0
      BY <1>1 DEF IInv, TaskHeld
    <2> QED BY <1>1, <2>1 DEF IInv, Delivered
  <1> QED BY <1>3, <1>4, <1>5, <1>6, <1>7 DEF IInv

LEMMA ThreadLocks ==
  ASSUME IInv, NEW w \in Workers, LockRoute(w)
  PROVE  IInv'
  <1>1. /\ wpc[w] = "lock" /\ mutex = Nobody /\ mutex' = w /\ Nobody \notin Workers
        /\ wpc \in [Workers -> {"idle", "lock", "test", "add", "send"}]
        /\ wpc' = [wpc EXCEPT ![w] = "test"]
        /\ UNCHANGED <<count, left, net, extra, queue, wmsg, idx, online, inbox, routed>>
    BY ChatAssumption DEF IInv, TypeOK, LockRoute, Lock, WGoto, netVars
  <1>2. TypeOK'
    BY <1>1 DEF IInv, TypeOK
  <1>3. Counted' /\ ListedOnce'
    BY <1>1 DEF IInv, Counted, ListedOnce
  <1>4. LockHeld' /\ TaskHeld'
    BY <1>1 DEF IInv, LockHeld, TaskHeld, InProgress, IsExist
  <1>5. Listed'
    BY <1>1 DEF IInv, Listed, IsExist, Sending
  <1>6. Delivered'
    BY <1>1 DEF IInv, Delivered
  <1> QED BY <1>2, <1>3, <1>4, <1>5, <1>6 DEF IInv

LEMMA ThreadTests ==
  ASSUME IInv, NEW w \in Workers, TestUser(w)
  PROVE  IInv'
  <1>1. /\ wpc[w] = "test" /\ idx \in [Workers -> Nat]
        /\ wpc \in [Workers -> {"idle", "lock", "test", "add", "send"}]
        /\ wpc' = [wpc EXCEPT ![w] = IF IsExist(wmsg[w].from) THEN "send" ELSE "add"]
        /\ idx' = [idx EXCEPT ![w] = 1]
        /\ UNCHANGED <<count, left, net, extra, queue, wmsg, mutex, online, inbox, routed>>
    BY DEF IInv, TypeOK, TestUser, WGoto, netVars, routeVars
  <1>2. wmsg[w] \in Message /\ Len(online) \in Nat
    BY <1>1, LenProperties DEF IInv, TypeOK, TaskHeld
  <1>3. TypeOK'
    BY <1>1, <1>2 DEF IInv, TypeOK
  <1>4. Counted' /\ ListedOnce'
    BY <1>1 DEF IInv, Counted, ListedOnce
  <1>5. LockHeld'
    BY <1>1 DEF IInv, LockHeld, InProgress
  <1>6. TaskHeld'
    BY <1>1, <1>2 DEF IInv, TaskHeld, IsExist
  <1>7. Listed'
    <2>1. ASSUME NEW c \in Clients, NEW v \in Workers
          PROVE  Sending(v, c)' <=> Sending(v, c) \/ (v = w /\ wmsg[w].from = c /\ IsExist(c))
      BY <1>1 DEF Sending
    <2> QED BY <1>1, <2>1 DEF IInv, Listed, IsExist
  <1>8. Delivered'
    BY <1>1 DEF IInv, Delivered
  <1> QED BY <1>3, <1>4, <1>5, <1>6, <1>7, <1>8 DEF IInv

(* Only the thread inside the lock is anywhere in a loop.                  *)
LEMMA OneInside ==
  ASSUME IInv, NEW w \in Workers, InProgress(w)
  PROVE  \A v \in Workers \ {w} : /\ ~InProgress(v) /\ wpc[v] \in {"idle", "lock"} /\ idx[v] = 0
  BY DEF IInv, TypeOK, LockHeld, TaskHeld, InProgress

LEMMA ThreadAdds ==
  ASSUME IInv, NEW w \in Workers, AddUser(w)
  PROVE  IInv'
  <1> DEFINE user == wmsg[w].from
             n == Len(online)
  <1>1. /\ wpc[w] = "add" /\ online \in Seq(Clients) /\ n \in Nat /\ idx[w] = 1
        /\ wpc \in [Workers -> {"idle", "lock", "test", "add", "send"}]
        /\ wpc' = [wpc EXCEPT ![w] = "send"] /\ idx \in [Workers -> Nat]
        /\ online' = Append(online, user)
        /\ UNCHANGED <<count, left, net, extra, queue, wmsg, idx, mutex, inbox, routed>>
    BY LenProperties DEF IInv, TypeOK, TaskHeld, AddUser, WGoto, netVars
  <1>2. wmsg[w] \in Message /\ user \in Clients /\ ~IsExist(user)
    BY <1>1 DEF IInv, TaskHeld, Message
  <1>3. /\ online' \in Seq(Clients) /\ Len(online') = n + 1 /\ online'[n + 1] = user
        /\ \A i \in 1..n : online'[i] = online[i]
        /\ DOMAIN online = 1..n /\ DOMAIN online' = 1..(n + 1)
    BY <1>1, <1>2, AppendProperties, LenProperties
  <1>4. \A v \in Workers \ {w} : ~InProgress(v) /\ wpc[v] \in {"idle", "lock"} /\ idx[v] = 0
    BY <1>1, OneInside DEF InProgress
  <1> HIDE DEF n, user
  <1>5. \A i \in 1..n : online[i] # user
    BY <1>2, <1>3, InTheList DEF IsExist
  <1>6. \A c \in Clients : IsExist(c)' <=> IsExist(c) \/ c = user
    <2>1. ASSUME NEW c \in Clients PROVE IsExist(c) <=> \E i \in 1..n : online[i] = c
      BY <1>3, InTheList DEF IsExist
    <2>2. ASSUME NEW c \in Clients PROVE IsExist(c)' <=> \E i \in 1..(n + 1) : online'[i] = c
      BY <1>3, InTheList DEF IsExist
    <2>3. \A i : i \in 1..(n + 1) <=> i \in 1..n \/ i = n + 1
      BY <1>1
    <2> QED BY <2>1, <2>2, <2>3, <1>3
  <1>7. TypeOK'
    BY <1>1, <1>3 DEF IInv, TypeOK, n
  <1>8. Counted'
    BY <1>1 DEF IInv, Counted
  <1>9. ListedOnce'
    <2>1. \A i \in 1..Len(online') : i \in 1..n \/ i = n + 1
      BY <1>1, <1>3
    <2> QED BY <2>1, <1>3, <1>5 DEF IInv, ListedOnce, n
  <1>10. LockHeld'
    BY <1>1 DEF IInv, LockHeld, InProgress
  <1>11. TaskHeld'
    <2> SUFFICES ASSUME NEW v \in Workers
                 PROVE  /\ wpc'[v] # "idle" => wmsg'[v] \in Message
                        /\ wpc'[v] = "add" => idx'[v] = 1 /\ ~IsExist(wmsg[v].from)'
                        /\ wpc'[v] = "send" => idx'[v] >= 1 /\ IsExist(wmsg[v].from)'
                        /\ wpc'[v] \notin {"add", "send"} => idx'[v] = 0
      BY DEF TaskHeld
    <2>1. CASE v = w
      <3>1. wpc'[v] = "send" /\ wmsg'[v] \in Message /\ idx'[v] = 1
        BY <2>1, <1>1, <1>2
      <3>2. wmsg'[v].from \in ToSet(online')
        BY <2>1, <1>1, <1>2, <1>6 DEF IsExist, user
      <3> QED BY <3>1, <3>2 DEF IsExist
    <2>2. CASE v # w
      BY <2>2, <1>1, <1>4 DEF IInv, TaskHeld
    <2> QED BY <2>1, <2>2
  <1>12. Listed'
    <2>1. ASSUME NEW c \in Clients, NEW v \in Workers
          PROVE  Sending(v, c)' <=> v = w /\ c = user
      BY <1>1, <1>4 DEF Sending, user
    <2>2. \A c \in Clients, v \in Workers : ~Sending(v, c)
      BY <1>1, <1>4 DEF Sending
    <2> QED BY <1>1, <1>6, <2>1, <2>2 DEF IInv, Listed
  <1>13. Delivered'
    BY <1>1, <1>4 DEF Delivered
  <1> QED BY <1>7, <1>8, <1>9, <1>10, <1>11, <1>12, <1>13 DEF IInv

LEMMA ThreadSends ==
  ASSUME IInv, NEW w \in Workers, SendToUser(w)
  PROVE  IInv'
  <1> DEFINE k == idx[w]
             user == online[k]
  <1>1. /\ wpc[w] = "send" /\ k \in Nat /\ k >= 1 /\ k <= Len(online) /\ Len(online) \in Nat
        /\ idx \in [Workers -> Nat] /\ idx' = [idx EXCEPT ![w] = k + 1]
        /\ inbox \in [Clients -> Seq(Message)]
        /\ inbox' = [inbox EXCEPT ![user] = Append(inbox[user], wmsg[w])]
        /\ wmsg[w] \in Message
        /\ UNCHANGED <<count, left, net, extra, queue, wpc, wmsg, mutex, online, routed>>
    BY LenProperties DEF IInv, TypeOK, TaskHeld, SendToUser, netVars
  <1>2. user \in Clients
    BY <1>1, ElementOfSeq DEF IInv, TypeOK
  <1>3. \A v \in Workers \ {w} : ~InProgress(v) /\ wpc[v] \in {"idle", "lock"} /\ idx[v] = 0
    BY <1>1, OneInside DEF InProgress
  <1> HIDE DEF k, user
  <1>4. /\ Append(inbox[user], wmsg[w]) \in Seq(Message)
        /\ Append(inbox[user], wmsg[w]) # <<>>
        /\ Last(Append(inbox[user], wmsg[w])) = wmsg[w]
    <2>1. inbox[user] \in Seq(Message)
      BY <1>1, <1>2
    <2> QED BY <2>1, <1>1, AppendProperties, LenProperties DEF Last
  <1>5. TypeOK'
    <2>1. inbox' \in [Clients -> Seq(Message)]
      BY <1>1, <1>2, <1>4
    <2>2. idx' \in [Workers -> Nat] /\ \A v \in Workers : idx'[v] <= Len(online') + 1
      <3>1. \A v \in Workers : idx[v] <= Len(online) + 1
        BY DEF IInv, TypeOK
      <3> QED BY <3>1, <1>1
    <2> QED BY <1>1, <2>1, <2>2 DEF IInv, TypeOK
  <1>6. Counted' /\ ListedOnce'
    BY <1>1 DEF IInv, Counted, ListedOnce
  <1>7. LockHeld' /\ Listed'
    BY <1>1 DEF IInv, LockHeld, InProgress, Listed, Sending, IsExist
  <1>8. TaskHeld'
    BY <1>1, <1>3 DEF IInv, TaskHeld, IsExist
  <1>9. Delivered'
    <2> SUFFICES ASSUME NEW v \in Workers, NEW i \in 1..(idx'[v] - 1)
                 PROVE  inbox'[online[i]] # <<>> /\ Last(inbox'[online[i]]) = wmsg[v]
      BY SMTT(30), <1>1 DEF Delivered
    <2>1. v = w /\ i \in 1..k
      BY <1>1, <1>3
    <2>2. CASE i = k
      BY <2>1, <2>2, <1>1, <1>2, <1>4 DEF user
    <2>3. CASE i # k
      <3>1. i \in 1..(idx[w] - 1) /\ i \in 1..Len(online) /\ k \in 1..Len(online)
        BY <2>1, <2>3, <1>1 DEF k
      <3>2. online[i] # user
        BY <2>3, <3>1 DEF IInv, ListedOnce, user
      <3>3. inbox'[online[i]] = inbox[online[i]]
        <4>1. online[i] \in Clients
          BY <3>1, ElementOfSeq DEF IInv, TypeOK
        <4> QED BY <4>1, <3>2, <1>1
      <3> QED BY <2>1, <3>1, <3>3 DEF IInv, Delivered
    <2> QED BY <2>2, <2>3
  <1> QED BY <1>5, <1>6, <1>7, <1>8, <1>9 DEF IInv

LEMMA ThreadFinishes ==
  ASSUME IInv, NEW w \in Workers, FinishRoute(w)
  PROVE  IInv'
  <1> DEFINE m == wmsg[w]
             user == wmsg[w].from
  <1>1. /\ wpc[w] = "send" /\ online \in Seq(Clients) /\ routed \in Seq(Message)
        /\ wpc \in [Workers -> {"idle", "lock", "test", "add", "send"}]
        /\ wmsg \in [Workers -> Message \cup {Nobody}] /\ idx \in [Workers -> Nat]
        /\ wpc' = [wpc EXCEPT ![w] = "idle"] /\ idx' = [idx EXCEPT ![w] = 0]
        /\ wmsg' = [wmsg EXCEPT ![w] = Nobody] /\ mutex' = Nobody
        /\ online' = (IF m.kind = "quit" THEN RemoveFirst(online, user) ELSE online)
        /\ routed' = Append(routed, m)
        /\ UNCHANGED <<count, left, net, extra, queue, inbox>>
    BY DEF IInv, TypeOK, TaskHeld, FinishRoute, WGoto, netVars, DeleteUser, Unlock
  <1>2. m \in Message /\ user \in Clients /\ user \in ToSet(online)
    BY <1>1 DEF IInv, TaskHeld, Message, IsExist
  <1>3. \A v \in Workers \ {w} : ~InProgress(v) /\ wpc[v] \in {"idle", "lock"} /\ idx[v] = 0
    BY <1>1, OneInside DEF InProgress
  <1>4. /\ online' \in Seq(Clients)
        /\ \A i, j \in 1..Len(online') : online'[i] = online'[j] => i = j
        /\ \A c : c \in ToSet(online') <=> c \in ToSet(online) /\ (m.kind = "quit" => c # user)
    <2>1. \A i, j \in 1..Len(online) : online[i] = online[j] => i = j
      BY DEF IInv, ListedOnce
    <2>2. CASE m.kind = "quit"
      <3>1. online' = RemoveFirst(online, user)
        BY <1>1, <2>2
      <3> HIDE DEF m, user
      <3>2. /\ RemoveFirst(online, user) \in Seq(Clients)
            /\ \A i, j \in 1..Len(RemoveFirst(online, user)) :
                  RemoveFirst(online, user)[i] = RemoveFirst(online, user)[j] => i = j
            /\ \A c : c \in ToSet(RemoveFirst(online, user)) <=> c \in ToSet(online) /\ c # user
        BY <1>1, <1>2, <2>1, RemovedOnce
      <3> QED BY <3>1, <3>2, <2>2
    <2>3. CASE m.kind # "quit"
      BY <1>1, <2>1, <2>3
    <2> QED BY <2>2, <2>3
  <1>5. \A v \in Workers : idx'[v] = 0 /\ wpc'[v] \in {"idle", "lock"}
    BY <1>1, <1>3
  <1> HIDE DEF m, user
  <1>6. TypeOK'
    <2>1. routed' \in Seq(Message) /\ Len(online') \in Nat
      BY <1>1, <1>2, <1>4, AppendProperties, LenProperties
    <2> QED BY SMTT(30), <1>1, <1>4, <1>5, <2>1 DEF IInv, TypeOK
  <1>7. Counted' /\ ListedOnce'
    BY <1>1, <1>4 DEF IInv, Counted, ListedOnce
  <1>8. LockHeld'
    BY <1>1, <1>5, ChatAssumption DEF LockHeld, InProgress
  <1>9. TaskHeld'
    <2>1. ASSUME NEW v \in Workers, wpc'[v] # "idle" PROVE wmsg'[v] \in Message
      BY <2>1, <1>1 DEF IInv, TaskHeld
    <2> QED BY <1>5, <2>1 DEF TaskHeld
  <1>10. Listed'
    <2> SUFFICES ASSUME NEW c \in Clients
                 PROVE  c \in ToSet(online') <=> StayedIn(routed', c)
      BY <1>5 DEF Listed, IsExist, Sending
    <2>1. StayedIn(routed', c) <=> IF user = c THEN m.kind # "quit" ELSE StayedIn(routed, c)
      BY <1>1, <1>2, StayedAfter DEF user, m
    <2>2. c \in ToSet(online) <=> StayedIn(routed, c) \/ c = user
      <3>1. (\E v \in Workers : Sending(v, c)) <=> c = user
        BY <1>1, <1>3 DEF Sending, user
      <3> QED BY <3>1 DEF IInv, Listed, IsExist
    <2> QED BY <1>2, <1>4, <2>1, <2>2
  <1>11. Delivered'
    BY <1>5 DEF Delivered
  <1> QED BY <1>6, <1>7, <1>8, <1>9, <1>10, <1>11 DEF IInv

(***************************************************************************)
(* The inductive invariant and what it says.                               *)
(***************************************************************************)
LEMMA Inductive == IInv /\ [Next]_vars => IInv'
  <1> SUFFICES ASSUME IInv, [Next]_vars PROVE IInv'
    OBVIOUS
  <1>1. CASE UNCHANGED vars
    <2>1. /\ LockHeld' /\ TaskHeld' /\ ListedOnce' /\ Listed' /\ Delivered'
      BY <1>1, RouteUntouched DEF vars, taskVars, routeVars
    <2> QED BY <1>1, <2>1 DEF vars, IInv, TypeOK, Counted
  <1>2. CASE Terminated
    BY <1>1, <1>2 DEF Terminated
  <1>3. ASSUME NEW c \in Clients, Send(c) PROVE IInv'
    BY <1>3, ClientSends
  <1>4. ASSUME NEW m \in net, Lose(m) \/ Receive(m) PROVE IInv'
    BY <1>4, NetworkLoses, ServerReceives
  <1>5. ASSUME NEW w \in Workers, TakeTask(w) \/ MessageRoute(w) PROVE IInv'
    BY <1>5, ThreadTakes, ThreadLocks, ThreadTests, ThreadAdds, ThreadSends, ThreadFinishes
       DEF MessageRoute
  <1> QED BY <1>1, <1>2, <1>3, <1>4, <1>5 DEF Next

LEMMA Initially == Init => IInv
  <1> SUFFICES ASSUME Init PROVE IInv
    OBVIOUS
  <1>1. Len(online) = 0 /\ ToSet(online) = {} /\ Len(routed) = 0
    BY DEF Init, ToSet
  <1>2. TypeOK
    BY <1>1, ChatAssumption DEF Init, TypeOK
  <1>3. Counted /\ LockHeld /\ TaskHeld
    BY ChatAssumption DEF Init, Counted, LockHeld, TaskHeld, InProgress
  <1>4. ListedOnce /\ Listed /\ Delivered
    BY <1>1 DEF Init, ListedOnce, Listed, Delivered, IsExist, StayedIn, Sending
  <1> QED BY <1>2, <1>3, <1>4 DEF IInv

THEOREM Invariance == Safety => []IInv
  BY Initially, Inductive, PTL DEF Safety

(* The types, and that the loop of a thread over the users stays within    *)
(* the list, which DeleteUser shortens.                                    *)
THEOREM TypeCorrect == Safety => []TypeOK
  <1>1. IInv => TypeOK
    BY DEF IInv
  <1> QED BY <1>1, Invariance, PTL

(* While _online_users is not locked it lists, each of them once, the      *)
(* users that have written and have not quit since.                        *)
THEOREM ListIsRight == Safety => []OnlineIffNotQuit
  <1>1. IInv => OnlineIffNotQuit
    <2> SUFFICES ASSUME IInv, mutex = Nobody, NEW c \in Clients
                 PROVE  ListedOnce /\ (c \in ToSet(online) <=> SpokeLastButStayed(c))
      BY DEF OnlineIffNotQuit, IInv
    <2>1. ~ \E w \in Workers : Sending(w, c)
      BY ChatAssumption DEF IInv, LockHeld, InProgress, Sending
    <2>2. SpokeLastButStayed(c) <=> StayedIn(routed, c)
      BY DEF SpokeLastButStayed, StayedIn
    <2> QED BY <2>1, <2>2 DEF IInv, Listed, IsExist
  <1> QED BY <1>1, Invariance, PTL

-----------------------------------------------------------------------------
(***************************************************************************)
(* The refinement of ChatRoom: a message is posted when its MessageRoute   *)
(* returns.  Until then the users its loop has passed are shown without it.*)
(***************************************************************************)
Members == {c \in Clients : SpokeLastButStayed(c)}

Shown == [c \in Clients |->
            IF \E w \in Workers : /\ InProgress(w) /\ idx[w] > 1
                                  /\ c \in ToSet(SubSeq(online, 1, idx[w] - 1))
            THEN Front(inbox[c]) ELSE inbox[c]]

Passed(c) == \E w \in Workers : \E i \in 1..(idx[w] - 1) : online[i] = c

LEMMA InPrefix ==
  ASSUME NEW S, NEW s \in Seq(S), NEW n \in 1..Len(s), NEW c
  PROVE  c \in ToSet(SubSeq(s, 1, n)) <=> \E i \in 1..n : s[i] = c
  <1> DEFINE p == SubSeq(s, 1, n)
  <1>1. Len(s) \in Nat /\ \A i \in 1..n : s[i] \in S
    BY LenProperties, ElementOfSeq
  <1>2. p \in Seq(S) /\ Len(p) = n /\ \A i \in 1..n : p[i] = s[i]
    BY <1>1, SubSeqProperties
  <1> HIDE DEF p
  <1>3. DOMAIN p = 1..n
    BY <1>2, LenProperties
  <1>4. c \in ToSet(p) <=> \E i \in 1..n : s[i] = c
    BY <1>2, <1>3, InTheList
  <1> QED BY <1>4 DEF p

LEMMA FrontOfAppend ==
  ASSUME NEW S, NEW s \in Seq(S), NEW e \in S
  PROVE  Front(Append(s, e)) = s
  BY HeadTailAppend DEF Front

LEMMA AppendToFront ==
  ASSUME NEW S, NEW s \in Seq(S), s # <<>>
  PROVE  /\ Front(s) \in Seq(S)
         /\ Append(Front(s), Last(s)) = s
  <1>1. /\ Len(s) \in Nat /\ Len(s) # 0 /\ \A i \in 1..Len(s) : s[i] \in S
    BY LenProperties, ElementOfSeq, EmptySeq
  <1>2. /\ Front(s) \in Seq(S) /\ Len(Front(s)) = Len(s) - 1
        /\ \A i \in 1..(Len(s) - 1) : Front(s)[i] = s[i]
    <2> DEFINE n == Len(s) - 1
    <2>1. n \in Nat /\ \A i \in 1..n : s[i] \in S
      BY <1>1
    <2> HIDE DEF n
    <2>2. /\ SubSeq(s, 1, n) \in Seq(S)
          /\ Len(SubSeq(s, 1, n)) = IF 1 <= n THEN n - 1 + 1 ELSE 0
          /\ \A i \in 1..(n - 1 + 1) : SubSeq(s, 1, n)[i] = s[1 + i - 1]
      BY <2>1, SubSeqProperties
    <2>3. Len(SubSeq(s, 1, n)) = n /\ \A i \in 1..n : SubSeq(s, 1, n)[i] = s[i]
      BY <2>1, <2>2
    <2> QED BY <2>2, <2>3 DEF Front, n
  <1>3. Last(s) = s[Len(s)] /\ Last(s) \in S
    BY <1>1 DEF Last
  <1> DEFINE t == Append(Front(s), Last(s))
  <1>4. /\ t \in Seq(S) /\ Len(t) = Len(s)
        /\ \A i \in 1..(Len(s) - 1) : t[i] = s[i]
        /\ t[Len(s)] = s[Len(s)]
    <2> DEFINE f == Front(s)
               l == Last(s)
    <2>1. f \in Seq(S) /\ l \in S /\ Len(f) = Len(s) - 1
      BY <1>2, <1>3
    <2> HIDE DEF f, l
    <2>2. /\ Append(f, l) \in Seq(S) /\ Len(Append(f, l)) = Len(f) + 1
          /\ \A i \in 1..Len(f) : Append(f, l)[i] = f[i]
          /\ Append(f, l)[Len(f) + 1] = l
      BY <2>1, AppendProperties
    <2> QED BY <1>1, <1>2, <1>3, <2>1, <2>2 DEF f, l
  <1> HIDE DEF t
  <1>5. \A i \in 1..Len(t) : t[i] = s[i]
    BY <1>1, <1>4
  <1>6. t = s
    BY <1>4, <1>5, SeqEqual
  <1> QED BY <1>2, <1>6 DEF t

ShownByPassed ==
    Shown = [c \in Clients |-> IF Passed(c) THEN Front(inbox[c]) ELSE inbox[c]]

LEMMA ShownIs == IInv => ShownByPassed
  <1> SUFFICES ASSUME IInv, NEW c \in Clients
               PROVE  (\E w \in Workers : /\ InProgress(w) /\ idx[w] > 1
                                          /\ c \in ToSet(SubSeq(online, 1, idx[w] - 1)))
                        <=> Passed(c)
    BY DEF ShownByPassed, Shown
  <1>1. ASSUME NEW w \in Workers
        PROVE  (/\ InProgress(w) /\ idx[w] > 1
                /\ c \in ToSet(SubSeq(online, 1, idx[w] - 1)))
                  <=> \E i \in 1..(idx[w] - 1) : online[i] = c
    <2>1. /\ idx[w] \in Nat /\ idx[w] <= Len(online) + 1 /\ online \in Seq(Clients)
          /\ Len(online) \in Nat
          /\ idx[w] > 1 => InProgress(w)
      BY LenProperties DEF IInv, TypeOK, TaskHeld, InProgress
    <2>2. CASE idx[w] > 1
      <3>1. idx[w] - 1 \in 1..Len(online)
        BY <2>1, <2>2
      <3>2. c \in ToSet(SubSeq(online, 1, idx[w] - 1))
              <=> \E i \in 1..(idx[w] - 1) : online[i] = c
        BY <2>1, <3>1, InPrefix
      <3> QED BY <2>1, <2>2, <3>2
    <2>3. CASE ~(idx[w] > 1)
      BY <2>1, <2>3
    <2> QED BY <2>2, <2>3
  <1> QED BY <1>1 DEF Passed

LEMMA ShownNext ==
  IInv' => Shown' = [c \in Clients |-> IF Passed(c)' THEN Front(inbox'[c]) ELSE inbox'[c]]
  <1>1. IInv' => ShownByPassed'
    BY ShownIs, PTL
  <1> QED BY <1>1 DEF ShownByPassed

LEMMA QuietStep ==
  ASSUME IInv, IInv', UNCHANGED <<inbox, routed>>, \A c \in Clients : Passed(c)' <=> Passed(c)
  PROVE  UNCHANGED <<Members, Shown>>
  <1>1. Members' = Members
    BY DEF Members, SpokeLastButStayed
  <1>2. Shown = [c \in Clients |-> IF Passed(c) THEN Front(inbox[c]) ELSE inbox[c]]
    BY ShownIs DEF ShownByPassed
  <1>3. Shown' = [c \in Clients |-> IF Passed(c)' THEN Front(inbox'[c]) ELSE inbox'[c]]
    BY ShownNext
  <1> QED BY <1>1, <1>2, <1>3

LEMMA SendingIsQuiet ==
  ASSUME IInv, IInv', NEW w \in Workers, SendToUser(w)
  PROVE  UNCHANGED <<Members, Shown>>
  <1> DEFINE k == idx[w]
             user == online[k]
  <1>1. /\ wpc[w] = "send" /\ k \in Nat /\ k >= 1 /\ k <= Len(online) /\ Len(online) \in Nat
        /\ idx \in [Workers -> Nat] /\ idx' = [idx EXCEPT ![w] = k + 1]
        /\ inbox \in [Clients -> Seq(Message)] /\ wmsg[w] \in Message
        /\ inbox' = [inbox EXCEPT ![user] = Append(inbox[user], wmsg[w])]
        /\ online' = online /\ routed' = routed
    BY LenProperties DEF IInv, TypeOK, TaskHeld, SendToUser
  <1>2. \A v \in Workers \ {w} : idx[v] = 0
    BY <1>1, OneInside DEF InProgress
  <1>3. k \in 1..Len(online) /\ \A i \in 1..(k - 1) : i \in 1..Len(online) /\ online[i] # user
    BY <1>1 DEF IInv, ListedOnce
  <1>4. user \in Clients /\ inbox[user] \in Seq(Message)
    BY <1>1, <1>3, ElementOfSeq DEF IInv, TypeOK
  <1>5. ASSUME NEW c \in Clients
        PROVE  /\ Passed(c) <=> \E i \in 1..(k - 1) : online[i] = c
               /\ Passed(c)' <=> \E i \in 1..k : online[i] = c
    <2>1. k + 1 - 1 = k /\ idx'[w] = k + 1 /\ \A v \in Workers \ {w} : idx'[v] = 0
      BY <1>1, <1>2
    <2>2. 1..(0 - 1) = {}
      OBVIOUS
    <2> HIDE DEF k
    <2>3. Passed(c) <=> \E i \in 1..(k - 1) : online[i] = c
      BY <1>2, <2>2 DEF Passed, k
    <2>4. Passed(c)' <=> \E i \in 1..k : online[i] = c
      BY <1>1, <2>1, <2>2 DEF Passed
    <2> QED BY <2>3, <2>4
  <1>6. \A i \in 1..k : i \in 1..(k - 1) \/ i = k
    BY <1>1
  <1>7. k \in 1..k /\ \A i \in 1..(k - 1) : i \in 1..k
    BY <1>1
  <1> HIDE DEF k
  <1>8. /\ \A c \in Clients : c = user => ~Passed(c) /\ Passed(c)'
        /\ \A c \in Clients : c # user => (Passed(c)' <=> Passed(c))
    <2>1. online[k] = user
      OBVIOUS
    <2> HIDE DEF user
    <2> QED BY <1>3, <1>5, <1>6, <1>7, <2>1
  <1>9. Front(inbox'[user]) = inbox[user]
    BY <1>1, <1>4, FrontOfAppend
  <1>10. \A c \in Clients \ {user} : inbox'[c] = inbox[c]
    BY <1>1
  <1>11. Members' = Members
    BY <1>1 DEF Members, SpokeLastButStayed
  <1> HIDE DEF user
  <1>12. Shown' = Shown
    <2>1. /\ Shown = [c \in Clients |-> IF Passed(c) THEN Front(inbox[c]) ELSE inbox[c]]
          /\ Shown' = [c \in Clients |-> IF Passed(c)' THEN Front(inbox'[c]) ELSE inbox'[c]]
      BY ShownIs, ShownNext DEF ShownByPassed
    <2>2. ASSUME NEW c \in Clients
          PROVE  (IF Passed(c)' THEN Front(inbox'[c]) ELSE inbox'[c])
                   = IF Passed(c) THEN Front(inbox[c]) ELSE inbox[c]
      BY <1>8, <1>9, <1>10
    <2> QED BY <2>1, <2>2
  <1> QED BY <1>11, <1>12

LEMMA FinishPosts ==
  ASSUME IInv, IInv', NEW w \in Workers, FinishRoute(w)
  PROVE  wmsg[w] \in Message /\ Room!Post(wmsg[w])
  <1> DEFINE m == wmsg[w]
             user == m.from
             before == [c \in Clients |-> IF Passed(c) THEN Front(inbox[c]) ELSE inbox[c]]
  <1>1. /\ wpc[w] = "send" /\ online \in Seq(Clients) /\ routed \in Seq(Message)
        /\ inbox \in [Clients -> Seq(Message)]
        /\ idx \in [Workers -> Nat] /\ idx' = [idx EXCEPT ![w] = 0]
        /\ routed' = Append(routed, m) /\ inbox' = inbox /\ m \in Message
        /\ Len(online) \in Nat /\ idx[w] - 1 = Len(online) /\ DOMAIN online = 1..Len(online)
    BY SMTT(30), LenProperties DEF IInv, TypeOK, TaskHeld, FinishRoute
  <1>2. \A v \in Workers \ {w} : idx[v] = 0
    BY <1>1, OneInside DEF InProgress
  <1>3. user \in Clients
    BY <1>1 DEF Message
  <1>4. \A c \in Clients : Passed(c) <=> c \in ToSet(online)
    <2>1. 1..(0 - 1) = {}
      OBVIOUS
    <2>2. \A c \in Clients : Passed(c) <=> \E i \in 1..Len(online) : online[i] = c
      BY <1>1, <1>2, <2>1 DEF Passed
    <2> QED BY <1>1, <2>2, InTheList
  <1>5. \A c \in Clients : ~Passed(c)'
    BY <1>1, <1>2 DEF Passed
  <1>6. \A c \in Clients : c \in ToSet(online) <=> SpokeLastButStayed(c) \/ c = user
    <2>1. \A c \in Clients : (\E v \in Workers : Sending(v, c)) <=> c = user
      <3>1. \A v \in Workers \ {w} : wpc[v] # "send"
        BY <1>1, OneInside DEF InProgress
      <3> QED BY <1>1, <3>1 DEF Sending
    <2>2. \A c \in Clients : SpokeLastButStayed(c) <=> StayedIn(routed, c)
      BY DEF SpokeLastButStayed, StayedIn
    <2> QED BY <2>1, <2>2 DEF IInv, Listed, IsExist
  <1>7. \A c \in Clients : SpokeLastButStayed(c)'
                             <=> IF c = user THEN m.kind # "quit" ELSE SpokeLastButStayed(c)
    <2>1. \A c \in Clients : StayedIn(routed', c)
                               <=> IF m.from = c THEN m.kind # "quit" ELSE StayedIn(routed, c)
      BY <1>1, StayedAfter
    <2> QED BY <2>1 DEF SpokeLastButStayed, StayedIn
  <1>8. Shown = before
    BY ShownIs DEF ShownByPassed
  <1>9. Shown' = inbox
    <2>1. inbox = [c \in Clients |-> inbox[c]]
      BY <1>1
    <2> QED BY <1>1, <1>5, <2>1, ShownNext
  <1>10. ASSUME NEW c \in Clients
         PROVE  inbox[c] = IF c \in Members \cup {user} THEN Append(before[c], m) ELSE before[c]
    <2>1. c \in Members \cup {user} <=> Passed(c)
      BY <1>4, <1>6 DEF Members
    <2>2. CASE Passed(c)
      <3>1. PICK i \in 1..(idx[w] - 1) : online[i] = c
        BY <1>1, <1>4, <2>2, InTheList
      <3>2. inbox[c] # <<>> /\ Last(inbox[c]) = m /\ inbox[c] \in Seq(Message)
        BY <1>1, <3>1 DEF IInv, Delivered
      <3>3. Append(Front(inbox[c]), Last(inbox[c])) = inbox[c]
        BY <3>2, AppendToFront
      <3>4. before[c] = Front(inbox[c])
        BY <2>2
      <3> QED BY <2>1, <2>2, <3>2, <3>3, <3>4
    <2>3. CASE ~Passed(c)
      BY <2>1, <2>3
    <2> QED BY <2>2, <2>3
  <1> HIDE DEF before
  <1>11. Shown' = [c \in Clients |-> IF c \in Members \cup {user}
                                    THEN Append(Shown[c], m) ELSE Shown[c]]
    <2>1. inbox = [c \in Clients |-> inbox[c]]
      BY <1>1
    <2> HIDE DEF m, user
    <2> QED BY <1>8, <1>9, <1>10, <2>1
  <1>12. Members' = IF m.kind = "quit" THEN Members \ {user} ELSE Members \cup {user}
    BY <1>3, <1>7 DEF Members
  <1> QED BY <1>1, <1>11, <1>12 DEF Room!Post, From, IsQuit, Members, Shown

LEMMA StepRefines ==
  ASSUME IInv, IInv', [Next]_vars
  PROVE  [Room!Next]_Room!vars
  <1>1. UNCHANGED <<Members, Shown>> => UNCHANGED Room!vars
    BY DEF Room!vars, Members, Shown
  <1>2. ASSUME UNCHANGED <<idx, online, inbox, routed>> PROVE UNCHANGED <<Members, Shown>>
    <2>1. \A c \in Clients : Passed(c)' <=> Passed(c)
      BY <1>2 DEF Passed
    <2> QED BY <1>2, <2>1, QuietStep
  <1>3. ASSUME NEW w \in Workers, TestUser(w) PROVE UNCHANGED <<Members, Shown>>
    <2>1. /\ idx[w] = 0 /\ idx' = [idx EXCEPT ![w] = 1] /\ idx \in [Workers -> Nat]
          /\ UNCHANGED <<online, inbox, routed>>
      BY <1>3 DEF TestUser, IInv, TypeOK, TaskHeld, routeVars
    <2>2. 1..(0 - 1) = {} /\ 1..(1 - 1) = {}
      OBVIOUS
    <2>3. \A c \in Clients : Passed(c)' <=> Passed(c)
      BY <2>1, <2>2 DEF Passed
    <2> QED BY <2>1, <2>3, QuietStep
  <1>4. ASSUME NEW w \in Workers, AddUser(w) PROVE UNCHANGED <<Members, Shown>>
    <2>1. wpc[w] = "add" /\ idx[w] = 1 /\ UNCHANGED <<idx, inbox, routed>>
      BY <1>4 DEF AddUser, IInv, TaskHeld
    <2>2. \A v \in Workers \ {w} : idx[v] = 0
      BY <2>1, OneInside DEF InProgress
    <2>3. \A c \in Clients : Passed(c)' <=> Passed(c)
      BY <2>1, <2>2 DEF Passed
    <2> QED BY <2>1, <2>3, QuietStep
  <1>5. ASSUME NEW w \in Workers, FinishRoute(w) PROVE Room!Next
    <2>1. wmsg[w] \in Message /\ Room!Post(wmsg[w])
      BY <1>5, FinishPosts
    <2> QED BY <2>1 DEF Room!Next, Room!Post
  <1>6. ASSUME NEW w \in Workers, TakeTask(w) \/ LockRoute(w) PROVE UNCHANGED <<Members, Shown>>
    BY <1>2, <1>6 DEF TakeTask, LockRoute, routeVars
  <1>7. ASSUME NEW c \in Clients, Send(c) PROVE UNCHANGED <<Members, Shown>>
    BY <1>2, <1>7 DEF Send, taskVars, routeVars
  <1>8. ASSUME NEW m \in net, Lose(m) \/ Receive(m) PROVE UNCHANGED <<Members, Shown>>
    BY <1>2, <1>8 DEF Lose, Receive, taskVars, routeVars
  <1>9. ASSUME UNCHANGED vars PROVE UNCHANGED <<Members, Shown>>
    BY <1>2, <1>9 DEF vars
  <1> QED BY <1>1, <1>3, <1>4, <1>5, <1>6, <1>7, <1>8, <1>9, SendingIsQuiet
          DEF Next, MessageRoute, Terminated

(* MessageRoute is atomic: every step of the server is a step of the chat  *)
(* room, which posts a message to all its members at once, or none.        *)
THEOREM Refinement == Safety => ImplementsChatRoom
  <1>1. Init => Room!Init
    <2> SUFFICES ASSUME Init PROVE Room!Init
      OBVIOUS
    <2>1. \A w \in Workers : idx[w] = 0 /\ wpc[w] = "idle"
      BY DEF Init
    <2>2. \A c \in Clients : ~SpokeLastButStayed(c) /\ inbox[c] = <<>>
      BY DEF Init, SpokeLastButStayed
    <2> QED BY <2>1, <2>2 DEF Room!Init, InProgress
  <1>2. IInv /\ IInv' /\ [Next]_vars => [Room!Next]_Room!vars
    BY StepRefines
  <1> QED BY <1>1, <1>2, Invariance, PTL DEF Safety, ImplementsChatRoom, Room!Spec
=============================================================================
