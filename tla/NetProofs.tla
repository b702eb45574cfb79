------------------------------ MODULE NetProofs ------------------------------
(***************************************************************************)
(* Proofs about the smaller parts of the network programs, for any values  *)
(* of the constants.  As MCNet composes them, a behaviour is that of one   *)
(* of the programs, and an invariant of Spec is one of each program.       *)
(***************************************************************************)
EXTENDS MCNet, FiniteSetTheorems, SequenceTheorems, WellFoundedInduction, TLAPS

-----------------------------------------------------------------------------
(***************************************************************************)
(* The accept loop that forks.                                             *)
(***************************************************************************)
ForkTypes ==
    /\ backlog \in Seq(Clients)
    /\ client \in [Clients -> {"new", "connected", "left"}]
    /\ loop \in {"accept", "fork", "close", "wait", "exited"}
    /\ sock \in Clients \cup {Server}
    /\ state \in [Fork!Processes -> {"none", "started", "forking", "exiting", "serving",
                                     "exited", "reaped"}]
    /\ holders \in [Clients -> SUBSET (Fork!Processes \cup {Server})]
    /\ listeners \in SUBSET (Fork!Processes \cup {Server})
    /\ forkFailures \in 0..MaxForkFailures
    /\ alone \in SUBSET Clients

(* The server is in a round of its loop for a connection.                  *)
InRound == loop \in {"fork", "close", "wait"} => sock \in Clients

(* A child that listens still is the one of this round: the server waits   *)
(* for it before it accepts again.                                         *)
OneListens == \A p \in listeners :
    p # Server => /\ loop \in {"close", "wait"} /\ p = Fork!Child(sock)

ForkInv == ForkTypes /\ InRound /\ OneListens /\ Fork!Isolation

LEMMA ForkNames ==
  ASSUME Fork!ForkAssumption
  PROVE  /\ MaxForkFailures \in Nat
         /\ \A c \in Clients : /\ Fork!Child(c) \in Fork!Processes
                               /\ Fork!Grandchild(c) \in Fork!Processes
                               /\ Fork!Child(c) # Server /\ Fork!Grandchild(c) # Server
         /\ Server \notin Fork!Processes
         /\ \A c, d : Fork!Child(c) # Fork!Grandchild(d)
         /\ \A c, d : Fork!Child(c) = Fork!Child(d) => c = d
         /\ \A c, d : Fork!Grandchild(c) = Fork!Grandchild(d) => c = d
         /\ \A p \in Fork!Processes : \E c \in Clients : p = Fork!Child(c) \/ p = Fork!Grandchild(c)
  BY DEF Fork!ForkAssumption, Fork!Child, Fork!Grandchild, Fork!Children, Fork!Processes

(* What the proofs need of a copied or closed descriptor.                  *)
LEMMA DescriptorsCopied ==
  ASSUME ForkInv, Fork!ForkAssumption, NEW p \in Fork!Processes \cup {Server}, NEW q \in Fork!Processes
  PROVE  /\ Fork!CopyDescriptors(p, q) \in [Clients -> SUBSET (Fork!Processes \cup {Server})]
         /\ \A c \in Clients : /\ holders[c] \subseteq Fork!CopyDescriptors(p, q)[c]
                               /\ Fork!CopyDescriptors(p, q)[c] \subseteq holders[c] \cup {q}
                               /\ p \notin holders[c] => Fork!CopyDescriptors(p, q)[c] = holders[c]
  BY DEF ForkInv, ForkTypes, Fork!CopyDescriptors

LEMMA DescriptorsClosed ==
  ASSUME ForkInv, NEW p
  PROVE  /\ Fork!Without(p) \in [Clients -> SUBSET (Fork!Processes \cup {Server})]
         /\ \A c \in Clients : Fork!Without(p)[c] = holders[c] \ {p}
  BY DEF ForkInv, ForkTypes, Fork!Without

LEMMA ServerKeeps ==
  ASSUME ForkInv, Fork!ForkAssumption,
         Fork!ServerStep \/ Fork!ForkError \/ (\E c \in Clients : Fork!Connect(c) \/ Fork!Leave(c))
  PROVE  ForkInv'
  <1> USE ForkNames
  <1>1. ASSUME NEW c \in Clients, Fork!Connect(c) PROVE ForkInv'
    <2>1. backlog' \in Seq(Clients)
      BY <1>1, AppendProperties DEF ForkInv, ForkTypes, Fork!Connect
    <2> QED BY <1>1, <2>1 DEF ForkInv, ForkTypes, InRound, OneListens, Fork!Isolation, Fork!Connect
  <1>2. ASSUME NEW c \in Clients, Fork!Leave(c) PROVE ForkInv'
    BY <1>2 DEF ForkInv, ForkTypes, InRound, OneListens, Fork!Isolation, Fork!Leave
  <1>3. CASE Fork!Accept
    <2>1. Head(backlog) \in Clients /\ backlog' \in Seq(Clients)
      BY <1>3, HeadTailProperties DEF ForkInv, ForkTypes, Fork!Accept
    <2>2. ForkTypes' /\ InRound' /\ OneListens'
      BY <1>3, <2>1 DEF ForkInv, ForkTypes, InRound, OneListens, Fork!Accept
    <2>3. Fork!Isolation'
      BY <1>3, <2>1 DEF ForkInv, ForkTypes, Fork!Isolation, OneListens, Fork!Accept
    <2> QED BY <2>2, <2>3 DEF ForkInv
  <1>4. CASE Fork!Fork
    <2>1. /\ loop = "fork" /\ sock \in Clients /\ listeners \subseteq {Server}
          /\ state' = [state EXCEPT ![Fork!Child(sock)] = "started"]
          /\ holders' = Fork!CopyDescriptors(Server, Fork!Child(sock))
          /\ listeners' = listeners \cup {Fork!Child(sock)} /\ loop' = "close"
          /\ UNCHANGED <<backlog, client, sock, forkFailures, alone>>
      BY <1>4 DEF ForkInv, InRound, OneListens, Fork!Fork
    <2>2. ForkTypes' /\ InRound' /\ OneListens'
      BY <2>1, DescriptorsCopied DEF ForkInv, ForkTypes, InRound, OneListens
    <2>3. ASSUME NEW c \in Clients
          PROVE  /\ holders'[c] \subseteq {Server, Fork!Child(c), Fork!Grandchild(c)}
                 /\ Server \in holders'[c] => sock' = c /\ loop' \in {"fork", "close"}
      <3>1. /\ holders[c] \subseteq {Server, Fork!Child(c), Fork!Grandchild(c)}
            /\ Server \in holders[c] => c = sock
        BY DEF ForkInv, Fork!Isolation
      <3>2. /\ holders'[c] \subseteq holders[c] \cup {Fork!Child(sock)}
            /\ Server \notin holders[c] => holders'[c] = holders[c]
        BY <2>1, DescriptorsCopied
      <3> QED BY <2>1, <3>1, <3>2
    <2>4. ASSUME NEW p \in listeners', p # Server PROVE state'[p] = "started"
      BY <2>1, <2>4 DEF ForkInv, ForkTypes
    <2> QED BY <2>2, <2>3, <2>4 DEF ForkInv, Fork!Isolation
  <1>5. CASE Fork!ForkError
    <2>1. /\ loop = "fork" /\ loop' = "exited"
          /\ holders' = Fork!Without(Server) /\ listeners' = listeners \ {Server} /\ backlog' = <<>>
          /\ forkFailures' \in 0..MaxForkFailures /\ UNCHANGED <<client, sock, state, alone>>
      BY <1>5 DEF ForkInv, ForkTypes, Fork!ForkError, Fork!ForkFails
    <2> QED BY <2>1, DescriptorsClosed DEF ForkInv, ForkTypes, InRound, OneListens, Fork!Isolation
  <1>6. CASE Fork!CloseSock
    BY <1>6 DEF ForkInv, ForkTypes, InRound, OneListens, Fork!Isolation, Fork!CloseSock, Fork!Close
  <1>7. CASE Fork!Reap
    <2>1. /\ loop = "wait" /\ loop' = "accept" /\ sock \in Clients
          /\ state[Fork!Child(sock)] = "exited"
          /\ state' = [state EXCEPT ![Fork!Child(sock)] = "reaped"]
          /\ UNCHANGED <<backlog, client, sock, holders, listeners, forkFailures, alone>>
      BY <1>7 DEF ForkInv, ForkTypes, InRound, Fork!Reap, Fork!WaitFor
    <2>2. listeners \subseteq {Server}
      BY <2>1 DEF ForkInv, OneListens, Fork!Isolation
    <2> QED BY <2>1, <2>2 DEF ForkInv, ForkTypes, InRound, OneListens, Fork!Isolation
  <1> QED BY <1>1, <1>2, <1>3, <1>4, <1>5, <1>6, <1>7 DEF Fork!ServerStep

LEMMA ChildrenKeep ==
  ASSUME ForkInv, Fork!ForkAssumption,
         \/ \E c \in Clients : Fork!ChildStep(c) \/ Fork!SecondForkFails(c)
         \/ \E p \in Fork!Processes : Fork!EndService(p)
  PROVE  ForkInv'
  <1> USE ForkNames
  <1>1. ASSUME NEW c \in Clients, Fork!CloseListen(c) PROVE ForkInv'
    BY <1>1 DEF ForkInv, ForkTypes, InRound, OneListens, Fork!Isolation, Fork!CloseListen
  <1>2. ASSUME NEW c \in Clients, Fork!SecondFork(c) PROVE ForkInv'
    <2>1. /\ state[Fork!Child(c)] = "forking"
          /\ state' = [state EXCEPT ![Fork!Grandchild(c)] = "serving",
                                    ![Fork!Child(c)] = "exiting"]
          /\ holders' = Fork!CopyDescriptors(Fork!Child(c), Fork!Grandchild(c))
          /\ UNCHANGED <<backlog, client, loop, sock, forkFailures, alone>>
      BY <1>2 DEF Fork!SecondFork
    <2>2. Fork!Child(c) \notin listeners
      BY <2>1 DEF ForkInv, Fork!Isolation
    <2>3. listeners' = listeners
      BY <1>2, <2>2 DEF Fork!SecondFork
    <2>4. ForkTypes' /\ InRound' /\ OneListens'
      BY <2>1, <2>3, DescriptorsCopied DEF ForkInv, ForkTypes, InRound, OneListens
    <2>5. ASSUME NEW d \in Clients
          PROVE  /\ holders'[d] \subseteq {Server, Fork!Child(d), Fork!Grandchild(d)}
                 /\ Server \in holders'[d] => sock' = d /\ loop' \in {"fork", "close"}
      <3>1. Fork!Child(c) \in holders[d] => d = c
        BY DEF ForkInv, Fork!Isolation
      <3> QED BY <2>1, <3>1, DescriptorsCopied DEF ForkInv, Fork!Isolation
    <2>6. ASSUME NEW p \in listeners', p # Server PROVE state'[p] = "started"
      <3>1. p \in Fork!Processes /\ p # Fork!Child(c) /\ state[p] = "started" /\ p # Fork!Grandchild(c)
        BY <2>1, <2>2, <2>3, <2>6 DEF ForkInv, ForkTypes, Fork!Isolation, OneListens
      <3> QED BY <2>1, <3>1 DEF ForkInv, ForkTypes
    <2> QED BY <2>4, <2>5, <2>6 DEF ForkInv, Fork!Isolation
  <1>3. ASSUME NEW c \in Clients, Fork!ChildExits(c) PROVE ForkInv'
    <2>1. Fork!Child(c) \notin listeners
      BY <1>3 DEF ForkInv, Fork!Isolation, Fork!ChildExits
    <2> QED BY <1>3, <2>1, DescriptorsClosed
            DEF ForkInv, ForkTypes, InRound, OneListens, Fork!Isolation, Fork!ChildExits
  <1>4. ASSUME NEW c \in Clients, Fork!SecondForkFails(c) PROVE ForkInv'
    <2>1. Fork!Child(c) \notin listeners
      BY <1>4 DEF ForkInv, Fork!Isolation, Fork!SecondForkFails
    <2> QED BY <1>4, <2>1
            DEF ForkInv, ForkTypes, InRound, OneListens, Fork!Isolation, Fork!SecondForkFails,
                Fork!ForkFails
  <1>5. ASSUME NEW p \in Fork!Processes, Fork!EndService(p) PROVE ForkInv'
    <2>1. p \notin listeners
      BY <1>5 DEF ForkInv, Fork!Isolation, Fork!EndService
    <2> QED BY <1>5, <2>1, DescriptorsClosed
            DEF ForkInv, ForkTypes, InRound, OneListens, Fork!Isolation, Fork!EndService
  <1> QED BY <1>1, <1>2, <1>3, <1>4, <1>5 DEF Fork!ChildStep

LEMMA ForkKeeps ==
  ASSUME ForkInv, Fork!ForkAssumption, Fork!Next \/ UNCHANGED forkVars
  PROVE  ForkInv'
  <1>1. CASE UNCHANGED forkVars
    BY <1>1 DEF forkVars, ForkInv, ForkTypes, InRound, OneListens, Fork!Isolation
  <1>2. CASE Fork!Terminated
    BY <1>1, <1>2 DEF Fork!Terminated, Fork!vars, forkVars
  <1> QED BY <1>1, <1>2, ServerKeeps, ChildrenKeep DEF Fork!Next

LEMMA ForkBegins ==
  ASSUME Fork!Init, Fork!ForkAssumption
  PROVE  ForkInv
  BY ForkNames DEF Fork!Init, ForkInv, ForkTypes, InRound, OneListens, Fork!Isolation

LEMMA ForkInvSays ==
  ASSUME ForkInv
  PROVE  Fork!TypeOK /\ Fork!Isolation
  <1>1. listeners \subseteq {Server, Fork!Child(sock)}
    BY DEF ForkInv, OneListens
  <1>2. /\ IsFiniteSet({Server}) /\ Cardinality({Server}) = 1
    BY FS_Singleton
  <1>3. /\ IsFiniteSet({Server} \cup {Fork!Child(sock)})
        /\ Cardinality({Server} \cup {Fork!Child(sock)})
             = IF Fork!Child(sock) \in {Server} THEN Cardinality({Server}) ELSE Cardinality({Server}) + 1
    BY <1>2, FS_AddElement
  <1>4. {Server} \cup {Fork!Child(sock)} = {Server, Fork!Child(sock)}
    OBVIOUS
  <1>5. Cardinality(listeners) <= Cardinality({Server, Fork!Child(sock)}) /\ IsFiniteSet(listeners)
    BY <1>1, <1>3, <1>4, FS_Subset
  <1>6. Cardinality(listeners) <= 2 /\ Cardinality(listeners) \in Nat
    <2>1. PICK n : n = Cardinality({Server, Fork!Child(sock)})
      OBVIOUS
    <2>2. PICK m : m = Cardinality(listeners)
      OBVIOUS
    <2>3. n = 1 \/ n = 2
      BY <1>2, <1>3, <1>4, <2>1
    <2>4. m \in Nat
      BY <1>5, <2>2, FS_CardinalityType
    <2>5. m <= n
      BY <1>5, <2>1, <2>2
    <2>6. m <= 2
      BY <2>3, <2>4, <2>5
    <2> QED BY <2>2, <2>4, <2>6
  <1>7. Fork!Cardinality(listeners) = Cardinality(listeners)
    BY DEF Fork!Cardinality, Cardinality
  <1> QED BY <1>6, <1>7 DEF ForkInv, ForkTypes, Fork!TypeOK

-----------------------------------------------------------------------------
(***************************************************************************)
(* The threads of the chat client.                                         *)
(***************************************************************************)
ClientInv == /\ Client!TypeOK
             /\ thread \in [Client!Threads -> {"none", "new", "receive", "online", "type",
                                             "end of input", "cancel", "ended"}]
             /\ _tid \in [Client!Threads -> Client!Threads \cup {Client!NoId}]

LEMMA ClientKeeps ==
  ASSUME ClientInv, Client!ClientAssumption, Client!Next \/ UNCHANGED clientVars
  PROVE  ClientInv'
  <1> USE DEF ClientInv, Client!TypeOK, Client!Threads, Client!NoId, Client!ClientAssumption
  <1>1. CASE UNCHANGED clientVars \/ Client!Terminated
    BY ZenonT(60), <1>1 DEF clientVars, Client!Terminated, Client!vars
  <1>2. CASE Client!StartRecver
    <2>1. CASE UNCHANGED <<thread, _tid>>
      <3>1. quit' \in BOOLEAN /\ main' \in {"start sender", "store id"} /\ UNCHANGED <<id, cancelled>>
        BY <1>2 DEF Client!StartRecver, Client!Start
      <3>2. failures' \in 0..MaxThreadFailures
        <4>1. failures \in 0..MaxThreadFailures
          OBVIOUS
        <4>2. failures' = failures \/ (failures < MaxThreadFailures /\ failures' = failures + 1)
          BY <1>2, Zenon DEF Client!StartRecver, Client!Start
        <4> HIDE DEF ClientInv, Client!TypeOK
        <4> QED BY <4>1, <4>2
      <3> QED BY <2>1, <3>1, <3>2
    <2>2. CASE /\ thread' = [thread EXCEPT !["recver"] = "new"]
               /\ _tid' = [_tid EXCEPT !["recver"] = "recver"]
               /\ failures' = failures
      <3>1. /\ thread'["recver"] = "new" /\ thread'["sender"] = thread["sender"]
            /\ _tid'["recver"] = "recver" /\ _tid'["sender"] = _tid["sender"]
        BY <2>2
      <3> QED BY <1>2, <2>2, <3>1 DEF Client!StartRecver, Client!Start
    <2> QED BY <1>2, <2>1, <2>2 DEF Client!StartRecver, Client!Start, Client!Go
  <1>3. CASE Client!StartSender
    <2>1. CASE UNCHANGED <<thread, _tid>>
      <3>1. quit' \in BOOLEAN /\ main' \in {"start sender", "store id"} /\ UNCHANGED <<id, cancelled>>
        BY <1>3 DEF Client!StartSender, Client!Start
      <3>2. failures' \in 0..MaxThreadFailures
        <4>1. failures \in 0..MaxThreadFailures
          OBVIOUS
        <4>2. failures' = failures \/ (failures < MaxThreadFailures /\ failures' = failures + 1)
          BY <1>3, Zenon DEF Client!StartSender, Client!Start
        <4> HIDE DEF ClientInv, Client!TypeOK
        <4> QED BY <4>1, <4>2
      <3> QED BY <2>1, <3>1, <3>2
    <2>2. CASE /\ thread' = [thread EXCEPT !["sender"] = "new"]
               /\ _tid' = [_tid EXCEPT !["sender"] = "sender"]
               /\ failures' = failures
      <3>1. /\ thread'["sender"] = "new" /\ thread'["recver"] = thread["recver"]
            /\ _tid'["sender"] = "sender" /\ _tid'["recver"] = _tid["recver"]
        BY <2>2
      <3> QED BY <1>3, <2>2, <3>1 DEF Client!StartSender, Client!Start
    <2> QED BY <1>3, <2>1, <2>2 DEF Client!StartSender, Client!Start, Client!Go
  <1>4. CASE Client!StoreId
    BY <1>4 DEF Client!StoreId, Client!IdOfRecver
  <1>5. CASE Client!JoinRecver \/ Client!JoinSender
    BY <1>5 DEF Client!JoinRecver, Client!JoinSender, Client!Join
  <1>6. CASE Client!Routine("recver") \/ Client!Routine("sender")
    BY ZenonT(60), <1>6 DEF Client!Routine, Client!Go
  <1>7. CASE Client!Cancelled
    BY <1>7 DEF Client!Cancelled, Client!Go
  <1>8. CASE Client!Online
    BY <1>8 DEF Client!Online, Client!Go
  <1>9. CASE Client!Getline
    BY <1>9 DEF Client!Getline, Client!Go
  <1>10. CASE Client!Cancel
    BY <1>10 DEF Client!Cancel, Client!Go
  <1> QED BY <1>1, <1>2, <1>3, <1>4, <1>5, <1>6, <1>7, <1>8, <1>9, <1>10
          DEF Client!Next, Client!MainStep, Client!RecverStep, Client!SenderStep

LEMMA ClientBegins ==
  ASSUME Client!Init, Client!ClientAssumption
  PROVE  ClientInv
  <1>0. quit \in BOOLEAN
    BY DEF Client!Init
  <1>1. /\ main = "start recver" /\ id = Client!NoId /\ cancelled = {}
        /\ thread = [t \in Client!Threads |-> "none"] /\ _tid = [t \in Client!Threads |-> Client!NoId]
    BY Zenon DEF Client!Init
  <1>2. \A t \in Client!Threads : thread[t] = "none" /\ _tid[t] = Client!NoId
    BY <1>1
  <1>3. failures \in 0..MaxThreadFailures
    <2>1. failures = 0
      BY DEF Client!Init
    <2> QED BY <2>1 DEF Client!ClientAssumption
  <1> QED BY <1>0, <1>1, <1>2, <1>3 DEF ClientInv, Client!TypeOK, Client!Threads, Client!NoId

-----------------------------------------------------------------------------
(***************************************************************************)
(* The dictionary server.                                                  *)
(***************************************************************************)
LEMMA Least ==
  ASSUME NEW T \in SUBSET Nat, T # {}
  PROVE  \E x \in T : \A y \in T : x <= y
  <1> DEFINE R == {ss \in Nat \X Nat : ss[1] < ss[2]}
  <1>1. IsWellFoundedOn(R, Nat)
    BY NatLessThanWellFounded DEF OpToRel
  <1>2. \A x, y \in Nat : <<y, x>> \in R <=> y < x
    OBVIOUS
  <1> HIDE DEF R
  <1>3. PICK x \in T : \A y \in T : ~ (<<y, x>> \in R)
    BY <1>1, WFMin
  <1>4. ASSUME NEW y \in T PROVE x <= y
    <2>1. x \in Nat /\ y \in Nat /\ ~(y < x)
      BY <1>2, <1>3
    <2> QED BY <2>1
  <1> QED BY <1>4

LEMMA Greatest ==
  ASSUME NEW n \in Nat, NEW T \in SUBSET (1..n), T # {}
  PROVE  \E x \in T : \A y \in T : x >= y
  <1> DEFINE U == {n - x : x \in T}
  <1>0. \A x \in T : x \in 1..n /\ n - x \in Nat
    OBVIOUS
  <1>1. U \in SUBSET Nat /\ U # {}
    BY <1>0
  <1>2. PICK u \in U : \A v \in U : u <= v
    BY <1>1, Least
  <1>3. PICK x \in T : u = n - x
    BY <1>2
  <1>4. ASSUME NEW y \in T PROVE x >= y
    <2>1. n - x <= n - y
      BY <1>2, <1>3
    <2>2. n \in Nat /\ x \in 1..n /\ y \in 1..n
      OBVIOUS
    <2> QED BY <2>1, <2>2
  <1> QED BY <1>4

LEMMA FirstSpaceIs ==
  ASSUME NEW s, NEW S, s \in Seq(S)
  PROVE  /\ Dict!FirstSpace(s) \in 0..Len(s)
         /\ Dict!FirstSpace(s) = 0 => \A i \in 1..Len(s) : s[i] # " "
         /\ Dict!FirstSpace(s) # 0 => /\ s[Dict!FirstSpace(s)] = " "
                                      /\ \A i \in 1..(Dict!FirstSpace(s) - 1) : s[i] # " "
  <1> DEFINE I == {i \in 1..Len(s) : s[i] = " "}
  <1>1. Len(s) \in Nat
    BY LenProperties
  <1>2. Dict!FirstSpace(s) = IF I # {} THEN Dict!Min(I) ELSE 0
    BY DEF Dict!FirstSpace, Dict!SelectInSeq, Dict!Space
  <1>3. CASE I = {}
    <2>1. Dict!FirstSpace(s) = 0 /\ \A i \in 1..Len(s) : s[i] # " "
      BY <1>2, <1>3
    <2>2. 0 \in 0..Len(s)
      BY <1>1
    <2> QED BY <2>1, <2>2
  <1>4. CASE I # {}
    <2>0. \A i \in 1..Len(s) : i \in Nat
      BY <1>1
    <2>1. I \in SUBSET Nat
      BY <2>0
    <2>2. \E x \in I : \A y \in I : x <= y
      BY <1>4, <2>1, Least
    <2>3. Dict!Min(I) \in I /\ \A y \in I : Dict!Min(I) <= y
      BY <2>2 DEF Dict!Min
    <2> DEFINE m == Dict!FirstSpace(s)
    <2>4. m \in 1..Len(s) /\ s[m] = " " /\ \A i \in 1..Len(s) : s[i] = " " => m <= i
      BY <1>2, <1>4, <2>3
    <2> HIDE DEF m
    <2>5. m \in 1..Len(s)
      BY <2>4
    <2>6. m \in 0..Len(s) /\ m # 0
      BY <1>1, <2>5
    <2>7. ASSUME NEW i \in 1..(m - 1) PROVE s[i] # " "
      <3>1. i \in 1..Len(s) /\ ~(m <= i)
        BY <1>1, <2>5
      <3> QED BY <3>1, <2>4
    <2> QED BY <2>4, <2>6, <2>7 DEF m
  <1> QED BY <1>3, <1>4

LEMMA PrefixByIndex ==
  ASSUME NEW S, NEW s \in Seq(S), NEW t \in Seq(S)
  PROVE  Dict!IsPrefix(s, t) <=> Len(s) <= Len(t) /\ \A i \in 1..Len(s) : s[i] = t[i]
  <1> DEFINE n == Len(s)
  <1>1. n \in Nat /\ Len(t) \in Nat /\ \A i \in 1..n : s[i] \in S
    BY LenProperties, ElementOfSeq
  <1>2. SUFFICES ASSUME n <= Len(t)
                 PROVE  SubSeq(s, 1, n) = SubSeq(t, 1, n) <=> \A i \in 1..n : s[i] = t[i]
    BY DEF Dict!IsPrefix
  <1>3. \A i \in 1..n : t[i] \in S
    <2>1. \A i \in 1..n : i \in 1..Len(t)
      BY <1>1, <1>2
    <2> QED BY <2>1, ElementOfSeq
  <1> DEFINE a == SubSeq(s, 1, n)
             b == SubSeq(t, 1, n)
  <1>4. a \in Seq(S) /\ Len(a) = n /\ \A i \in 1..n : a[i] = s[i]
    BY <1>1, SubSeqProperties
  <1>5. b \in Seq(S) /\ Len(b) = n /\ \A i \in 1..n : b[i] = t[i]
    BY <1>1, <1>3, SubSeqProperties
  <1> HIDE DEF a, b, n
  <1>6. a = b => \A i \in 1..n : s[i] = t[i]
    BY <1>4, <1>5
  <1>7. ASSUME \A i \in 1..n : s[i] = t[i] PROVE a = b
    BY <1>4, <1>5, <1>7, SeqEqual
  <1>8. a = b <=> \A i \in 1..n : s[i] = t[i]
    BY <1>6, <1>7
  <1> QED BY <1>8 DEF a, b

(* The entry of a word in a line, place by place.                          *)
ReadAt(l, w, ch) ==
    /\ Len(w) + 2 <= Len(l) /\ \A i \in 1..Len(w) : w[i] # " " /\ l[i] = w[i]
    /\ l[Len(w) + 1] = ch /\ l[Len(w) + 2] = " "

LEMMA Pair ==
  ASSUME NEW S, NEW c \in S, NEW d \in S
  PROVE  <<c, d>> \in Seq(S) /\ Len(<<c, d>>) = 2
  OBVIOUS

Literals == {":", " ", "not found"} \subseteq STRING

LEMMA ReadsByIndex ==
  ASSUME NEW l \in Seq(STRING), NEW w \in Seq(STRING), NEW ch \in STRING, Literals
  PROVE  Dict!Reads(l, w, ch) <=> ReadAt(l, w, ch)
  <1> DEFINE n == Len(w)
             two == <<ch, " ">>
             e == w \o two
  <1>1. n \in Nat /\ Len(l) \in Nat /\ DOMAIN w = 1..n
    BY LenProperties
  <1>2. two \in Seq(STRING) /\ Len(two) = 2 /\ two[1] = ch /\ two[2] = " "
    <2>1. ch \in STRING /\ " " \in STRING
      BY DEF Literals
    <2>2. two \in Seq(STRING) /\ Len(two) = 2
      BY <2>1, Pair
    <2> QED BY <2>2
  <1>3. /\ e \in Seq(STRING) /\ Len(e) = n + 2
        /\ \A i \in 1..(n + 2) : e[i] = IF i <= n THEN w[i] ELSE two[i - n]
    <2> HIDE DEF two
    <2>1. \A i \in 1..(n + 2) : i \in 1..(Len(w) + Len(two))
      BY <1>2
    <2>2. /\ e \in Seq(STRING) /\ Len(e) = Len(w) + Len(two)
          /\ \A i \in 1..(Len(w) + Len(two)) : e[i] = IF i <= Len(w) THEN w[i] ELSE two[i - Len(w)]
      <3>1. two \in Seq(STRING)
        BY <1>2
      <3>2. \A s, t \in Seq(STRING) : 
              /\ s \o t \in Seq(STRING) /\ Len(s \o t) = Len(s) + Len(t)
              /\ \A i \in 1..(Len(s) + Len(t)) :
                   (s \o t)[i] = IF i <= Len(s) THEN s[i] ELSE t[i - Len(s)]
        BY ConcatProperties
      <3> QED BY <3>1, <3>2
    <2> HIDE DEF e
    <2> QED BY <1>2, <2>1, <2>2
  <1>4. w \o <<ch, Dict!Space>> = e
    BY DEF Dict!Space
  <1> HIDE DEF e, n, two
  <1>5. e[n + 1] = ch /\ e[n + 2] = " " /\ \A i \in 1..n : e[i] = w[i]
    <2>1. n + 1 \in 1..(n + 2) /\ n + 2 \in 1..(n + 2) /\ ~(n + 1 <= n) /\ ~(n + 2 <= n)
          /\ n + 1 - n = 1 /\ n + 2 - n = 2
      BY <1>1
    <2>2. \A i \in 1..n : i \in 1..(n + 2) /\ i <= n
      BY <1>1
    <2>3. \A i \in 1..n : e[i] = w[i]
      BY <1>3, <2>2
    <2>a. \A i \in 1..(n + 2) : ~(i <= n) => e[i] = two[i - n]
      BY <1>3
    <2>b. ASSUME NEW i, i = n + 1 PROVE e[i] = two[1]
      <3>1. i \in 1..(n + 2) /\ ~(i <= n) /\ i - n = 1
        BY <1>1, <2>b
      <3>2. e[i] = two[i - n]
        BY <3>1, <2>a
      <3> QED BY <3>1, <3>2
    <2>c. ASSUME NEW i, i = n + 2 PROVE e[i] = two[2]
      <3>1. i \in 1..(n + 2) /\ ~(i <= n) /\ i - n = 2
        BY <1>1, <2>c
      <3>2. e[i] = two[i - n]
        BY <3>1, <2>a
      <3> QED BY <3>1, <3>2
    <2>4. e[n + 1] = two[1]
      BY <2>b
    <2>5. e[n + 2] = two[2]
      BY <2>c
    <2> QED BY <1>2, <2>1, <2>3, <2>4, <2>5
  <1>6. Dict!IsPrefix(e, l) <=> n + 2 <= Len(l) /\ \A i \in 1..(n + 2) : e[i] = l[i]
    <2>1. Len(e) = n + 2 /\ e \in Seq(STRING)
      BY <1>3
    <2>2. Dict!IsPrefix(e, l) <=> Len(e) <= Len(l) /\ \A i \in 1..Len(e) : e[i] = l[i]
      BY SMTT(30), <2>1, PrefixByIndex
    <2> QED BY <2>1, <2>2
  <1>7. (\A i \in 1..(n + 2) : e[i] = l[i])
          <=> /\ \A i \in 1..n : l[i] = w[i]
              /\ l[n + 1] = ch /\ l[n + 2] = " "
    <2>1. \A i : i \in 1..(n + 2) <=> i \in 1..n \/ i = n + 1 \/ i = n + 2
      BY <1>1
    <2> QED BY <1>5, <2>1
  <1>8. " " \notin Dict!ToSet(w) <=> \A i \in 1..n : w[i] # " "
    BY <1>1 DEF Dict!ToSet
  <1> QED BY <1>4, <1>6, <1>7, <1>8 DEF Dict!Reads, Dict!Space, ReadAt, n

(* A line that LoadDict takes as an entry for the word, by its key.        *)
LEMMA KeyByIndex ==
  ASSUME NEW l \in Seq(STRING), NEW w \in Seq(STRING)
  PROVE  /\ Dict!FirstSpace(l) > 1 /\ Dict!KeyOf(l) = w =>
              \E ch \in STRING : ch # " " /\ ch \in Dict!ToSet(l) /\ ReadAt(l, w, ch)
         /\ \A ch \in STRING : ch # " " /\ ReadAt(l, w, ch) =>
              Dict!FirstSpace(l) = Len(w) + 2 /\ Dict!KeyOf(l) = w
  <1> DEFINE n == Len(w)
             pos == Dict!FirstSpace(l)
             k == SubSeq(l, 1, pos - 2)
  <1>1. n \in Nat /\ Len(l) \in Nat
    BY LenProperties
  <1>i. pos \in 0..Len(l) /\ pos \in Nat /\ Len(l) \in Nat /\ n \in Nat
    <2>1. pos \in 0..Len(l)
      BY FirstSpaceIs
    <2> HIDE DEF pos, n
    <2>2. pos \in Nat
      BY <1>1, <2>1
    <2> QED BY <1>1, <2>1, <2>2
  <1>2. /\ pos \in 0..Len(l)
        /\ pos = 0 => \A i \in 1..Len(l) : l[i] # " "
        /\ pos # 0 => l[pos] = " " /\ \A i \in 1..(pos - 1) : l[i] # " "
    BY FirstSpaceIs
  <1>3. Dict!KeyOf(l) = IF pos = 1 THEN l ELSE k
    BY DEF Dict!KeyOf
  <1>4. ASSUME pos > 1
        PROVE  k \in Seq(STRING) /\ Len(k) = pos - 2 /\ \A i \in 1..(pos - 2) : k[i] = l[i]
    <2>1. \A i \in 1..(pos - 2) : l[i] \in STRING
      <3>1. \A i \in 1..(pos - 2) : i \in 1..Len(l)
        <4> HIDE DEF pos
        <4> QED BY <1>i, <1>4
      <3> QED BY <3>1, ElementOfSeq
    <2>2. 1 \in Int /\ pos - 2 \in Int /\ (IF 1 <= pos - 2 THEN pos - 2 ELSE 0) = pos - 2
          /\ (IF 1 <= pos - 2 THEN pos - 2 - 1 + 1 ELSE 0) = pos - 2
          /\ \A i \in 1..(pos - 2) : 1 + i - 1 = i
      <3> HIDE DEF pos
      <3> QED BY <1>i, <1>4
    <2> HIDE DEF pos
    <2>3. k = [i \in 1..(pos - 2) |-> l[i]]
      BY <1>i, <1>4
    <2> HIDE DEF k
    <2>4. pos - 2 \in Nat
      BY <1>i, <1>4
    <2>5. k \in Seq(STRING)
      BY SMTT(30), <2>1, <2>3, <2>4
    <2>6. DOMAIN k = 1..(pos - 2)
      BY <2>3
    <2>7. Len(k) = pos - 2
      BY <2>4, <2>5, <2>6, LenProperties
    <2> QED BY <2>3, <2>5, <2>7
  <1>5. pos > 1 => /\ l[pos - 1] \in STRING /\ l[pos - 1] # " "
                   /\ l[pos - 1] \in Dict!ToSet(l)
    <2> SUFFICES ASSUME pos > 1
                 PROVE  l[pos - 1] \in STRING /\ l[pos - 1] # " " /\ l[pos - 1] \in Dict!ToSet(l)
      OBVIOUS
    <2>1. pos - 1 \in 1..Len(l) /\ pos - 1 \in 1..(pos - 1) /\ pos # 0
      <3> HIDE DEF pos
      <3> QED BY <1>i
    <2>2. l[pos - 1] \in STRING /\ l[pos - 1] \in Dict!ToSet(l)
      BY <2>1, ElementOfSeq DEF Dict!ToSet
    <2> QED BY <1>2, <2>1, <2>2
  <1> HIDE DEF pos, k, n
  <1>6. ASSUME pos > 1, Dict!KeyOf(l) = w
        PROVE  \E ch \in STRING : ch # " " /\ ch \in Dict!ToSet(l) /\ ReadAt(l, w, ch)
    <2>2. w = k
      <3>1. pos # 1
        BY <1>i, <1>6
      <3> QED BY <1>3, <1>6, <3>1
    <2>3. n = pos - 2 /\ \A i \in 1..n : w[i] = l[i]
      BY <1>4, <1>6, <2>2 DEF n
    <2>a. n = pos - 2 /\ pos > 1 /\ pos # 0
      BY <1>i, <1>6, <2>3
    <2>4. \A i \in 1..n : i \in 1..(pos - 1)
      BY <1>i, <2>a
    <2>5. n + 2 = pos /\ n + 1 = pos - 1 /\ n + 2 <= Len(l)
      BY <1>i, <2>a
    <2>6. ReadAt(l, w, l[pos - 1])
      BY <1>2, <2>a, <2>3, <2>4, <2>5 DEF ReadAt, n
    <2> QED BY <1>5, <2>6, <2>a
  <1>7. ASSUME NEW ch \in STRING, ch # " ", ReadAt(l, w, ch)
        PROVE  pos = n + 2 /\ Dict!KeyOf(l) = w
    <2>1. /\ n + 2 <= Len(l) /\ \A i \in 1..n : l[i] # " " /\ l[i] = w[i]
          /\ l[n + 1] = ch /\ l[n + 2] = " "
      BY <1>7 DEF ReadAt, n
    <2>2. \A i \in 1..(n + 1) : l[i] # " "
      <3>1. \A i \in 1..(n + 1) : i \in 1..n \/ i = n + 1
        BY <1>1
      <3> QED BY <1>7, <2>1, <3>1
    <2>a. n + 2 <= Len(l)
      BY <2>1
    <2>3. n + 2 \in 1..Len(l)
      BY <1>i, <2>a
    <2>4. pos # 0
      BY <1>2, <2>1, <2>3
    <2>5. ~(pos < n + 2)
      <3>1. pos < n + 2 => pos \in 1..(n + 1)
        BY <1>i, <2>4
      <3> QED BY <1>2, <2>2, <2>4, <3>1
    <2>6. ~(pos > n + 2)
      <3>1. pos > n + 2 => n + 2 \in 1..(pos - 1)
        BY <1>i
      <3> QED BY <1>2, <2>1, <2>4, <3>1
    <2>7. pos = n + 2 /\ pos > 1 /\ pos - 2 = n /\ pos # 1
      BY <1>i, <2>5, <2>6
    <2>8. k \in Seq(STRING) /\ Len(k) = n /\ \A i \in 1..n : k[i] = w[i]
      BY <1>4, <2>1, <2>7
    <2>9. k = w
      BY <2>8, SeqEqual DEF n
    <2> QED BY <1>3, <2>7, <2>9
  <1> QED BY <1>1, <1>6, <1>7 DEF pos, n

LEMMA DictAssumed ==
  ASSUME Dict!DictAssumption
  PROVE  /\ DictLines \in Seq(Seq(STRING)) /\ Len(DictLines) \in Nat
         /\ \A i \in 1..Len(DictLines) : DictLines[i] \in Seq(STRING)
         /\ UserWords \subseteq Seq(STRING)
         /\ Literals
         /\ MaxAsked \in Nat /\ MaxNetFaults \in Nat
  <1>1. DictLines \in Seq(Seq(STRING)) /\ UserWords \subseteq Seq(STRING)
        /\ MaxAsked \in Nat /\ MaxNetFaults \in Nat /\ Literals
    BY DEF Dict!DictAssumption, Dict!Space, Literals
  <1>2. Len(DictLines) \in Nat /\ \A i \in 1..Len(DictLines) : DictLines[i] \in Seq(STRING)
    BY <1>1, LenProperties, ElementOfSeq
  <1> QED BY <1>1, <1>2

(* What the server answers, which never changes.                           *)
Given(w) == IF w \in DOMAIN Dict!LoadDict THEN Dict!LoadDict[w] ELSE Dict!NotFound

(* A line with the word as its key is an entry of the word, or misread.    *)
LEMMA EntryOrMisread ==
  ASSUME Dict!DictAssumption, NEW i \in 1..Len(DictLines), NEW w \in UserWords
  PROVE  /\ Dict!Reads(DictLines[i], w, ":") =>
              /\ Dict!FirstSpace(DictLines[i]) # 0 /\ Dict!KeyOf(DictLines[i]) = w
              /\ Dict!ValueOf(DictLines[i]) = Dict!Behind(DictLines[i], w)
         /\ /\ Dict!FirstSpace(DictLines[i]) # 0 /\ Dict!KeyOf(DictLines[i]) = w
            /\ ~Dict!Reads(DictLines[i], w, ":")
            => Dict!Misread(DictLines[i], w, Dict!ValueOf(DictLines[i]))
  <1>1. PICK l \in Seq(STRING) : l = DictLines[i]
    BY DictAssumed
  <1>2. w \in Seq(STRING) /\ Literals
    BY DictAssumed
  <1>3. Len(w) \in Nat /\ Len(l) \in Nat
    BY <1>2, LenProperties
  <1>4. ASSUME NEW ch \in STRING, ch # " ", Dict!Reads(l, w, ch)
        PROVE  /\ Dict!FirstSpace(l) = Len(w) + 2 /\ Dict!KeyOf(l) = w
               /\ Dict!ValueOf(l) = Dict!Behind(l, w)
    <2>1. Dict!FirstSpace(l) = Len(w) + 2 /\ Dict!KeyOf(l) = w
      BY <1>2, <1>4, ReadsByIndex, KeyByIndex
    <2>2. Len(w) + 2 + 1 = Len(w) + 3
      BY <1>3
    <2> QED BY <2>1, <2>2 DEF Dict!ValueOf, Dict!Behind
  <1>5. ASSUME Dict!Reads(l, w, ":")
        PROVE  /\ Dict!FirstSpace(l) # 0 /\ Dict!KeyOf(l) = w
               /\ Dict!ValueOf(l) = Dict!Behind(l, w)
    <2>1. ":" \in STRING /\ ":" # " "
      BY <1>2 DEF Literals
    <2>2. Dict!FirstSpace(l) = Len(w) + 2 /\ Dict!KeyOf(l) = w /\ Dict!ValueOf(l) = Dict!Behind(l, w)
      BY <1>4, <1>5, <2>1
    <2>3. Len(w) + 2 # 0
      BY <1>3
    <2> QED BY <2>2, <2>3
  <1>6. ASSUME Dict!FirstSpace(l) # 0, Dict!KeyOf(l) = w, ~Dict!Reads(l, w, ":")
        PROVE  Dict!Misread(l, w, Dict!ValueOf(l))
    <2>0. PICK pos : pos = Dict!FirstSpace(l)
      OBVIOUS
    <2>1. pos \in 0..Len(l) /\ pos # 0 /\ l[pos] = " "
      BY <1>6, <2>0, FirstSpaceIs
    <2>5. pos \in 0..Len(l) /\ pos # 0
      BY <2>1
    <2>2. CASE pos = 1
      <3>1. l = w /\ l[1] = " "
        BY <1>6, <2>0, <2>1, <2>2 DEF Dict!KeyOf
      <3>2. 1 <= Len(l)
        BY <1>3, <2>5, <2>2
      <3>3. l # <<>> /\ Head(l) = l[1]
        BY <3>2, EmptySeq
      <3>4. Dict!ValueOf(l) = Tail(l)
        BY <2>0, <2>2, <3>3, TailIsSubSeq DEF Dict!ValueOf
      <3> QED BY <3>1, <3>3, <3>4 DEF Dict!Misread, Dict!Space
    <2>3. CASE pos > 1
      <3>1. PICK ch \in STRING : ch # " " /\ ch \in Dict!ToSet(l) /\ ReadAt(l, w, ch)
        BY <1>2, <1>6, <2>0, <2>3, KeyByIndex
      <3>2. Dict!Reads(l, w, ch)
        BY <1>2, <3>1, ReadsByIndex
      <3>3. ch # ":" /\ ch # " "
        BY <1>6, <3>1, <3>2
      <3>4. Dict!ValueOf(l) = Dict!Behind(l, w)
        BY <1>4, <3>2, <3>3
      <3> QED BY <3>1, <3>2, <3>3, <3>4 DEF Dict!Misread, Dict!Space
    <2>4. pos = 1 \/ pos > 1
      BY <1>3, <2>5
    <2> QED BY <2>2, <2>3, <2>4
  <1> QED BY <1>1, <1>5, <1>6

(* What LoadDict makes of the file is what the file says.                  *)
LEMMA GivenIsSaid ==
  ASSUME Dict!DictAssumption, NEW w \in UserWords
  PROVE  Dict!Says(w, Given(w))
  <1> DEFINE K == {i \in Dict!Entries : Dict!KeyOf(DictLines[i]) = w}
             D == {i \in 1..Len(DictLines) : Dict!Reads(DictLines[i], w, ":")}
  <1>1. D \subseteq K
    BY EntryOrMisread DEF Dict!Entries
  <1>2. K \in SUBSET (1..Len(DictLines)) /\ Len(DictLines) \in Nat
    BY DictAssumed DEF Dict!Entries
  <1>3. Dict!SelectLastInSeq(DictLines, LAMBDA line : Dict!Reads(line, w, ":"))
          = IF D # {} THEN Dict!Max(D) ELSE 0
    BY DEF Dict!SelectLastInSeq
  <1>4. CASE K = {}
    <2>1. w \notin DOMAIN Dict!LoadDict
      BY <1>4 DEF Dict!LoadDict
    <2>2. Dict!Meaning(w) = Dict!NotFound
      BY <1>1, <1>3, <1>4 DEF Dict!Meaning
    <2> QED BY <2>1, <2>2 DEF Given, Dict!Says
  <1>5. CASE K # {}
    <2>1. PICK i \in K : \A j \in K : i >= j
      <3> HIDE DEF K
      <3> QED BY <1>2, <1>5, Greatest
    <2>2. i \in 1..Len(DictLines) /\ i # 0
      <3>1. i \in 1..Len(DictLines)
        BY <1>2, <2>1
      <3> HIDE DEF K, D
      <3> QED BY <1>2, <3>1
    <2>3. \A S : S \subseteq K /\ i \in S => Dict!Max(S) = i
      <3> SUFFICES ASSUME NEW S, S \subseteq K, i \in S PROVE Dict!Max(S) = i
        OBVIOUS
      <3>1. \A x \in S : (\A y \in S : x >= y) => x = i
        <4> HIDE DEF K, D
        <4>1. \A x \in S : x \in Int /\ i >= x
          BY <1>2, <2>1
        <4>2. i \in Int
          BY <1>2, <2>1
        <4> QED BY <4>1, <4>2
      <3>2. \A y \in S : i >= y
        BY <2>1
      <3> HIDE DEF K, D
      <3> QED BY <3>1, <3>2 DEF Dict!Max
    <2>4. Given(w) = Dict!ValueOf(DictLines[i])
      <3>1. w \in DOMAIN Dict!LoadDict /\ Dict!LoadDict[w] = Dict!ValueOf(DictLines[Dict!Max(K)])
        BY <2>1 DEF Dict!LoadDict, Dict!EntryOf
      <3>2. Dict!Max(K) = i
        BY <2>1, <2>3
      <3> QED BY <3>1, <3>2 DEF Given
    <2>5. Dict!FirstSpace(DictLines[i]) # 0 /\ Dict!KeyOf(DictLines[i]) = w
      BY <2>1 DEF Dict!Entries
    <2>6. CASE i \in D
      <3>1. Dict!Max(D) = i
        BY <1>1, <2>3, <2>6
      <3>2. Dict!Meaning(w) = Dict!Behind(DictLines[i], w)
        BY <1>3, <2>2, <2>6, <3>1 DEF Dict!Meaning
      <3>3. Dict!ValueOf(DictLines[i]) = Dict!Behind(DictLines[i], w)
        BY <2>6, EntryOrMisread
      <3> HIDE DEF K, D
      <3> QED BY <2>4, <3>2, <3>3 DEF Dict!Says
    <2>7. CASE i \notin D
      <3>1. Dict!Misread(DictLines[i], w, Dict!ValueOf(DictLines[i]))
        BY <2>2, <2>5, <2>7, EntryOrMisread
      <3> HIDE DEF K, D
      <3> QED BY <2>2, <2>4, <3>1 DEF Dict!Says
    <2> QED BY <2>6, <2>7
  <1> QED BY <1>4, <1>5

LastAsked(c) == asked[c][Len(asked[c])]

(* A client waits exactly while its last word has no answer.               *)
OneWaitsFor == \A c \in Users :
    Len(asked[c]) = IF c \in waiting THEN Len(got[c]) + 1 ELSE Len(got[c])

(* Every datagram is about a word that its client has asked.               *)
AboutItsWord ==
    /\ \A d \in DOMAIN requests : \E j \in 1..Len(asked[d[1]]) : d[2] = asked[d[1]][j]
    /\ \A d \in DOMAIN answers :
         \E j \in 1..Len(asked[d[1]]) : d[2] = Given(asked[d[1]][j])

(* As long as no datagram of a client was duplicated there is at most one, *)
(* and it is about the word that the client waits for.                     *)
OneUnderWay ==
    /\ \A d \in DOMAIN requests : d[1] \notin duplicated =>
         d[1] \in waiting /\ requests[d] = 1 /\ d[2] = LastAsked(d[1])
    /\ \A d \in DOMAIN answers : d[1] \notin duplicated =>
         d[1] \in waiting /\ answers[d] = 1 /\ d[2] = Given(LastAsked(d[1]))
    /\ \A d \in DOMAIN requests, e \in DOMAIN answers :
         d[1] \notin duplicated => d[1] # e[1]

DictTypes ==
    /\ waiting \in SUBSET Users
    /\ asked \in [Users -> Seq(UserWords)]
    /\ got \in [Users -> Seq(Seq(STRING))]
    /\ Dict!IsABag(requests) /\ DOMAIN requests \subseteq Users \X UserWords
    /\ Dict!IsABag(answers) /\ DOMAIN answers \subseteq Users \X Seq(STRING)
    /\ lost \in SUBSET Users /\ duplicated \in SUBSET Users
    /\ netFaults \in 0..MaxNetFaults

(* The answers are those of the client's own words.                        *)
MatchGiven ==
    \A c \in Users : \A k \in 1..Len(got[c]) :
        \/ got[c][k] = Given(asked[c][k])
        \/ c \in duplicated /\ \E j \in 1..k : got[c][k] = Given(asked[c][j])

DictInv ==
    /\ _dict = Dict!LoadDict
    /\ DictTypes /\ OneWaitsFor /\ AboutItsWord /\ OneUnderWay /\ MatchGiven

LEMMA Single ==
  ASSUME NEW S, NEW c \in S
  PROVE  <<c>> \in Seq(S)
  OBVIOUS

LEMMA SuffixFrom ==
  ASSUME NEW S, NEW s \in Seq(S), NEW n \in Nat, n >= 1
  PROVE  SubSeq(s, n, Len(s)) \in Seq(S)
  <1>1. Len(s) \in Nat
    BY LenProperties
  <1>2. \A i \in n..Len(s) : s[i] \in S
    <2>1. \A i \in n..Len(s) : i \in 1..Len(s)
      BY <1>1
    <2> QED BY <2>1, ElementOfSeq
  <1> QED BY <1>1, <1>2, SubSeqProperties

LEMMA OneMore ==
  ASSUME NEW b, NEW d, Dict!IsABag(b)
  PROVE  /\ Dict!IsABag(Dict!With(b, d))
         /\ DOMAIN Dict!With(b, d) = DOMAIN b \cup {d}
         /\ \A e \in DOMAIN b : e # d => Dict!With(b, d)[e] = b[e]
         /\ d \notin DOMAIN b => Dict!With(b, d)[d] = 1
  BY DEF Dict!IsABag, Dict!With, Dict!SetToBag, Dict!(+)

LEMMA OneLess ==
  ASSUME NEW b, NEW d \in DOMAIN b, Dict!IsABag(b)
  PROVE  /\ Dict!IsABag(Dict!Without(b, d))
         /\ \A e \in DOMAIN Dict!Without(b, d) :
              e \in DOMAIN b /\ (b[e] = 1 => e # d /\ Dict!Without(b, d)[e] = 1)
  BY DEF Dict!IsABag, Dict!Without, Dict!SetToBag, Dict!(-)

LEMMA ValuesAreTexts ==
  ASSUME Dict!DictAssumption, NEW w \in DOMAIN Dict!LoadDict
  PROVE  Dict!LoadDict[w] \in Seq(STRING)
  <1> DEFINE K == {i \in Dict!Entries : Dict!KeyOf(DictLines[i]) = w}
             i == Dict!Max(K)
  <1>1. K # {} /\ Dict!LoadDict[w] = Dict!ValueOf(DictLines[i])
    BY DEF Dict!LoadDict, Dict!EntryOf
  <1>2. \E x \in K : \A y \in K : x >= y
    <2>1. K \in SUBSET (1..Len(DictLines))
      BY DEF Dict!Entries
    <2> HIDE DEF K
    <2> QED BY <1>1, <2>1, DictAssumed, Greatest
  <1>3. i \in K
    BY <1>2 DEF Dict!Max
  <1>4. i \in 1..Len(DictLines) /\ Dict!FirstSpace(DictLines[i]) # 0
    BY <1>3 DEF Dict!Entries
  <1> DEFINE l == DictLines[i]
             pos == Dict!FirstSpace(l)
  <1>5. l \in Seq(STRING)
    BY <1>4, DictAssumed
  <1>6. pos \in 0..Len(l) /\ pos # 0
    BY <1>4, <1>5, FirstSpaceIs
  <1>7. Dict!LoadDict[w] = SubSeq(l, pos + 1, Len(l))
    BY <1>1 DEF Dict!ValueOf
  <1> HIDE DEF l, pos
  <1>8. pos + 1 \in Nat /\ pos + 1 >= 1
    BY <1>5, <1>6, LenProperties
  <1> QED BY <1>5, <1>7, <1>8, SuffixFrom

LEMMA GivenIsText ==
  ASSUME Dict!DictAssumption, NEW w
  PROVE  Given(w) \in Seq(STRING)
  <1>1. Dict!NotFound \in Seq(STRING)
    <2>1. "not found" \in STRING
      BY DictAssumed DEF Literals
    <2> QED BY <2>1, Single DEF Dict!NotFound
  <1> QED BY <1>1, ValuesAreTexts DEF Given

LEMMA DictBegins ==
  ASSUME Dict!Init, Dict!DictAssumption
  PROVE  DictInv
  <1>1. DOMAIN requests = {} /\ DOMAIN answers = {}
    BY DEF Dict!Init, Dict!EmptyBag, Dict!SetToBag
  <1>2. Dict!IsABag(requests) /\ Dict!IsABag(answers)
    BY <1>1 DEF Dict!Init, Dict!IsABag, Dict!EmptyBag, Dict!SetToBag
  <1>3. /\ _dict = Dict!LoadDict /\ waiting = {} /\ lost = {} /\ duplicated = {} /\ netFaults = 0
        /\ \A c \in Users : asked[c] = <<>> /\ got[c] = <<>>
        /\ asked \in [Users -> Seq(UserWords)] /\ got \in [Users -> Seq(Seq(STRING))]
    BY DEF Dict!Init
  <1>4. netFaults \in 0..MaxNetFaults
    BY <1>3, DictAssumed
  <1>5. DictTypes
    BY <1>1, <1>2, <1>3, <1>4 DEF DictTypes
  <1>6. OneWaitsFor
    BY <1>3 DEF OneWaitsFor
  <1>7. MatchGiven
    <2>1. \A c \in Users : Len(got[c]) = 0
      BY <1>3
    <2> QED BY <2>1 DEF MatchGiven
  <1> QED BY <1>1, <1>3, <1>5, <1>6, <1>7 DEF DictInv, AboutItsWord, OneUnderWay


LEMMA AskKeeps ==
  ASSUME DictInv, Dict!DictAssumption, NEW c \in Users, Dict!Ask(c)
  PROVE  DictInv'
  <1>1. PICK w \in UserWords : /\ asked' = [asked EXCEPT ![c] = Append(@, w)]
                               /\ requests' = Dict!With(requests, <<c, w>>)
    BY DEF Dict!Ask
  <1>2. /\ c \notin waiting /\ waiting' = waiting \cup {c}
        /\ UNCHANGED <<_dict, got, answers, lost, duplicated, netFaults>>
    BY DEF Dict!Ask
  <1> DEFINE d == <<c, w>>
  <1>3. DictTypes /\ OneWaitsFor /\ AboutItsWord /\ OneUnderWay
    BY DEF DictInv
  <1>4. /\ Dict!IsABag(requests') /\ DOMAIN requests' = DOMAIN requests \cup {d}
        /\ \A e \in DOMAIN requests : e # d => requests'[e] = requests[e]
        /\ d \notin DOMAIN requests => requests'[d] = 1
    BY <1>1, <1>3, OneMore DEF DictTypes
  <1>5. \A u \in Users : asked[u] \in Seq(UserWords) /\ Len(asked[u]) \in Nat
    BY <1>3, LenProperties DEF DictTypes
  <1> DEFINE n == Len(asked[c])
  <1>6. /\ Append(asked[c], w) \in Seq(UserWords) /\ Len(Append(asked[c], w)) = n + 1
        /\ \A j \in 1..n : Append(asked[c], w)[j] = asked[c][j]
        /\ Append(asked[c], w)[n + 1] = w
    BY <1>5, AppendProperties
  <1>7. /\ asked' \in [Users -> Seq(UserWords)] /\ asked'[c] = Append(asked[c], w)
        /\ \A u \in Users : u # c => asked'[u] = asked[u]
    BY <1>1, <1>3, <1>6 DEF DictTypes
  <1>8. \A u \in Users : \A j \in 1..Len(asked[u]) :
           j \in 1..Len(asked'[u]) /\ asked'[u][j] = asked[u][j]
    <2> SUFFICES ASSUME NEW u \in Users, NEW j \in 1..Len(asked[u])
                 PROVE  j \in 1..Len(asked'[u]) /\ asked'[u][j] = asked[u][j]
      OBVIOUS
    <2>1. CASE u # c
      BY <1>7, <2>1
    <2>2. CASE u = c
      <3>1. j \in 1..n /\ j \in 1..(n + 1)
        BY <1>5, <2>2
      <3> QED BY <1>6, <1>7, <2>2, <3>1
    <2> QED BY <2>1, <2>2
  <1>9. Len(asked'[c]) = n + 1 /\ asked'[c][n + 1] = w /\ n \in Nat /\ n + 1 \in 1..(n + 1)
    BY <1>5, <1>6, <1>7
  <1>10. DictTypes'
    BY <1>2, <1>3, <1>4, <1>7 DEF DictTypes
  <1>11. OneWaitsFor'
    <2> SUFFICES ASSUME NEW u \in Users
                 PROVE  Len(asked'[u]) = IF u \in waiting' THEN Len(got'[u]) + 1 ELSE Len(got'[u])
      BY DEF OneWaitsFor
    <2>1. CASE u # c
      BY <1>2, <1>3, <1>7, <2>1 DEF OneWaitsFor
    <2>2. CASE u = c
      <3>1. n = Len(got[c])
        BY <1>2, <1>3 DEF OneWaitsFor
      <3> QED BY <1>2, <1>9, <2>2, <3>1
    <2> QED BY <2>1, <2>2
  <1>12. AboutItsWord'
    <2>1. ASSUME NEW e \in DOMAIN requests'
          PROVE  \E j \in 1..Len(asked'[e[1]]) : e[2] = asked'[e[1]][j]
      <3>1. CASE e = d
        <4>1. e[1] = c /\ e[2] = w
          BY <3>1
        <4> HIDE DEF d, n
        <4> QED BY <1>9, <4>1
      <3>2. CASE e # d
        <4>1. e \in DOMAIN requests /\ e[1] \in Users
          BY <1>3, <1>4, <3>2 DEF DictTypes
        <4> QED BY <1>3, <1>8, <4>1 DEF AboutItsWord
      <3> QED BY <3>1, <3>2
    <2>2. ASSUME NEW e \in DOMAIN answers'
          PROVE  \E j \in 1..Len(asked'[e[1]]) : e[2] = Given(asked'[e[1]][j])
      <3>1. e \in DOMAIN answers /\ e[1] \in Users
        BY <1>2, <1>3 DEF DictTypes
      <3>2. PICK j \in 1..Len(asked[e[1]]) : e[2] = Given(asked[e[1]][j])
        BY <1>3, <3>1 DEF AboutItsWord
      <3>3. j \in 1..Len(asked'[e[1]]) /\ asked'[e[1]][j] = asked[e[1]][j]
        BY <1>8, <3>1, <3>2
      <3>4. e[2] = Given(asked'[e[1]][j])
        BY <3>2, <3>3
      <3> QED BY <3>3, <3>4
    <2> QED BY <2>1, <2>2 DEF AboutItsWord
  <1>13. OneUnderWay'
    <2>0. \A u \in Users : u # c => LastAsked(u)' = LastAsked(u)
      BY <1>7 DEF LastAsked
    <2>1. ASSUME NEW e \in DOMAIN requests', e[1] \notin duplicated
          PROVE  e[1] \in waiting' /\ requests'[e] = 1 /\ e[2] = LastAsked(e[1])'
      <3>1. CASE e = d
        <4>1. e[1] = c /\ e[2] = w
          BY <3>1
        <4>2. d \notin DOMAIN requests
          BY <1>2, <1>3, <2>1, <3>1, <4>1 DEF OneUnderWay
        <4>3. LastAsked(c)' = w
          BY <1>9 DEF LastAsked
        <4> QED BY <1>2, <1>4, <3>1, <4>1, <4>2, <4>3
      <3>2. CASE e # d
        <4>1. e \in DOMAIN requests /\ e[1] \in Users /\ requests'[e] = requests[e]
          BY <1>3, <1>4, <3>2 DEF DictTypes
        <4>2. e[1] \in waiting /\ requests[e] = 1 /\ e[2] = LastAsked(e[1])
          BY <1>3, <2>1, <4>1 DEF OneUnderWay
        <4> QED BY <1>2, <2>0, <4>1, <4>2
      <3> QED BY <3>1, <3>2
    <2>2. ASSUME NEW e \in DOMAIN answers', e[1] \notin duplicated
          PROVE  e[1] \in waiting' /\ answers'[e] = 1 /\ e[2] = Given(LastAsked(e[1])')
      <3>1. e \in DOMAIN answers /\ e[1] \in Users
        BY <1>2, <1>3 DEF DictTypes
      <3>2. e[1] \in waiting /\ answers[e] = 1 /\ e[2] = Given(LastAsked(e[1]))
        BY <1>3, <2>2, <3>1 DEF OneUnderWay
      <3>3. e[1] # c /\ LastAsked(e[1])' = LastAsked(e[1])
        BY <1>2, <2>0, <3>1, <3>2
      <3> QED BY <1>2, <3>2, <3>3
    <2>3. ASSUME NEW e \in DOMAIN requests', NEW f \in DOMAIN answers', e[1] \notin duplicated
          PROVE  e[1] # f[1]
      <3>1. CASE e = d
        <4>1. e[1] = c /\ c \notin duplicated
          BY <2>3, <3>1
        <4>2. f[1] # c
          BY <1>2, <1>3, <4>1 DEF OneUnderWay
        <4> QED BY <4>1, <4>2
      <3>2. CASE e # d
        <4>1. e \in DOMAIN requests /\ f \in DOMAIN answers
          BY <1>2, <1>4, <3>2
        <4> QED BY <1>3, <2>3, <4>1 DEF OneUnderWay
      <3> QED BY <3>1, <3>2
    <2> QED BY <1>2, <2>1, <2>2, <2>3 DEF OneUnderWay
  <1>14. MatchGiven'
    <2> SUFFICES ASSUME NEW u \in Users, NEW k \in 1..Len(got[u])
                 PROVE  \/ got[u][k] = Given(asked'[u][k])
                        \/ /\ u \in duplicated
                           /\ \E j \in 1..k : got[u][k] = Given(asked'[u][j])
      BY <1>2 DEF MatchGiven
    <2>1. Len(got[u]) <= Len(asked[u]) /\ Len(got[u]) \in Nat
      <3>1. Len(got[u]) \in Nat
        BY <1>3, LenProperties DEF DictTypes
      <3> QED BY <1>3, <3>1 DEF OneWaitsFor
    <2>2. \A j \in 1..k : asked'[u][j] = asked[u][j]
      <3>1. \A j \in 1..k : j \in 1..Len(asked[u])
        BY <1>5, <2>1
      <3> QED BY <1>8, <3>1
    <2>3. k \in 1..k
      BY <2>1
    <2>4. \/ got[u][k] = Given(asked[u][k])
          \/ u \in duplicated /\ \E j \in 1..k : got[u][k] = Given(asked[u][j])
      BY DEF DictInv, MatchGiven
    <2>5. asked'[u][k] = asked[u][k]
      BY <2>2, <2>3
    <2>6. \A j \in 1..k : Given(asked'[u][j]) = Given(asked[u][j])
      BY <2>2
    <2> QED BY <2>4, <2>5, <2>6
  <1> QED BY <1>2, <1>10, <1>11, <1>12, <1>13, <1>14 DEF DictInv, Dict!LoadDict

LEMMA ReceiveKeeps ==
  ASSUME DictInv, Dict!DictAssumption, NEW c \in Users, Dict!Receive(c)
  PROVE  DictInv'
  <1>1. PICK d \in DOMAIN answers : /\ d[1] = c
                                    /\ got' = [got EXCEPT ![c] = Append(@, d[2])]
                                    /\ answers' = Dict!Without(answers, d)
    BY DEF Dict!Receive, Dict!BagToSet
  <1>2. /\ c \in waiting /\ waiting' = waiting \ {c}
        /\ UNCHANGED <<_dict, asked, requests, lost, duplicated, netFaults>>
    BY DEF Dict!Receive
  <1>3. DictTypes /\ OneWaitsFor /\ AboutItsWord /\ OneUnderWay
    BY DEF DictInv
  <1>4. /\ Dict!IsABag(answers')
        /\ \A e \in DOMAIN answers' :
             e \in DOMAIN answers /\ (answers[e] = 1 => e # d /\ answers'[e] = 1)
    BY <1>1, <1>3, OneLess DEF DictTypes
  <1>5. \A u \in Users : got[u] \in Seq(Seq(STRING)) /\ Len(got[u]) \in Nat
    BY <1>3, LenProperties DEF DictTypes
  <1> DEFINE n == Len(got[c])
  <1>6. /\ Append(got[c], d[2]) \in Seq(Seq(STRING)) /\ Len(Append(got[c], d[2])) = n + 1
        /\ \A j \in 1..n : Append(got[c], d[2])[j] = got[c][j]
        /\ Append(got[c], d[2])[n + 1] = d[2]
    <2>1. d[2] \in Seq(STRING)
      BY <1>3 DEF DictTypes
    <2> QED BY <1>5, <2>1, AppendProperties
  <1>7. /\ got' \in [Users -> Seq(Seq(STRING))] /\ got'[c] = Append(got[c], d[2])
        /\ \A u \in Users : u # c => got'[u] = got[u]
    BY <1>1, <1>3, <1>6 DEF DictTypes
  <1>8. Len(got'[c]) = n + 1 /\ got'[c][n + 1] = d[2] /\ n \in Nat /\ Len(asked[c]) = n + 1
    BY <1>2, <1>3, <1>5, <1>6, <1>7 DEF OneWaitsFor
  <1>9. DictTypes'
    BY <1>2, <1>3, <1>4, <1>7 DEF DictTypes
  <1>10. OneWaitsFor'
    <2> SUFFICES ASSUME NEW u \in Users
                 PROVE  Len(asked[u]) = IF u \in waiting' THEN Len(got'[u]) + 1 ELSE Len(got'[u])
      BY <1>2 DEF OneWaitsFor
    <2>1. CASE u # c
      BY <1>2, <1>3, <1>7, <2>1 DEF OneWaitsFor
    <2>2. CASE u = c
      BY <1>2, <1>8, <2>2
    <2> QED BY <2>1, <2>2
  <1>11. AboutItsWord'
    BY <1>2, <1>3, <1>4 DEF AboutItsWord
  <1>12. OneUnderWay'
    <2>0. \A u : LastAsked(u)' = LastAsked(u)
      BY <1>2 DEF LastAsked
    <2>1. ASSUME NEW e \in DOMAIN requests, e[1] \notin duplicated
          PROVE  e[1] \in waiting' /\ requests[e] = 1 /\ e[2] = LastAsked(e[1])
      BY <1>1, <1>2, <1>3, <2>1 DEF OneUnderWay
    <2>2. ASSUME NEW e \in DOMAIN answers', e[1] \notin duplicated
          PROVE  e[1] \in waiting' /\ answers'[e] = 1 /\ e[2] = Given(LastAsked(e[1]))
      <3>1. e \in DOMAIN answers
        BY <1>4
      <3>2. e[1] \in waiting /\ answers[e] = 1 /\ e[2] = Given(LastAsked(e[1]))
        BY <1>3, <2>2, <3>1 DEF OneUnderWay
      <3>3. e # d /\ answers'[e] = 1
        BY <1>4, <3>2
      <3>4. e[1] # c
        <4> SUFFICES ASSUME e[1] = c PROVE FALSE
          OBVIOUS
        <4>1. e[2] = d[2]
          BY <1>1, <1>3, <2>2, <3>2 DEF OneUnderWay
        <4>2. e = <<e[1], e[2]>> /\ d = <<d[1], d[2]>>
          BY <1>3, <3>1 DEF DictTypes
        <4> QED BY <1>1, <3>3, <4>1, <4>2
      <3> QED BY <1>2, <3>2, <3>3, <3>4
    <2>3. ASSUME NEW e \in DOMAIN requests, NEW f \in DOMAIN answers', e[1] \notin duplicated
          PROVE  e[1] # f[1]
      BY <1>3, <1>4, <2>3 DEF OneUnderWay
    <2> QED BY <1>2, <2>0, <2>1, <2>2, <2>3 DEF OneUnderWay
  <1>13. MatchGiven'
    <2> SUFFICES ASSUME NEW u \in Users, NEW k \in 1..Len(got'[u])
                 PROVE  \/ got'[u][k] = Given(asked[u][k])
                        \/ /\ u \in duplicated
                           /\ \E j \in 1..k : got'[u][k] = Given(asked[u][j])
      BY <1>2 DEF MatchGiven
    <2>0. \A v \in Users : \A j \in 1..Len(got[v]) :
             \/ got[v][j] = Given(asked[v][j])
             \/ v \in duplicated /\ \E i \in 1..j : got[v][j] = Given(asked[v][i])
      BY DEF DictInv, MatchGiven
    <2>1. CASE u # c
      BY ZenonT(60), <1>7, <2>0, <2>1
    <2>2. CASE u = c /\ k \in 1..n
      BY ZenonT(60), <1>6, <1>7, <2>0, <2>2
    <2>3. CASE u = c /\ k = n + 1
      <3>1. got'[u][k] = d[2]
        BY <1>8, <2>3
      <3>2. CASE c \notin duplicated
        <4>1. d[2] = Given(LastAsked(c))
          BY <1>1, <1>3, <3>2 DEF OneUnderWay
        <4>2. LastAsked(c) = asked[u][k]
          BY <1>8, <2>3 DEF LastAsked
        <4> QED BY <3>1, <4>1, <4>2
      <3>3. CASE c \in duplicated
        <4>1. \E j \in 1..Len(asked[c]) : d[2] = Given(asked[c][j])
          BY <1>1, <1>3 DEF AboutItsWord
        <4> QED BY <1>8, <2>3, <3>1, <3>3, <4>1
      <3> QED BY <3>2, <3>3
    <2>4. u = c => k \in 1..n \/ k = n + 1
      BY <1>8
    <2> QED BY <2>1, <2>2, <2>3, <2>4
  <1> QED BY <1>2, <1>9, <1>10, <1>11, <1>12, <1>13 DEF DictInv, Dict!LoadDict


LEMMA ServeKeeps ==
  ASSUME DictInv, Dict!DictAssumption, Dict!Serve
  PROVE  DictInv'
  <1>1. PICK d \in DOMAIN requests :
          /\ requests' = Dict!Without(requests, d)
          /\ answers' = IF Dict!HasAnswer(d[2])
                        THEN Dict!With(answers, <<d[1], Dict!Translate(d[2])>>)
                        ELSE answers
    BY DEF Dict!Serve, Dict!BagToSet
  <1>2. UNCHANGED <<_dict, waiting, asked, got, lost, duplicated, netFaults>>
    BY DEF Dict!Serve
  <1>3. DictTypes /\ OneWaitsFor /\ AboutItsWord /\ OneUnderWay /\ _dict = Dict!LoadDict
    BY DEF DictInv
  <1> DEFINE a == <<d[1], Given(d[2])>>
  <1>4. d[1] \in Users /\ d[2] \in UserWords
    BY <1>3 DEF DictTypes
  <1>5. Dict!Translate(d[2]) = Given(d[2]) /\ Given(d[2]) \in Seq(STRING)
    BY <1>3, GivenIsText DEF Dict!Translate, Given
  <1>6. a \in Users \X Seq(STRING) /\ a[1] = d[1] /\ a[2] = Given(d[2])
    BY <1>4, <1>5
  <1>7. answers' = Dict!With(answers, a) \/ answers' = answers
    BY <1>1, <1>5
  <1> HIDE DEF a
  <1>8. /\ Dict!IsABag(answers') /\ DOMAIN answers' \subseteq DOMAIN answers \cup {a}
        /\ \A e \in DOMAIN answers : e # a => answers'[e] = answers[e]
        /\ a \in DOMAIN answers' /\ a \notin DOMAIN answers => answers'[a] = 1
    <2>0. Dict!IsABag(answers)
      BY <1>3 DEF DictTypes
    <2>1. CASE answers' = answers
      BY <2>0, <2>1
    <2>2. CASE answers' = Dict!With(answers, a)
      <3>1. /\ Dict!IsABag(Dict!With(answers, a))
            /\ DOMAIN Dict!With(answers, a) = DOMAIN answers \cup {a}
            /\ \A e \in DOMAIN answers : e # a => Dict!With(answers, a)[e] = answers[e]
            /\ a \notin DOMAIN answers => Dict!With(answers, a)[a] = 1
        BY <2>0, OneMore
      <3> QED BY <2>2, <3>1
    <2> QED BY <1>7, <2>1, <2>2
  <1>9. /\ Dict!IsABag(requests')
        /\ \A e \in DOMAIN requests' :
             e \in DOMAIN requests /\ (requests[e] = 1 => e # d /\ requests'[e] = 1)
    BY <1>1, <1>3, OneLess DEF DictTypes
  <1>10. DictTypes'
    BY <1>2, <1>3, <1>6, <1>8, <1>9 DEF DictTypes
  <1>11. AboutItsWord'
    <2>1. \A e \in DOMAIN requests' : \E j \in 1..Len(asked[e[1]]) : e[2] = asked[e[1]][j]
      BY <1>3, <1>9 DEF AboutItsWord
    <2>2. PICK j \in 1..Len(asked[d[1]]) : d[2] = asked[d[1]][j]
      BY <1>3 DEF AboutItsWord
    <2>3. \E i \in 1..Len(asked[a[1]]) : a[2] = Given(asked[a[1]][i])
      BY <1>6, <2>2
    <2>4. \A e \in DOMAIN answers' :
             \E i \in 1..Len(asked[e[1]]) : e[2] = Given(asked[e[1]][i])
      BY <1>3, <1>8, <2>3 DEF AboutItsWord
    <2> QED BY <1>2, <2>1, <2>4 DEF AboutItsWord
  <1>12. OneUnderWay'
    <2>0. \A u : LastAsked(u)' = LastAsked(u)
      BY <1>2 DEF LastAsked
    <2>1. ASSUME NEW e \in DOMAIN requests', e[1] \notin duplicated
          PROVE  /\ e \in DOMAIN requests /\ e # d
                 /\ e[1] \in waiting /\ requests'[e] = 1 /\ e[2] = LastAsked(e[1])
      <3>1. e \in DOMAIN requests
        BY <1>9
      <3>2. e[1] \in waiting /\ requests[e] = 1 /\ e[2] = LastAsked(e[1])
        BY <1>3, <2>1, <3>1 DEF OneUnderWay
      <3> QED BY <1>9, <3>1, <3>2
    <2>2. ASSUME NEW e \in DOMAIN answers', e[1] \notin duplicated
          PROVE  e[1] \in waiting /\ answers'[e] = 1 /\ e[2] = Given(LastAsked(e[1]))
      <3>1. CASE e = a
        <4>1. d[1] \notin duplicated /\ e[1] = d[1]
          BY <1>6, <2>2, <3>1
        <4>2. d[1] \in waiting /\ d[2] = LastAsked(d[1])
          BY <1>3, <4>1 DEF OneUnderWay
        <4>3. a \notin DOMAIN answers
          BY <1>3, <1>6, <4>1 DEF OneUnderWay
        <4> QED BY <1>6, <1>8, <3>1, <4>1, <4>2, <4>3
      <3>2. CASE e # a
        <4>1. e \in DOMAIN answers /\ answers'[e] = answers[e]
          BY <1>8, <3>2
        <4> QED BY <1>3, <2>2, <4>1 DEF OneUnderWay
      <3> QED BY <3>1, <3>2
    <2>3. ASSUME NEW e \in DOMAIN requests', NEW f \in DOMAIN answers', e[1] \notin duplicated
          PROVE  e[1] # f[1]
      <3>1. e \in DOMAIN requests /\ e # d /\ e[2] = LastAsked(e[1])
        BY <2>1, <2>3
      <3>2. CASE f = a
        <4> SUFFICES ASSUME e[1] = d[1] PROVE FALSE
          BY <1>6, <3>2
        <4>1. d[2] = LastAsked(d[1])
          BY <1>3, <2>3 DEF OneUnderWay
        <4>2. e = <<e[1], e[2]>> /\ d = <<d[1], d[2]>>
          BY <1>3, <3>1 DEF DictTypes
        <4> QED BY <3>1, <4>1, <4>2
      <3>3. CASE f # a
        <4>1. f \in DOMAIN answers
          BY <1>8, <3>3
        <4> QED BY <1>3, <2>3, <3>1, <4>1 DEF OneUnderWay
      <3> QED BY <3>2, <3>3
    <2> QED BY <1>2, <2>0, <2>1, <2>2, <2>3 DEF OneUnderWay
  <1>13. OneWaitsFor' /\ MatchGiven'
    BY <1>2 DEF DictInv, OneWaitsFor, MatchGiven
  <1> QED BY <1>2, <1>10, <1>11, <1>12, <1>13 DEF DictInv, Dict!LoadDict

LEMMA OneFault ==
  ASSUME DictInv, Dict!DictAssumption, Dict!Fault
  PROVE  netFaults' \in 0..MaxNetFaults
  <1>1. netFaults \in 0..MaxNetFaults /\ netFaults < MaxNetFaults /\ netFaults' = netFaults + 1
    BY DEF DictInv, DictTypes, Dict!Fault
  <1> QED BY <1>1, DictAssumed

LEMMA LoseKeeps ==
  ASSUME DictInv, Dict!DictAssumption, Dict!Lose
  PROVE  DictInv'
  <1>1. UNCHANGED <<_dict, waiting, asked, got, duplicated>> /\ netFaults' \in 0..MaxNetFaults
    BY OneFault DEF Dict!Lose
  <1>2. DictTypes /\ OneWaitsFor /\ AboutItsWord /\ OneUnderWay /\ _dict = Dict!LoadDict
    BY DEF DictInv
  <1>3. /\ lost' \in SUBSET Users
        /\ Dict!IsABag(requests') /\ Dict!IsABag(answers')
        /\ \A e \in DOMAIN requests' : e \in DOMAIN requests /\ (requests[e] = 1 => requests'[e] = 1)
        /\ \A e \in DOMAIN answers' : e \in DOMAIN answers /\ (answers[e] = 1 => answers'[e] = 1)
    <2>1. ASSUME NEW d \in DOMAIN requests, requests' = Dict!Without(requests, d),
                 lost' = lost \cup {d[1]}, UNCHANGED answers
          PROVE  <1>3!:
      BY <1>2, <2>1, OneLess DEF DictTypes
    <2>2. ASSUME NEW d \in DOMAIN answers, answers' = Dict!Without(answers, d),
                 lost' = lost \cup {d[1]}, UNCHANGED requests
          PROVE  <1>3!:
      BY <1>2, <2>2, OneLess DEF DictTypes
    <2> QED BY <2>1, <2>2 DEF Dict!Lose, Dict!BagToSet
  <1>4. DictTypes'
    BY <1>1, <1>2, <1>3 DEF DictTypes
  <1>5. OneWaitsFor' /\ AboutItsWord' /\ MatchGiven'
    BY <1>1, <1>3 DEF DictInv, OneWaitsFor, AboutItsWord, MatchGiven
  <1>6. OneUnderWay'
    <2>0. \A u : LastAsked(u)' = LastAsked(u)
      BY <1>1 DEF LastAsked
    <2> QED BY <1>1, <1>2, <1>3, <2>0 DEF OneUnderWay
  <1> QED BY <1>1, <1>2, <1>4, <1>5, <1>6 DEF DictInv, Dict!LoadDict

LEMMA DuplicateKeeps ==
  ASSUME DictInv, Dict!DictAssumption, Dict!Duplicate
  PROVE  DictInv'
  <1>1. UNCHANGED <<_dict, waiting, asked, got, lost>> /\ netFaults' \in 0..MaxNetFaults
    BY OneFault DEF Dict!Duplicate
  <1>2. DictTypes /\ OneWaitsFor /\ AboutItsWord /\ OneUnderWay /\ _dict = Dict!LoadDict
    BY DEF DictInv
  <1>3. /\ duplicated' \in SUBSET Users /\ duplicated \subseteq duplicated'
        /\ Dict!IsABag(requests') /\ Dict!IsABag(answers')
        /\ DOMAIN requests' = DOMAIN requests /\ DOMAIN answers' = DOMAIN answers
        /\ \A e \in DOMAIN requests : e[1] \notin duplicated' => requests'[e] = requests[e]
        /\ \A e \in DOMAIN answers : e[1] \notin duplicated' => answers'[e] = answers[e]
    <2>1. ASSUME NEW d \in DOMAIN requests, requests' = Dict!With(requests, d),
                 duplicated' = duplicated \cup {d[1]}, UNCHANGED answers
          PROVE  <1>3!:
      <3>1. /\ Dict!IsABag(Dict!With(requests, d))
            /\ DOMAIN Dict!With(requests, d) = DOMAIN requests \cup {d}
            /\ \A e \in DOMAIN requests : e # d => Dict!With(requests, d)[e] = requests[e]
        BY <1>2, OneMore DEF DictTypes
      <3>2. d[1] \in Users
        BY <1>2 DEF DictTypes
      <3> QED BY <1>2, <2>1, <3>1, <3>2 DEF DictTypes
    <2>2. ASSUME NEW d \in DOMAIN answers, answers' = Dict!With(answers, d),
                 duplicated' = duplicated \cup {d[1]}, UNCHANGED requests
          PROVE  <1>3!:
      <3>1. /\ Dict!IsABag(Dict!With(answers, d))
            /\ DOMAIN Dict!With(answers, d) = DOMAIN answers \cup {d}
            /\ \A e \in DOMAIN answers : e # d => Dict!With(answers, d)[e] = answers[e]
        BY <1>2, OneMore DEF DictTypes
      <3>2. d[1] \in Users
        BY <1>2 DEF DictTypes
      <3> QED BY <1>2, <2>2, <3>1, <3>2 DEF DictTypes
    <2> QED BY <2>1, <2>2 DEF Dict!Duplicate, Dict!BagToSet
  <1>4. DictTypes'
    BY <1>1, <1>2, <1>3 DEF DictTypes
  <1>5. OneWaitsFor' /\ AboutItsWord'
    BY <1>1, <1>2, <1>3 DEF OneWaitsFor, AboutItsWord
  <1>6. MatchGiven'
    BY <1>1, <1>3 DEF DictInv, MatchGiven
  <1>7. OneUnderWay'
    <2>0. \A u : LastAsked(u)' = LastAsked(u)
      BY <1>1 DEF LastAsked
    <2> QED BY <1>1, <1>2, <1>3, <2>0 DEF OneUnderWay
  <1> QED BY <1>1, <1>2, <1>4, <1>5, <1>6, <1>7 DEF DictInv, Dict!LoadDict

LEMMA DictKeeps ==
  ASSUME DictInv, Dict!DictAssumption, Dict!Next \/ UNCHANGED dictVars
  PROVE  DictInv'
  <1>1. CASE UNCHANGED dictVars
    <2>0. \A u : LastAsked(u)' = LastAsked(u)
      BY <1>1 DEF LastAsked, dictVars
    <2> QED BY <1>1, <2>0 DEF dictVars, DictInv, DictTypes, OneWaitsFor, AboutItsWord, OneUnderWay,
                              MatchGiven, Dict!LoadDict
  <1>2. CASE Dict!Terminated
    <2>1. UNCHANGED dictVars
      BY <1>2 DEF Dict!Terminated, Dict!vars, dictVars
    <2> QED BY <1>1, <2>1
  <1> QED BY <1>1, <1>2, AskKeeps, ReceiveKeeps, ServeKeeps, LoseKeeps, DuplicateKeeps DEF Dict!Next

LEMMA DictInvSays ==
  ASSUME DictInv, Dict!DictAssumption
  PROVE  Dict!TypeOK /\ Dict!AnswersMatch
  <1>1. Dict!TypeOK
    BY ValuesAreTexts DEF DictInv, DictTypes, Dict!TypeOK, Dict!BagToSet
  <1>2. ASSUME NEW c \in Users, NEW k \in 1..Len(got[c])
        PROVE  \/ Dict!Says(asked[c][k], got[c][k])
               \/ c \in duplicated /\ \E j \in 1..k : Dict!Says(asked[c][j], got[c][k])
    <2>1. /\ asked[c] \in Seq(UserWords) /\ got[c] \in Seq(Seq(STRING))
          /\ Len(got[c]) <= Len(asked[c])
      <3>1. asked[c] \in Seq(UserWords) /\ got[c] \in Seq(Seq(STRING))
        BY DEF DictInv, DictTypes
      <3>2. PICK n \in Nat : n = Len(got[c])
        BY <3>1, LenProperties
      <3>3. Len(asked[c]) = n + 1 \/ Len(asked[c]) = n
        BY <3>2 DEF DictInv, OneWaitsFor
      <3> QED BY <3>1, <3>2, <3>3
    <2>2. \A j \in 1..k : asked[c][j] \in UserWords
      <3>1. Len(got[c]) \in Nat /\ Len(asked[c]) \in Nat
        BY <2>1, LenProperties
      <3>2. \A j \in 1..k : j \in 1..Len(asked[c])
        BY <2>1, <3>1
      <3> QED BY <2>1, <3>2, ElementOfSeq
    <2>3. \A j \in 1..k : Dict!Says(asked[c][j], Given(asked[c][j]))
      BY <2>2, GivenIsSaid
    <2>4. k \in 1..k
      <3>1. Len(got[c]) \in Nat
        BY <2>1, LenProperties
      <3> QED BY <3>1
    <2>5. \/ got[c][k] = Given(asked[c][k])
          \/ c \in duplicated /\ \E j \in 1..k : got[c][k] = Given(asked[c][j])
      BY DEF DictInv, MatchGiven
    <2> QED BY <2>3, <2>4, <2>5, Zenon
  <1> QED BY <1>1, <1>2 DEF Dict!AnswersMatch

-----------------------------------------------------------------------------
(***************************************************************************)
(* The web server's handling of a connection.                              *)
(***************************************************************************)
(* The least number of a set of numbers.                                   *)
LEMMA LeastOf ==
  ASSUME NEW S \in SUBSET Nat, S # {}
  PROVE  Http!Min(S) \in S /\ \A m \in S : Http!Min(S) <= m
  BY Least DEF Http!Min

-----------------------------------------------------------------------------
(* Sequences of tokens, and what ReadOneLine does to them.                 *)
Tokens == UNION {{r[i] : i \in 1..Len(r)} : r \in Requests}

LEMMA RequestsAreSequences ==
  ASSUME Http!HttpAssumption, NEW r \in Requests
  PROVE  r \in Seq(Tokens)
  <1>1. Len(r) \in Nat /\ r = [i \in 1..Len(r) |-> r[i]]
    BY DEF Http!HttpAssumption, Http!IsRequest
  <1>2. \A i \in 1..Len(r) : r[i] \in Tokens
    BY DEF Tokens
  <1>3. r \in [1..Len(r) -> Tokens]
    BY <1>1, <1>2
  <1> QED BY <1>1, <1>3, SeqDef

(* A line ends before the first line end, and the rest begins behind it.   *)
CutAt(r, n, first, rest) ==
    /\ n \in 1..Len(r) /\ r[n] = CRLF
    /\ first \in Seq(Tokens) /\ Len(first) = n - 1
    /\ \A i \in 1..(n - 1) : first[i] = r[i] /\ first[i] # CRLF
    /\ rest \in Seq(Tokens) /\ Len(rest) = Len(r) - n
    /\ \A i \in 1..(Len(r) - n) : rest[i] = r[n + i]

LEMMA LineIsCut ==
  ASSUME NEW r \in Seq(Tokens), Http!Ends(r) # {}
  PROVE  CutAt(r, Http!Min(Http!Ends(r)), Http!LineOf(r), Http!AfterLine(r))
  <1>1. Http!Ends(r) \in SUBSET Nat
    BY DEF Http!Ends
  <1>2. Http!Min(Http!Ends(r)) \in Http!Ends(r) /\ \A m \in Http!Ends(r) : Http!Min(Http!Ends(r)) <= m
    BY <1>1, LeastOf
  <1>3. PICK n : n = Http!Min(Http!Ends(r))
    OBVIOUS
  <1>4. n \in 1..Len(r) /\ r[n] = CRLF
    BY <1>2, <1>3 DEF Http!Ends
  <1>5. ASSUME NEW i \in 1..(n - 1) PROVE r[i] # CRLF
    <2>1. i \in 1..Len(r) /\ ~(n <= i)
      BY <1>4
    <2> QED BY <2>1, <1>2, <1>3 DEF Http!Ends
  <1>6. Len(r) \in Nat /\ n \in Int
    BY <1>4, LenProperties
  <1>7. /\ Http!LineOf(r) \in Seq(Tokens) /\ Len(Http!LineOf(r)) = n - 1
        /\ \A i \in 1..(n - 1) : Http!LineOf(r)[i] = r[i]
    <2>1. Http!LineOf(r) = SubSeq(r, 1, n - 1)
      BY <1>3 DEF Http!LineOf
    <2>2. \A i \in 1..(n - 1) : i \in 1..Len(r)
      BY <1>4, <1>6
    <2> QED BY <2>1, <2>2, <1>4, <1>6, SubSeqProperties
  <1>8. /\ Http!AfterLine(r) \in Seq(Tokens) /\ Len(Http!AfterLine(r)) = Len(r) - n
        /\ \A i \in 1..(Len(r) - n) : Http!AfterLine(r)[i] = r[n + i]
    <2>1. Http!AfterLine(r) = SubSeq(r, n + 1, Len(r))
      BY <1>3 DEF Http!AfterLine
    <2> QED BY <2>1, <1>4, <1>6, SubSeqProperties
  <1> QED BY <1>3, <1>4, <1>5, <1>7, <1>8 DEF CutAt

(* The suffixes of a sequence, by their elements.                          *)
LEMMA SuffixIs ==
  ASSUME NEW s \in Seq(Tokens), NEW t \in Seq(Tokens)
  PROVE  Http!IsSuffix(s, t) <=>
           /\ Len(s) <= Len(t)
           /\ \A i \in 1..Len(s) : s[i] = t[Len(t) - Len(s) + i]
  <1>1. PICK m \in Nat : m = Len(s)
    BY LenProperties
  <1>2. PICK n \in Nat : n = Len(t)
    BY LenProperties
  <1>3. /\ Http!Reverse(s) \in Seq(Tokens) /\ Len(Http!Reverse(s)) = m
        /\ \A i \in 1..m : Http!Reverse(s)[i] = s[m - i + 1]
    <2>1. Http!Reverse(s) = [i \in 1..m |-> s[m - i + 1]]
      BY <1>1 DEF Http!Reverse
    <2>2. \A i \in 1..m : s[m - i + 1] \in Tokens
      BY <1>1, ElementOfSeq
    <2>3. Http!Reverse(s) \in [1..m -> Tokens]
      BY <2>1, <2>2
    <2> QED BY <2>1, <2>3, SeqDef, LenProperties
  <1>4. /\ Http!Reverse(t) \in Seq(Tokens) /\ Len(Http!Reverse(t)) = n
        /\ \A i \in 1..n : Http!Reverse(t)[i] = t[n - i + 1]
    <2>1. Http!Reverse(t) = [i \in 1..n |-> t[n - i + 1]]
      BY <1>2 DEF Http!Reverse
    <2>2. \A i \in 1..n : t[n - i + 1] \in Tokens
      BY <1>2, ElementOfSeq
    <2>3. Http!Reverse(t) \in [1..n -> Tokens]
      BY <2>1, <2>2
    <2> QED BY <2>1, <2>3, SeqDef, LenProperties
  <1>5. Http!IsSuffix(s, t) <=> m <= n /\ \A i \in 1..m : s[m - i + 1] = t[n - i + 1]
    <2>1. PICK u \in Seq(Tokens) : u = Http!Reverse(s)
      BY <1>3
    <2>2. PICK v \in Seq(Tokens) : v = Http!Reverse(t)
      BY <1>4
    <2>3. Len(u) = m /\ Len(v) = n
      BY <1>3, <1>4, <2>1, <2>2
    <2>4. Http!IsSuffix(s, t) <=> m <= n /\ SubSeq(u, 1, m) = SubSeq(v, 1, m)
      BY <2>1, <2>2, <2>3 DEF Http!IsSuffix, Http!IsPrefix
    <2>5. ASSUME m <= n
          PROVE  SubSeq(u, 1, m) = SubSeq(v, 1, m) <=> \A i \in 1..m : u[i] = v[i]
      <3>1. /\ SubSeq(u, 1, m) \in Seq(Tokens) /\ Len(SubSeq(u, 1, m)) = m
            /\ \A i \in 1..m : SubSeq(u, 1, m)[i] = u[i]
        BY <2>3, SubSeqProperties
      <3>2. /\ SubSeq(v, 1, m) \in Seq(Tokens) /\ Len(SubSeq(v, 1, m)) = m
            /\ \A i \in 1..m : SubSeq(v, 1, m)[i] = v[i]
        BY <2>3, <2>5, SubSeqProperties
      <3>3. ASSUME SubSeq(u, 1, m) = SubSeq(v, 1, m), NEW i \in 1..m
            PROVE  u[i] = v[i]
        BY <3>1, <3>2, <3>3
      <3>4. ASSUME \A i \in 1..m : u[i] = v[i]
            PROVE  SubSeq(u, 1, m) = SubSeq(v, 1, m)
        BY <3>1, <3>2, <3>4, SeqEqual
      <3> QED BY <3>3, <3>4
    <2>6. \A i \in 1..m : u[i] = s[m - i + 1]
      BY <1>3, <2>1
    <2>7. ASSUME m <= n, NEW i \in 1..m PROVE v[i] = t[n - i + 1]
      <3>1. i \in 1..n
        BY <2>7
      <3> QED BY <3>1, <1>4, <2>2
    <2> QED BY <2>4, <2>5, <2>6, <2>7
  <1>6. ASSUME m <= n
        PROVE  (\A i \in 1..m : s[m - i + 1] = t[n - i + 1])
                 <=> (\A i \in 1..m : s[i] = t[n - m + i])
    <2>1. ASSUME \A i \in 1..m : s[m - i + 1] = t[n - i + 1], NEW j \in 1..m
          PROVE  s[j] = t[n - m + j]
      <3>1. PICK i \in 1..m : i = m - j + 1
        OBVIOUS
      <3>2. m - i + 1 = j /\ n - i + 1 = n - m + j
        BY <3>1
      <3> QED BY <3>2, <2>1
    <2>2. ASSUME \A i \in 1..m : s[i] = t[n - m + i], NEW j \in 1..m
          PROVE  s[m - j + 1] = t[n - j + 1]
      <3>1. PICK i \in 1..m : i = m - j + 1
        OBVIOUS
      <3>2. n - m + i = n - j + 1
        BY <3>1
      <3> QED BY <3>1, <3>2, <2>2
    <2> QED BY <2>1, <2>2
  <1> QED BY <1>1, <1>2, <1>5, <1>6

(* What ReadOneLine leaves is still the end of what arrived.               *)
LEMMA StillSuffix ==
  ASSUME NEW r \in Seq(Tokens), NEW t \in Seq(Tokens), Http!IsSuffix(r, t), Http!Ends(r) # {}
  PROVE  Http!IsSuffix(Http!AfterLine(r), t)
  <1>1. PICK n : n = Http!Min(Http!Ends(r))
    OBVIOUS
  <1>2. PICK q \in Seq(Tokens) : q = Http!AfterLine(r)
    BY LineIsCut DEF CutAt
  <1>3. /\ n \in 1..Len(r) /\ Len(q) = Len(r) - n
        /\ \A i \in 1..(Len(r) - n) : q[i] = r[n + i]
    BY <1>1, <1>2, LineIsCut DEF CutAt
  <1>4. /\ Len(r) <= Len(t)
        /\ \A i \in 1..Len(r) : r[i] = t[Len(t) - Len(r) + i]
    BY SuffixIs
  <1>5. Len(q) \in Nat /\ Len(r) \in Nat /\ Len(t) \in Nat
    BY LenProperties
  <1>6. Len(q) <= Len(t)
    BY <1>3, <1>4, <1>5
  <1>7. ASSUME NEW i \in 1..Len(q) PROVE q[i] = t[Len(t) - Len(q) + i]
    <2>1. PICK j : j = n + i
      OBVIOUS
    <2>2. j \in 1..Len(r) /\ i \in 1..(Len(r) - n)
      BY <1>3, <1>5, <2>1
    <2>3. Len(t) - Len(r) + j = Len(t) - Len(q) + i
      BY <1>3, <1>5, <2>1
    <2> QED BY <2>1, <2>2, <2>3, <1>3, <1>4
  <1> QED BY <1>2, <1>6, <1>7, SuffixIs

(* The line of what arrived is a request line or less than one.            *)
LineIn(piece) == IF Http!Ends(piece) = {} THEN <<>> ELSE Http!LineOf(piece)

NoEnd(first) == \A i \in 1..Len(first) : first[i] # CRLF

LEMMA Received ==
  ASSUME Http!HttpAssumption, NEW r \in Requests, NEW n \in 1..Len(r),
         NEW piece, piece = SubSeq(r, 1, n)
  PROVE  /\ piece \in Seq(Tokens) /\ piece # <<>> /\ Http!IsPrefix(piece, r)
         /\ LineIn(piece) \in Seq(Tokens) /\ NoEnd(LineIn(piece))
         /\ Http!IsUri(Http!UriOf(LineIn(piece)))
  <1>1. r \in Seq(Tokens)
    BY RequestsAreSequences
  <1>2. Len(r) \in Nat /\ n \in 1..Len(r)
    BY <1>1, LenProperties
  <1>3. /\ piece \in Seq(Tokens) /\ Len(piece) = n
        /\ \A i \in 1..n : piece[i] = r[i]
    BY <1>1, <1>2, SubSeqProperties
  <1>4. piece # <<>>
    BY <1>2, <1>3
  <1>5. Http!IsPrefix(piece, r)
    <2>1. /\ SubSeq(piece, 1, n) \in Seq(Tokens) /\ Len(SubSeq(piece, 1, n)) = n
          /\ \A i \in 1..n : SubSeq(piece, 1, n)[i] = piece[i]
      BY <1>2, <1>3, SubSeqProperties
    <2>2. SubSeq(piece, 1, n) = piece
      BY <1>3, <2>1, SeqEqual
    <2> QED BY <2>2, <1>2, <1>3 DEF Http!IsPrefix
  <1>6. /\ LineIn(piece) \in Seq(Tokens) /\ NoEnd(LineIn(piece))
        /\ Len(LineIn(piece)) <= n
        /\ \A i \in 1..Len(LineIn(piece)) : LineIn(piece)[i] = r[i]
    <2>1. CASE Http!Ends(piece) = {}
      <3>1. LineIn(piece) = <<>>
        BY <2>1 DEF LineIn
      <3>2. <<>> \in Seq(Tokens) /\ Len(<<>>) = 0
        OBVIOUS
      <3>3. Len(LineIn(piece)) = 0 /\ LineIn(piece) \in Seq(Tokens)
        BY <3>1, <3>2
      <3> QED BY <3>3, <1>2 DEF NoEnd
    <2>2. CASE Http!Ends(piece) # {}
      <3>1. LineIn(piece) = Http!LineOf(piece)
        BY <2>2 DEF LineIn
      <3>2. PICK m : m = Http!Min(Http!Ends(piece))
        OBVIOUS
      <3>3. CutAt(piece, m, LineIn(piece), Http!AfterLine(piece))
        BY <1>3, <2>2, <3>1, <3>2, LineIsCut
      <3>4. /\ m \in 1..n /\ LineIn(piece) \in Seq(Tokens) /\ Len(LineIn(piece)) = m - 1
            /\ \A i \in 1..(m - 1) : LineIn(piece)[i] = piece[i] /\ LineIn(piece)[i] # CRLF
        BY <1>3, <3>3 DEF CutAt
      <3>5. \A i \in 1..(m - 1) : piece[i] = r[i]
        BY <1>2, <1>3, <3>4
      <3> QED BY <1>2, <3>4, <3>5 DEF NoEnd
    <2> QED BY <2>1, <2>2
  <1>7. Http!IsUri(Http!UriOf(LineIn(piece)))
    <2>1. PICK first \in Seq(Tokens) : first = LineIn(piece)
      BY <1>6
    <2>2. Len(first) \in Nat
      BY LenProperties
    <2>3. CASE Len(first) >= 2
      <3>1. 1 \in 1..Len(first) /\ 2 \in 1..Len(first)
        BY <2>2, <2>3
      <3>2. /\ first[1] = r[1] /\ first[2] = r[2]
            /\ first[1] # CRLF /\ first[2] # CRLF
        BY <1>6, <2>1, <3>1 DEF NoEnd
      <3>3. Len(r) >= 2
        BY <1>2, <1>6, <2>1, <2>2, <2>3
      <3>4. Http!IsUri(r[2])
        BY <3>2, <3>3 DEF Http!HttpAssumption, Http!IsRequest
      <3> QED BY <2>1, <2>3, <3>2, <3>4 DEF Http!UriOf
    <2>4. CASE ~(Len(first) >= 2)
      BY <2>1, <2>4 DEF Http!UriOf, Http!NoUri, Http!IsUri
    <2> QED BY <2>3, <2>4
  <1> QED BY <1>3, <1>4, <1>5, <1>6, <1>7

LEMMA HomepageIs ==
  ASSUME NEW u, Http!IsUri(u)
  PROVE  /\ Http!IsUri(Http!Homepage(u)) /\ Http!Homepage(u).args = u.args
         /\ Http!Homepage(u).path = IF u.path = "/" /\ u.args = Http!NoQuery THEN "/index.html" ELSE u.path
  <1>1. u = [path |-> u.path, args |-> u.args]
    BY DEF Http!IsUri
  <1>2. PICK a, b : a = u.path /\ b = u.args
    OBVIOUS
  <1>3. u = [path |-> a, args |-> b]
    BY <1>1, <1>2
  <1>4. CASE a = "/" /\ b = Http!NoQuery
    <2>1. Http!Homepage(u) = [path |-> "/index.html", args |-> b]
      BY <1>3, <1>4 DEF Http!Homepage
    <2>2. Http!IsUri(Http!Homepage(u)) /\ Http!Homepage(u).args = b /\ Http!Homepage(u).path = "/index.html"
      BY <2>1 DEF Http!IsUri
    <2> QED BY <2>2, <1>2, <1>4
  <1>5. CASE ~(a = "/" /\ b = Http!NoQuery)
    <2>1. u # [path |-> "/", args |-> Http!NoQuery]
      <3>1. ASSUME u = [path |-> "/", args |-> Http!NoQuery] PROVE FALSE
        <4>1. u.path = "/" /\ u.args = Http!NoQuery
          BY <3>1
        <4> QED BY <4>1, <1>2, <1>5
      <3> QED BY <3>1
    <2>2. Http!Homepage(u) = u
      BY <2>1 DEF Http!Homepage
    <2>3. Http!IsUri(Http!Homepage(u)) /\ Http!Homepage(u).args = b /\ Http!Homepage(u).path = a
      BY <2>2, <1>2
    <2> QED BY <2>3, <1>2, <1>5
  <1> QED BY <1>4, <1>5

-----------------------------------------------------------------------------
(* What has arrived, and what is left of it.                               *)
HttpParts ==
    /\ arrived \in Seq(Tokens) /\ request \in Seq(Tokens)
    /\ NoEnd(reqline)
    /\ pc = "recv" => arrived = <<>>
    /\ pc \notin {"recv", "done"} => arrived # <<>>
    /\ Http!IsUri(Http!Asked)

(* Nothing of the response is decided before the dispatch, and nothing is  *)
(* sent before the end.                                                    *)
Undecided == length = Http!NotSet /\ text = 0 /\ location = FALSE

Blank ==
    /\ pc \in {"recv", "headers", "query", "dispatch"} => Undecided
    /\ pc # "done" => answer = <<>>
    /\ pc = "recv" => edited = FALSE

(* What Deserialize has found out.  Only a POST is in the loop over the    *)
(* headers, and it does not get out of it.                                 *)
Parsed ==
    /\ pc \in {"headers", "query"} =>
         /\ uri = Http!Homepage(Http!Asked)
         /\ internal = (pc = "headers")
    /\ pc = "dispatch" =>
         /\ Http!IsUri(uri) /\ uri.path = Http!Resource
         /\ internal = (Http!Asked.args # Http!NoQuery)

(* While a file is looked for, it is the one that was asked for, and it    *)
(* is as it was seen unless somebody has changed the files.                *)
Static == Http!Asked.args = Http!NoQuery /\ Http!Resource \notin {"/favicon.ico", "/redir_test"}

FileSought ==
    /\ pc \in {"open", "found"} =>
         /\ Static /\ target = Http!Resource
         /\ ~edited => Http!FileSize(Http!Resource) # Http!Absent /\ text = Http!FileSize(Http!Resource)
    /\ pc = "found" => target \in FileNames
    /\ pc \in {"missing", "look 404"} =>
         Static /\ (~edited => Http!FileSize(Http!Resource) = Http!Absent /\ text = 0)
    /\ pc = "look 404" =>
         /\ code = 404 /\ target = "/404.html"
         /\ ~edited => length = files["/404.html"]

(* What is about to be sent is what is to be expected.                     *)
Response == [code |-> code, length |-> length, location |-> location, text |-> text]

Prepared == pc = "send" /\ ~edited => Http!Expected(Response)

HttpInv == Http!TypeOK /\ HttpParts /\ Blank /\ Parsed /\ FileSought /\ Prepared /\ Http!AsRequested

-----------------------------------------------------------------------------
LEMMA HttpBegins ==
  ASSUME Http!HttpAssumption, Http!Init
  PROVE  HttpInv
  <1>1. /\ sent \in Requests /\ files \in [FileNames -> Sizes]
        /\ edits = 0 /\ edited = FALSE /\ pc = "recv"
        /\ request = <<>> /\ arrived = <<>> /\ reqline = <<>>
        /\ internal = FALSE /\ code \in Uninitialized
        /\ length = Http!NotSet /\ location = FALSE /\ text = 0 /\ answer = <<>>
    BY DEF Http!Init
  <1>2. /\ <<>> \in Seq(Tokens) /\ Len(<<>>) = 0
        /\ sent \in Seq(Tokens) /\ Len(sent) \in Nat
    BY <1>1, RequestsAreSequences, LenProperties
  <1>3. Http!IsSuffix(request, arrived)
    <2>1. PICK e \in Seq(Tokens) : e = <<>>
      BY <1>2
    <2>2. Len(e) <= Len(e) /\ \A i \in 1..Len(e) : e[i] = e[Len(e) - Len(e) + i]
      BY <1>2, <2>1
    <2>3. Http!IsSuffix(e, e)
      BY <2>2, SuffixIs
    <2> QED BY <1>1, <2>1, <2>3
  <1>4. Http!IsPrefix(arrived, sent)
    <2>1. SubSeq(<<>>, 1, 0) = SubSeq(sent, 1, 0)
      BY <1>2, SubSeqProperties
    <2> QED BY <2>1, <1>1, <1>2 DEF Http!IsPrefix
  <1>5. Http!TypeOK
    <2>1. edits \in 0..MaxEdits /\ text \in Nat
      BY <1>1 DEF Http!HttpAssumption
    <2>2. edited \in BOOLEAN /\ internal \in BOOLEAN /\ location \in BOOLEAN
      BY <1>1
    <2>3. Len(answer) <= 1
      BY <1>1, <1>2
    <2> QED BY <1>1, <1>3, <1>4, <2>1, <2>2, <2>3 DEF Http!TypeOK
  <1>6. HttpParts
    <2>1. Http!Ends(<<>>) = {}
      BY <1>2 DEF Http!Ends
    <2>2. Http!Asked = Http!NoUri
      BY <2>1, <1>1, <1>2 DEF Http!Asked, Http!FirstLine, Http!UriOf
    <2>3. Http!IsUri(Http!Asked)
      BY <2>2 DEF Http!NoUri, Http!IsUri
    <2> QED BY <2>3, <1>1, <1>2 DEF HttpParts, NoEnd
  <1>7. Blank /\ Parsed /\ FileSought /\ Prepared /\ Http!AsRequested
    BY <1>1 DEF Blank, Undecided, Parsed, FileSought, Prepared, Http!AsRequested
  <1> QED BY <1>5, <1>6, <1>7 DEF HttpInv

(* The number of a file.                                                   *)
LEMMA SizeOf ==
  ASSUME Http!HttpAssumption, files \in [FileNames -> Sizes], NEW f
  PROVE  /\ Http!FileSize(f) \in Sizes \cup {Http!Absent}
         /\ Http!FileSize(f) # Http!Absent => f \in FileNames /\ Http!FileSize(f) \in Sizes /\ Http!FileSize(f) \in Nat
         /\ Http!FileSize("/404.html") = files["/404.html"] /\ Http!FileSize("/404.html") \in Sizes
  <1>1. "/404.html" \in FileNames /\ Sizes \subseteq Nat \cup {Http!Absent}
    BY DEF Http!HttpAssumption
  <1> QED BY <1>1 DEF Http!FileSize

(* What the request asks for stays what it was.                            *)
LEMMA AskedStays ==
  ASSUME UNCHANGED arrived
  PROVE  Http!Asked' = Http!Asked /\ Http!Resource' = Http!Resource /\ (Static' <=> Static)
  BY DEF Http!Asked, Http!FirstLine, Http!Resource, Static

LEMMA Stays ==
  ASSUME UNCHANGED <<arrived, files>>, NEW a
  PROVE  (Http!Expected(a)' <=> Http!Expected(a)) /\ \A f : Http!FileSize(f)' = Http!FileSize(f)
  <1>1. \A f : Http!FileSize(f)' = Http!FileSize(f)
    BY DEF Http!FileSize
  <1>2. Http!Asked' = Http!Asked /\ Http!Resource' = Http!Resource
    BY AskedStays
  <1> QED BY ZenonT(60), <1>1, <1>2 DEF Http!Expected

-----------------------------------------------------------------------------
(* The steps, one by one.                                                  *)
LEMMA EditKeeps ==
  ASSUME Http!HttpAssumption, HttpInv, Http!Edit
  PROVE  HttpInv'
  <1>1. /\ Http!TypeOK /\ HttpParts /\ Blank /\ Parsed /\ FileSought /\ Prepared
        /\ edits < MaxEdits /\ pc # "done" /\ edits' = edits + 1
        /\ edited' = (edited \/ pc # "recv")
        /\ UNCHANGED <<sent, pc, Http!reqVars, Http!respVars, answer, arrived>>
    BY DEF HttpInv, Http!Edit
  <1>2. files' \in [FileNames -> Sizes]
    <2>1. PICK f \in FileNames, z \in Sizes : files' = [files EXCEPT ![f] = z]
      BY DEF Http!Edit
    <2>2. files \in [FileNames -> Sizes]
      BY <1>1 DEF Http!TypeOK
    <2> QED BY <2>1, <2>2
  <1>3. edits' \in 0..MaxEdits
    <2>1. edits \in 0..MaxEdits /\ MaxEdits \in Nat
      BY <1>1 DEF Http!TypeOK, Http!HttpAssumption
    <2>2. edits < MaxEdits /\ edits' = edits + 1
      BY <1>1
    <2> QED BY <2>1, <2>2
  <1>4. edited' \in BOOLEAN
    BY <1>1, Zenon
  <1>5. pc # "recv" => edited'
    BY <1>1, Zenon
  <1>6. pc = "recv" => edited' = FALSE
    <2>1. pc = "recv" => edited = FALSE
      BY <1>1 DEF Blank
    <2> QED BY <2>1, <1>1, Zenon
  <1>7. Http!TypeOK'
    <2>1. /\ UNCHANGED <<sent, pc, request, internal, location, answer, arrived>>
          /\ code' = code /\ length' = length /\ text' = text
      BY <1>1 DEF Http!reqVars, Http!respVars
    <2>2. Http!TypeOK
      BY <1>1
    <2>3. sent' \in Requests /\ internal' \in BOOLEAN /\ location' \in BOOLEAN
      BY ZenonT(60), <2>1, <2>2 DEF Http!TypeOK
    <2>4. Http!IsSuffix(request', arrived') /\ Http!IsPrefix(arrived', sent')
      BY <2>1, <2>2 DEF Http!TypeOK
    <2>5. /\ pc' \in {"recv", "headers", "query", "dispatch", "open", "found", "missing",
                      "look 404", "send", "done"}
      BY <2>1, <2>2 DEF Http!TypeOK
    <2>7. code' \in Uninitialized \cup {200, 301, 404}
      BY <2>1, <2>2 DEF Http!TypeOK
    <2>8. length' \in Sizes \cup {Http!NotSet, 1}
      BY <2>1, <2>2 DEF Http!TypeOK
    <2>6. text' \in Nat /\ Len(answer') <= 1
      BY <2>1, <2>2 DEF Http!TypeOK
    <2> QED BY <1>2, <1>3, <1>4, <2>3, <2>4, <2>5, <2>6, <2>7, <2>8 DEF Http!TypeOK
  <1>8. Http!Asked' = Http!Asked /\ Http!Resource' = Http!Resource /\ (Static' <=> Static)
    BY <1>1, AskedStays
  <1>9. HttpParts'
    BY <1>1, <1>8 DEF HttpParts, Http!reqVars
  <1>10. Blank'
    BY <1>1, <1>6 DEF Blank, Undecided, Http!respVars
  <1>11. Parsed'
    BY <1>1, <1>8 DEF Parsed, Http!reqVars
  <1>12. FileSought'
    BY <1>1, <1>5, <1>8 DEF FileSought, Http!respVars
  <1>13. Prepared' /\ Http!AsRequested'
    BY <1>1, <1>5 DEF Prepared, Http!AsRequested
  <1> QED BY <1>7, <1>9, <1>10, <1>11, <1>12, <1>13 DEF HttpInv

LEMMA RecvKeeps ==
  ASSUME Http!HttpAssumption, HttpInv, Http!Recv
  PROVE  HttpInv'
  <1>1. Http!TypeOK /\ HttpParts /\ Blank /\ pc = "recv"
    BY DEF HttpInv, Http!Recv
  <1>2. PICK n \in 1..Len(sent) :
          /\ arrived' = SubSeq(sent, 1, n)
          /\ request' = IF Http!Ends(SubSeq(sent, 1, n)) = {} THEN SubSeq(sent, 1, n)
                        ELSE Http!AfterLine(SubSeq(sent, 1, n))
          /\ reqline' = LineIn(SubSeq(sent, 1, n))
          /\ method' = Http!MethodOf(LineIn(SubSeq(sent, 1, n)))
          /\ uri' = Http!Homepage(Http!UriOf(LineIn(SubSeq(sent, 1, n))))
          /\ internal' = (Http!MethodOf(LineIn(SubSeq(sent, 1, n))) = "POST")
    BY DEF Http!Recv, LineIn
  <1>3. PICK piece : piece = SubSeq(sent, 1, n)
    OBVIOUS
  <1>4. PICK r \in Requests : r = sent
    BY <1>1 DEF Http!TypeOK
  <1>5. /\ piece \in Seq(Tokens) /\ piece # <<>> /\ Http!IsPrefix(piece, sent)
        /\ LineIn(piece) \in Seq(Tokens) /\ NoEnd(LineIn(piece))
        /\ Http!IsUri(Http!UriOf(LineIn(piece)))
    <2>1. n \in 1..Len(r) /\ piece = SubSeq(r, 1, n)
      BY <1>2, <1>3, <1>4
    <2> QED BY <2>1, <1>4, Received
  <1>6. /\ arrived' = piece /\ reqline' = LineIn(piece)
        /\ request' = IF Http!Ends(piece) = {} THEN piece ELSE Http!AfterLine(piece)
        /\ uri' = Http!Homepage(Http!UriOf(LineIn(piece)))
    BY <1>2, <1>3
  <1>7. internal' = (method' = "POST")
    BY <1>2, <1>3
  <1>8. /\ pc' = IF method' = "POST" THEN "headers" ELSE "query"
        /\ UNCHANGED <<sent, Http!fileVars, args, Http!respVars, answer>>
    BY DEF Http!Recv, Http!Goto, Http!ReadsHeaders
  <1>9. Http!IsSuffix(piece, piece)
    <2>1. Len(piece) \in Nat
      BY <1>5, LenProperties
    <2>2. Len(piece) <= Len(piece) /\ \A i \in 1..Len(piece) : piece[i] = piece[Len(piece) - Len(piece) + i]
      BY <2>1
    <2> QED BY <2>2, <1>5, SuffixIs
  <1>10. request' \in Seq(Tokens) /\ Http!IsSuffix(request', arrived')
    <2>1. CASE Http!Ends(piece) = {}
      BY <2>1, <1>5, <1>6, <1>9
    <2>2. CASE Http!Ends(piece) # {}
      <3>1. Http!AfterLine(piece) \in Seq(Tokens)
        BY <2>2, <1>5, LineIsCut DEF CutAt
      <3>2. Http!IsSuffix(Http!AfterLine(piece), piece)
        BY <2>2, <1>5, <1>9, StillSuffix
      <3> QED BY <3>1, <3>2, <2>2, <1>6
    <2> QED BY <2>1, <2>2
  <1>11. internal' \in BOOLEAN /\ (pc' \in {"headers", "query"}) /\ (internal' = (pc' = "headers"))
    BY <1>7, <1>8
  <1>12. Http!TypeOK'
    BY <1>1, <1>5, <1>6, <1>8, <1>10, <1>11 DEF Http!TypeOK, Http!fileVars, Http!respVars
  <1>13. Http!Asked' = Http!UriOf(LineIn(piece))
    BY <1>6 DEF Http!Asked, Http!FirstLine, LineIn
  <1>14. HttpParts'
    BY <1>5, <1>6, <1>10, <1>11, <1>13 DEF HttpParts
  <1>15. Blank'
    BY <1>1, <1>8, <1>11 DEF Blank, Undecided, Http!respVars
  <1>16. Parsed'
    BY <1>6, <1>11, <1>13 DEF Parsed
  <1>17. FileSought' /\ Prepared' /\ Http!AsRequested'
    BY <1>11 DEF FileSought, Prepared, Http!AsRequested
  <1> QED BY <1>12, <1>14, <1>15, <1>16, <1>17 DEF HttpInv

LEMMA RecvEndKeeps ==
  ASSUME Http!HttpAssumption, HttpInv, Http!RecvEnd
  PROVE  HttpInv'
  <1>1. /\ Http!TypeOK /\ HttpParts /\ Blank /\ pc = "recv" /\ pc' = "done"
        /\ UNCHANGED <<sent, Http!fileVars, Http!reqVars, Http!respVars, answer, arrived>>
    BY DEF HttpInv, Http!RecvEnd, Http!Goto
  <1>2. Http!TypeOK'
    BY <1>1 DEF Http!TypeOK, Http!fileVars, Http!reqVars, Http!respVars
  <1>3. Http!Asked' = Http!Asked
    BY <1>1, AskedStays
  <1>4. HttpParts' /\ Blank'
    BY <1>1, <1>3 DEF HttpParts, Blank, Http!reqVars
  <1>5. Parsed' /\ FileSought' /\ Prepared'
    BY <1>1 DEF Parsed, FileSought, Prepared
  <1>6. Http!AsRequested'
    <2>1. answer' = <<>> /\ arrived' = <<>>
      BY <1>1 DEF HttpParts, Blank
    <2> QED BY <2>1 DEF Http!AsRequested
  <1> QED BY <1>2, <1>4, <1>5, <1>6 DEF HttpInv

(* The loop over the headers goes on: no line it reads is a line end.      *)
LEMMA HeadersKeep ==
  ASSUME Http!HttpAssumption, HttpInv, Http!Headers
  PROVE  HttpInv'
  <1>1. /\ Http!TypeOK /\ HttpParts /\ Blank /\ Parsed /\ pc = "headers"
        /\ pc' = IF reqline' # <<CRLF>> THEN "headers" ELSE "query"
        /\ UNCHANGED <<sent, Http!fileVars, method, uri, args, internal, Http!respVars, answer, arrived>>
    BY DEF HttpInv, Http!Headers, Http!Goto
  <1>2. PICK r \in Seq(Tokens) : r = request
    BY <1>1 DEF HttpParts
  <1>3. PICK t \in Seq(Tokens) : t = arrived
    BY <1>1 DEF HttpParts
  <1>4. Http!IsSuffix(r, t)
    BY <1>1, <1>2, <1>3 DEF Http!TypeOK
  <1>5. request' \in Seq(Tokens) /\ Http!IsSuffix(request', arrived') /\ NoEnd(reqline')
    <2>1. CASE Http!Ends(r) = {}
      <3>1. request' = request /\ reqline' = reqline
        BY <2>1, <1>2 DEF Http!Headers, Http!ReadOneLine
      <3> QED BY <3>1, <1>1, <1>2, <1>3, <1>4 DEF HttpParts
    <2>2. CASE Http!Ends(r) # {}
      <3>1. request' = Http!AfterLine(r) /\ reqline' = Http!LineOf(r)
        BY <2>2, <1>2 DEF Http!Headers, Http!ReadOneLine
      <3>2. PICK n : n = Http!Min(Http!Ends(r))
        OBVIOUS
      <3>3. CutAt(r, n, Http!LineOf(r), Http!AfterLine(r))
        BY <2>2, <3>2, LineIsCut
      <3>4. NoEnd(Http!LineOf(r)) /\ Http!AfterLine(r) \in Seq(Tokens)
        BY <3>3 DEF CutAt, NoEnd
      <3>5. Http!IsSuffix(Http!AfterLine(r), t)
        BY <2>2, <1>4, StillSuffix
      <3> QED BY <3>1, <3>4, <3>5, <1>1, <1>3
    <2> QED BY <2>1, <2>2
  <1>6. pc' = "headers"
    <2>1. reqline' # <<CRLF>>
      BY <1>5 DEF NoEnd
    <2> QED BY <2>1, <1>1
  <1>7. Http!TypeOK'
    BY <1>1, <1>5, <1>6 DEF Http!TypeOK, Http!fileVars, Http!respVars
  <1>8. Http!Asked' = Http!Asked
    BY <1>1, AskedStays
  <1>9. HttpParts'
    BY <1>1, <1>5, <1>6, <1>8 DEF HttpParts
  <1>10. Blank' /\ Parsed'
    BY <1>1, <1>6, <1>8 DEF Blank, Undecided, Parsed, Http!respVars
  <1>11. FileSought' /\ Prepared' /\ Http!AsRequested'
    BY <1>6 DEF FileSought, Prepared, Http!AsRequested
  <1> QED BY <1>7, <1>9, <1>10, <1>11 DEF HttpInv

(* What most steps leave as it is.                                         *)
LEMMA Frame ==
  ASSUME Http!HttpAssumption, HttpInv, UNCHANGED <<sent, Http!fileVars, request, reqline, arrived>>
  PROVE  /\ sent' \in Requests /\ files' \in [FileNames -> Sizes]
         /\ edits' \in 0..MaxEdits /\ edited' \in BOOLEAN
         /\ Http!IsSuffix(request', arrived') /\ Http!IsPrefix(arrived', sent')
         /\ arrived' \in Seq(Tokens) /\ request' \in Seq(Tokens) /\ NoEnd(reqline')
         /\ Http!Asked' = Http!Asked /\ Http!IsUri(Http!Asked') /\ Http!Resource' = Http!Resource
         /\ \A f : Http!FileSize(f)' = Http!FileSize(f)
         /\ \A a : Http!Expected(a)' <=> Http!Expected(a)
  <1>1. UNCHANGED <<sent, files, edits, edited, request, reqline, arrived>>
    BY DEF Http!fileVars
  <1>2. Http!TypeOK /\ HttpParts
    BY DEF HttpInv
  <1>3. /\ sent' \in Requests /\ files' \in [FileNames -> Sizes]
        /\ edits' \in 0..MaxEdits /\ edited' \in BOOLEAN
        /\ Http!IsSuffix(request', arrived') /\ Http!IsPrefix(arrived', sent')
    BY ZenonT(60), <1>1, <1>2 DEF Http!TypeOK
  <1>4. Http!Asked' = Http!Asked /\ Http!Resource' = Http!Resource
    BY <1>1, AskedStays
  <1>5. arrived' \in Seq(Tokens) /\ request' \in Seq(Tokens) /\ NoEnd(reqline') /\ Http!IsUri(Http!Asked')
    BY <1>1, <1>2, <1>4 DEF HttpParts
  <1>6. \A f : Http!FileSize(f)' = Http!FileSize(f)
    BY <1>1 DEF Http!FileSize
  <1>7. \A a : Http!Expected(a)' <=> Http!Expected(a)
    <2>1. ASSUME NEW a PROVE Http!Expected(a)' <=> Http!Expected(a)
      BY <1>1, Stays
    <2> QED BY <2>1
  <1> QED BY <1>3, <1>4, <1>5, <1>6, <1>7

LEMMA QueryKeeps ==
  ASSUME Http!HttpAssumption, HttpInv, Http!Query
  PROVE  HttpInv'
  <1>1. /\ Http!TypeOK /\ HttpParts /\ Blank /\ Parsed /\ pc = "query" /\ pc' = "dispatch"
        /\ UNCHANGED <<sent, Http!fileVars, request, reqline, method, Http!respVars, answer, arrived>>
    BY DEF HttpInv, Http!Query, Http!Goto
  <1>2. UNCHANGED <<sent, Http!fileVars, request, reqline, arrived>>
    BY <1>1
  <1>3. /\ Http!IsUri(Http!Asked) /\ uri = Http!Homepage(Http!Asked) /\ internal = FALSE
    BY <1>1 DEF HttpParts, Parsed
  <1>4. /\ Http!IsUri(uri) /\ uri.args = Http!Asked.args /\ uri.path = Http!Resource
    BY <1>3, HomepageIs DEF Http!Resource
  <1>5. Http!IsUri(uri') /\ uri'.path = Http!Resource
    <2>1. CASE uri.args = Http!NoQuery
      BY <2>1, <1>4 DEF Http!Query
    <2>2. CASE uri.args # Http!NoQuery
      <3>1. uri' = [uri EXCEPT !.args = Http!NoQuery]
        BY <2>2 DEF Http!Query
      <3>2. uri = [path |-> uri.path, args |-> uri.args]
        BY <1>4 DEF Http!IsUri
      <3>3. PICK a, b : a = uri.path /\ b = uri.args
        OBVIOUS
      <3>4. uri = [path |-> a, args |-> b]
        BY <3>2, <3>3
      <3>5. uri' = [path |-> a, args |-> Http!NoQuery]
        BY <3>1, <3>4
      <3>6. Http!IsUri(uri') /\ uri'.path = a
        BY <3>5 DEF Http!IsUri
      <3> QED BY <3>3, <3>6, <1>4
    <2> QED BY <2>1, <2>2
  <1>6. internal' \in BOOLEAN /\ (internal' = (Http!Asked.args # Http!NoQuery))
    <2>1. CASE uri.args = Http!NoQuery
      <3>1. internal' = FALSE
        BY <2>1, <1>3 DEF Http!Query
      <3> QED BY <3>1, <2>1, <1>4
    <2>2. CASE uri.args # Http!NoQuery
      <3>1. internal' = TRUE
        BY <2>2 DEF Http!Query
      <3> QED BY <3>1, <2>2, <1>4
    <2> QED BY <2>1, <2>2
  <1>7. Http!TypeOK'
    <2>1. UNCHANGED <<location, code, length, text, answer>>
      BY <1>1 DEF Http!respVars
    <2>2. Http!TypeOK
      BY <1>1
    <2> QED BY ZenonT(60), <2>1, <2>2, <1>1, <1>2, <1>6, Frame DEF Http!TypeOK
  <1>8. HttpParts'
    BY <1>1, <1>2, Frame DEF HttpParts
  <1>9. Blank'
    BY <1>1 DEF Blank, Undecided, Http!respVars
  <1>10. Parsed'
    <2>1. Http!Asked' = Http!Asked /\ Http!Resource' = Http!Resource
      BY <1>2, Frame
    <2> QED BY <2>1, <1>1, <1>5, <1>6 DEF Parsed
  <1>11. FileSought' /\ Prepared' /\ Http!AsRequested'
    BY <1>1 DEF FileSought, Prepared, Http!AsRequested
  <1> QED BY <1>7, <1>8, <1>9, <1>10, <1>11 DEF HttpInv

LEMMA NoRouteKeeps ==
  ASSUME Http!HttpAssumption, HttpInv, Http!NoRoute
  PROVE  HttpInv'
  <1>1. /\ Http!TypeOK /\ HttpParts /\ Blank /\ Parsed /\ pc = "dispatch" /\ pc' = "done"
        /\ UNCHANGED <<sent, Http!fileVars, Http!reqVars, Http!respVars, answer, arrived>>
    BY DEF HttpInv, Http!NoRoute, Http!Goto
  <1>2. UNCHANGED <<sent, Http!fileVars, request, reqline, arrived, internal>>
    BY <1>1 DEF Http!reqVars
  <1>3. Http!Asked.args # Http!NoQuery /\ Http!Resource \notin Http!_route
    <2>1. internal /\ ~Http!Routed
      BY DEF Http!NoRoute
    <2>2. internal = (Http!Asked.args # Http!NoQuery) /\ uri.path = Http!Resource
      BY <1>1 DEF Parsed
    <2> QED BY <2>1, <2>2 DEF Http!Routed
  <1>4. Http!TypeOK'
    <2>1. UNCHANGED <<location, code, length, text, answer>>
      BY <1>1 DEF Http!respVars
    <2>2. Http!TypeOK
      BY <1>1
    <2> QED BY <2>1, <2>2, <1>1, <1>2, Frame DEF Http!TypeOK
  <1>5. HttpParts'
    BY <1>1, <1>2, Frame DEF HttpParts
  <1>6. Blank' /\ Parsed' /\ FileSought' /\ Prepared'
    BY <1>1 DEF Blank, Parsed, FileSought, Prepared
  <1>7. Http!AsRequested'
    <2>1. Http!Asked' = Http!Asked /\ Http!Resource' = Http!Resource
      BY <1>2, Frame
    <2> QED BY <2>1, <1>3 DEF Http!AsRequested, Http!UnknownRoute
  <1> QED BY <1>4, <1>5, <1>6, <1>7 DEF HttpInv

LEMMA LoginKeeps ==
  ASSUME Http!HttpAssumption, HttpInv, Http!Login
  PROVE  HttpInv'
  <1>1. /\ Http!TypeOK /\ HttpParts /\ Blank /\ Parsed /\ pc = "dispatch" /\ pc' = "send"
        /\ code' = 200 /\ text' = 1 /\ length' = 1
        /\ UNCHANGED <<sent, Http!fileVars, Http!reqVars, target, location, answer, arrived>>
    BY DEF HttpInv, Http!Login, Http!Goto
  <1>2. UNCHANGED <<sent, Http!fileVars, request, reqline, arrived, internal>>
    BY <1>1 DEF Http!reqVars
  <1>3. Http!Asked.args # Http!NoQuery /\ Http!Resource \in Http!_route
    <2>1. internal /\ uri.path \in Http!_route
      BY DEF Http!Login, Http!Routed
    <2>2. internal = (Http!Asked.args # Http!NoQuery) /\ uri.path = Http!Resource
      BY <1>1 DEF Parsed
    <2> QED BY <2>1, <2>2
  <1>4. Http!TypeOK'
    <2>1. UNCHANGED <<location, answer>>
      BY <1>1
    <2>2. Http!TypeOK
      BY <1>1
    <2> QED BY <2>1, <2>2, <1>1, <1>2, Frame DEF Http!TypeOK
  <1>5. HttpParts' /\ Blank' /\ Parsed' /\ FileSought'
    BY <1>1, <1>2, Frame DEF HttpParts, Blank, Parsed, FileSought
  <1>6. Prepared'
    <2>1. Http!Asked' = Http!Asked /\ Http!Resource' = Http!Resource
      BY <1>2, Frame
    <2>2. PICK a : a = Response'
      OBVIOUS
    <2>3. a.code = 200 /\ a.length = a.text
      BY <2>2, <1>1 DEF Response
    <2>4. Http!Expected(a)
      BY <2>3, <1>3 DEF Http!Expected
    <2>5. Http!Expected(a)'
      BY <2>4, <1>2, Frame
    <2> QED BY ZenonT(60), <2>2, <2>5 DEF Prepared, Http!Expected
  <1>7. Http!AsRequested'
    BY <1>1 DEF Http!AsRequested
  <1> QED BY <1>4, <1>5, <1>6, <1>7 DEF HttpInv

(* The three ways on from the dispatch of a request for a file.            *)
LEMMA FaviconKeeps ==
  ASSUME Http!HttpAssumption, HttpInv, Http!Favicon
  PROVE  HttpInv'
  <1>1. /\ Http!TypeOK /\ HttpParts /\ Blank /\ Parsed /\ pc = "dispatch" /\ pc' = "send"
        /\ UNCHANGED <<sent, Http!fileVars, Http!reqVars, code, length, location, text, answer, arrived>>
    BY DEF HttpInv, Http!Favicon, Http!Goto
  <1>2. UNCHANGED <<sent, Http!fileVars, request, reqline, arrived, internal>>
    BY <1>1 DEF Http!reqVars
  <1>3. Http!Asked.args = Http!NoQuery /\ Http!Resource = "/favicon.ico"
    <2>1. ~internal /\ uri.path = "/favicon.ico"
      BY DEF Http!Favicon
    <2>2. internal = (Http!Asked.args # Http!NoQuery) /\ uri.path = Http!Resource
      BY <1>1 DEF Parsed
    <2> QED BY <2>1, <2>2
  <1>4. Http!TypeOK'
    <2>1. UNCHANGED <<location, code, length, text, answer>>
      BY <1>1
    <2>2. Http!TypeOK
      BY <1>1
    <2> QED BY <2>1, <2>2, <1>1, <1>2, Frame DEF Http!TypeOK
  <1>5. HttpParts' /\ Blank' /\ Parsed' /\ FileSought'
    BY <1>1, <1>2, Frame DEF HttpParts, Blank, Parsed, FileSought
  <1>6. Prepared'
    <2>1. PICK a : a = Response'
      OBVIOUS
    <2>2. a.length = Http!NotSet /\ a.text = 0
      BY <2>1, <1>1 DEF Response, Blank, Undecided
    <2>3. Http!Expected(a)
      BY <2>2, <1>3 DEF Http!Expected
    <2>4. Http!Expected(a)'
      BY <2>3, <1>2, Frame
    <2> QED BY <2>1, <2>4 DEF Prepared, Http!Expected
  <1>7. Http!AsRequested'
    BY <1>1 DEF Http!AsRequested
  <1> QED BY <1>4, <1>5, <1>6, <1>7 DEF HttpInv

LEMMA RedirectKeeps ==
  ASSUME Http!HttpAssumption, HttpInv, Http!Redirect
  PROVE  HttpInv'
  <1>1. /\ Http!TypeOK /\ HttpParts /\ Blank /\ Parsed /\ pc = "dispatch" /\ pc' = "send"
        /\ code' = 301
        /\ UNCHANGED <<sent, Http!fileVars, Http!reqVars, length, text, answer, arrived>>
    BY DEF HttpInv, Http!Redirect, Http!Goto
  <1>2. UNCHANGED <<sent, Http!fileVars, request, reqline, arrived, internal>>
    BY <1>1 DEF Http!reqVars
  <1>3. Http!Asked.args = Http!NoQuery /\ Http!Resource = "/redir_test"
    <2>1. ~internal /\ uri.path = "/redir_test"
      BY DEF Http!Redirect
    <2>2. internal = (Http!Asked.args # Http!NoQuery) /\ uri.path = Http!Resource
      BY <1>1 DEF Parsed
    <2> QED BY <2>1, <2>2
  <1>4. location' = TRUE
    BY DEF Http!Redirect
  <1>5. Http!TypeOK'
    <2>1. UNCHANGED <<length, text, answer>> /\ location' \in BOOLEAN
      BY <1>1, <1>4
    <2>2. Http!TypeOK
      BY <1>1
    <2> QED BY <2>1, <2>2, <1>1, <1>2, Frame DEF Http!TypeOK
  <1>6. HttpParts' /\ Blank' /\ Parsed' /\ FileSought'
    BY <1>1, <1>2, Frame DEF HttpParts, Blank, Parsed, FileSought
  <1>7. Prepared'
    <2>1. PICK a : a = Response'
      OBVIOUS
    <2>2. a.code = 301 /\ a.location = TRUE
      BY <2>1, <1>1, <1>4 DEF Response
    <2>3. Http!Expected(a)
      BY <2>2, <1>3 DEF Http!Expected
    <2>4. Http!Expected(a)'
      BY <2>3, <1>2, Frame
    <2> QED BY <2>1, <2>4 DEF Prepared, Http!Expected
  <1>8. Http!AsRequested'
    BY <1>1 DEF Http!AsRequested
  <1> QED BY <1>5, <1>6, <1>7, <1>8 DEF HttpInv

LEMMA LookKeeps ==
  ASSUME Http!HttpAssumption, HttpInv, Http!Look
  PROVE  HttpInv'
  <1>1. /\ Http!TypeOK /\ HttpParts /\ Blank /\ Parsed /\ pc = "dispatch"
        /\ target' = uri.path
        /\ UNCHANGED <<sent, Http!fileVars, Http!reqVars, code, length, location, answer, arrived>>
    BY DEF HttpInv, Http!Look
  <1>2. UNCHANGED <<sent, Http!fileVars, request, reqline, arrived, internal>>
    BY <1>1 DEF Http!reqVars
  <1>3. Static /\ uri.path = Http!Resource
    <2>1. ~internal /\ uri.path \notin {"/favicon.ico", "/redir_test"}
      BY DEF Http!Look
    <2>2. internal = (Http!Asked.args # Http!NoQuery) /\ uri.path = Http!Resource
      BY <1>1 DEF Parsed
    <2> QED BY <2>1, <2>2 DEF Static
  <1>4. \/ Http!FileSize(Http!Resource) = Http!Absent /\ pc' = "missing" /\ text' = text
        \/ Http!FileSize(Http!Resource) # Http!Absent /\ pc' = "open" /\ text' = Http!FileSize(Http!Resource)
    BY <1>3 DEF Http!Look, Http!Goto
  <1>5. text' \in Nat
    <2>1. text \in Nat /\ files \in [FileNames -> Sizes]
      BY <1>1 DEF Http!TypeOK
    <2> QED BY <2>1, <1>4, SizeOf
  <1>6. Http!TypeOK'
    <2>1. UNCHANGED <<location, code, length, answer>> /\ pc' \in {"missing", "open"}
      BY <1>1, <1>4
    <2>2. Http!TypeOK
      BY <1>1
    <2> QED BY ZenonT(60), <2>1, <2>2, <1>2, <1>5, Frame DEF Http!TypeOK
  <1>7. HttpParts' /\ Blank' /\ Parsed'
    BY <1>1, <1>2, <1>4, Frame DEF HttpParts, Blank, Parsed
  <1>8. FileSought'
    <2>1. Static' /\ Http!Resource' = Http!Resource /\ Http!FileSize(Http!Resource') = Http!FileSize(Http!Resource)
      BY <1>2, <1>3, AskedStays
    <2>2. Http!FileSize(Http!Resource)' = Http!FileSize(Http!Resource)
      BY <1>2, <2>1 DEF Http!FileSize, Http!fileVars
    <2>3. text = 0
      BY <1>1 DEF Blank, Undecided
    <2> QED BY <2>1, <2>2, <2>3, <1>1, <1>3, <1>4 DEF FileSought
  <1>9. Prepared' /\ Http!AsRequested'
    BY <1>4 DEF Prepared, Http!AsRequested
  <1> QED BY <1>6, <1>7, <1>8, <1>9 DEF HttpInv

LEMMA OpenKeeps ==
  ASSUME Http!HttpAssumption, HttpInv, Http!Open
  PROVE  HttpInv'
  <1>1. /\ Http!TypeOK /\ HttpParts /\ Blank /\ FileSought /\ pc = "open"
        /\ UNCHANGED <<sent, Http!fileVars, Http!reqVars, Http!respVars, answer, arrived>>
    BY DEF HttpInv, Http!Open
  <1>2. /\ UNCHANGED <<sent, Http!fileVars, request, reqline, arrived, internal>>
        /\ UNCHANGED <<target, code, length, location, text>>
    BY <1>1 DEF Http!reqVars, Http!respVars
  <1>3. /\ Static /\ target = Http!Resource
        /\ ~edited => Http!FileSize(Http!Resource) # Http!Absent /\ text = Http!FileSize(Http!Resource)
    BY <1>1 DEF FileSought
  <1>4. \/ Http!FileSize(Http!Resource) = Http!Absent /\ pc' = "missing"
        \/ Http!FileSize(Http!Resource) # Http!Absent /\ pc' = "found"
    BY <1>3 DEF Http!Open, Http!Goto
  <1>5. Http!TypeOK'
    <2>1. pc' \in {"missing", "found"} /\ Http!TypeOK
      BY <1>1, <1>4
    <2>2. code' \in Uninitialized \cup {200, 301, 404}
      BY <2>1, <1>2 DEF Http!TypeOK
    <2>3. length' \in Sizes \cup {Http!NotSet, 1} /\ text' \in Nat /\ Len(answer') <= 1
      BY <2>1, <1>1, <1>2 DEF Http!TypeOK
    <2>4. internal' \in BOOLEAN /\ location' \in BOOLEAN
      BY ZenonT(60), <2>1, <1>2 DEF Http!TypeOK
    <2> QED BY <2>1, <2>2, <2>3, <2>4, <1>2, Frame DEF Http!TypeOK
  <1>6. HttpParts' /\ Blank' /\ Parsed'
    BY <1>1, <1>2, <1>4, Frame DEF HttpParts, Blank, Parsed
  <1>7. FileSought'
    <2>1. Static' /\ Http!Resource' = Http!Resource
      BY <1>2, <1>3, AskedStays
    <2>2. Http!FileSize(Http!Resource)' = Http!FileSize(Http!Resource)
      BY <1>2, <2>1 DEF Http!FileSize, Http!fileVars
    <2>3. Http!FileSize(Http!Resource) # Http!Absent => Http!Resource \in FileNames
      BY <1>1, SizeOf DEF Http!TypeOK
    <2>4. edited' <=> edited
      BY <1>2, Zenon DEF Http!fileVars
    <2>5. CASE Http!FileSize(Http!Resource) = Http!Absent /\ pc' = "missing"
      <3>1. edited
        BY <1>3, <2>5, Zenon
      <3>2. edited'
        BY <3>1, <2>4, Zenon
      <3> QED BY <2>1, <2>5, <3>2 DEF FileSought
    <2>6. CASE Http!FileSize(Http!Resource) # Http!Absent /\ pc' = "found"
      BY <2>1, <2>2, <2>3, <2>4, <2>6, <1>2, <1>3 DEF FileSought
    <2> QED BY <1>4, <2>5, <2>6
  <1>8. Prepared' /\ Http!AsRequested'
    BY <1>4 DEF Prepared, Http!AsRequested
  <1> QED BY <1>5, <1>6, <1>7, <1>8 DEF HttpInv

LEMMA FoundKeeps ==
  ASSUME Http!HttpAssumption, HttpInv, Http!Found
  PROVE  HttpInv'
  <1>1. /\ Http!TypeOK /\ HttpParts /\ Blank /\ FileSought /\ pc = "found" /\ pc' = "send"
        /\ code' = 200 /\ length' = Http!FileSize(target)
        /\ UNCHANGED <<sent, Http!fileVars, Http!reqVars, target, location, text, answer, arrived>>
    BY DEF HttpInv, Http!Found, Http!Goto
  <1>2. UNCHANGED <<sent, Http!fileVars, request, reqline, arrived, internal>>
    BY <1>1 DEF Http!reqVars
  <1>3. /\ Static /\ target = Http!Resource /\ target \in FileNames
        /\ ~edited => Http!FileSize(Http!Resource) # Http!Absent /\ text = Http!FileSize(Http!Resource)
    BY <1>1 DEF FileSought
  <1>4. Http!TypeOK'
    <2>1. length' \in Sizes
      BY <1>1, <1>3 DEF Http!FileSize, Http!TypeOK
    <2>2. UNCHANGED <<location, text, answer>> /\ Http!TypeOK
      BY <1>1
    <2> QED BY <2>1, <2>2, <1>1, <1>2, Frame DEF Http!TypeOK
  <1>5. HttpParts' /\ Blank' /\ Parsed' /\ FileSought'
    BY <1>1, <1>2, Frame DEF HttpParts, Blank, Parsed, FileSought
  <1>6. Prepared'
    <2>1. PICK a : a = Response'
      OBVIOUS
    <2>2. a.code = 200 /\ a.length = Http!FileSize(Http!Resource) /\ a.text = text
      BY <2>1, <1>1, <1>3 DEF Response
    <2>3. ASSUME ~edited PROVE Http!Expected(a)
      BY <2>2, <2>3, <1>3 DEF Http!Expected, Static
    <2>4. edited' <=> edited
      BY <1>2, Zenon DEF Http!fileVars
    <2>5. Http!Expected(a)' <=> Http!Expected(a)
      BY <1>2, Frame
    <2>6. ~edited' => Http!Expected(a)'
      BY <2>3, <2>4, <2>5, Zenon
    <2> QED BY ZenonT(60), <2>1, <2>6 DEF Prepared, Http!Expected
  <1>7. Http!AsRequested'
    BY <1>1 DEF Http!AsRequested
  <1> QED BY <1>4, <1>5, <1>6, <1>7 DEF HttpInv

LEMMA MissingKeeps ==
  ASSUME Http!HttpAssumption, HttpInv, Http!Missing
  PROVE  HttpInv'
  <1>1. /\ Http!TypeOK /\ HttpParts /\ Blank /\ FileSought /\ pc = "missing" /\ pc' = "look 404"
        /\ code' = 404 /\ target' = "/404.html" /\ length' = Http!FileSize("/404.html")
        /\ UNCHANGED <<sent, Http!fileVars, Http!reqVars, location, text, answer, arrived>>
    BY DEF HttpInv, Http!Missing, Http!Goto
  <1>2. UNCHANGED <<sent, Http!fileVars, request, reqline, arrived, internal>>
    BY <1>1 DEF Http!reqVars
  <1>3. Static /\ (~edited => Http!FileSize(Http!Resource) = Http!Absent /\ text = 0)
    BY <1>1 DEF FileSought
  <1>4. length' = files["/404.html"] /\ length' \in Sizes
    BY <1>1, SizeOf DEF Http!TypeOK
  <1>5. Http!TypeOK'
    <2>1. UNCHANGED <<location, text, answer>> /\ Http!TypeOK
      BY <1>1
    <2> QED BY ZenonT(60), <2>1, <1>1, <1>2, <1>4, Frame DEF Http!TypeOK
  <1>6. HttpParts' /\ Blank' /\ Parsed'
    BY <1>1, <1>2, Frame DEF HttpParts, Blank, Parsed
  <1>7. FileSought'
    <2>1. Static' /\ Http!Resource' = Http!Resource
      BY <1>2, <1>3, AskedStays
    <2>2. Http!FileSize(Http!Resource)' = Http!FileSize(Http!Resource) /\ files' = files
      BY <1>2, <2>1 DEF Http!FileSize, Http!fileVars
    <2>3. edited' <=> edited
      BY <1>2, Zenon DEF Http!fileVars
    <2> QED BY <2>1, <2>2, <2>3, <1>1, <1>3, <1>4 DEF FileSought
  <1>8. Prepared' /\ Http!AsRequested'
    BY <1>1 DEF Prepared, Http!AsRequested
  <1> QED BY <1>5, <1>6, <1>7, <1>8 DEF HttpInv

LEMMA Look404Keeps ==
  ASSUME Http!HttpAssumption, HttpInv, Http!Look404
  PROVE  HttpInv'
  <1>1. /\ Http!TypeOK /\ HttpParts /\ Blank /\ FileSought /\ pc = "look 404" /\ pc' = "send"
        /\ text' = IF Http!FileSize(target) = Http!Absent THEN text ELSE Http!FileSize(target)
        /\ UNCHANGED <<sent, Http!fileVars, Http!reqVars, target, code, length, location, answer, arrived>>
    BY DEF HttpInv, Http!Look404, Http!Goto
  <1>2. UNCHANGED <<sent, Http!fileVars, request, reqline, arrived, internal>>
    BY <1>1 DEF Http!reqVars
  <1>3. /\ Static /\ code = 404 /\ target = "/404.html"
        /\ ~edited => Http!FileSize(Http!Resource) = Http!Absent /\ length = files["/404.html"]
    BY <1>1 DEF FileSought
  <1>4. Http!FileSize(target) = files["/404.html"]
    BY <1>1, <1>3, SizeOf DEF Http!TypeOK
  <1>5. text' \in Nat
    <2>1. Http!FileSize(target) # Http!Absent => Http!FileSize(target) \in Nat
      BY <1>1, SizeOf DEF Http!TypeOK
    <2>2. text \in Nat
      BY <1>1 DEF Http!TypeOK
    <2> QED BY <2>1, <2>2, <1>1
  <1>6. Http!TypeOK'
    <2>1. UNCHANGED <<location, code, length, answer>> /\ Http!TypeOK
      BY <1>1
    <2>2. code' \in Uninitialized \cup {200, 301, 404}
      BY <2>1 DEF Http!TypeOK
    <2>3. length' \in Sizes \cup {Http!NotSet, 1} /\ Len(answer') <= 1
      BY <2>1 DEF Http!TypeOK
    <2>4. internal' \in BOOLEAN /\ location' \in BOOLEAN
      BY ZenonT(60), <2>1, <1>2 DEF Http!TypeOK
    <2> QED BY <2>2, <2>3, <2>4, <1>1, <1>2, <1>5, Frame DEF Http!TypeOK
  <1>7. HttpParts' /\ Blank' /\ Parsed' /\ FileSought'
    BY <1>1, <1>2, Frame DEF HttpParts, Blank, Parsed, FileSought
  <1>8. Prepared'
    <2>1. PICK a : a = Response'
      OBVIOUS
    <2>2. /\ a.code = 404 /\ a.length = length
          /\ files["/404.html"] # Http!Absent => a.text = files["/404.html"]
      BY <2>1, <1>1, <1>3, <1>4 DEF Response
    <2>3. ASSUME ~edited PROVE Http!Expected(a)
      BY <2>2, <2>3, <1>3 DEF Http!Expected, Static
    <2>4. edited' <=> edited
      BY <1>2, Zenon DEF Http!fileVars
    <2>5. Http!Expected(a)' <=> Http!Expected(a)
      BY <1>2, Frame
    <2>6. ~edited' => Http!Expected(a)'
      BY <2>3, <2>4, <2>5, Zenon
    <2> QED BY <2>1, <2>6 DEF Prepared, Http!Expected
  <1>9. Http!AsRequested'
    BY <1>1 DEF Http!AsRequested
  <1> QED BY <1>6, <1>7, <1>8, <1>9 DEF HttpInv

LEMMA SendKeeps ==
  ASSUME Http!HttpAssumption, HttpInv, Http!Send
  PROVE  HttpInv'
  <1>1. /\ Http!TypeOK /\ HttpParts /\ Prepared /\ pc = "send" /\ pc' = "done"
        /\ answer' = <<Response>>
        /\ UNCHANGED <<sent, Http!fileVars, Http!reqVars, Http!respVars, arrived>>
    BY DEF HttpInv, Http!Send, Http!Goto, Response
  <1>2. UNCHANGED <<sent, Http!fileVars, request, reqline, arrived, internal>>
    BY <1>1 DEF Http!reqVars
  <1>3. PICK a : a = Response
    OBVIOUS
  <1>4. answer' = <<a>> /\ answer' # <<>> /\ Len(answer') = 1 /\ answer'[1] = a
    BY <1>1, <1>3
  <1>5. Http!TypeOK'
    <2>1. UNCHANGED <<location, code, length, text>> /\ Http!TypeOK
      BY <1>1 DEF Http!respVars
    <2> QED BY <2>1, <1>1, <1>2, <1>4, Frame DEF Http!TypeOK
  <1>6. HttpParts' /\ Blank' /\ Parsed' /\ FileSought' /\ Prepared'
    BY <1>1, <1>2, Frame DEF HttpParts, Blank, Parsed, FileSought, Prepared
  <1>7. Http!AsRequested'
    <2>1. ~edited => Http!Expected(a)
      BY <1>1, <1>3 DEF Prepared, Http!Expected
    <2>2. edited' <=> edited
      BY <1>2, Zenon DEF Http!fileVars
    <2>3. Http!Expected(a)' <=> Http!Expected(a)
      BY <1>2, Frame
    <2>4. ~edited' => Http!Expected(a)'
      BY <2>1, <2>2, <2>3, Zenon
    <2> QED BY <2>4, <1>4 DEF Http!AsRequested, Http!Expected
  <1> QED BY <1>5, <1>6, <1>7 DEF HttpInv

LEMMA HttpKeeps ==
  ASSUME Http!HttpAssumption, HttpInv, Http!Next \/ UNCHANGED httpVars
  PROVE  HttpInv'
  <1>1. CASE UNCHANGED httpVars
    <2>1. /\ UNCHANGED <<sent, files, edits, pc, request, reqline, method, uri, args, internal>>
          /\ UNCHANGED <<target, code, length, location, text, answer, arrived, edited>>
      BY <1>1 DEF httpVars
    <2>2. UNCHANGED <<sent, Http!fileVars, request, reqline, arrived>>
      BY <2>1 DEF Http!fileVars
    <2>3. /\ Http!TypeOK /\ HttpParts /\ Blank /\ Parsed /\ FileSought /\ Prepared /\ Http!AsRequested
      BY DEF HttpInv
    <2>4. Http!Asked' = Http!Asked /\ Http!Resource' = Http!Resource /\ (Static' <=> Static)
      BY <2>1, AskedStays
    <2>5. Http!TypeOK'
      <3>1. code' \in Uninitialized \cup {200, 301, 404}
        BY <2>1, <2>3 DEF Http!TypeOK
      <3>2. length' \in Sizes \cup {Http!NotSet, 1} /\ text' \in Nat /\ Len(answer') <= 1
        BY <2>1, <2>3 DEF Http!TypeOK
      <3>3. internal' \in BOOLEAN /\ location' \in BOOLEAN
        BY ZenonT(60), <2>1, <2>3 DEF Http!TypeOK
      <3>4. pc' \in {"recv", "headers", "query", "dispatch", "open", "found", "missing",
                     "look 404", "send", "done"}
        BY <2>1, <2>3 DEF Http!TypeOK
      <3> QED BY <3>1, <3>2, <3>3, <3>4, <2>2, Frame DEF Http!TypeOK
    <2>10. HttpParts'
      BY <2>1, <2>2, <2>3, Frame DEF HttpParts
    <2>6. Blank' /\ Parsed'
      BY <2>1, <2>3, <2>4 DEF Blank, Undecided, Parsed
    <2>7. FileSought'
      BY <2>1, <2>3, <2>4 DEF FileSought, Http!FileSize
    <2>8. Prepared'
      BY ZenonT(60), <2>1, <2>3, <2>4 DEF Prepared, Http!Expected, Http!FileSize, Response
    <2>9. Http!AsRequested'
      BY <2>1, <2>3, <2>4 DEF Http!AsRequested, Http!UnknownRoute, Http!Expected, Http!FileSize
    <2> QED BY <2>5, <2>10, <2>6, <2>7, <2>8, <2>9 DEF HttpInv
  <1>2. CASE Http!Recv
    BY <1>2, RecvKeeps
  <1>3. CASE Http!RecvEnd
    BY <1>3, RecvEndKeeps
  <1>4. CASE Http!HandlerHttpRquest
    BY <1>4, HeadersKeep, QueryKeeps, NoRouteKeeps, LoginKeeps, FaviconKeeps, RedirectKeeps,
       LookKeeps, OpenKeeps, FoundKeeps, MissingKeeps, Look404Keeps, SendKeeps
       DEF Http!HandlerHttpRquest, Http!MakeResponse
  <1>5. CASE Http!Edit
    BY <1>5, EditKeeps
  <1>6. CASE Http!Terminated
    BY <1>6, <1>1 DEF Http!Terminated, Http!vars, httpVars
  <1> QED BY <1>1, <1>2, <1>3, <1>4, <1>5, <1>6 DEF Http!Next

-----------------------------------------------------------------------------
(***************************************************************************)
(* The programs together: an invariant of the one that runs, and the       *)
(* others are not started.                                                 *)
(***************************************************************************)
IInv == program \in Programs /\ ForkInv /\ HttpInv /\ ClientInv /\ DictInv

(* The inductive invariant holds in every reachable state of each program. *)
THEOREM Invariance == Spec => []IInv
  <1>1. Init => IInv
    BY Assumptions, ForkBegins, HttpBegins, ClientBegins, DictBegins DEF Init, IInv
  <1>2. IInv /\ [Next]_vars => IInv'
    <2> SUFFICES ASSUME IInv, [Next]_vars PROVE IInv'
      OBVIOUS
    <2> USE Assumptions DEF IInv
    <2>1. CASE UNCHANGED vars
      BY <2>1, ForkKeeps, HttpKeeps, ClientKeeps, DictKeeps DEF vars
    <2>2. CASE ForkStep
      BY <2>2, ForkKeeps, HttpKeeps, ClientKeeps, DictKeeps DEF ForkStep
    <2>3. CASE DictStep
      BY <2>3, ForkKeeps, HttpKeeps, ClientKeeps, DictKeeps DEF DictStep
    <2>4. CASE ClientStep
      BY <2>4, ForkKeeps, HttpKeeps, ClientKeeps, DictKeeps DEF ClientStep
    <2>5. CASE HttpStep
      BY <2>5, ForkKeeps, HttpKeeps, ClientKeeps, DictKeeps DEF HttpStep
    <2> QED BY <2>1, <2>2, <2>3, <2>4, <2>5 DEF Next
  <1> QED BY <1>1, <1>2, PTL DEF Spec

(* Every variable of the four programs keeps its type.                     *)
THEOREM TypeCorrect == Spec => []TypeOK
  <1>1. IInv => TypeOK
    BY Assumptions, ForkInvSays, DictInvSays DEF IInv, HttpInv, ClientInv, TypeOK
  <1> QED BY <1>1, Invariance, PTL

(* However many clients there are and forks fail, a connection is held by  *)
(* the processes that were made for it only, and a process that serves     *)
(* does not listen.                                                        *)
THEOREM ConnectionsApart == Spec => []Isolation
  <1>1. IInv => Isolation
    BY ForkInvSays DEF IInv, Isolation
  <1> QED BY <1>1, Invariance, PTL

(* For any request, cut anywhere, and any files: the response is the one   *)
(* that the request line and the files call for, as long as nobody changes *)
(* them, and a request that is handled to its end has one, unless it named *)
(* a route that does not exist.                                            *)
THEOREM Answered == Spec => []AsRequested
  <1>1. IInv => AsRequested
    BY DEF IInv, HttpInv, AsRequested
  <1> QED BY <1>1, Invariance, PTL

(* For any file and any words, those with blanks anywhere included, and    *)
(* whatever datagrams are lost, duplicated or overtaken: an answer is the  *)
(* file's meaning of the client's own word, or the rest of a line that     *)
(* LoadDict misreads as this word; and it is that of an earlier word only  *)
(* if a datagram of this client was duplicated.                            *)
THEOREM AnswersRight == Spec => []AnswersMatch
  <1>1. IInv => AnswersMatch
    BY Assumptions, DictInvSays DEF IInv, AnswersMatch
  <1> QED BY <1>1, Invariance, PTL
=============================================================================
