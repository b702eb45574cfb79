------------------------ MODULE TcpEchoServerProofs ------------------------
(***************************************************************************)
(* Proofs about the TCP command server, for any number of clients, any     *)
(* size of the table of descriptors and any number of lines.               *)
(***************************************************************************)
EXTENDS TcpEchoServer, FiniteSetTheorems, WellFoundedInduction, SequenceTheorems, TLAPS

(* The lowest free descriptor is a free one.                               *)
LEMMA LowestIsFree ==
  ASSUME EchoAssumption, FreeNumbers # {}
  PROVE  Lowest \in FreeNumbers
  <1> DEFINE R == {ss \in Nat \X Nat : ss[1] < ss[2]}
  <1>1. IsWellFoundedOn(R, Nat)
    BY NatLessThanWellFounded DEF OpToRel
  <1>2. \A x, y \in Nat : <<y, x>> \in R <=> y < x
    OBVIOUS
  <1>3. FreeNumbers \in SUBSET Nat
    BY DEF FreeNumbers, Numbers, EchoAssumption
  <1> HIDE DEF R
  <1>4. PICK n \in FreeNumbers : \A m \in FreeNumbers : ~(<<m, n>> \in R)
    BY <1>1, <1>3, WFMin
  <1>5. ASSUME NEW m \in FreeNumbers PROVE n <= m
    <2>1. n \in Nat /\ m \in Nat /\ ~(m < n)
      BY <1>2, <1>3, <1>4
    <2> QED BY <2>1
  <1> QED BY <1>4, <1>5 DEF Lowest, Min

LEMMA FilesDiffer ==
  /\ Free # Listener /\ ListenFd = 0
  /\ \A c, d : /\ Conn(c) # Free /\ Conn(c) # Listener /\ Pipe(c) # Free /\ Pipe(c) # Listener
               /\ Conn(c) # Pipe(d) /\ (Conn(c) = Conn(d) => c = d)
  /\ \A c \in Clients : Conn(c) \in Files /\ Conn(c) \in Conns /\ Pipe(c) \in Files
  /\ Free \in Files /\ Listener \in Files
  BY DEF Free, Listener, Conn, Pipe, Files, Conns, ListenFd

-----------------------------------------------------------------------------
(* A thread has a descriptor of its own to work with, and so has its       *)
(* popen: neither is the listening one.                                    *)
Serving(c) == pc[c] \notin {"none", "never", "killed"}

OwnNumbers == \A c \in Clients : /\ Serving(c) => sockfd[c] # ListenFd
                                 /\ pc[c] = "fgets" => pipefd[c] # ListenFd

(* With the process all its threads end.                                   *)
Together == ~alive => \A c \in Clients : pc[c] = "killed"

(* A client has not more lines under way than were typed.                  *)
LinesTyped == \A c \in Clients : up[c] <= typed

IInv == TypeOK /\ OwnNumbers /\ Together /\ LinesTyped /\ Undisturbed

LEMMA Begins ==
  ASSUME EchoAssumption, Init
  PROVE  IInv
  <1>1. /\ table = [n \in Numbers |-> IF n = ListenFd THEN Listener ELSE Free]
        /\ sockfd = [c \in Clients |-> ListenFd] /\ pipefd = [c \in Clients |-> ListenFd]
        /\ pc = [c \in Clients |-> "none"] /\ file = [c \in Clients |-> Free]
        /\ up = [c \in Clients |-> 0] /\ down = [c \in Clients |-> {}]
        /\ client = [c \in Clients |-> "new"] /\ typed = 0 /\ backlog = <<>>
        /\ alive = TRUE /\ failures = 0 /\ stray = FALSE
    BY DEF Init
  <1>2. ListenFd \in Numbers /\ table[ListenFd] = Listener
    BY <1>1 DEF ListenFd, Numbers, EchoAssumption
  <1>3. 0 \in 0..MaxLines /\ 0 \in 0..MaxThreadFailures
    BY DEF EchoAssumption
  <1>4. TypeOK
    <2>1. table \in [Numbers -> Files] /\ file \in [Clients -> Files]
      BY <1>1, FilesDiffer
    <2>2. alive \in BOOLEAN /\ stray \in BOOLEAN
      BY <1>1, Zenon
    <2>3. sockfd \in [Clients -> Numbers] /\ pipefd \in [Clients -> Numbers]
      BY <1>1, <1>2
    <2>4. /\ client \in [Clients -> {"new", "input", "wait", "left"}]
          /\ pc \in [Clients -> {"none", "never", "read", "reading", "execute", "fgets",
                                 "refuse", "write", "close", "close again", "done", "killed"}]
          /\ up \in [Clients -> 0..MaxLines] /\ down \in [Clients -> SUBSET Answers]
          /\ typed \in 0..MaxLines /\ failures \in 0..MaxThreadFailures /\ backlog \in Seq(Clients)
      BY <1>1, <1>3
    <2> QED BY <1>2, <2>1, <2>2, <2>3, <2>4, Zenon DEF TypeOK
  <1> QED BY <1>1, <1>4 DEF IInv, OwnNumbers, Serving, Together, LinesTyped, Undisturbed

-----------------------------------------------------------------------------
(* The client's own steps.                                                 *)
LEMMA ClientKeeps ==
  ASSUME EchoAssumption, IInv, NEW c \in Clients, Connect(c) \/ Type(c) \/ Read(c) \/ Leave(c)
  PROVE  IInv'
  <1>1. TypeOK /\ OwnNumbers /\ Together /\ LinesTyped /\ Undisturbed
    BY DEF IInv
  <1>2. UNCHANGED <<fdVars, pc, file, alive, failures>>
    BY DEF Connect, Type, Read, Leave
  <1>3. /\ client' \in [Clients -> {"new", "input", "wait", "left"}]
        /\ backlog' \in Seq(Clients)
    <2>1. CASE Connect(c)
      BY <1>1, <2>1, AppendProperties DEF Connect, TypeOK
    <2>2. CASE Type(c) \/ Read(c) \/ Leave(c)
      BY <1>1, <2>2 DEF Type, Read, Leave, TypeOK, clientVars
    <2> QED BY <2>1, <2>2
  <1>4. /\ typed' \in 0..MaxLines /\ up' \in [Clients -> 0..MaxLines]
        /\ \A d \in Clients : up'[d] <= typed'
    <2>1. CASE Type(c)
      <3>1. /\ typed \in 0..MaxLines /\ typed < MaxLines /\ typed' = typed + 1 /\ MaxLines \in Nat
            /\ up' = [up EXCEPT ![c] = up[c] + 1] /\ up \in [Clients -> 0..MaxLines]
        BY <1>1, <2>1 DEF Type, TypeOK, EchoAssumption
      <3>2. \A d \in Clients : up[d] \in 0..MaxLines /\ up[d] <= typed
        BY <1>1, <3>1 DEF LinesTyped
      <3>3. up[c] + 1 \in 0..MaxLines /\ up[c] + 1 <= typed'
        BY <3>1, <3>2
      <3>4. \A d \in Clients : up'[d] = IF d = c THEN up[c] + 1 ELSE up[d]
        BY <3>1
      <3>5. typed' \in 0..MaxLines /\ \A d \in Clients : up[d] <= typed'
        BY <3>1, <3>2
      <3>6. up' \in [Clients -> 0..MaxLines]
        BY <3>1, <3>3
      <3> QED BY <3>3, <3>4, <3>5, <3>6
    <2>2. CASE Connect(c) \/ Read(c) \/ Leave(c)
      BY <1>1, <2>2 DEF Connect, Read, Leave, netVars, TypeOK, LinesTyped
    <2> QED BY <2>1, <2>2
  <1>5. /\ down' \in [Clients -> SUBSET Answers]
        /\ \A d \in Clients : down'[d] \subseteq down[d]
    <2>1. CASE Read(c)
      BY <1>1, <2>1 DEF Read, TypeOK
    <2>2. CASE Connect(c) \/ Type(c) \/ Leave(c)
      BY <1>1, <2>2 DEF Connect, Type, Leave, netVars, TypeOK
    <2> QED BY <2>1, <2>2
  <1>6. TypeOK'
    <2>1. UNCHANGED <<table, sockfd, pipefd, stray, pc, file, alive, failures>>
      BY <1>2 DEF fdVars
    <2> QED BY <1>1, <1>3, <1>4, <1>5, <2>1 DEF TypeOK
  <1>7. OwnNumbers' /\ Together' /\ LinesTyped' /\ Undisturbed'
    BY <1>1, <1>2, <1>4, <1>5 DEF fdVars, OwnNumbers, Serving, Together, LinesTyped, Undisturbed
  <1> QED BY <1>6, <1>7 DEF IInv

(* The accept loop: the new connection's number was nobody's.              *)
LEMMA ServerKeeps ==
  ASSUME EchoAssumption, IInv, Run \/ RunWithoutThread
  PROVE  IInv'
  <1>1. TypeOK /\ OwnNumbers /\ Together /\ LinesTyped /\ Undisturbed
    BY DEF IInv
  <1>2. /\ AcceptConnection
        /\ UNCHANGED <<client, typed, up, down, pipefd, stray, file, alive>>
    BY DEF Run, RunWithoutThread, netVars
  <1>c. PICK c : c = Head(backlog)
    OBVIOUS
  <1>n. PICK n : n = Lowest
    OBVIOUS
  <1>3. c \in Clients /\ Tail(backlog) \in Seq(Clients) /\ alive
    BY <1>1, <1>2, <1>c, HeadTailProperties DEF AcceptConnection, TypeOK
  <1>4. n \in Numbers /\ table[n] = Free /\ n # ListenFd
    <2>1. n \in Numbers /\ table[n] = Free
      BY <1>2, <1>n, LowestIsFree DEF AcceptConnection, FreeNumbers
    <2> QED BY <1>1, <1>3, <2>1, FilesDiffer DEF TypeOK
  <1>5. /\ backlog' = Tail(backlog) /\ table' = [table EXCEPT ![n] = Conn(c)]
        /\ \/ /\ sockfd' = [sockfd EXCEPT ![c] = n] /\ pc' = [pc EXCEPT ![c] = "read"]
              /\ failures' = failures
           \/ /\ sockfd' = sockfd /\ pc' = [pc EXCEPT ![c] = "never"]
              /\ failures < MaxThreadFailures /\ failures' = failures + 1
    BY <1>2, <1>c, <1>n DEF AcceptConnection, Run, RunWithoutThread, Handed, Goto
  <1>6. /\ table' \in [Numbers -> Files] /\ table'[n] = Conn(c)
        /\ \A m \in Numbers : m # n => table'[m] = table[m]
    BY <1>1, <1>3, <1>4, <1>5, FilesDiffer DEF TypeOK
  <1>7. /\ sockfd' \in [Clients -> Numbers]
        /\ pc' \in [Clients -> {"none", "never", "read", "reading", "execute", "fgets",
                                "refuse", "write", "close", "close again", "done", "killed"}]
        /\ \A d \in Clients : d # c => sockfd'[d] = sockfd[d] /\ pc'[d] = pc[d]
        /\ pc'[c] = "never" \/ (pc'[c] = "read" /\ sockfd'[c] = n)
    BY <1>1, <1>3, <1>4, <1>5 DEF TypeOK
  <1>8. failures' \in 0..MaxThreadFailures
    <2>1. failures \in 0..MaxThreadFailures /\ MaxThreadFailures \in Nat
      BY <1>1 DEF TypeOK, EchoAssumption
    <2>2. failures' = failures \/ (failures < MaxThreadFailures /\ failures' = failures + 1)
      BY <1>5
    <2> QED BY <2>1, <2>2
  <1>9. TypeOK'
    <2>1. alive' => table'[ListenFd] = Listener
      <3>1. ListenFd \in Numbers
        BY DEF ListenFd, Numbers, EchoAssumption
      <3> QED BY <1>1, <1>2, <1>4, <1>6, <3>1 DEF TypeOK
    <2>2. backlog' \in Seq(Clients)
      BY <1>3, <1>5
    <2> QED BY <1>1, <1>2, <1>6, <1>7, <1>8, <2>1, <2>2 DEF TypeOK
  <1>10. OwnNumbers'
    BY <1>1, <1>2, <1>4, <1>7 DEF OwnNumbers, Serving
  <1>11. Together' /\ LinesTyped'
    BY <1>1, <1>2, <1>3 DEF Together, LinesTyped
  <1>12. Undisturbed'
    <2> SUFFICES ASSUME alive', ~stray', NEW d \in Clients
                 PROVE  /\ pc'[d] \in {"read", "reading", "execute", "fgets", "refuse", "write", "close"} =>
                             table'[sockfd'[d]] = Conn(d)
                        /\ pc'[d] = "reading" => file'[d] = Conn(d)
                        /\ down'[d] \subseteq {d, Refusal}
      BY DEF Undisturbed
    <2>1. /\ pc[d] \in {"read", "reading", "execute", "fgets", "refuse", "write", "close"} =>
                 table[sockfd[d]] = Conn(d)
          /\ pc[d] = "reading" => file[d] = Conn(d)
          /\ down[d] \subseteq {d, Refusal}
      BY <1>1, <1>2 DEF Undisturbed
    <2>2. sockfd[d] \in Numbers
      BY <1>1 DEF TypeOK
    <2>3. CASE d = c
      BY <1>2, <1>6, <1>7, <2>1, <2>3
    <2>4. CASE d # c
      BY <1>2, <1>4, <1>6, <1>7, <2>1, <2>2, <2>4, FilesDiffer
    <2> QED BY <2>3, <2>4
  <1> QED BY <1>9, <1>10, <1>11, <1>12 DEF IInv

-----------------------------------------------------------------------------
(* What is so of a thread that takes a step, and of one step of its code.  *)
Points == {"none", "never", "read", "reading", "execute", "fgets",
           "refuse", "write", "close", "close again", "done", "killed"}

LEMMA ThreadRuns ==
  ASSUME EchoAssumption, IInv, NEW t \in Clients, Serving(t)
  PROVE  /\ alive /\ sockfd[t] \in Numbers /\ sockfd[t] # ListenFd /\ pipefd[t] \in Numbers
         /\ ListenFd \in Numbers /\ table[ListenFd] = Listener
         /\ \A p \in Points : Goto(t, p) => /\ pc' \in [Clients -> Points] /\ pc'[t] = p
                                           /\ \A c \in Clients : c # t => pc'[c] = pc[c]
  <1>1. alive /\ sockfd[t] # ListenFd
    BY DEF IInv, OwnNumbers, Together, Serving
  <1>2. /\ sockfd[t] \in Numbers /\ pipefd[t] \in Numbers /\ table[ListenFd] = Listener
        /\ pc \in [Clients -> Points]
    BY <1>1 DEF IInv, TypeOK, Points
  <1>3. ListenFd \in Numbers
    BY DEF ListenFd, Numbers, EchoAssumption
  <1>4. ASSUME NEW p \in Points, Goto(t, p)
        PROVE  /\ pc' \in [Clients -> Points] /\ pc'[t] = p
               /\ \A c \in Clients : c # t => pc'[c] = pc[c]
    BY <1>2, <1>4 DEF Goto
  <1> QED BY <1>1, <1>2, <1>3, <1>4

(* The steps that read and write.                                          *)
LEMMA TransferKeeps ==
  ASSUME EchoAssumption, IInv, NEW t \in Clients,
         BeginRead(t) \/ ReadLine(t) \/ ReadEnd(t) \/ Refuse(t) \/ Fgets(t) \/ Write(t)
  PROVE  IInv'
  <1>1. TypeOK /\ OwnNumbers /\ Together /\ LinesTyped /\ Undisturbed
    BY DEF IInv
  <1>2. /\ Serving(t) /\ UNCHANGED <<client, typed, backlog, table, sockfd, pipefd, stray, alive, failures>>
    BY DEF BeginRead, ReadLine, ReadEnd, Refuse, Fgets, Write, Serving, clientVars, fdVars
  <1>3. /\ pc' \in [Clients -> Points] /\ \A c \in Clients : c # t => pc'[c] = pc[c]
        /\ \/ BeginRead(t) /\ (pc'[t] = "close" \/ (pc'[t] = "reading" /\ file'[t] = table[sockfd[t]]))
           \/ ReadLine(t) /\ pc'[t] = "execute"
           \/ ReadEnd(t) /\ pc'[t] = "close"
           \/ Refuse(t) /\ pc'[t] = "refuse"
           \/ Fgets(t) /\ pc'[t] = "fgets" /\ pc[t] = "fgets"
           \/ Write(t) /\ pc'[t] = "read"
    <2>1. CASE BeginRead(t)
      <3>1. \/ Goto(t, "close")
            \/ Goto(t, "reading") /\ file' = [file EXCEPT ![t] = table[sockfd[t]]]
        BY <2>1 DEF BeginRead
      <3>2. file' = [file EXCEPT ![t] = table[sockfd[t]]] => file'[t] = table[sockfd[t]]
        BY <1>1 DEF TypeOK
      <3>3. "close" \in Points /\ "reading" \in Points
        BY DEF Points
      <3> QED BY <1>2, <2>1, <3>1, <3>2, <3>3, ThreadRuns
    <2>2. CASE ReadLine(t) \/ ReadEnd(t) \/ Refuse(t) \/ Write(t)
      <3>1. "execute" \in Points /\ "close" \in Points /\ "refuse" \in Points /\ "read" \in Points
        BY DEF Points
      <3> QED BY <1>2, <2>2, <3>1, ThreadRuns DEF ReadLine, ReadEnd, Refuse, Write
    <2>3. CASE Fgets(t)
      BY <1>1, <2>3 DEF Fgets, TypeOK, Points
    <2> QED BY <2>1, <2>2, <2>3
  <1>4. /\ file' \in [Clients -> Files]
        /\ \A c \in Clients : c # t => file'[c] = file[c]
    <2>1. CASE BeginRead(t)
      <3>1. file' = file \/ file' = [file EXCEPT ![t] = table[sockfd[t]]]
        BY <2>1 DEF BeginRead
      <3>2. table[sockfd[t]] \in Files
        BY <1>1 DEF TypeOK
      <3> QED BY <1>1, <3>1, <3>2 DEF TypeOK
    <2>2. CASE ReadLine(t) \/ ReadEnd(t)
      BY ZenonT(60), <1>1, <2>2, FilesDiffer DEF ReadLine, ReadEnd, TypeOK
    <2>3. CASE Refuse(t) \/ Fgets(t) \/ Write(t)
      BY <1>1, <2>3 DEF Refuse, Fgets, Write, TypeOK
    <2> QED BY <2>1, <2>2, <2>3
  <1>5. /\ up' \in [Clients -> 0..MaxLines]
        /\ \A c \in Clients : up'[c] <= typed
    <2>0. /\ up \in [Clients -> 0..MaxLines] /\ \A c \in Clients : up[c] \in 0..MaxLines /\ up[c] <= typed
          /\ typed \in 0..MaxLines /\ MaxLines \in Nat
      BY <1>1 DEF TypeOK, LinesTyped, EchoAssumption
    <2>1. ASSUME NEW c \in Clients, NEW k \in 0..MaxLines, k <= up[c], up' = [up EXCEPT ![c] = k]
          PROVE  <1>5!:
      BY <2>0, <2>1
    <2>2. CASE UNCHANGED up
      BY <2>0, <2>2
    <2>3. CASE ReadLine(t)
      <3>1. ASSUME NEW c \in Clients, NEW n \in 1..up[c], up' = [up EXCEPT ![c] = @ - n]
            PROVE  <1>5!:
        <4>1. PICK k : k = up[c] - n
          OBVIOUS
        <4>2. k \in 0..MaxLines /\ k <= up[c]
          BY <2>0, <4>1
        <4>3. up' = [up EXCEPT ![c] = k]
          BY <3>1, <4>1
        <4> QED BY <2>1, <4>2, <4>3
      <3> QED BY <2>2, <2>3, <3>1 DEF ReadLine
    <2>4. CASE Fgets(t)
      <3>1. PICK c \in Clients : up' = [up EXCEPT ![c] = 0]
        BY <2>4 DEF Fgets
      <3>2. 0 \in 0..MaxLines /\ 0 <= up[c]
        BY <2>0
      <3> QED BY <2>1, <3>1, <3>2
    <2>5. CASE BeginRead(t) \/ ReadEnd(t) \/ Refuse(t) \/ Write(t)
      BY <2>2, <2>5 DEF BeginRead, ReadEnd, Refuse, Write, netVars
    <2> QED BY <2>3, <2>4, <2>5
  <1>6. /\ down' \in [Clients -> SUBSET Answers]
        /\ \A c \in Clients :
             \/ down'[c] = down[c]
             \/ /\ Write(t) /\ table[sockfd[t]] = Conn(c)
                /\ down'[c] \subseteq down[c] \cup {t, Refusal}
    <2>1. CASE Write(t)
      <3>1. down' = [c \in Clients |-> IF table[sockfd[t]] = Conn(c) THEN down[c] \cup Answer(t) ELSE down[c]]
        BY <2>1 DEF Write
      <3>2. Answer(t) \subseteq {t, Refusal} /\ t \in Answers /\ Refusal \in Answers
        BY DEF Answer, Answers
      <3>3. \A c \in Clients : down[c] \in SUBSET Answers
        BY <1>1 DEF TypeOK
      <3>4. down' \in [Clients -> SUBSET Answers]
        BY <3>1, <3>2, <3>3
      <3>5. \A c \in Clients :
              \/ down'[c] = down[c]
              \/ table[sockfd[t]] = Conn(c) /\ down'[c] = down[c] \cup Answer(t)
        BY <3>1
      <3> QED BY <2>1, <3>2, <3>4, <3>5
    <2>2. CASE BeginRead(t) \/ ReadLine(t) \/ ReadEnd(t) \/ Refuse(t) \/ Fgets(t)
      BY <1>1, <2>2 DEF BeginRead, ReadLine, ReadEnd, Refuse, Fgets, netVars, TypeOK
    <2> QED BY <2>1, <2>2
  <1>7. TypeOK'
    BY <1>1, <1>2, <1>3, <1>4, <1>5, <1>6 DEF TypeOK, Points
  <1>8. OwnNumbers'
    BY <1>1, <1>2, <1>3, ThreadRuns DEF OwnNumbers, Serving
  <1>9. Together' /\ LinesTyped'
    BY <1>2, <1>5, ThreadRuns DEF Together, LinesTyped
  <1>10. Undisturbed'
    <2> SUFFICES ASSUME alive', ~stray', NEW c \in Clients
                 PROVE  /\ pc'[c] \in {"read", "reading", "execute", "fgets", "refuse", "write", "close"} =>
                             table[sockfd[c]] = Conn(c)
                        /\ pc'[c] = "reading" => file'[c] = Conn(c)
                        /\ down'[c] \subseteq {c, Refusal}
      BY <1>2 DEF Undisturbed
    <2>1. \A d \in Clients :
            /\ pc[d] \in {"read", "reading", "execute", "fgets", "refuse", "write", "close"} =>
                 table[sockfd[d]] = Conn(d)
            /\ pc[d] = "reading" => file[d] = Conn(d)
            /\ down[d] \subseteq {d, Refusal}
      BY <1>1, <1>2 DEF Undisturbed
    <2>2. pc[t] \in {"read", "reading", "execute", "fgets", "refuse", "write"}
      BY DEF BeginRead, ReadLine, ReadEnd, Refuse, Fgets, Write
    <2>3. table[sockfd[t]] = Conn(t)
      BY <2>1, <2>2
    <2>4. down'[c] \subseteq {c, Refusal}
      BY <1>6, <2>1, <2>3, FilesDiffer
    <2>5. CASE c = t
      <3>1. pc'[t] = "reading" => file'[t] = Conn(t)
        BY <1>3, <2>3
      <3> QED BY <2>3, <2>4, <2>5, <3>1
    <2>6. CASE c # t
      BY <1>3, <1>4, <2>1, <2>4, <2>6
    <2> QED BY <2>5, <2>6
  <1> QED BY <1>7, <1>8, <1>9, <1>10 DEF IInv

(* popen takes a number that was free.                                     *)
LEMMA PopenKeeps ==
  ASSUME EchoAssumption, IInv, NEW t \in Clients, Popen(t)
  PROVE  IInv'
  <1>1. TypeOK /\ OwnNumbers /\ Together /\ LinesTyped /\ Undisturbed
    BY DEF IInv
  <1>n. PICK n : n = Lowest
    OBVIOUS
  <1>2. /\ pc[t] = "execute" /\ table' = [table EXCEPT ![n] = Pipe(t)]
        /\ pipefd' = [pipefd EXCEPT ![t] = n] /\ Goto(t, "fgets")
        /\ UNCHANGED <<client, typed, backlog, up, down, sockfd, stray, file, alive, failures>>
    BY <1>n DEF Popen, clientVars, netVars
  <1>3. Serving(t) /\ "fgets" \in Points
    BY <1>2 DEF Serving, Points
  <1>4. /\ alive /\ sockfd[t] \in Numbers /\ sockfd[t] # ListenFd
        /\ ListenFd \in Numbers /\ table[ListenFd] = Listener
        /\ pc' \in [Clients -> Points] /\ pc'[t] = "fgets"
        /\ \A c \in Clients : c # t => pc'[c] = pc[c]
    BY <1>2, <1>3, ThreadRuns
  <1>5. n \in Numbers /\ table[n] = Free /\ n # ListenFd
    <2>1. FreeNumbers # {}
      <3>1. Cardinality(FreeNumbers) >= 2
        BY DEF Popen
      <3>2. Cardinality({}) = 0
        BY FS_EmptySet
      <3> QED BY <3>1, <3>2
    <2>2. n \in Numbers /\ table[n] = Free
      BY <1>n, <2>1, LowestIsFree DEF FreeNumbers
    <2> QED BY <1>4, <2>2, FilesDiffer
  <1>6. /\ table' \in [Numbers -> Files]
        /\ \A m \in Numbers : m # n => table'[m] = table[m]
    BY <1>1, <1>2, <1>5, FilesDiffer DEF TypeOK
  <1>7. /\ pipefd' \in [Clients -> Numbers] /\ pipefd'[t] = n
        /\ \A c \in Clients : c # t => pipefd'[c] = pipefd[c]
    BY <1>1, <1>2, <1>5 DEF TypeOK
  <1>8. TypeOK'
    <2>1. table'[ListenFd] = Listener
      BY <1>4, <1>5, <1>6
    <2> QED BY <1>1, <1>2, <1>4, <1>6, <1>7, <2>1 DEF TypeOK, Points
  <1>9. OwnNumbers'
    BY <1>1, <1>2, <1>4, <1>5, <1>7 DEF OwnNumbers, Serving
  <1>10. Together' /\ LinesTyped'
    BY <1>1, <1>2, <1>4 DEF Together, LinesTyped
  <1>11. Undisturbed'
    <2> SUFFICES ASSUME alive', ~stray', NEW c \in Clients
                 PROVE  /\ pc'[c] \in {"read", "reading", "execute", "fgets", "refuse", "write", "close"} =>
                             table'[sockfd[c]] = Conn(c)
                        /\ pc'[c] = "reading" => file[c] = Conn(c)
                        /\ down[c] \subseteq {c, Refusal}
      BY <1>2 DEF Undisturbed
    <2>1. /\ pc[c] \in {"read", "reading", "execute", "fgets", "refuse", "write", "close"} =>
               table[sockfd[c]] = Conn(c)
          /\ pc[c] = "reading" => file[c] = Conn(c)
          /\ down[c] \subseteq {c, Refusal}
      BY <1>1, <1>2 DEF Undisturbed
    <2>2. sockfd[c] \in Numbers
      BY <1>1 DEF TypeOK
    <2>3. table[sockfd[c]] = Conn(c) => table'[sockfd[c]] = Conn(c)
      BY <1>5, <1>6, <2>2, FilesDiffer
    <2>4. CASE c = t
      BY <1>2, <1>4, <2>1, <2>3, <2>4
    <2>5. CASE c # t
      BY <1>4, <2>1, <2>3, <2>5
    <2> QED BY <2>4, <2>5
  <1> QED BY <1>8, <1>9, <1>10, <1>11 DEF IInv

(* Who closes a number frees what it stands for, and if that was another   *)
(* thread's, stray tells.                                                  *)
LEMMA CloseKeeps ==
  ASSUME EchoAssumption, IInv, NEW t \in Clients, NEW n \in Numbers \ {ListenFd}, NEW own,
         Close(t, n, own),
         \/ own = Pipe(t) /\ pc[t] = "fgets" /\ Goto(t, "write")
         \/ own = Conn(t) /\ pc[t] = "close" /\ Goto(t, "close again")
         \/ own = Conn(t) /\ pc[t] = "close again" /\ Goto(t, "done"),
         UNCHANGED <<clientVars, netVars, sockfd, pipefd, file, alive, failures>>
  PROVE  IInv'
  <1>1. TypeOK /\ OwnNumbers /\ Together /\ LinesTyped /\ Undisturbed
    BY DEF IInv
  <1>2. /\ table' = [table EXCEPT ![n] = Free]
        /\ UNCHANGED <<client, typed, backlog, up, down, sockfd, pipefd, file, alive, failures>>
    BY DEF Close, clientVars, netVars
  <1>3. ~stray' => ~stray /\ (table[n] = Free \/ table[n] = own)
    BY DEF Close
  <1>4. stray' \in BOOLEAN
    BY <1>1 DEF Close, TypeOK
  <1>5. Serving(t) /\ "write" \in Points /\ "close again" \in Points /\ "done" \in Points
    BY DEF Serving, Points
  <1>6. /\ alive /\ ListenFd \in Numbers /\ table[ListenFd] = Listener /\ sockfd[t] # ListenFd
        /\ pc' \in [Clients -> Points] /\ pc'[t] \in {"write", "close again", "done"}
        /\ \A c \in Clients : c # t => pc'[c] = pc[c]
    BY <1>5, ThreadRuns
  <1>7. /\ table' \in [Numbers -> Files] /\ table'[ListenFd] = Listener
        /\ \A m \in Numbers : m # n => table'[m] = table[m]
    BY <1>1, <1>2, <1>6, FilesDiffer DEF TypeOK
  <1>8. TypeOK'
    BY <1>1, <1>2, <1>4, <1>6, <1>7 DEF TypeOK, Points
  <1>9. OwnNumbers' /\ Together' /\ LinesTyped'
    <2>1. OwnNumbers'
      <3>1. \A c \in Clients : c # t /\ Serving(c)' => Serving(c)
        BY <1>6 DEF Serving
      <3>2. \A c \in Clients : Serving(c)' => sockfd[c] # ListenFd
        BY <1>1, <1>6, <3>1 DEF OwnNumbers
      <3>3. \A c \in Clients : pc'[c] = "fgets" => pipefd[c] # ListenFd
        BY <1>1, <1>6 DEF OwnNumbers
      <3> QED BY <1>2, <3>2, <3>3 DEF OwnNumbers, Serving
    <2>2. Together'
      <3>1. alive' = alive
        OBVIOUS
      <3>2. alive
        BY <1>6
      <3> QED BY <3>1, <3>2, Zenon DEF Together
    <2>3. LinesTyped'
      BY <1>1, <1>2 DEF LinesTyped
    <2> QED BY <2>1, <2>2, <2>3
  <1>10. Undisturbed'
    <2> SUFFICES ASSUME alive', ~stray', NEW c \in Clients
                 PROVE  /\ pc'[c] \in {"read", "reading", "execute", "fgets", "refuse", "write", "close"} =>
                             table'[sockfd[c]] = Conn(c)
                        /\ pc'[c] = "reading" => file[c] = Conn(c)
                        /\ down[c] \subseteq {c, Refusal}
      BY <1>2 DEF Undisturbed
    <2>1. /\ pc[c] \in {"read", "reading", "execute", "fgets", "refuse", "write", "close"} =>
               table[sockfd[c]] = Conn(c)
          /\ pc[c] = "reading" => file[c] = Conn(c)
          /\ down[c] \subseteq {c, Refusal}
      <3>1. alive /\ ~stray
        BY <1>3, <1>6
      <3> QED BY <1>1, <3>1 DEF Undisturbed
    <2>2. sockfd[c] \in Numbers
      BY <1>1 DEF TypeOK
    <2>3. CASE c # t
      <3>1. table[sockfd[c]] = Conn(c) => sockfd[c] # n
        BY <1>3, <2>3, FilesDiffer
      <3> QED BY <1>6, <1>7, <2>1, <2>2, <2>3, <3>1
    <2>4. CASE c = t /\ own = Pipe(t) /\ pc[t] = "fgets"
      <3>1. table[sockfd[c]] = Conn(c) /\ sockfd[c] # n
        BY <1>3, <2>1, <2>4, FilesDiffer
      <3> QED BY <1>6, <1>7, <2>1, <2>2, <2>4, <3>1
    <2>5. CASE c = t /\ ~(own = Pipe(t) /\ pc[t] = "fgets")
      <3>1. pc'[t] \in {"close again", "done"}
        BY <1>5, <2>5, ThreadRuns
      <3> QED BY <2>1, <2>5, <3>1
    <2> QED BY <2>3, <2>4, <2>5
  <1> QED BY <1>8, <1>9, <1>10 DEF IInv

LEMMA SigpipeKeeps ==
  ASSUME EchoAssumption, IInv, NEW t \in Clients, Sigpipe(t)
  PROVE  IInv'
  <1>1. TypeOK /\ OwnNumbers /\ Together /\ LinesTyped /\ Undisturbed
    BY DEF IInv
  <1>2. /\ alive' = FALSE /\ table' = [n \in Numbers |-> Free]
        /\ pc' = [c \in Clients |-> "killed"] /\ file' = [c \in Clients |-> Free]
    BY Zenon DEF Sigpipe
  <1>3. UNCHANGED <<client, typed, backlog, up, down, sockfd, pipefd, stray, failures>>
    BY DEF Sigpipe, clientVars, netVars
  <1>4. TypeOK'
    <2>1. table' \in [Numbers -> Files] /\ file' \in [Clients -> Files] /\ pc' \in [Clients -> Points]
      BY <1>2, FilesDiffer DEF Points
    <2>2. alive' \in BOOLEAN /\ ~alive'
      BY <1>2, Zenon
    <2> QED BY <1>1, <1>3, <2>1, <2>2 DEF TypeOK, Points
  <1>5. OwnNumbers' /\ Together'
    BY <1>2 DEF OwnNumbers, Serving, Together
  <1>6. LinesTyped'
    BY <1>1, <1>3 DEF LinesTyped
  <1>7. Undisturbed'
    BY <1>2, Zenon DEF Undisturbed
  <1> QED BY <1>4, <1>5, <1>6, <1>7 DEF IInv

LEMMA ServiceKeeps ==
  ASSUME EchoAssumption, IInv, NEW t \in Clients, Service(t)
  PROVE  IInv'
  <1>1. CASE Pclose(t)
    <2>1. pc[t] = "fgets" /\ pipefd[t] \in Numbers \ {ListenFd}
      BY <1>1 DEF Pclose, IInv, OwnNumbers, TypeOK
    <2> QED BY <1>1, <2>1, CloseKeeps DEF Pclose
  <1>2. CASE CloseInLoop(t) \/ CloseAfterLoop(t)
    <2>1. pc[t] \in {"close", "close again"} /\ sockfd[t] \in Numbers \ {ListenFd}
      BY <1>2 DEF CloseInLoop, CloseAfterLoop, IInv, OwnNumbers, TypeOK, Serving
    <2> QED BY <1>2, <2>1, CloseKeeps DEF CloseInLoop, CloseAfterLoop
  <1> QED BY <1>1, <1>2, TransferKeeps, PopenKeeps, SigpipeKeeps DEF Service, Execute

-----------------------------------------------------------------------------
(* The inductive invariant holds in every reachable state.                 *)
THEOREM Invariance == Safety => []IInv
  <1>1. Init => IInv
    BY EchoAssumption, Begins
  <1>2. IInv /\ [Next]_vars => IInv'
    <2> SUFFICES ASSUME IInv, [Next]_vars PROVE IInv'
      OBVIOUS
    <2>1. CASE UNCHANGED vars \/ Terminated
      <3>1. UNCHANGED vars
        BY <2>1 DEF Terminated
      <3> QED BY <3>1 DEF vars, IInv, TypeOK, OwnNumbers, Serving, Together, LinesTyped, Undisturbed
    <2> QED BY <2>1, EchoAssumption, ClientKeeps, ServerKeeps, ServiceKeeps DEF Next
  <1> QED BY <1>1, <1>2, PTL DEF Safety

(* Every variable keeps its type; whatever the threads close, and close    *)
(* twice, the listening socket keeps its number while the server lives.    *)
THEOREM TypeCorrect == Safety => []TypeOK
  BY Invariance, PTL DEF IInv

(* While no thread has closed a descriptor that was not its own, threads   *)
(* read from, write to and close their own clients' connections only.      *)
THEOREM ThreadsApart == Safety => []Undisturbed
  BY Invariance, PTL DEF IInv
=============================================================================
