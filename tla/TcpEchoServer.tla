--------------------------- MODULE TcpEchoServer ---------------------------
(***************************************************************************)
(* The TCP server of src/Socket/4.TcpEchaoServer: one process, a detached  *)
(* thread per connection (TcpServer.hpp) that executes the client's        *)
(* commands (Command.hpp), and the client (TcpClient.cc).                  *)
(*                                                                         *)
(* All threads share the table of descriptors.  A descriptor is a number:  *)
(* accept and popen take the lowest free one, and a thread that uses or    *)
(* closes a number reaches whatever the number stands for at that time.    *)
(* A read that has begun keeps its file when the number is closed.         *)
(***************************************************************************)
EXTENDS Naturals, Sequences, FiniteSetsExt, SequencesExt

CONSTANTS Clients,
          NumFds,            \* size of the table of descriptors
          MaxLines,          \* bound: lines the clients type
          MaxThreadFailures  \* bound: how often pthread_create may fail

ASSUME EchoAssumption == NumFds \in Nat \ {0} /\ MaxLines \in Nat /\ MaxThreadFailures \in Nat

VARIABLES
    client,    \* "new", "input" (at its prompt), "wait" (in read), "left"
    typed,     \* number of lines typed so far
    backlog,   \* connections not accepted yet
    table,     \* file behind each descriptor
    sockfd,    \* td->sockfd of each connection's thread
    pipefd,    \* descriptor of the pipe opened by popen
    pc,        \* where each connection's thread is
    file,      \* file of the read that a thread is in
    up,        \* lines on each connection not read yet
    down,      \* answers not received yet: the client each one names, or Refusal
    alive,     \* the server process has not been killed
    failures,  \* number of times pthread_create has failed
    stray      \* history: a thread closed a descriptor that was not its own

clientVars == <<client, typed, backlog>>
netVars    == <<up, down>>
fdVars     == <<table, sockfd, pipefd, stray>>
vars == <<client, typed, backlog, table, sockfd, pipefd, pc, file, up, down,
          alive, failures, stray>>

Numbers  == 0..(NumFds - 1)
ListenFd == 0
Free     == <<"free">>
Listener == <<"listener">>
Conn(c)  == <<"conn", c>>
Pipe(c)  == <<"pipe", c>>
Conns    == {Conn(c) : c \in Clients}
Refusal  == <<"refusal">>
Answers  == Clients \cup {Refusal}
Files    == {Free, Listener} \cup Conns \cup {Pipe(c) : c \in Clients}

(* Init has bound the socket and listens.                                  *)
Init == /\ client = [c \in Clients |-> "new"]
        /\ typed = 0
        /\ backlog = <<>>
        /\ table = [n \in Numbers |-> IF n = ListenFd THEN Listener ELSE Free]
        /\ sockfd = [c \in Clients |-> ListenFd]
        /\ pipefd = [c \in Clients |-> ListenFd]
        /\ pc = [c \in Clients |-> "none"]
        /\ file = [c \in Clients |-> Free]
        /\ up = [c \in Clients |-> 0]
        /\ down = [c \in Clients |-> {}]
        /\ alive = TRUE
        /\ failures = 0
        /\ stray = FALSE

-----------------------------------------------------------------------------
FreeNumbers == {n \in Numbers : table[n] = Free}
Lowest      == Min(FreeNumbers)

(* A connection is open in the server while a descriptor or a read that is *)
(* under way refers to it.                                                 *)
Held(c) == \/ \E n \in Numbers : table[n] = Conn(c)
           \/ \E t \in Clients : file[t] = Conn(c)

Goto(t, l) == pc' = [pc EXCEPT ![t] = l]

CloseListening(t, n, own) == /\ table' = [table EXCEPT ![ListenFd] = Free]
                             /\ UNCHANGED stray
CloseForgotten(t, n, own) == UNCHANGED <<table, stray>>
Close(t, n, own) ==
    /\ table' = [table EXCEPT ![n] = Free]
    /\ stray' = (stray \/ table[n] \notin {Free, own})

-----------------------------------------------------------------------------
(* The client.                                                             *)
Connect(c) ==
    /\ client[c] = "new" /\ alive
    /\ client' = [client EXCEPT ![c] = "input"]
    /\ backlog' = Append(backlog, c)
    /\ UNCHANGED <<typed, netVars, fdVars, pc, file, alive, failures>>

(* A line that is not empty, and write.                                    *)
Type(c) ==
    /\ client[c] = "input" /\ typed < MaxLines
    /\ typed' = typed + 1
    /\ up' = [up EXCEPT ![c] = @ + 1]
    /\ client' = [client EXCEPT ![c] = "wait"]
    /\ UNCHANGED <<backlog, down, fdVars, pc, file, alive, failures>>

(* read returns what has arrived, or the end of the connection.            *)
Read(c) ==
    /\ client[c] = "wait"
    /\ \/ down[c] # {}
       \/ ~Held(c) /\ (~alive \/ c \notin ToSet(backlog))
    /\ down' = [down EXCEPT ![c] = {}]
    /\ client' = [client EXCEPT ![c] = "input"]
    /\ UNCHANGED <<typed, backlog, up, fdVars, pc, file, alive, failures>>

(* The client is killed: its loop has no end.                              *)
Leave(c) ==
    /\ client[c] \in {"input", "wait"}
    /\ client' = [client EXCEPT ![c] = "left"]
    /\ UNCHANGED <<typed, backlog, netVars, fdVars, pc, file, alive, failures>>

-----------------------------------------------------------------------------
(* TcpServer::Run.  The thread gets the descriptor in its own ThreadDate.  *)
HandedByReference(c, n) == [t \in Clients |-> IF t = c \/ pc[t] # "none" THEN n ELSE sockfd[t]]
Handed(c, n) == [sockfd EXCEPT ![c] = n]

AcceptConnection ==
    /\ alive /\ backlog # <<>> /\ FreeNumbers # {}
    /\ backlog' = Tail(backlog)
    /\ table' = [table EXCEPT ![Lowest] = Conn(Head(backlog))]

Run == /\ AcceptConnection
       /\ sockfd' = Handed(Head(backlog), Lowest)
       /\ Goto(Head(backlog), "read")
       /\ UNCHANGED <<client, typed, netVars, pipefd, stray, file, alive, failures>>

(* pthread_create fails, and its result is not looked at.                  *)
RunWithoutThread ==
    /\ AcceptConnection
    /\ failures < MaxThreadFailures
    /\ failures' = failures + 1
    /\ Goto(Head(backlog), "never")
    /\ UNCHANGED <<client, typed, netVars, sockfd, pipefd, stray, file, alive>>

-----------------------------------------------------------------------------
(* TcpServer::Service in the thread of connection t.                       *)
BeginRead(t) ==
    /\ pc[t] = "read"
    /\ LET f == table[sockfd[t]]
       IN  IF f \in {Free, Listener} THEN Goto(t, "close") /\ file' = file
           ELSE Goto(t, "reading") /\ file' = [file EXCEPT ![t] = f]
    /\ UNCHANGED <<clientVars, netVars, fdVars, alive, failures>>

(* n > 0: what has arrived, which may be less or more than a line.         *)
ReadLine(t) ==
    /\ pc[t] = "reading"
    /\ \/ \E c \in Clients : /\ file[t] = Conn(c) /\ up[c] > 0
                             /\ \E n \in 1..up[c] : up' = [up EXCEPT ![c] = @ - n]
       \/ file[t] \notin Conns /\ up' = up
    /\ file' = [file EXCEPT ![t] = Free]
    /\ Goto(t, "execute")
    /\ UNCHANGED <<clientVars, down, fdVars, alive, failures>>

(* n = 0 or n < 0: the client has left, or another thread's pipe ends.     *)
ReadEnd(t) ==
    /\ pc[t] = "reading"
    /\ \/ \E c \in Clients : file[t] = Conn(c) /\ client[c] = "left"
       \/ file[t] \notin Conns
    /\ file' = [file EXCEPT ![t] = Free]
    /\ Goto(t, "close")
    /\ UNCHANGED <<clientVars, netVars, fdVars, alive, failures>>

(* Command::Execute: not in the white list, or popen fails.                *)
Refuse(t) ==
    /\ pc[t] = "execute"
    /\ Goto(t, "refuse")
    /\ UNCHANGED <<clientVars, netVars, fdVars, file, alive, failures>>

(* popen needs two descriptors for a moment and keeps the lower one.       *)
Popen(t) ==
    /\ pc[t] = "execute" /\ Cardinality(FreeNumbers) >= 2
    /\ table' = [table EXCEPT ![Lowest] = Pipe(t)]
    /\ pipefd' = [pipefd EXCEPT ![t] = Lowest]
    /\ Goto(t, "fgets")
    /\ UNCHANGED <<clientVars, netVars, sockfd, stray, file, alive, failures>>

(* fgets reads whatever the number stands for, up to its end, then pclose. *)
Fgets(t) ==
    /\ pc[t] = "fgets"
    /\ \E c \in Clients : /\ table[pipefd[t]] = Conn(c) /\ up[c] > 0
                          /\ up' = [up EXCEPT ![c] = 0]
    /\ UNCHANGED <<clientVars, down, fdVars, pc, file, alive, failures>>

Pclose(t) ==
    /\ pc[t] = "fgets"
    /\ \A c \in Clients : table[pipefd[t]] = Conn(c) => client[c] = "left"
    /\ Close(t, pipefd[t], Pipe(t))
    /\ Goto(t, "write")
    /\ UNCHANGED <<clientVars, netVars, sockfd, pipefd, file, alive, failures>>

(* write: the result of a command names the thread's client, and goes      *)
(* where the number leads.  An error of write is not looked at.            *)
Answer(t) == {IF pc[t] = "refuse" THEN Refusal ELSE t}

Write(t) ==
    /\ pc[t] \in {"write", "refuse"}
    /\ down' = [c \in Clients |-> IF table[sockfd[t]] = Conn(c) THEN down[c] \cup Answer(t)
                                                                ELSE down[c]]
    /\ Goto(t, "read")
    /\ UNCHANGED <<clientVars, up, fdVars, file, alive, failures>>

(* A write to a client that has left may raise SIGPIPE: all threads end.   *)
Sigpipe(t) ==
    /\ pc[t] \in {"write", "refuse"}
    /\ \E c \in Clients : table[sockfd[t]] = Conn(c) /\ client[c] = "left"
    /\ alive' = FALSE
    /\ table' = [n \in Numbers |-> Free]
    /\ pc' = [c \in Clients |-> "killed"]
    /\ file' = [c \in Clients |-> Free]
    /\ UNCHANGED <<clientVars, netVars, sockfd, pipefd, stray, failures>>

(* close before the break, and close again after the loop.                 *)
CloseInLoop(t) ==
    /\ pc[t] = "close"
    /\ Close(t, sockfd[t], Conn(t))
    /\ Goto(t, "close again")
    /\ UNCHANGED <<clientVars, netVars, sockfd, pipefd, file, alive, failures>>

CloseAfterLoop(t) ==
    /\ pc[t] = "close again"
    /\ Close(t, sockfd[t], Conn(t))
    /\ Goto(t, "done")
    /\ UNCHANGED <<clientVars, netVars, sockfd, pipefd, file, alive, failures>>

Execute(t) == Refuse(t) \/ Popen(t) \/ Fgets(t) \/ Pclose(t)
Service(t) == \/ BeginRead(t) \/ ReadLine(t) \/ ReadEnd(t)
              \/ Execute(t) \/ Write(t) \/ Sigpipe(t)
              \/ CloseInLoop(t) \/ CloseAfterLoop(t)

-----------------------------------------------------------------------------
(* The server has no end; it rests when its clients are gone or silent.    *)
Terminated == /\ \A c \in Clients : \/ client[c] = "left"
                                    \/ client[c] = "new" /\ ~alive
              /\ UNCHANGED vars

Next == \/ \E c \in Clients : Connect(c) \/ Type(c) \/ Read(c) \/ Leave(c)
        \/ Run \/ RunWithoutThread
        \/ \E t \in Clients : Service(t)
        \/ Terminated

Fairness == /\ WF_vars(Run)
            /\ \A c \in Clients : WF_vars(Read(c)) /\ WF_vars(Service(c))

Safety == Init /\ [][Next]_vars
Spec   == Safety /\ Fairness

-----------------------------------------------------------------------------
(* Properties.                                                             *)

(* Types; whatever the threads close, the listening socket keeps its       *)
(* number, because that number has never been a connection's.              *)
TypeOK ==
    /\ client \in [Clients -> {"new", "input", "wait", "left"}]
    /\ typed \in 0..MaxLines
    /\ backlog \in Seq(Clients)
    /\ table \in [Numbers -> Files]
    /\ alive => table[ListenFd] = Listener
    /\ sockfd \in [Clients -> Numbers] /\ pipefd \in [Clients -> Numbers]
    /\ pc \in [Clients -> {"none", "never", "read", "reading", "execute", "fgets",
                           "refuse", "write", "close", "close again", "done", "killed"}]
    /\ file \in [Clients -> Files]
    /\ up \in [Clients -> 0..MaxLines]
    /\ down \in [Clients -> SUBSET Answers]
    /\ alive \in BOOLEAN /\ stray \in BOOLEAN
    /\ failures \in 0..MaxThreadFailures

(* While no descriptor has been closed by a thread that did not own it,    *)
(* every thread reads from and writes to its own client.                   *)
Undisturbed ==
    alive /\ ~stray => \A c \in Clients :
        /\ pc[c] \in {"read", "reading", "execute", "fgets", "refuse", "write", "close"} =>
               table[sockfd[c]] = Conn(c)
        /\ pc[c] = "reading" => file[c] = Conn(c)
        /\ down[c] \subseteq {c, Refusal}

(* The server owes a client something while its connection is open after   *)
(* it has left, or it waits for an answer on an accepted connection.       *)
Pending(c) == \/ client[c] = "left" /\ Held(c)
              \/ client[c] = "wait" /\ c \notin ToSet(backlog)

(* What is owed is done in the end: the connection is closed, the client   *)
(* (which waits without a time limit) gets an answer or the end of the     *)
(* connection.  Not so when the thread could not be created, or after a    *)
(* stray close.                                                            *)
Attended(c) == Pending(c) ~> ~Pending(c) \/ pc[c] = "never" \/ stray

(* An answer names the client who asked ("who executed done"): nobody      *)
(* is sent one that names somebody else.                                   *)
AnswersAreOwn == \A c \in Clients : down[c] \subseteq {c, Refusal}
=============================================================================
