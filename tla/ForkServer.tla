----------------------------- MODULE ForkServer -----------------------------
(***************************************************************************)
(* The accept loop of src/NetCal/TcpServer.hpp and src/Http/TcpServer.hpp: *)
(* the server forks a child per connection, the child forks a grandchild   *)
(* and exits, the grandchild serves the connection as an orphan, and the   *)
(* server closes its copy of the connection and reaps the child.           *)
(*                                                                         *)
(* A connection is a client.  Its child and grandchild are named by it.    *)
(* The kernel's part (descriptors copied by fork and closed by exit, exit  *)
(* status) is modelled as the code uses it.                                *)
(***************************************************************************)
EXTENDS Naturals, Sequences, FiniteSets, SequencesExt

CONSTANTS Clients,
          MaxForkFailures,  \* bound: how many calls of fork may fail
          Server            \* the process that accepts

(* What the specification assumes of its constants.                        *)
ForkAssumption ==
    /\ MaxForkFailures \in Nat
    /\ Server \notin {"child", "grandchild"} \X Clients

VARIABLES
    backlog,    \* connections not accepted yet, in order
    client,     \* "new", "connected", "left"
    loop,       \* where the server is in Start
    sock,       \* the connection of this round of the loop
    state,      \* state of each process
    holders,    \* processes with an open descriptor of each connection
    listeners,  \* processes with an open descriptor of the listening socket
    failures,   \* number of calls of fork that have failed
    alone       \* history: connections whose second fork failed

vars == <<backlog, client, loop, sock, state, holders, listeners, failures, alone>>

Child(c)      == <<"child", c>>
Grandchild(c) == <<"grandchild", c>>
Children      == {Child(c) : c \in Clients}
Processes     == Children \cup {Grandchild(c) : c \in Clients}

Init == /\ backlog = <<>>
        /\ client = [c \in Clients |-> "new"]
        /\ loop = "accept"
        /\ sock = Server
        /\ state = [p \in Processes |-> "none"]
        /\ holders = [c \in Clients |-> {}]
        /\ listeners = {Server}
        /\ failures = 0
        /\ alone = {}

-----------------------------------------------------------------------------
(* fork copies every open descriptor of the process.                       *)
CopyDescriptors(parent, p) ==
    [c \in Clients |-> IF parent \in holders[c] THEN holders[c] \cup {p} ELSE holders[c]]

(* A process that exits closes its descriptors.                            *)
Without(p) == [c \in Clients |-> holders[c] \ {p}]

CloseForgotten(p, c) == holders
Close(p, c) == [holders EXCEPT ![c] = @ \ {p}]

ForkFails == failures < MaxForkFailures /\ failures' = failures + 1

-----------------------------------------------------------------------------
(* Clients.                                                                *)
Connect(c) ==
    /\ client[c] = "new" /\ listeners # {}
    /\ client' = [client EXCEPT ![c] = "connected"]
    /\ backlog' = Append(backlog, c)
    /\ UNCHANGED <<loop, sock, state, holders, listeners, failures, alone>>

Leave(c) ==
    /\ client[c] = "connected"
    /\ client' = [client EXCEPT ![c] = "left"]
    /\ UNCHANGED <<backlog, loop, sock, state, holders, listeners, failures, alone>>

-----------------------------------------------------------------------------
(* The server: Start.                                                      *)
Accept ==
    /\ loop = "accept" /\ backlog # <<>>
    /\ sock' = Head(backlog)
    /\ backlog' = Tail(backlog)
    /\ holders' = [holders EXCEPT ![Head(backlog)] = @ \cup {Server}]
    /\ loop' = "fork"
    /\ UNCHANGED <<client, state, listeners, failures, alone>>

Fork ==
    /\ loop = "fork"
    /\ state' = [state EXCEPT ![Child(sock)] = "started"]
    /\ holders' = CopyDescriptors(Server, Child(sock))
    /\ listeners' = listeners \cup {Child(sock)}
    /\ loop' = "close"
    /\ UNCHANGED <<backlog, client, sock, failures, alone>>

(* fork fails: the server exits, and connections in the backlog are reset. *)
ForkError ==
    /\ loop = "fork"
    /\ ForkFails
    /\ loop' = "exited"
    /\ holders' = Without(Server)
    /\ listeners' = listeners \ {Server}
    /\ backlog' = <<>>
    /\ UNCHANGED <<client, sock, state, alone>>

CloseSock ==
    /\ loop = "close"
    /\ holders' = Close(Server, sock)
    /\ loop' = "wait"
    /\ UNCHANGED <<backlog, client, sock, state, listeners, failures, alone>>

WaitForNobody(p) == TRUE
WaitForService(p) == state[p] = "exited" /\ state[Grandchild(p[2])] # "serving"
WaitFor(p) == state[p] = "exited"

(* waitpid of the child.                                                   *)
Reap ==
    /\ loop = "wait"
    /\ WaitFor(Child(sock))
    /\ state' = [state EXCEPT ![Child(sock)] = IF @ = "exited" THEN "reaped" ELSE @]
    /\ loop' = "accept"
    /\ UNCHANGED <<backlog, client, sock, holders, listeners, failures, alone>>

-----------------------------------------------------------------------------
(* The child: it closes the listening socket.                              *)
CloseListen(c) ==
    /\ state[Child(c)] = "started"
    /\ state' = [state EXCEPT ![Child(c)] = "forking"]
    /\ listeners' = listeners \ {Child(c)}
    /\ UNCHANGED <<backlog, client, loop, sock, holders, failures, alone>>

(* if (fork() > 0) exit(OK): the grandchild goes on with the service.      *)
SecondFork(c) ==
    /\ state[Child(c)] = "forking"
    /\ state' = [state EXCEPT ![Grandchild(c)] = "serving", ![Child(c)] = "exiting"]
    /\ holders' = CopyDescriptors(Child(c), Grandchild(c))
    /\ listeners' = IF Child(c) \in listeners THEN listeners \cup {Grandchild(c)}
                                              ELSE listeners
    /\ UNCHANGED <<backlog, client, loop, sock, failures, alone>>

ChildExits(c) ==
    /\ state[Child(c)] = "exiting"
    /\ state' = [state EXCEPT ![Child(c)] = "exited"]
    /\ holders' = Without(Child(c))
    /\ UNCHANGED <<backlog, client, loop, sock, listeners, failures, alone>>

(* The second fork fails and returns -1, which is not > 0: the child       *)
(* itself goes on with the service.                                        *)
SecondForkFails(c) ==
    /\ state[Child(c)] = "forking"
    /\ ForkFails
    /\ state' = [state EXCEPT ![Child(c)] = "serving"]
    /\ alone' = alone \cup {c}
    /\ UNCHANGED <<backlog, client, loop, sock, holders, listeners>>

(* The service returns: the client has left, or, in the web server, has    *)
(* been answered.  The process closes the connection and exits.            *)
EndService(p) ==
    /\ state[p] = "serving"
    /\ state' = [state EXCEPT ![p] = "exited"]
    /\ holders' = Without(p)
    /\ UNCHANGED <<backlog, client, loop, sock, listeners, failures, alone>>

-----------------------------------------------------------------------------
ServerStep == Accept \/ Fork \/ CloseSock \/ Reap
ChildStep(c) == CloseListen(c) \/ SecondFork(c) \/ ChildExits(c)
ServiceStep(c) == /\ client[c] = "left"
                  /\ EndService(Child(c)) \/ EndService(Grandchild(c))

(* Everybody is served, or the server has exited and the rest is over.     *)
Terminated == /\ \A c \in Clients : \/ client[c] = "left"
                                    \/ client[c] = "new" /\ listeners = {}
              /\ backlog = <<>> /\ loop \in {"accept", "exited"}
              /\ \A p \in Processes : state[p] \in {"none", "exited", "reaped"}
              /\ UNCHANGED vars

Next == \/ \E c \in Clients : Connect(c) \/ Leave(c)
        \/ ServerStep \/ ForkError
        \/ \E c \in Clients : ChildStep(c) \/ SecondForkFails(c)
        \/ \E p \in Processes : EndService(p)
        \/ Terminated

(* The server and the children are scheduled, and the service of a client  *)
(* that has left comes to its end.  No client has to leave.                *)
Fairness == /\ WF_vars(ServerStep)
            /\ \A c \in Clients : WF_vars(ChildStep(c)) /\ WF_vars(ServiceStep(c))

Safety == Init /\ [][Next]_vars
Spec   == Safety /\ Fairness

-----------------------------------------------------------------------------
(* Properties.                                                             *)

(* Types; the listening socket is open in the server and in one child at   *)
(* most.                                                                   *)
TypeOK ==
    /\ backlog \in Seq(Clients)
    /\ client \in [Clients -> {"new", "connected", "left"}]
    /\ loop \in {"accept", "fork", "close", "wait", "exited"}
    /\ sock \in Clients \cup {Server}
    /\ state \in [Processes -> {"none", "started", "forking", "exiting", "serving",
                                "exited", "reaped"}]
    /\ holders \in [Clients -> SUBSET (Processes \cup {Server})]
    /\ listeners \in SUBSET (Processes \cup {Server}) /\ Cardinality(listeners) <= 2
    /\ failures \in 0..MaxForkFailures
    /\ alone \in SUBSET Clients

(* Only the processes made for a connection hold it, and the server only   *)
(* in the round that accepted it: no other client's process can keep a     *)
(* connection open.  A process that serves holds no listening socket.      *)
Isolation ==
    /\ \A c \in Clients :
         /\ holders[c] \subseteq {Server, Child(c), Grandchild(c)}
         /\ Server \in holders[c] => sock = c /\ loop \in {"fork", "close"}
    /\ \A p \in listeners : p # Server => state[p] = "started"

(* A client whose service has ended sees the end of the connection: no     *)
(* copy of the descriptor survives, also when the server has exited.       *)
HangsUp ==
    \A c \in Clients :
        \/ state[Grandchild(c)] = "exited"
        \/ c \in alone /\ state[Child(c)] = "exited"
        ~> holders[c] = {}

(* A waiting client is accepted, however long the others stay connected:   *)
(* that is what the second fork is for.  Not so when it failed (the server *)
(* then waits for the child that serves) or when the server has exited.    *)
Accepted ==
    \A c \in Clients : c \in ToSet(backlog) ~> \/ c \notin ToSet(backlog)
                                               \/ alone # {} \/ loop = "exited"
=============================================================================
