----------------------------- MODULE NamedPipe -----------------------------
(***************************************************************************)
(* src/NamedPipe/fifo: a server makes a FIFO, opens it for reading, prints *)
(* what its clients write until the last of them is gone, and removes the  *)
(* name.  A client's loop has no end: it leaves when it is interrupted, or *)
(* by the SIGPIPE of a write that nobody can read any more.                *)
(*                                                                         *)
(* A FIFO is named by the server that made it: a client has that FIFO open *)
(* and not the name, which may be gone or stand for another FIFO by now.   *)
(***************************************************************************)
EXTENDS Naturals, Sequences, SequencesExt

CONSTANTS Servers, Clients,
          Nobody,      \* no FIFO under the name
          Capacity,    \* messages that a pipe holds
          MaxWrites,   \* bound: messages of each client
          MaxFaults    \* bound: killed servers, names removed by hand

(* What the specification assumes of its constants.                        *)
PipeAssumption == /\ Nobody \notin Servers
                  /\ Capacity \in Nat \ {0}
                  /\ MaxWrites \in Nat /\ MaxFaults \in Nat

VARIABLES
    name,      \* the FIFO that the name stands for
    server,    \* where each server is
    client,    \* where each client is
    fd,        \* the FIFO that a client has opened
    pipe,      \* what a FIFO holds: messages <<client, number>>
    printed,   \* what each server has printed
    sent,      \* messages that a client has written
    late,      \* history: clients that opened behind the server's end of file
    killed,    \* history: servers that were killed
    faults

vars == <<name, server, client, fd, pipe, printed, sent, late, killed, faults>>

Init == /\ name = Nobody
        /\ server = [s \in Servers |-> "none"]
        /\ client = [c \in Clients |-> "none"]
        /\ fd = [c \in Clients |-> Nobody]
        /\ pipe = [s \in Servers |-> <<>>] /\ printed = pipe
        /\ sent = [c \in Clients |-> 0]
        /\ late = {} /\ killed = {}
        /\ faults = 0

ServerAt(s, at) == server' = [server EXCEPT ![s] = at]
ClientAt(c, at) == client' = [client EXCEPT ![c] = at]
Fault           == faults < MaxFaults /\ faults' = faults + 1

(* Clients at this point with this FIFO.                                   *)
At(s, at) == {c \in Clients : fd[c] = s /\ client[c] = at}

(* The reading end is open.                                                *)
HasReader(s) == server[s] \in {"read", "close"}

-----------------------------------------------------------------------------
(* NamedFifo's constructor; the name may be taken (EXIT_FAILURE).          *)
NamedFifo(s) ==
    /\ server[s] = "none"
    /\ \/ name = Nobody /\ name' = s /\ ServerAt(s, "made")
       \/ name # Nobody /\ ServerAt(s, "gone") /\ UNCHANGED name
    /\ UNCHANGED <<client, fd, pipe, printed, sent, late, killed, faults>>

(* open blocks until a client opens the other end; clients that already    *)
(* wait there go on together with it.                                      *)
OpenForRead(s) ==
    /\ server[s] = "made"
    /\ ServerAt(s, IF At(s, "opening") = {} THEN "open" ELSE "read")
    /\ client' = [c \in Clients |->
                     IF c \in At(s, "opening") THEN "writing" ELSE client[c]]
    /\ UNCHANGED <<name, fd, pipe, printed, sent, late, killed, faults>>

(* read returns what there is, of several messages perhaps.                *)
Read(s) ==
    /\ server[s] = "read" /\ pipe[s] # <<>>
    /\ \E n \in 1..Len(pipe[s]) :
         /\ printed' = [printed EXCEPT ![s] = @ \o SubSeq(pipe[s], 1, n)]
         /\ pipe' = [pipe EXCEPT ![s] = SubSeq(@, n + 1, Len(@))]
    /\ UNCHANGED <<name, server, client, fd, sent, late, killed, faults>>

NoWriters(s)  == At(s, "writing") = {}
EndOfFile(s)  == pipe[s] = <<>> /\ At(s, "writing") = {}

ReadEnd(s) ==
    /\ server[s] = "read" /\ EndOfFile(s)
    /\ ServerAt(s, "close")
    /\ UNCHANGED <<name, client, fd, pipe, printed, sent, late, killed, faults>>

Close(s) ==
    /\ server[s] = "close"
    /\ ServerAt(s, "unlink")
    /\ UNCHANGED <<name, client, fd, pipe, printed, sent, late, killed, faults>>

(* ~NamedFifo.                                                             *)
Unlink(s) ==
    /\ server[s] = "unlink"
    /\ name' = Nobody
    /\ ServerAt(s, "gone")
    /\ UNCHANGED <<client, fd, pipe, printed, sent, late, killed, faults>>

-----------------------------------------------------------------------------
(* A client opens what the name stands for, or fails when there is none.   *)
(* It meets the server that waits in open, joins the one that reads, or    *)
(* waits itself.                                                           *)
OpenForWrite(c) ==
    /\ client[c] = "none"
    /\ IF name = Nobody
       THEN ClientAt(c, "gone") /\ UNCHANGED <<server, fd, late>>
       ELSE /\ fd' = [fd EXCEPT ![c] = name]
            /\ ClientAt(c, IF server[name] = "open" \/ HasReader(name)
                           THEN "writing" ELSE "opening")
            /\ IF server[name] = "open" THEN ServerAt(name, "read") ELSE UNCHANGED server
            /\ late' = IF server[name] \in {"made", "open", "read"} THEN late
                                                                   ELSE late \cup {c}
    /\ UNCHANGED <<name, pipe, printed, sent, killed, faults>>

(* The pipe has room, or the write waits.                                  *)
Write(c) ==
    /\ client[c] = "writing" /\ HasReader(fd[c])
    /\ Len(pipe[fd[c]]) < Capacity
    /\ sent[c] < MaxWrites
    /\ sent' = [sent EXCEPT ![c] = @ + 1]
    /\ pipe' = [pipe EXCEPT ![fd[c]] = Append(@, <<c, sent[c] + 1>>)]
    /\ UNCHANGED <<name, server, client, fd, printed, late, killed, faults>>

Sigpipe(c) ==
    /\ client[c] = "writing" /\ ~HasReader(fd[c])
    /\ ClientAt(c, "gone")
    /\ UNCHANGED <<name, server, fd, pipe, printed, sent, late, killed, faults>>

(* The user interrupts the client.                                         *)
Interrupt(c) ==
    /\ client[c] \in {"opening", "writing"}
    /\ ClientAt(c, "gone")
    /\ UNCHANGED <<name, server, fd, pipe, printed, sent, late, killed, faults>>

-----------------------------------------------------------------------------
(* A killed server leaves the name behind, and no server can start until   *)
(* the operator has removed it.  Nobody removes the name of a server that  *)
(* runs.                                                                   *)
KillServer(s) ==
    /\ server[s] \notin {"none", "gone"} /\ Fault
    /\ ServerAt(s, "gone")
    /\ killed' = killed \cup {s}
    /\ UNCHANGED <<name, client, fd, pipe, printed, sent, late>>

RemoveName ==
    /\ name \in killed /\ Fault
    /\ name' = Nobody
    /\ UNCHANGED <<server, client, fd, pipe, printed, sent, late, killed>>

-----------------------------------------------------------------------------
ServerStep(s) == OpenForRead(s) \/ Read(s) \/ ReadEnd(s) \/ Close(s) \/ Unlink(s)
ClientStep(c) == OpenForWrite(c) \/ Write(c) \/ Sigpipe(c) \/ Interrupt(c)

Terminated == /\ \A s \in Servers : server[s] = "gone"
              /\ \A c \in Clients : client[c] = "gone"
              /\ UNCHANGED vars

(* A server that waits in open for a client that never comes.              *)
Idle == /\ \E s \in Servers : server[s] = "open"
        /\ \A c \in Clients : client[c] = "gone"
        /\ UNCHANGED vars

Next == \/ \E s \in Servers : NamedFifo(s) \/ ServerStep(s) \/ KillServer(s)
        \/ \E c \in Clients : ClientStep(c)
        \/ RemoveName \/ Terminated \/ Idle

(* Servers are scheduled.  No client has to write or to leave.             *)
Fairness == \A s \in Servers : WF_vars(ServerStep(s))

Spec == Init /\ [][Next]_vars /\ Fairness

-----------------------------------------------------------------------------
(* Types.                                                                  *)
TypeOK ==
    /\ name \in Servers \cup {Nobody}
    /\ server \in [Servers -> {"none", "made", "open", "read", "close", "unlink", "gone"}]
    /\ client \in [Clients -> {"none", "opening", "writing", "gone"}]
    /\ fd \in [Clients -> Servers \cup {Nobody}]
    /\ pipe \in [Servers -> Seq(Clients \X (1..MaxWrites))]
    /\ printed \in [Servers -> Seq(Clients \X (1..MaxWrites))]
    /\ sent \in [Clients -> 0..MaxWrites]
    /\ late \subseteq Clients /\ killed \subseteq Servers
    /\ faults \in 0..MaxFaults

(* A server that ends has printed all that its clients wrote, each one's   *)
(* messages once and in order, however many it met in one read: it ends    *)
(* behind the last message and the last client.  Not so for a client that  *)
(* opened behind the end of the file, nor when the server was killed.      *)
AllPrinted ==
    \A s \in Servers, c \in Clients \ late :
        server[s] = "gone" /\ s \notin killed /\ fd[c] = s =>
            /\ \A k \in 1..sent[c] : \E i \in DOMAIN printed[s] : printed[s][i] = <<c, k>>
            /\ \A i \in DOMAIN printed[s] :
                  printed[s][i][1] = c => printed[s][i][2] \in 1..sent[c]
            /\ \A i, j \in DOMAIN printed[s] :
                  i < j /\ printed[s][i][1] = c /\ printed[s][j][1] = c =>
                      printed[s][i][2] < printed[s][j][2]

(* A server whose clients are all gone comes to its end, unless another    *)
(* client comes.                                                           *)
ServerEnds ==
    \A s \in Servers : server[s] = "read" /\ NoWriters(s) ~>
        server[s] = "gone" \/ ~NoWriters(s)
=============================================================================
