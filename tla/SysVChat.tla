------------------------------ MODULE SysVChat ------------------------------
(***************************************************************************)
(* src/systemVchat: a server creates a System V message queue and prints   *)
(* what the clients send, until one of them sends "quit"; then it removes  *)
(* the queue under all the others.  The queue belongs to the kernel and    *)
(* survives a server that is killed.                                       *)
(*                                                                         *)
(* A queue is named by the server that created it.                         *)
(***************************************************************************)
EXTENDS Naturals, Sequences, SequencesExt

CONSTANTS Servers, Clients,
          NoQueue,    \* nothing under the key
          Capacity,   \* messages that a queue holds
          MaxLines,   \* bound: lines that each client types
          MaxFaults   \* bound: killed servers, queues removed by hand

(* What the specification assumes of its constants.                        *)
ChatAssumption == /\ NoQueue \notin Servers
                  /\ Capacity \in Nat \ {0}
                  /\ MaxLines \in Nat /\ MaxFaults \in Nat

Texts == {"line", "quit"}

VARIABLES
    key,      \* the queue under the key
    server,   \* where each server is
    client,   \* where each client is
    msgid,    \* the queue that a client has found
    mtext,    \* the line a client sends
    queue,    \* messages <<client, number, text>> of each queue
    printed,  \* what each server has printed
    typed,    \* number of lines of each client
    order,    \* history: what was sent to each queue
    spoiled,  \* history: servers killed, or whose queue was removed by hand
    faults

vars == <<key, server, client, msgid, mtext, queue, printed, typed, order, spoiled, faults>>

Init == /\ key = NoQueue
        /\ server = [s \in Servers |-> "none"]
        /\ client = [c \in Clients |-> "none"]
        /\ msgid = [c \in Clients |-> NoQueue]
        /\ mtext = [c \in Clients |-> "line"]
        /\ queue = [s \in Servers |-> <<>>] /\ printed = queue /\ order = queue
        /\ typed = [c \in Clients |-> 0]
        /\ spoiled = {}
        /\ faults = 0

ServerAt(s, at) == server' = [server EXCEPT ![s] = at]
ClientAt(c, at) == client' = [client EXCEPT ![c] = at]
Fault           == faults < MaxFaults /\ faults' = faults + 1

-----------------------------------------------------------------------------
(* The server.  msgget(key, IPC_CREAT | IPC_EXCL | 0666): a server that    *)
(* finds a queue, also an old one, ends.                                   *)
Msgget(s) ==
    /\ server[s] = "none"
    /\ \/ key = NoQueue /\ key' = s /\ ServerAt(s, "receive")
       \/ key # NoQueue /\ ServerAt(s, "gone") /\ UNCHANGED key
    /\ UNCHANGED <<client, msgid, mtext, queue, printed, typed, order, spoiled, faults>>

GoesOn(text)       == "receive"
AfterMessage(text) == IF text = "quit" THEN "remove" ELSE "receive"

(* The oldest message.  "quit" ends the loop.                              *)
Msgrcv(s) ==
    /\ server[s] = "receive" /\ key = s /\ queue[s] # <<>>
    /\ printed' = [printed EXCEPT ![s] = Append(@, Head(queue[s]))]
    /\ queue' = [queue EXCEPT ![s] = Tail(@)]
    /\ ServerAt(s, AfterMessage(Head(queue[s])[3]))
    /\ UNCHANGED <<key, client, msgid, mtext, typed, order, spoiled, faults>>

(* The queue was removed: msgrcv fails, and not with EINTR.                *)
MsgrcvFails(s) ==
    /\ server[s] = "receive" /\ key # s
    /\ ServerAt(s, "remove")
    /\ UNCHANGED <<key, client, msgid, mtext, queue, printed, typed, order, spoiled, faults>>

(* msgctl(msgid, IPC_RMID): it fails when the queue is gone.               *)
QueueLeft(s)      == key
WithoutQueue(s) == IF key = s THEN NoQueue ELSE key

RemoveQueue(s) ==
    /\ server[s] = "remove"
    /\ key' = WithoutQueue(s)
    /\ ServerAt(s, "gone")
    /\ UNCHANGED <<client, msgid, mtext, queue, printed, typed, order, spoiled, faults>>

-----------------------------------------------------------------------------
(* A client.  msgget(key, 0) finds a queue or fails.                       *)
Find(c) ==
    /\ client[c] = "none"
    /\ msgid' = [msgid EXCEPT ![c] = key]
    /\ ClientAt(c, IF key = NoQueue THEN "gone" ELSE "type")
    /\ UNCHANGED <<key, server, mtext, queue, printed, typed, order, spoiled, faults>>

Getline(c) ==
    /\ client[c] = "type" /\ typed[c] < MaxLines
    /\ \E text \in Texts : mtext' = [mtext EXCEPT ![c] = text]
    /\ typed' = [typed EXCEPT ![c] = @ + 1]
    /\ ClientAt(c, "send")
    /\ UNCHANGED <<key, server, msgid, queue, printed, order, spoiled, faults>>

(* The end of the input, or a line longer than mtext.                      *)
GetlineFails(c) ==
    /\ client[c] = "type"
    /\ ClientAt(c, "gone")
    /\ UNCHANGED <<key, server, msgid, mtext, queue, printed, typed, order, spoiled, faults>>

(* msgsnd waits for room.  The client's own "quit" ends it.                *)
Msgsnd(c) ==
    LET s       == msgid[c]
        message == <<c, typed[c], mtext[c]>>
    IN
    /\ client[c] = "send" /\ key = s /\ Len(queue[s]) < Capacity
    /\ queue' = [queue EXCEPT ![s] = Append(@, message)]
    /\ order' = [order EXCEPT ![s] = Append(@, message)]
    /\ ClientAt(c, IF mtext[c] = "quit" THEN "gone" ELSE "type")
    /\ UNCHANGED <<key, server, msgid, mtext, printed, typed, spoiled, faults>>

(* The queue is gone, also while msgsnd waits for room.                    *)
MsgsndFails(c) ==
    /\ client[c] = "send" /\ key # msgid[c]
    /\ ClientAt(c, "gone")
    /\ UNCHANGED <<key, server, msgid, mtext, queue, printed, typed, order, spoiled, faults>>

-----------------------------------------------------------------------------
KillServer(s) ==
    /\ server[s] \in {"receive", "remove"} /\ Fault
    /\ ServerAt(s, "gone")
    /\ spoiled' = spoiled \cup {s}
    /\ UNCHANGED <<key, client, msgid, mtext, queue, printed, typed, order>>

Ipcrm ==
    /\ key # NoQueue /\ Fault
    /\ key' = NoQueue
    /\ spoiled' = spoiled \cup {key}
    /\ UNCHANGED <<server, client, msgid, mtext, queue, printed, typed, order>>

-----------------------------------------------------------------------------
ServerStep(s) == Msgrcv(s) \/ MsgrcvFails(s) \/ RemoveQueue(s)
Send(c)       == Msgsnd(c) \/ MsgsndFails(c)

(* No client is left: the server that runs waits for ever.  Or a client    *)
(* waits at a full queue whose server was killed.                          *)
Terminated ==
    /\ \A s \in Servers : \/ server[s] = "gone"
                          \/ server[s] = "receive" /\ queue[s] = <<>>
    /\ \A c \in Clients : \/ client[c] = "gone"
                          \/ /\ client[c] = "send" /\ key = msgid[c]
                             /\ server[key] = "gone"
    /\ UNCHANGED vars

Next == \/ \E s \in Servers : Msgget(s) \/ ServerStep(s) \/ KillServer(s)
        \/ \E c \in Clients : Find(c) \/ Getline(c) \/ GetlineFails(c) \/ Send(c)
        \/ Ipcrm \/ Terminated

(* Servers are scheduled; the kernel lets waiting senders in in the order  *)
(* in which they came.                                                     *)
Fairness == /\ \A s \in Servers : WF_vars(ServerStep(s))
            /\ \A c \in Clients : SF_vars(Send(c))

Spec == Init /\ [][Next]_vars /\ Fairness

-----------------------------------------------------------------------------
Messages == Clients \X (1..MaxLines) \X Texts

(* Types; the queue holds no more than the kernel allows.                  *)
TypeOK ==
    /\ key \in Servers \cup {NoQueue}
    /\ server \in [Servers -> {"none", "receive", "remove", "gone"}]
    /\ client \in [Clients -> {"none", "type", "send", "gone"}]
    /\ msgid \in [Clients -> Servers \cup {NoQueue}]
    /\ mtext \in [Clients -> Texts]
    /\ queue \in [Servers -> Seq(Messages)] /\ \A s \in Servers : Len(queue[s]) <= Capacity
    /\ printed \in [Servers -> Seq(Messages)] /\ order \in [Servers -> Seq(Messages)]
    /\ typed \in [Clients -> 0..MaxLines]
    /\ spoiled \subseteq Servers
    /\ faults \in 0..MaxFaults

IsQuit(message) == message[3] = "quit"

(* The server prints every line sent before the first "quit", whoever sent *)
(* it, and that "quit", and nothing behind it, so the queue it removes     *)
(* holds only lines that came later.                                       *)
PrintsToQuit ==
    \A s \in Servers :
        /\ IsPrefix(printed[s], order[s])
        /\ \A i \in 1..Len(printed[s]) - 1 : ~IsQuit(printed[s][i])
        /\ server[s] = "gone" /\ s \notin spoiled /\ order[s] # <<>> =>
             IsQuit(Last(printed[s]))

(* A client that waits at a full queue gets its line in or learns that the *)
(* queue is gone, also when the queue is removed because of another's      *)
(* "quit".  Only a server that was killed leaves it waiting.               *)
SendersReturn ==
    \A c \in Clients : client[c] = "send" ~> client[c] # "send" \/ msgid[c] \in spoiled
=============================================================================
