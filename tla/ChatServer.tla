----------------------------- MODULE ChatServer -----------------------------
(***************************************************************************)
(* The UDP chat of src/Socket/3.ChatServer.  Clients send datagrams        *)
(* (UdpClient.cc), the server's main thread receives them and hands each   *)
(* to the thread pool (UdpServer.hpp, UdpServer.cc), and the pool's        *)
(* threads run Route::MessageRoute, which keeps the list of online users   *)
(* and sends the message to all of them (Route.hpp).                       *)
(*                                                                         *)
(* The pool is the service that ThreadPool implements: tasks are taken in  *)
(* the order of Equeue, by several threads at a time.  The server never    *)
(* stops it.  The network may lose, duplicate and reorder datagrams to the *)
(* server.  What it does to those for the clients is left out: an inbox    *)
(* has the order of sendto.                                                *)
(***************************************************************************)
EXTENDS Integers, Sequences, SequencesExt

CONSTANTS Clients,    \* the addresses datagrams come from
          Workers,    \* the threads of the pool
          MaxExtra,   \* bound: lines typed before "quit" plus datagrams duplicated
          Nobody      \* the owner of a free mutex, the task of an idle thread

ASSUME ChatAssumption == MaxExtra \in Nat /\ Nobody \notin Workers

VARIABLES
    count,    \* datagrams each client has sent
    left,     \* clients whose Send has returned
    net,      \* datagrams on their way to the server
    extra,    \* lines typed before "quit" plus datagrams duplicated so far
    queue,    \* the pool's task queue: messages to route
    wpc,      \* where each pool thread is in MessageRoute
    wmsg,     \* the message it routes
    idx,      \* position of its loop over the users
    mutex,    \* owner of Route::_mutex
    online,   \* _online_users
    inbox,    \* messages sent to each client with sendto, in this order
    routed    \* history: messages whose MessageRoute has returned, in order

netVars   == <<count, left, net, extra>>
routeVars == <<mutex, online, inbox, routed>>
taskVars  == <<wpc, wmsg, idx>>
vars == <<count, left, net, extra, queue, wpc, wmsg, idx, mutex, online, inbox, routed>>

(* "online" and every other line that is not empty and not "quit" are      *)
(* text.  no tells apart the messages of one client.                       *)
Message == [from : Clients, no : 1..(MaxExtra + 2), kind : {"text", "empty", "quit"}]

Init == /\ count = [c \in Clients |-> 0]
        /\ left = {}
        /\ net = {}
        /\ extra = 0
        /\ queue = <<>>
        /\ wpc = [w \in Workers |-> "idle"]
        /\ wmsg = [w \in Workers |-> Nobody]
        /\ idx = [w \in Workers |-> 0]
        /\ mutex = Nobody
        /\ online = <<>>
        /\ inbox = [c \in Clients |-> <<>>]
        /\ routed = <<>>

-----------------------------------------------------------------------------
(* A client: "online", then the lines typed, until "quit".                 *)
SendTo(c, kind) ==
    /\ net' = net \cup {[from |-> c, no |-> count[c] + 1, kind |-> kind]}
    /\ count' = [count EXCEPT ![c] = @ + 1]

OneMore == extra < MaxExtra /\ extra' = extra + 1

Send(c) ==
    /\ c \notin left
    /\ \/ count[c] = 0 /\ SendTo(c, "text") /\ UNCHANGED <<left, extra>>
       \/ /\ count[c] > 0 /\ OneMore
          /\ \E kind \in {"text", "empty"} : SendTo(c, kind)
          /\ UNCHANGED left
       \/ count[c] > 0 /\ SendTo(c, "quit") /\ left' = left \cup {c} /\ UNCHANGED extra
    /\ UNCHANGED <<queue, taskVars, routeVars>>

(* The network.                                                            *)
Lose(m) ==
    /\ m \in net
    /\ net' = net \ {m}
    /\ UNCHANGED <<count, left, extra, queue, taskVars, routeVars>>

(* UdpServer::Start: recvfrom returns a datagram; one with a payload is    *)
(* bound into a task and given to Equeue.  A duplicated datagram stays in  *)
(* the network.                                                            *)
Receive(m) ==
    /\ m \in net
    /\ \/ net' = net \ {m} /\ UNCHANGED extra
       \/ OneMore /\ net' = net
    /\ queue' = IF m.kind = "empty" THEN queue ELSE Append(queue, m)
    /\ UNCHANGED <<count, left, taskVars, routeVars>>

-----------------------------------------------------------------------------
(* A thread of the pool.                                                   *)
WGoto(w, l) == wpc' = [wpc EXCEPT ![w] = l]

TakeTask(w) ==
    /\ wpc[w] = "idle"
    /\ queue # <<>>
    /\ wmsg' = [wmsg EXCEPT ![w] = Head(queue)]
    /\ queue' = Tail(queue)
    /\ WGoto(w, "lock")
    /\ UNCHANGED <<netVars, idx, routeVars>>

LockOmitted(w) == mutex' = w
Lock(w) == mutex = Nobody /\ mutex' = w

LockRoute(w) ==
    /\ wpc[w] = "lock"
    /\ Lock(w)
    /\ WGoto(w, "test")
    /\ UNCHANGED <<netVars, queue, wmsg, idx, online, inbox, routed>>

UnlockForgotten(w) == mutex' = mutex
Unlock(w) == mutex' = Nobody

IsExistMissed(peer) == FALSE
IsExist(peer) == peer \in ToSet(online)

(* if (!IsExist(peer))                                                     *)
TestUser(w) ==
    /\ wpc[w] = "test"
    /\ idx' = [idx EXCEPT ![w] = 1]
    /\ WGoto(w, IF IsExist(wmsg[w].from) THEN "send" ELSE "add")
    /\ UNCHANGED <<netVars, queue, wmsg, routeVars>>

AddUser(w) ==
    /\ wpc[w] = "add"
    /\ online' = Append(online, wmsg[w].from)
    /\ WGoto(w, "send")
    /\ UNCHANGED <<netVars, queue, wmsg, idx, mutex, inbox, routed>>

(* One round of the loop over the users: one sendto.                       *)
SendToUser(w) ==
    /\ wpc[w] = "send"
    /\ idx[w] <= Len(online)
    /\ LET user == online[idx[w]]
       IN  inbox' = [inbox EXCEPT ![user] = Append(@, wmsg[w])]
    /\ idx' = [idx EXCEPT ![w] = @ + 1]
    /\ UNCHANGED <<netVars, queue, wpc, wmsg, mutex, online, routed>>

DeleteUser(peer) == RemoveFirst(online, peer)

(* The end of MessageRoute: if (message == "quit") DeleteUser(peer), and   *)
(* the lock is released.                                                   *)
FinishRoute(w) ==
    /\ wpc[w] = "send"
    /\ idx[w] > Len(online)
    /\ online' = IF wmsg[w].kind = "quit" THEN DeleteUser(wmsg[w].from) ELSE online
    /\ routed' = Append(routed, wmsg[w])
    /\ Unlock(w)
    /\ wmsg' = [wmsg EXCEPT ![w] = Nobody]
    /\ idx' = [idx EXCEPT ![w] = 0]
    /\ WGoto(w, "idle")
    /\ UNCHANGED <<netVars, queue, inbox>>

MessageRoute(w) == \/ LockRoute(w) \/ TestUser(w) \/ AddUser(w)
                   \/ SendToUser(w) \/ FinishRoute(w)

-----------------------------------------------------------------------------
Terminated == /\ left = Clients /\ net = {} /\ queue = <<>>
              /\ \A w \in Workers : wpc[w] = "idle"
              /\ UNCHANGED vars

Next == \/ \E c \in Clients : Send(c)
        \/ \E m \in net : Lose(m) \/ Receive(m)
        \/ \E w \in Workers : TakeTask(w) \/ MessageRoute(w)
        \/ Terminated

(* Pool threads run.  Users need not type and datagrams need not arrive.   *)
Fairness == \A w \in Workers : WF_vars(TakeTask(w) \/ MessageRoute(w))

Safety == Init /\ [][Next]_vars
Spec   == Safety /\ Fairness

-----------------------------------------------------------------------------
(* Properties.                                                             *)

(* Types; a thread's loop over the users stays in the list, which nobody   *)
(* shortens under it.                                                      *)
TypeOK ==
    /\ count \in [Clients -> 0..(MaxExtra + 2)]
    /\ left \subseteq Clients
    /\ net \subseteq Message
    /\ extra \in 0..MaxExtra
    /\ queue \in Seq(Message)
    /\ wpc \in [Workers -> {"idle", "lock", "test", "add", "send"}]
    /\ wmsg \in [Workers -> Message \cup {Nobody}]
    /\ idx \in [Workers -> Nat] /\ \A w \in Workers : idx[w] <= Len(online) + 1
    /\ mutex \in Workers \cup {Nobody}
    /\ online \in Seq(Clients)
    /\ inbox \in [Clients -> Seq(Message)]
    /\ routed \in Seq(Message)

(* While the list of online users is not locked it holds, each of them     *)
(* once, exactly the users that have written and whose last routed message *)
(* is not "quit".  A user who quit stays in the list only if another of    *)
(* its messages was routed after its "quit", or its "quit" never came.     *)
SpokeLastButStayed(c) ==
    \E i \in 1..Len(routed) :
        /\ routed[i].from = c /\ routed[i].kind # "quit"
        /\ \A j \in (i + 1)..Len(routed) : routed[j].from # c

ListedOnce == \A i, j \in 1..Len(online) : online[i] = online[j] => i = j

OnlineIffNotQuit ==
    mutex = Nobody =>
        ListedOnce /\ \A c \in Clients : c \in ToSet(online) <=> SpokeLastButStayed(c)

(* Everything the pool has accepted is routed: users type finitely many    *)
(* lines here, so the pool eventually rests with an empty queue.           *)
Idle == queue = <<>> /\ \A w \in Workers : wpc[w] = "idle"
AllRouted == ~Idle ~> Idle

(* MessageRoute is atomic: the server is a chat room where a message       *)
(* reaches exactly the users online at one instant, the return of          *)
(* MessageRoute.  So any two users see the messages that reach both of     *)
(* them in the same order, although several threads route at a time.       *)
InProgress(w) == wpc[w] \in {"test", "add", "send"}
From(m)   == m.from
IsQuit(m) == m.kind = "quit"

Room == INSTANCE ChatRoom WITH
    Users <- Clients,
    Messages <- Message,
    Author <- From,
    Farewell <- IsQuit,
    members <- {c \in Clients : SpokeLastButStayed(c)},
    seen <- [c \in Clients |->
                IF \E w \in Workers : /\ InProgress(w) /\ idx[w] > 1
                                      /\ c \in ToSet(SubSeq(online, 1, idx[w] - 1))
                THEN Front(inbox[c]) ELSE inbox[c]]

ImplementsChatRoom == Room!Spec
=============================================================================
