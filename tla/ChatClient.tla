----------------------------- MODULE ChatClient -----------------------------
(***************************************************************************)
(* src/Socket/3.ChatServer/UdpClient.cc over the Thread class of its       *)
(* directory: main starts a thread that receives and one that sends, then  *)
(* stores the receiver's id, with which the sender cancels it after        *)
(* "quit", and joins both.                                                 *)
(*                                                                         *)
(* An id is the thread's name, or 0.  pthread_cancel(0) and                *)
(* pthread_join(0) are undefined: they crash or return an error.           *)
(***************************************************************************)
EXTENDS Naturals, FiniteSets

CONSTANT MaxFailures    \* bound: how many calls of pthread_create may fail

(* What the specification assumes of its constants.                        *)
ClientAssumption == MaxFailures \in Nat

Threads == {"recver", "sender"}
NoId    == "0"

VARIABLES
    main,       \* where main is
    thread,     \* where each thread is
    _tid,       \* _tid of each Thread object
    id,         \* the global id
    cancelled,  \* threads with a pending cancellation
    quit,       \* history: "quit" was typed when the receiver's id was known
    failures

vars == <<main, thread, _tid, id, cancelled, quit, failures>>

Init == /\ main = "start recver"
        /\ thread = [t \in Threads |-> "none"]
        /\ _tid = [t \in Threads |-> NoId]
        /\ id = NoId
        /\ cancelled = {}
        /\ quit = FALSE
        /\ failures = 0

Alive == main \notin {"ended", "crashed"}

Go(t, at) == thread' = [thread EXCEPT ![t] = at]

-----------------------------------------------------------------------------
(* Thread::Start.  Its result is ignored: after a failure main goes on     *)
(* with a Thread whose _tid is 0.                                          *)
Start(t, next) ==
    /\ \/ /\ Go(t, "new")
          /\ _tid' = [_tid EXCEPT ![t] = t]
          /\ UNCHANGED failures
       \/ /\ failures < MaxFailures /\ failures' = failures + 1
          /\ UNCHANGED <<thread, _tid>>
    /\ main' = next
    /\ UNCHANGED <<id, cancelled, quit>>

StartRecver == main = "start recver" /\ Start("recver", "start sender")
StartSender == main = "start sender" /\ Start("sender", "store id")

IdOfSender == _tid["sender"]
IdOfRecver == _tid["recver"]

(* id = recver.Id()                                                        *)
StoreId == /\ main = "store id"
           /\ id' = IdOfRecver
           /\ main' = "join recver"
           /\ UNCHANGED <<thread, _tid, cancelled, quit, failures>>

(* Thread::Join of an object that has a thread, and of one that has none.  *)
Join(t, at, next) ==
    /\ main = at
    /\ \/ _tid[t] # NoId /\ thread[t] = "ended" /\ main' = next
       \/ _tid[t] = NoId /\ main' \in {next, "crashed"}
    /\ UNCHANGED <<thread, _tid, id, cancelled, quit, failures>>

JoinRecver == Join("recver", "join recver", "join sender")
JoinSender == Join("sender", "join sender", "ended")

-----------------------------------------------------------------------------
(* Thread::Routine calls the function.                                     *)
Routine(t) ==
    /\ Alive /\ thread[t] = "new"
    /\ Go(t, IF t = "recver" THEN "receive" ELSE "online")
    /\ UNCHANGED <<main, _tid, id, cancelled, quit, failures>>

(* Recv prints what comes, for ever.  Receiving and printing are           *)
(* cancellation points.                                                    *)
Cancelled ==
    /\ Alive /\ "recver" \in cancelled /\ thread["recver"] = "receive"
    /\ Go("recver", "ended")
    /\ UNCHANGED <<main, _tid, id, cancelled, quit, failures>>

(* Send: the first datagram, "online".                                     *)
Online ==
    /\ Alive /\ thread["sender"] = "online"
    /\ Go("sender", "type")
    /\ UNCHANGED <<main, _tid, id, cancelled, quit, failures>>

(* A line other than "quit" changes nothing.  At the end of the input      *)
(* getline fails for ever, and the loop goes on with empty datagrams.      *)
Getline ==
    /\ Alive /\ thread["sender"] = "type"
    /\ \/ Go("sender", "cancel") /\ quit' = (id # NoId)
       \/ Go("sender", "end of input") /\ UNCHANGED quit
    /\ UNCHANGED <<main, _tid, id, cancelled, failures>>

(* pthread_cancel(id), then the thread leaves the loop.                    *)
Cancel ==
    /\ Alive /\ thread["sender"] = "cancel"
    /\ Go("sender", "ended")
    /\ \/ id # NoId /\ cancelled' = cancelled \cup {id} /\ UNCHANGED main
       \/ id = NoId /\ main' \in {main, "crashed"} /\ UNCHANGED cancelled
    /\ UNCHANGED <<_tid, id, quit, failures>>

-----------------------------------------------------------------------------
MainStep   == StartSender \/ StoreId \/ JoinRecver \/ JoinSender
RecverStep == Routine("recver") \/ Cancelled
SenderStep == Routine("sender") \/ Online \/ Cancel

(* The process is over, or main waits for ever: for a receiver that nobody *)
(* cancels, or for a sender whose input has ended.                         *)
Terminated == /\ \/ ~Alive
                 \/ main = "join recver" /\ cancelled = {}
                 \/ main = "join sender" /\ thread["sender"] = "end of input"
              /\ UNCHANGED vars

Next == StartRecver \/ MainStep \/ RecverStep \/ SenderStep \/ Getline \/ Terminated

(* Main and the threads are scheduled.  Nobody has to start the program,   *)
(* or to type.                                                             *)
Fairness == WF_vars(MainStep) /\ WF_vars(RecverStep) /\ WF_vars(SenderStep)

Spec == Init /\ [][Next]_vars /\ Fairness

-----------------------------------------------------------------------------
(* Types; only threads that exist are cancelled or known to main.          *)
TypeOK ==
    /\ main \in {"start recver", "start sender", "store id", "join recver",
                 "join sender", "ended", "crashed"}
    /\ thread["recver"] \in {"none", "new", "receive", "ended"}
    /\ thread["sender"] \in {"none", "new", "online", "type", "end of input",
                             "cancel", "ended"}
    /\ \A t \in Threads : _tid[t] = IF thread[t] = "none" THEN NoId ELSE t
    /\ id \in {NoId, "recver"} /\ cancelled \subseteq {"recver"}
    /\ quit \in BOOLEAN
    /\ failures \in 0..MaxFailures

(* "quit" ends the client: the receiver is taken out of its endless loop   *)
(* and both threads are joined.  It holds for a "quit" typed after main    *)
(* has stored the receiver's id; the sender runs before that, and a "quit" *)
(* in between crashes the client or leaves it waiting for its receiver.    *)
QuitEnds == quit ~> main = "ended"
=============================================================================
