-------------------------------- MODULE MCIpc --------------------------------
(***************************************************************************)
(* Model checking of the programs whose processes talk through objects of  *)
(* the kernel: the process pool (pipes), the pair of writers (a semaphore  *)
(* set), the FIFO and the message queue, and the logger (a file or a       *)
(* terminal); and of the two small programs with threads, the Thread class *)
(* and the ticket sale.  They share nothing: a behaviour picks one of them *)
(* in the beginning, and nobody starts the others.                         *)
(***************************************************************************)
EXTENDS Naturals, Sequences

CONSTANTS Runs, Servers, Clients, Nobody, PoolParent, Codes,
          ProcessNum, Commands, PipeCapacity, QueueCapacity, SellerThreads, Tickets,
          MaxKills, MaxSemFaults, MaxWrites, MaxPipeFaults, MaxLines, MaxChatFaults,
          MaxStarts, LogProcesses, First, MaxLogLines, MaxLogFaults

VARIABLES
    program,
    ppc, round, channels, next, cnt, child, channelPipe, writers, poolSent, executed,
    key, made, value, ready, pc, semid, undo, interrupted, semFaults,
    name, server, client, fd, pipe, printed, sent, late, killed, pipeFaults,
    msgKey, chatServer, chatClient, msgid, mtext, queue, shown, typed, order,
    spoiled, chatFaults,
    owner, _tid, _isdetach, _isrunning, thread, released, cancelled, overwritten,
    early, stopped,
    main, at, _mutex, ticket, sold,
    strategy, logAt, line, logMutex, buffer, out, logged, synced, dropped, copied,
    logFaults

poolVars == <<ppc, round, channels, next, cnt, child, channelPipe, writers,
             poolSent, executed>>
semaphoreVars == <<key, made, value, ready, pc, semid, undo, interrupted, semFaults>>
fifoVars == <<name, server, client, fd, pipe, printed, sent, late, killed, pipeFaults>>
chatVars == <<msgKey, chatServer, chatClient, msgid, mtext, queue, shown, typed,
             order, spoiled, chatFaults>>
threadVars == <<owner, _tid, _isdetach, _isrunning, thread, released, cancelled,
               overwritten, early, stopped>>
saleVars == <<main, at, _mutex, ticket, sold>>
logVars == <<strategy, logAt, line, logMutex, buffer, out, logged, synced, dropped,
            copied, logFaults>>

Pool == INSTANCE ProcessPool
    WITH Parent <- PoolParent, pipe <- channelPipe, sent <- poolSent

Semaphore == INSTANCE SysVSemaphore WITH MaxFaults <- MaxSemFaults, faults <- semFaults

Fifo == INSTANCE NamedPipe
    WITH Capacity <- PipeCapacity, MaxFaults <- MaxPipeFaults, faults <- pipeFaults

Chat == INSTANCE SysVChat
    WITH NoQueue <- Nobody, Capacity <- QueueCapacity, MaxFaults <- MaxChatFaults,
         key <- msgKey, server <- chatServer, client <- chatClient, printed <- shown,
         faults <- chatFaults

Thread == INSTANCE ThreadObject

Sale == INSTANCE TicketSale WITH Sellers <- 1..SellerThreads, Free <- Nobody

Log == INSTANCE Logger
    WITH Processes <- LogProcesses, Free <- Nobody, MaxLines <- MaxLogLines,
         MaxFaults <- MaxLogFaults, pc <- logAt, _mutex <- logMutex, lost <- dropped,
         faults <- logFaults

ASSUME Assumptions ==
    /\ Pool!PoolAssumption /\ Semaphore!SemAssumption /\ Fifo!PipeAssumption
    /\ Chat!ChatAssumption /\ Thread!ThreadObjectAssumption /\ Sale!SaleAssumption
    /\ Log!LoggerAssumption

Programs == {"pool", "semaphore", "fifo", "chat", "thread", "sale", "log"}

Init == /\ program \in Programs
        /\ Pool!Init /\ Semaphore!Init /\ Fifo!Init /\ Chat!Init
        /\ Thread!Init /\ Sale!Init /\ Log!Init
        /\ \/ program = "log"
           \/ strategy = "file" /\ logAt[<<First, 2>>] = "none"

PoolStep == /\ program = "pool" /\ Pool!Next
            /\ UNCHANGED <<program, semaphoreVars, fifoVars, chatVars, threadVars, saleVars, logVars>>

SemaphoreStep == /\ program = "semaphore" /\ Semaphore!Next
                 /\ UNCHANGED <<program, poolVars, fifoVars, chatVars, threadVars, saleVars, logVars>>

FifoStep == /\ program = "fifo" /\ Fifo!Next
            /\ UNCHANGED <<program, poolVars, semaphoreVars, chatVars, threadVars, saleVars, logVars>>

ChatStep == /\ program = "chat" /\ Chat!Next
            /\ UNCHANGED <<program, poolVars, semaphoreVars, fifoVars, threadVars, saleVars, logVars>>

ThreadStep == /\ program = "thread" /\ Thread!Next
              /\ UNCHANGED <<program, poolVars, semaphoreVars, fifoVars, chatVars, saleVars, logVars>>

SaleStep == /\ program = "sale" /\ Sale!Next
            /\ UNCHANGED <<program, poolVars, semaphoreVars, fifoVars, chatVars, threadVars, logVars>>

LogStep == /\ program = "log" /\ Log!Next
           /\ UNCHANGED <<program, poolVars, semaphoreVars, fifoVars, chatVars, threadVars,
                          saleVars>>

Next == PoolStep \/ SemaphoreStep \/ FifoStep \/ ChatStep \/ ThreadStep \/ SaleStep
        \/ LogStep

vars == <<program, poolVars, semaphoreVars, fifoVars, chatVars, threadVars, saleVars, logVars>>

(* No action that is fair is enabled in a program that nobody has started, *)
(* so this conjunction is, in any behaviour, the fairness of the program   *)
(* that runs.                                                              *)
Fairness == /\ Pool!Fairness /\ Fifo!Fairness /\ Chat!Fairness
            /\ Thread!Fairness /\ Sale!Fairness

Spec == Init /\ [][Next]_vars /\ Fairness

-----------------------------------------------------------------------------
(* Properties, each about one of the programs.                             *)

(* Every module's variables have their types.                              *)
TypeOK == /\ program \in Programs
          /\ Pool!TypeOK /\ Semaphore!TypeOK /\ Fifo!TypeOK /\ Chat!TypeOK
          /\ Thread!TypeOK /\ Sale!TypeOK /\ Log!TypeOK

(* A child of the pool that exits has executed every task sent to it.      *)
ExitsDrained == Pool!ExitsDrained

(* The semaphore counts who is between P and V, and the mutex lets one     *)
(* thread at a time sell a ticket.                                         *)
Exclusive == Semaphore!Exclusive /\ Sale!SoldOnce

(* The FIFO's server prints all that its clients wrote before it ends, and *)
(* the chat's server what was sent before the first "quit".                *)
PrintedAsSent == Fifo!AllPrinted /\ Chat!PrintsToQuit

(* A thread started through a Thread object can be given back.             *)
NoneLost == Thread!NoneLost

(* Log lines are not torn, and written once, copies of a forked buffer     *)
(* apart.                                                                  *)
LogIntact == Log!WholeLines /\ Log!EachLineOnce

(* Nobody waits in vain for another process or thread: the pool's children *)
(* end after their parent, the FIFO's server after its clients, a sender   *)
(* at a full message queue gets its line in or learns that the queue is    *)
(* gone, a Join returns after Stop, and the ticket sale comes to its end.  *)
WaitsEnd == /\ Pool!NoOrphans /\ Fifo!ServerEnds /\ Chat!SendersReturn
            /\ Thread!JoinReturns /\ Sale!SaleEnds
=============================================================================
