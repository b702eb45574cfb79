----------------------------- MODULE ProcessPool -----------------------------
(***************************************************************************)
(* The process pool of src/2ProcessPool: main() creates a child per pipe,  *)
(* sends task codes round robin, then closes the pipes.  Children leave    *)
(* their loop at the end of file, which a child sees only when every copy  *)
(* of the write end is closed; each child has inherited the write ends of  *)
(* all pipes created before its own, and keeps them open until it exits.   *)
(*                                                                         *)
(* Child i is the one forked in round i of Create.  The kernel's part      *)
(* (pipes, descriptors, exit status) is modelled as the code uses it.      *)
(***************************************************************************)
EXTENDS Naturals, Sequences, FiniteSets

CONSTANTS ProcessNum,   \* _process_num
          Commands,     \* main() calls Run this many times
          Codes,        \* the task codes Code() may return
          MaxKills,     \* bound: how many children may be killed from outside
          Parent        \* the parent process, among the owners of descriptors

(* What the specification assumes of its constants.                        *)
PoolAssumption ==
    /\ ProcessNum \in Nat \ {0}
    /\ Commands \in Nat
    /\ MaxKills \in Nat
    /\ Parent \notin 1..ProcessNum

VARIABLES
    ppc,        \* where the parent is
    round,      \* i of the loop in Create, StopSubPocess or WaitSubProcess
    channels,   \* number of channels in _cm
    next,       \* _next of the channel manager
    cnt,        \* calls of Run still to make
    child,      \* state of each child process
    pipe,       \* task codes in each pipe
    writers,    \* processes with an open copy of each pipe's write end
    sent,       \* history: number of codes written to each pipe
    executed    \* history: number of tasks each child has executed

vars == <<ppc, round, channels, next, cnt, child, pipe, writers, sent, executed>>

Children == 1..ProcessNum
ParentPC == {"create", "run", "close", "wait", "returned", "exited", "killed"}
ChildState == {"none", "running", "exited", "killed"}

Init == /\ ppc = "create"
        /\ round = 1
        /\ channels = 0
        /\ next = 0
        /\ cnt = Commands
        /\ child = [i \in Children |-> "none"]
        /\ pipe = [i \in Children |-> <<>>]
        /\ writers = [i \in Children |-> {}]
        /\ sent = [i \in Children |-> 0]
        /\ executed = [i \in Children |-> 0]

(* A process that ends closes its descriptors.                             *)
CloseAll(p) == writers' = [i \in Children |-> writers[i] \ {p}]

-----------------------------------------------------------------------------
(* The parent.                                                             *)

(* The write ends a child holds after its fork: those the parent had open, *)
(* without the one of its own pipe, which it closes at once.               *)
Inherits(i, w)    == w \ {i}

(* One round of Create: pipe, fork, close of the read end, BuildChannel.   *)
Create ==
    /\ ppc = "create" /\ round <= ProcessNum
    /\ child' = [child EXCEPT ![round] = "running"]
    /\ LET opened == {i \in Children : Parent \in writers[i]} \cup {round}
       IN  writers' = [i \in Children |->
               writers[i] \cup (IF i = round THEN {Parent} ELSE {})
                          \cup (IF i \in Inherits(round, opened) THEN {round} ELSE {})]
    /\ channels' = channels + 1
    /\ round' = round + 1
    /\ UNCHANGED <<ppc, next, cnt, pipe, sent, executed>>

(* pipe or fork fails: Create returns false, and main() goes on with the   *)
(* channels there are.  The descriptors left open belong to no child.      *)
CreateFails ==
    /\ ppc = "create" /\ round <= ProcessNum
    /\ ppc' = "run"
    /\ UNCHANGED <<round, channels, next, cnt, child, pipe, writers, sent, executed>>

CreateDone ==
    /\ ppc = "create" /\ round > ProcessNum
    /\ ppc' = "run"
    /\ UNCHANGED <<round, channels, next, cnt, child, pipe, writers, sent, executed>>

NextChannelNoWrap == next + 1
NextChannel == (next + 1) % channels

(* Run: Select, then Send.  Writing to a pipe whose reader is gone raises  *)
(* SIGPIPE, which kills the parent.                                        *)
Run ==
    /\ ppc = "run" /\ cnt > 0 /\ channels > 0
    /\ next' = NextChannel
    /\ cnt' = cnt - 1
    /\ LET i == next + 1
       IN  \/ /\ child[i] = "running"
              /\ \E code \in Codes : pipe' = [pipe EXCEPT ![i] = Append(@, code)]
              /\ sent' = [sent EXCEPT ![i] = @ + 1]
              /\ UNCHANGED <<ppc, writers>>
           \/ /\ child[i] # "running"
              /\ ppc' = "killed"
              /\ CloseAll(Parent)
              /\ UNCHANGED <<pipe, sent>>
    /\ UNCHANGED <<round, channels, child, executed>>

(* Select on an empty vector divides by zero: SIGFPE.                      *)
RunWithoutChannels ==
    /\ ppc = "run" /\ cnt > 0 /\ channels = 0
    /\ ppc' = "killed"
    /\ CloseAll(Parent)
    /\ UNCHANGED <<round, channels, next, cnt, child, pipe, sent, executed>>

Stop ==
    /\ ppc = "run" /\ cnt = 0
    /\ ppc' = "close"
    /\ round' = 1
    /\ UNCHANGED <<channels, next, cnt, child, pipe, writers, sent, executed>>

Close(i) == writers' = [writers EXCEPT ![i] = @ \ {Parent}]

(* One round of StopSubPocess.                                             *)
StopSubPocess ==
    /\ ppc = "close"
    /\ \/ /\ round <= channels
          /\ Close(round)
          /\ round' = round + 1
          /\ ppc' = ppc
       \/ /\ round > channels
          /\ round' = 1
          /\ ppc' = "wait"
          /\ writers' = writers
    /\ UNCHANGED <<channels, next, cnt, child, pipe, sent, executed>>

(* One round of WaitSubProcess, which closes the descriptor once more      *)
(* (EBADF, ignored) and announces that the child has been reaped.          *)
WaitSubProcess ==
    /\ ppc = "wait"
    /\ \/ /\ round <= channels
          /\ Close(round)
          /\ round' = round + 1
          /\ ppc' = ppc
       \/ /\ round > channels
          /\ ppc' = "returned"
          /\ UNCHANGED <<round, writers>>
    /\ UNCHANGED <<channels, next, cnt, child, pipe, sent, executed>>

(* main() returns.                                                         *)
ReturnFromMain ==
    /\ ppc = "returned"
    /\ ppc' = "exited"
    /\ CloseAll(Parent)
    /\ UNCHANGED <<round, channels, next, cnt, child, pipe, sent, executed>>

-----------------------------------------------------------------------------
(* A child: work.                                                          *)

(* read returns a task code, and Execute runs the task.                    *)
Execute(i) ==
    /\ child[i] = "running"
    /\ pipe[i] # <<>>
    /\ pipe' = [pipe EXCEPT ![i] = Tail(@)]
    /\ executed' = [executed EXCEPT ![i] = @ + 1]
    /\ UNCHANGED <<ppc, round, channels, next, cnt, child, writers, sent>>

OnParentsClose(i) == Parent \notin writers[i]
EndOfFile(i) == pipe[i] = <<>> /\ writers[i] = {}

(* read returns 0: the child closes its end and exits.                     *)
Exit(i) ==
    /\ child[i] = "running"
    /\ EndOfFile(i)
    /\ child' = [child EXCEPT ![i] = "exited"]
    /\ CloseAll(i)
    /\ UNCHANGED <<ppc, round, channels, next, cnt, pipe, sent, executed>>

(* A child dies of a signal at any moment.                                 *)
Killed(i) ==
    /\ child[i] = "running"
    /\ Cardinality({j \in Children : child[j] = "killed"}) < MaxKills
    /\ child' = [child EXCEPT ![i] = "killed"]
    /\ CloseAll(i)
    /\ UNCHANGED <<ppc, round, channels, next, cnt, pipe, sent, executed>>

-----------------------------------------------------------------------------
ParentStep == \/ Create \/ CreateDone \/ Run \/ RunWithoutChannels \/ Stop
              \/ StopSubPocess \/ WaitSubProcess \/ ReturnFromMain

Work(i) == Execute(i) \/ Exit(i)

Terminated == /\ ppc \in {"exited", "killed"}
              /\ \A i \in Children : child[i] # "running"
              /\ UNCHANGED vars

Next == \/ ParentStep
        \/ CreateFails
        \/ \E i \in Children : Work(i) \/ Killed(i)
        \/ Terminated

(* Every process that can run is eventually scheduled.  Nobody has to      *)
(* start the program.                                                      *)
Started  == ppc # "create" \/ round > 1
Fairness == WF_vars(Started /\ ParentStep) /\ \A i \in Children : WF_vars(Work(i))

Safety == Init /\ [][Next]_vars
Spec   == Safety /\ Fairness

-----------------------------------------------------------------------------
(* Properties.                                                             *)

(* Types; _next indexes _channels whenever there is one.                   *)
TypeOK ==
    /\ ppc \in ParentPC
    /\ round \in 1..(ProcessNum + 1)
    /\ channels \in 0..ProcessNum
    /\ next \in Nat /\ (channels > 0 => next < channels)
    /\ cnt \in 0..Commands
    /\ child \in [Children -> ChildState]
    /\ pipe \in [Children -> Seq(Codes)]
    /\ writers \in [Children -> SUBSET (Children \cup {Parent})]
    /\ sent \in [Children -> Nat]
    /\ executed \in [Children -> Nat]

(* A child that exits by itself has executed every task sent to it, in     *)
(* particular tasks still in the pipe when the parent closed it or died.   *)
ExitsDrained ==
    \A i \in Children : child[i] = "exited" => executed[i] = sent[i]

(* However the parent ends, no child is left behind: the closing of the    *)
(* pipes ripples through the inherited copies to the first child.          *)
NoOrphans ==
    ppc \in {"exited", "killed"} ~> \A i \in Children : child[i] # "running"
=============================================================================
