# A TLA+ verification of linuxlearn

The repository is a collection of small Linux programs, each built around one
mechanism: thread pools, producer/consumer queues, process pools, UDP and TCP
servers, a calculator protocol, HTTP, System V IPC, named pipes. The programs
share no process; several of them carry copies of the same classes. This
project models the ones that have state, concurrency and failure of their own.

## 1. Inventory

| component | state | operations | hard behaviour | what makes it correct |
|---|---|---|---|---|
| **Thread pool** (`threadsynchronization/5.ThreadPool`; copies in `Socket/3.ChatServer`, `Socket/4.TcpEchaoServer`) | singleton pointer and its mutex, `_isrunning`, task queue, `_sleeprnum`, mutex, condition variable, threads | `GetInstance`, `Start`, `Equeue`, `HandlerTask`, `Stop`, `Join` | double-checked locking, unlocked reads of `_isrunning`, "signal only if all sleep", spurious wakeups, threads that fail to start, stop against push | one instance, no lost wakeup, FIFO, each task at most once, accepted tasks run, `Stop` and `Join` end |
| **Blocking queue** (`2.CP`, `3.Cond`) | queue, two sleep counters, mutex, two condition variables | `Equeue`, `pop` | stolen and spurious wakeups, signal only if someone sleeps | bounded FIFO, a wakeup for every item that somebody sleeps for, no stall |
| **Ring queue** (`4.Sem_Ring`) | slots, two indices, two semaphores, two mutexes | `Equeue`, `Pop` | reader and writer under different locks | slots never shared, no lap, bounded FIFO |
| **Process pool** (`2ProcessPool`) | channels, `_next`, pipes, descriptors, children | `Create`, `Run`, `Stop`, `work` | inherited descriptors, end of file, SIGPIPE, failing `fork` | the round robin stays within the channels, no orphan, every task sent is run, children reclaimed |
| **Chat server** (`Socket/3.ChatServer`) | list of online users, its mutex, the pool's queue | `MessageRoute`, `Start`, the clients' datagrams; the client's two threads and the cancellation of one by the other | several routing threads, datagrams lost, duplicated, reordered; an id stored after the thread that uses it has started | routing is atomic, same order for all users, the list is exact; "quit" ends the client |
| **TCP command server** (`Socket/4.TcpEchaoServer`) | the table of descriptors, a detached thread per connection, pipes to commands | `Run`, `Service`, `Routine`, `Execute`, the client | a descriptor closed twice while another thread accepts, threads that cannot be created, SIGPIPE | answers reach the client who asked, connections are closed when the client has left, nobody waits in vain |
| **Network calculator** (`NetCal`) | receive buffers on both sides, a process per connection | `Encode`, `Decode`, `GetRequest`, `GetResponse`, `Execute` | packets split and joined by the stream, a request that cannot be parsed, exceptions nobody catches, int overflow | one response per request, in order; framing independent of how the stream is cut; the server ends only for a cause |
| **HTTP server** (`Http`) | request, response, routes, a process per connection | `Deserialize`, `HandlerHttpRquest`, `MakeResponse` | a parse loop that cannot end, a request cut by the single `Recv`, files that change while they are served | every request gets the response that its first line and the files call for |
| **System V semaphore** (`signal/Sem_V2.hpp`, `Writer.cc`) | a semaphore set in the kernel, `_semid` and the undo record of each process | builder, `fork`, `P`, `V`, removal by the last reference | a set that is removed, replaced or not yet initialised; kills between P and V; `semop` results ignored | mutual exclusion between parent and child |
| **System V chat** (`systemVchat`) | a message queue in the kernel | server loop, client loop, removal | a stale queue, a full queue, one client's "quit" | every line sent before the first "quit" is printed, in order; no sender waits for a queue that is gone |
| **Named pipe** (`NamedPipe/fifo`) | the name, the FIFO behind it, its two ends | making, opening, reading, writing, removal | opening order, the end of file between two clients, SIGPIPE | all that was written is printed before the server ends, and it ends |
| **UDP dictionary server** (`Socket/2.dictserver`) | table loaded at start, datagrams under way | `LoadDict`, `Translate`, the server's and the client's loop | a client that waits without limit and takes any datagram for its answer; lines that are cut at a computed place | answers are the file's meanings of the client's own words |
| **Thread wrapper** (`thread`, copies) | `_tid`, `_isrunning`, `_isdetach` | `Start`, `Stop`, `Join`, `Detach`, `Routine` | `Detach` and `Start` against the new thread's `EnableRunning`, calls with the id of a freed thread | a thread can always be given back to the kernel; `Join` returns after `Stop` |
| **Logger** (`Log.hpp`, seven copies) | strategy, its mutex, the buffer of standard output, the file | `LogMessage`, `SyncLog`, switching the strategy | two insertions per line, several processes with a mutex each, buffers copied by `fork` | lines are not torn and written once |
| **Ticket sale** (`threadmutualexclusion`) | a counter under a mutex | a turn of `route`, joins | a `break` inside the locked part | each ticket sold once, all threads end |
| **Demos** of signals, threads and condition variables | - | - | - | - |

How they interact: the chat server hands every datagram to the thread pool,
whose threads run `Route::MessageRoute`; the pool is built from `Thread`,
`Mutex`, `LockGuard` and `Cond`; the ring queue from `Sem` and `Mutex`. The
TCP servers fork or create a thread per connection; the HTTP server and the
calculator have the same accept loop. All servers log through `Log.hpp`. The chat
client has a `Thread` class of its own directory. The System V and FIFO programs meet only
in objects of the kernel, which outlive them. Everything else is a program of its own.

## 2. Modules

| module | models | role |
|---|---|---|
| `TaskService` | what a thread pool promises | abstract specification |
| `ThreadPool` | `ThreadPool.hpp` with `Thread`, `Mutex`, `Cond` | detailed; implements `TaskService` |
| `ThreadPoolProofs` | | inductive invariant, theorems, and the refinement of `TaskService` |
| `BoundedFIFO` | what a producer/consumer queue promises | abstract specification |
| `BlockQueue` | `2.CP/BlockQueue.hpp`, `3.Cond/BlockQueue.hpp` | detailed; implements `BoundedFIFO` |
| `RingQueue` | `4.Sem_Ring/RingQueue.hpp` with `Sem` | detailed; implements `BoundedFIFO` |
| `BlockQueueProofs`, `RingQueueProofs` | | inductive invariants, theorems, and the refinements of `BoundedFIFO` |
| `ProcessPool` | `2ProcessPool/ProcessPool.hpp` and `main.cpp` | detailed |
| `ChatRoom` | what a chat promises | abstract specification |
| `Calculator` | what a calculator service promises to a client | abstract specification |
| `NetCal` | `NetCal/Protocol.hpp`, `NetCal.hpp`, `TcpClient.cc`, one connection | detailed; implements `Calculator` |
| `MCNetCal` | | requests and garbage for TLC |
| `NetCalProofs` | | inductive invariant, theorems, and the refinement of `Calculator` |
| `ForkServer` | the accept loop of `NetCal/TcpServer.hpp` and `Http/TcpServer.hpp`: processes, descriptors, `waitpid` | detailed |
| `ChatServer` | `Route.hpp`, `UdpServer.hpp`, the clients and the network | detailed; implements `ChatRoom`, uses the pool as the service `TaskService` describes |
| `ChatServerProofs` | | inductive invariant, theorems, and the refinement of `ChatRoom` |
| `TcpEchoServer` | `4.TcpEchaoServer/TcpServer.hpp`, `Command.hpp`, `TcpClient.cc`: all threads over one table of descriptors | detailed |
| `HttpServer` | `Http/Http.hpp`, `Util.hpp`, `Main.cc`: one connection from `Recv` to `Send`; `ForkServer` is the loop around it | detailed |
| `TcpEchoServerProofs` | | inductive invariant and theorems |
| `MCTcpEchoServer` | | the client observed, for TLC |
| `ChatClient` | `3.ChatServer/UdpClient.cc` over `Thread.hpp`: main, the receiver and the sender | detailed |
| `SysVSemaphore` | `signal/Sem_V2.hpp`, `Writer.cc`: runs of parent and child under one key | detailed |
| `SysVChat` | `systemVchat/server.cc`, `client.cc` | detailed |
| `NamedPipe` | `NamedPipe/fifo/comm.hpp`, `server.cc`, `client.cc` | detailed |
| `DictServer` | `2.dictserver/Dict.hpp`, `UdpServer.hpp`, `UdpClient.cc` and the network | detailed |
| `Logger` | `NetCal/Log.hpp` (the other copies differ in nothing it models) | detailed |
| `ThreadObject` | `thread/Thread.hpp` | detailed |
| `TicketSale` | `threadmutualexclusion/testMutex.cpp`, `Mutex.hpp` | detailed |
| `MCIpc` | | `ProcessPool`, `SysVSemaphore`, `NamedPipe`, `SysVChat`, `ThreadObject`, `TicketSale`, `Logger` for TLC |
| `MCNet` | | `ForkServer`, `HttpServer`, `DictServer`, `ChatClient` for TLC, with the requests to the web server |
| `IpcProofs`, `NetProofs` | | inductive invariants and theorems of the programs in `MCIpc` and `MCNet` |

`MCIpc` and `MCNet` check several small programs in one run. The programs share
nothing. The initial state chooses one of them, and no action of the others is ever
taken: they stay as they are before somebody starts them. Their fairness conditions
are conjoined, which is right because no action that a condition names is enabled in
a program that nobody has started (the first step of each program is not fair), so that the
conditions of the others hold trivially and only those of the chosen program restrict a
behaviour. A property of the union is the conjunction of the modules' properties of one kind.
The queues and the pool have fair actions from the beginning and therefore runs of their own.
The two modules also assume, with `Assumptions`, what their modules state of their constants.

An operator whose name ends like `...OffByOne`, `...Forgotten`, `...Without...`
stands before the one it distorts. It is a plausible mistake in that line of the
code and no specification uses it; each property has been seen to fail with
one of them.

### How the code is cut into steps

* A section of code between taking a mutex and giving it up, touching only data
  that this mutex guards, is one step. Every unlocked access is its own step:
  the first test of `inc`, the test of `_isrunning` in `Equeue` and its
  assignment in `Stop`, and, since a producer and a consumer of the ring hold
  different locks, each access to a slot.
* In `HandlerTask` the lock, the test and the wait are separate steps although
  they are in one critical section, because `Stop` writes `_isrunning` without
  the lock: the flag may change in the middle of the section.
* `pthread_cond_wait` is a wait set (`waiting`, `fullWait`, `emptyWait`) and a
  second acquisition of the mutex. Between the wakeup and that acquisition a
  thread is out of the set but still counted by the code's counters. Every wait may
  end spuriously.
* `_isrunning` and `inc` are plain variables read without the lock, which C++
  calls a data race. The models give such a read the current value; it is a
  single aligned load on the platforms the makefiles build for, and the value may
  be outdated as soon as it has been read.
* A process that ends closes all its descriptors in the same step. One that crashes
  (`JoinCrashes` of the pool: `pthread_join` of a thread that was never created) takes no further step.
* In `ChatServer` datagrams to the server are lost, duplicated and reordered. The way back is
  not modelled: an inbox is what `sendto` was called with, in that order.
* In `NetCal` one `Recv` with the bytes it takes is a step, and one turn of the
  `Decode` loop with its answer. A piece has any size from one byte on; the
  1023 bytes of the code's buffer are an upper bound that no property needs. Send
  buffers do not fill up: a `send` that writes only a part is not modelled.
  A number takes one place in a body (two with its sign); the header's length
  and the separators are characters, because that is where the stream can be cut
  in a harmful place. `stoi` throws on a header that begins with no digit, and
  `asInt` on JSON of the wrong types (`Mistyped`); nobody catches either, so the process
  that serves the connection ends (`Throw`). A number too large for `stoi` does the same as none; a
  negative one is left out. The operator of a request becomes a `char` and keeps its low 8 bits. The project builds without optimisation or traps for
  signed overflow, so sums keep their low bits (`Wrap`).
* In `TcpEchoServer` a descriptor is a number in a table, and each system call
  that opens, uses or closes one is a step, since every other thread may change
  the table in between. A `read` that has begun keeps its file when the number is
  closed. Lines and answers are counted, not spelled: an answer is the client it
  names, or a refusal. A write to a connection whose client has left may
  raise SIGPIPE, which ends the process.
* In `HttpServer` a request is a sequence of tokens of which any prefix may arrive,
  and a file is its size (or absent). Each look at a file is a step of
  its own, because the files may be changed in between. A response is its
  code, its `Content-Length`, whether it has a `Location`, and the size of its body. A uri
  with a question mark and nothing behind it differs from one without a question mark.
* In `SysVSemaphore`, `SysVChat` and `NamedPipe` each system call is a step. A set, a
  queue and a FIFO have an identity of their own (a number, or the server that made
  it), apart from the key or name that finds them, so that a process may hold one that
  is no longer there. Of the three semaphores of a set the program uses one. Kills, removals by
  hand and interrupted calls are bounded by `MaxFaults`.
* In `DictServer` lines and words are sequences of characters, because `LoadDict` cuts
  them at computed places. A datagram belongs to one client and names no request.
* In `Logger` a line is two pieces, its text and its end, as the console strategy inserts them.
  The file strategy opens, appends and closes; a line fits the stream's buffer, so
  closing writes it in one piece.
* In `ThreadObject` the owner may make any call at any time. `Detach` is one step:
  what the new thread does between its two looks at the flags is the same before
  or after it. A pthread call with the id of a freed thread is undefined: it crashes, or
  returns an error and changes nothing. `ChatClient` treats id 0 in the same way.
* In `TicketSale` taking the mutex and testing the counter are one step; reading the counter
  for `printf`, behind `usleep`, and decrementing it are two more.

## 3. Runs

| run | bounds | shows |
|---|---|---|
| `thread_pool` | 3 threads (one start may fail), 2 callers, 2 tasks | `SingleInstance`, `NeverPopsEmpty`, `NoLostWakeup`, `OnlyLateStranded`, `StopTerminates`, `AcceptedRun`, `ImplementsTaskService` |
| `thread_pool_drain` | 1 thread, 2 callers, 2 tasks | **violated:** `DrainedAtExit` |
| `block_queue` | 2 producers, 3 consumers, capacity 2, 2 values | `WakeupsInFlight`, `ImplementsFIFO` |
| `ring_queue` | 2 producers, 2 consumers, 2 slots, 2 values | `NoSlotRace`, `ImplementsFIFO` |
| `chat_server` | 2 clients, 2 routing threads, one extra line or duplicated datagram | `OnlineIffNotQuit`, `AllRouted`, `ImplementsChatRoom` |
| `net_cal` | ints from -4 to 3, lengths in base 4, 2 messages, 10 requests, 2 bodies that are no requests, one with wrong types, 2 bad headers | `Framing`, `EndsForCause`, `RoundTrip`, `ImplementsCalculator` |
| `http_login` | the web server of `net` alone, files that never change | **violated:** `LoginAnswered` |
| `http_unrouted` | the same | **violated:** `UnknownRouteAnswered` |
| `tcp_echo` | 3 clients, 2 lines in all, 4 descriptors, one thread that may not be created | `Undisturbed`, `EveryClientAttended` |
| `tcp_echo_own` | 3 clients, one line, 4 descriptors | **violated:** `AnswersAreOwn` |
| `ipc` | pool: 3 children, 4 commands, one killed child; semaphore: 2 runs, 2 faults; FIFO: 2 servers, 2 clients with 2 messages, room for 2, 2 faults; queue: 2 servers, 2 clients with 2 lines, room for 1, 1 fault; Thread: 3 starts; sale: 4 sellers, 5 tickets; logger: 2 processes, 2 threads, 3 lines, 1 fault | `ExitsDrained`, `Exclusive`, `PrintedAsSent`, `NoneLost`, `LogIntact`, `WaitsEnd` |
| `net` | accept loop: 3 clients, one failing `fork`; web server: 16 requests cut anywhere, 3 files that are absent, empty or not, one change; dictionary: 2 clients, 2 words each of 5, a file of 6 lines, one lost or duplicated datagram; chat client: 2 failing calls of `pthread_create` | `Isolation`, `AsRequested`, `AnswersMatch`, `ClientsServed`, `HandlerEnds`, `ClientsGoOn` |

Every passing run also checks its module's `TypeOK`, which in several modules
carries a bound of the code (capacity, index range, number of listeners).
Some properties of `ipc` and `net` are conjunctions of the modules':

| property | conjuncts |
|---|---|
| `Exclusive` | `SysVSemaphore!Exclusive` (the semaphore counts who is inside), `TicketSale!SoldOnce` |
| `PrintedAsSent` | `NamedPipe!AllPrinted`, `SysVChat!PrintsToQuit` |
| `WaitsEnd` | `ProcessPool!NoOrphans`, `NamedPipe!ServerEnds`, `SysVChat!SendersReturn`, `ThreadObject!JoinReturns`, `TicketSale!SaleEnds` |
| `ClientsServed` | `ForkServer!HangsUp`, `ForkServer!Accepted` |
| `ClientsGoOn` | `DictServer!WordAnswered`, `ChatClient!QuitEnds` |
| `LogIntact` | `Logger!WholeLines`, `Logger!EachLineOnce` |

`ImplementsFIFO` includes the liveness of the abstract specification, `Progress`: items are
transferred for ever, since producers and consumers never stop. The other abstract
specifications are safety only; what their services owe beyond it is stated apart (`AcceptedRun`,
`AllRouted`, `RoundTrip`).

Why the bounds are enough. *Pool:* with three threads there is one asleep, one
woken but not yet holding the mutex and one outside at the same time, which is
the case the signalling rule must survive; two callers suffice for the race in
`GetInstance` and for a push that races `Stop`. *Blocking queue:* a wakeup can be stolen
when a third consumer passes between a sleeper and a woken one; two places
separate full, partly filled and empty. *Ring:* two slots make the indices wrap
at every second access. *Process pool:* four commands over three children go
past the end of the round; three generations show the chain of inherited
descriptors. *Chat:* two clients, each with "online" and "quit", plus one further
datagram from either or from the network, so that a message can be routed after
its author's "quit". *Calculator:* a length in base 4 has two digits, so a
header can be cut inside the number; two messages can lie in one buffer, be cut
between, before and inside either, and come before or after a body that is no
request (an empty one, and one that contains a separator), before one whose members are no
ints, and before an empty header or one that is a word. One operator is `+` only in its low bits. The operands reach a
sum, a difference and a product that overflow, all signs of a division, both
divisions by zero and the division that traps. *Fork server:* a third client
waits while the second one's child is made and the first one is being served.
*Web server:* every kind of request line, without a question mark, with one and nothing behind it, and with
arguments, meets every state of its file, and the one
change can fall between any two of the looks at a file; `""` is the name of the root
directory, which a request without a path asks for. *Command server:*
four descriptors are the listening socket and three more, so a `popen`, which needs two
for a moment, succeeds or fails depending on the other threads; a stale close needs two
clients, an answer in the wrong hands a third, and a pipe replaced under `fgets` a second line.
`EveryClientAttended` is checked of one client, the specification being the same for all.
*Semaphore:* two runs contend for one key, so a run may be refused, a child may attach to the other
run's set, and a set may be removed and replaced; two faults allow a kill inside a pair
and a removal. *FIFO and message queue:* a second server finds the name taken or makes
its own after the first; two clients let one leave while the other writes, or wait at a full queue while
the other quits. *Dictionary:* the file has a repeated word, a meaning with a blank, an
empty meaning, a line without a blank, one that begins with it and one without a colon; the words are
in the file, misread in it, or empty. *Thread:* a third start follows one that was
stopped or raced. *Logger:* two threads in one process, or a child that forks from a process with
a full or an empty buffer.
Values are few because no code looks at them, except an empty
datagram and "quit".

Deadlock is checked in every run; `Terminated` is the state in which the program
has ended or has nothing left to do, and stutters.

Fairness. Threads that can run are scheduled (weak fairness per thread). In the
pool a thread competes for a mutex that is released again and again, and strong
fairness of the acquisition says that it gets it in the end: glibc's mutex gives
no order but the programs' critical sections are short and the threads leave
them to run tasks. The queues do without it: a section is one step there, and in
the ring only progress of the whole is claimed, not of each thread. Nobody is
obliged to submit a task, to stop a pool, to type a line; no datagram is obliged to
arrive; no spurious wakeup ever has to happen. In the process pool the parent and
the children are scheduled, and nobody is obliged to be killed. In
the calculator both processes run and the connection delivers what was sent; nobody is
obliged to send. The fork server and its children are scheduled, and a service
ends some time after its client has left; a client may stay for ever, which is the case
`Accepted` is about. In the web server only the handler is scheduled. In the command
server the accept loop, the threads and the clients' reads are scheduled, one
client's steps independent of another's; nobody is obliged to type a line or to leave, and
no signal has to kill the process. The servers of the FIFO and of the message queue are
scheduled, their clients need not write or leave; the kernel lets senders into a full queue in
the order of their coming (strong fairness of `Send`). In the dictionary the server and the clients
that wait are scheduled, and no datagram is obliged to arrive twice. The chat client's main and
threads are scheduled once main has begun to create them, nobody has to type. The owner of a `Thread` makes no call by
obligation; its threads reach a cancellation point when one is pending. The ticket sale's
mutex is not assumed fair. The semaphore and the logger have no fairness: what is
claimed of them is safety.

## 4. What the runs found

* `DrainedAtExit` (thread pool): `Equeue` tests `_isrunning` before it locks. If
  `Stop` and the exit of all threads fall between the test and the push, the
  task is accepted (`true`) and never run. `OnlyLateStranded` is what does hold.
* `LoginAnswered` (web server): `Deserialize` reads a POST's header lines until
  one equals `"\r\n"`, but `ReadOneLine` has cut that off every line. The handler of
  a login loops for ever.
* `UnknownRouteAnswered` (web server): a request with a question mark whose path has no route
  gets no answer at all, since that branch of `HandlerHttpRquest` holds nothing but the comment that a 404 is
  returned. `AsRequested` therefore says nothing of such a request.
* `AnswersAreOwn` (command server): `Service` closes the connection before it
  leaves its loop and again behind it. If another client is accepted in
  between, the second close hits that client's connection; when a third is then accepted,
  the second client's thread reads from and writes to the third. `Undisturbed` says
  that nothing else can mix them up: it holds for as long as no descriptor has
  been closed by a thread that does not own it.

Two things follow from reading alone. `WaitSubProcess` of the process pool closes
every pipe a second time where `Channel::Wait` is meant, and prints that the
child has been reclaimed; no child is ever waited for. And the fork server's
`if (fork() > 0) exit(OK)` takes a second fork that fails (-1) for the grandchild:
the child itself serves, and until its client leaves the server is in `waitpid` and accepts
nobody. Both are in the models (`WaitSubProcess`, `SecondForkFails`); `Accepted`
says that this is the only way a long session can delay the others.

More of this kind met while the smaller programs were modelled, each visible in an exception that
the exact property had to make:

* *Thread class.* `Detach` called before the new thread has set `_isrunning` detaches nothing but sets
  `_isdetach`; `Routine` then calls `Detach`, which returns at its first line, and `Join` refuses.
  The thread is never given back (`early`). Nor is one that was stopped and then detached: `Stop` has cleared
  `_isrunning`, so `Detach` sets the flag only and `Join` refuses (`stopped`). `Start` again before
  `EnableRunning`, or after `Stop`, overwrites the id of a thread that has not been joined (`overwritten`).
  `NoneLost` says that there is no fourth way, and that the second one is only open to a cancelled thread.
  `_isrunning` is never reset when the function returns, so a later `Stop` cancels an id that may be freed.
* *Chat client.* main stores the receiver's id after it has started the sender: a "quit" typed before that
  cancels id 0, and main waits for the receiver for ever or crashes. `QuitEnds` is about a "quit" typed later.
* *Semaphore.* `PV` ignores the result of `semop`: a wait that a signal interrupts lets a second process
  in, and its V raises the semaphore to a value that admits two for good (`interrupted`). A set found by
  the child may have no initial value yet, or be another run's.
* *FIFO.* A client that opens the FIFO between the server's end of file and its close writes messages that nobody
  reads (`late`).
* *Dictionary.* A duplicated answer puts a client one answer behind for good, since it takes whatever
  datagram comes; a lost one, or an empty word, leaves it waiting for ever. A line without a colon loses the
  letter before its blank, and one that begins with a blank is its own key; who asks for what is left
  gets the rest of that line (`Misread`).
* *Calculator.* A header that is no number, or a member that is no int, ends the process that serves the connection,
  and the requests behind it stay without an answer; `EndsForCause` says that nothing else does, the
  division that traps and the peer's leaving apart.
* *Logger.* A process that forks with lines in the buffer of standard output writes them twice, and the
  fork servers do log to the console (`copied`). The file strategy has no such copies.

Not violations, but what the exact statements had to say: a pool one of whose
threads failed to start never signals, because `_threads.size()` still counts
that thread. `NoLostWakeup` exempts such a pool; `AcceptedRun` claims of it that its tasks are run
once it is stopped, unless all threads failed or `Join`, which joins a thread that was never created, crashes
the process, which `StopTerminates` allows in this case only. A caller that
finds `inc` set before `Start` has run has its task refused; a user stays online
when a datagram of theirs is routed after their "quit" (`OnlineIffNotQuit`).

## 5. Proofs

Every invariant of a passing run is also proved, for all values of the constants that
satisfy the modules' assumptions. Of the five refinements those of `TaskService`, `ChatRoom` and
`Calculator` are proved as they stand and the two of `BoundedFIFO` in their safety part.
The theorems are about `Safety` (`Init /\ [][Next]_vars`) or follow from it, those of the union modules are about
their `Spec`: fairness is not used anywhere. Each
proof module defines an inductive `IInv`, has lemmas for the steps (one per
action, or per group of actions that disturb the same conjuncts) and derives the
properties from `[]IInv`. TLC has checked each `IInv` on the small instances first.

**Thread pool.** `ThreadPoolProofs` proves, for any finite nonempty set of threads, any callers, tasks and
number of failing starts, that `TypeOK`, `SingleInstance`, `NeverPopsEmpty`,
`NoLostWakeup`, `OnlyLateStranded` and `SleepCount` (`_sleeprnum` is the number of
threads inside `pthread_cond_wait`, those woken included) are invariants.
None of the six is inductive alone. `IInv` adds

* who holds which mutex at which program point (`MutexInv`, `SingletonInv`),
* that no thread exists before `Start` has set the flag and that the flag is never
  set again after `Stop` (`StartInv`, `StopInv`),
* that callers and threads at work hold a task (`TaskInv`),
* that a thread about to sleep has seen an empty queue that is still empty, since
  it holds the mutex (`SleepInv`), and
* that a thread leaves only a stopped pool and all later pushes are late
  (`ExitInv`).

The step that carries the argument is `Push`: if `_sleeprnum` equals the number
of threads then all of them are in the wait (a subset of a finite set with the
same cardinality), and the signal takes one out or one is out already; if it does
not, some thread is outside the wait, and as the mutex is free that thread has not
decided to sleep, so it will test the queue.

The refinement of `TaskService` needs two facts more. `InOnePlace`: a task that has been submitted
is in one place only, the hands of one caller, one place of the queue, the hands of one thread, or done. It is
inductive relative to `IInv` and says that a task is executed at most once. `RunningCounted`: a thread that
is about to take a task is not running one, so fewer than `_num` tasks run. Of the steps,
`CheckRunning` is the abstract admission, `Push` the entry, `Pop` the taking, `RunTask` the end
of a task, `StartPool` opens the service and `Stop` shuts it; the rest is not seen.

**Blocking queue** (any finite disjoint sets of producers and consumers, any capacity).
`WakeupsInFlight` says that items (free places) never outnumber the consumers (producers)
that are on their way to them while another one sleeps. It needs `SleepCount`: each of the code's
counters is the number of threads of its side that wait, those woken and not yet back
included, so that "signal if the counter is positive" may hit a counter whose threads are all
awake, and is enough nevertheless. `Refinement`: `Equeue` puts its argument behind the others, `pop`
returns the oldest, everything else is a stutter.

**Ring queue** (the same). The invariant is an account: the value of a semaphore and the
threads between its `V` and the other one's `P`, on either side, add up to the
capacity (`Account`); and the two steps are as far apart, round the ring, as the number of
filled slots (`Apart`). `NoSlotRace` follows because a reader's and a writer's slot can
only coincide when that distance is 0 or the capacity, which leaves no token for the other. For the
refinement the content of the queue is what lies between the steps, and
the proof shows that a write extends it at its end and a read takes its head off.

**The programs of `MCIpc`.** Each has its own invariant, and a step of one leaves the variables of
the others alone.

* *Process pool:* tasks sent = tasks executed + tasks in the pipe, and a child exits at an
  end of file, which comes behind the last task (`ExitsDrained`).
* *Semaphore:* for every set that is initialised and in which no wait was interrupted, its value and the number of
  processes inside add up to 1, and each process's undo record is 1 exactly while it is
  inside (`Counted`); a kill gives back what was taken.
* *Ticket sale:* who holds the mutex is between the test and the unlock, and the counter
  it read is the present one; hence each ticket is sold once.
* *FIFO and message queue:* what was printed followed by what is under way is what was written, and
  in the queue nothing follows that the loop would not reach but behind a "quit".
* *Thread:* the object has the id of the last thread it started; each of the three orders that lose one is
  noted when it happens, and who is detached after a `Stop` has been cancelled (`NoneLost`).
* *Logger:* in the file and in each process's part of the console a text is
  followed by its own end; each line is in one place at most, and the lines a process has put
  out are in order.

**Chat server** (any clients, routing threads and lines). `OnlineIffNotQuit` says that the
unlocked list has, once each, who has written and not quit. It needs that only the thread which holds the
lock is inside `MessageRoute`, where on its way it is, and that the users its loop
has passed have its message last in their inbox (`Delivered`). With it follows the
refinement of `ChatRoom`: the message appears at all members in the one step in which the loop ends.

**Command server** (any clients, any table, any number of lines). The listening
descriptor is never a thread's own, so no double close can hit it; as long as no
stale close has happened two threads never own one number.

**Network calculator** (ints of any width, lengths in any base the header can be written in, any requests and any other
bodies). `IInv` says that the buffer of each side followed by the bytes under way is a
concatenation of packets: those of the messages the server has not taken out, and of the answers
the client has not shown; that as many answers were given as requests were among the messages
taken out; and that no more of them are shown than were given. Behind them there may be one packet with a bad
header, the last one that is looked at. With it follows `EndsForCause`: a peer that is still there sees the server end
only at a message that ends it, after all that came before. What carries the
argument is `DecodeFirst`. Of a string that begins with a packet, `Decode` takes
exactly that packet as soon as the buffer contains it, and nothing before, wherever the
stream was cut: a length has no CR among its digits, so the first separator ends the
header, and what `stoi` reads is what `to_string` wrote, so a separator inside the body does no
harm. `to_string`, `stoi` and `Packets` are recursive, and facts about all their values need induction
over data. They are proved without an induction theorem: a set of numbers that is not empty has a
least element (`Least`, from the library's `WFMin`), and the least counterexample contradicts
the step. This also shows that the functions exist. The refinement of `Calculator` rests on
`ExecuteIsCorrect`: the wrapped results agree with the exact ones in the low bits, and
quotient and remainder are those of the division that truncates.

**The programs of `MCNet`.** Here too a step of one leaves the variables of the others alone.

* *Accept loop:* whose child listens is waited for at that moment, so a connection is held
  only by the processes that were made for it (`Isolation`).
* *Web server* (any requests, files, sizes, and changes): the invariant says what each stage of the handler
  knows: the parsed uri is that of the first line, the file looked for is the one that was asked for, and
  it is as it was seen unless a file has changed. It includes that the loop over the headers never
  leaves (`HeadersKeep`), so that a POST never gets to its end. `AsRequested` is about every other request but one for a
  route that does not exist.
* *Dictionary:* the answers under way are about words of the client that asked, the one it waits for or, after
  a duplication, an earlier one. The file and the words are any sequences of characters. The table that `LoadDict`
  makes is compared with what the lines mean: a line `word: meaning` of a word without a blank gives it its meaning, the last such
  line counting, and a line that the code cuts wrongly (`Misread`) can only be taken for the word that is left when
  the character before its first blank is dropped, or, if it begins with the blank, for itself.

**Assumptions.** They are the modules' `ASSUME`s, which TLC evaluates on every run: sets of
threads are finite where the code counts them, bounds are numbers, `Nobody`, `Free` and the like are not members of the sets
they are told apart from, a request is a sequence of tokens whose second one is a uri, a bad header begins with no digit
and has no CR. `DictAssumption` says of the file and the words only that they are sequences of strings, and that `":"`,
`" "` and `"not found"` are strings; `LoggerAssumption` says that `Free` is no thread.

**What is only model-checked.** The liveness properties, for fairness is out of the prover's
reach: `StopTerminates`, `AcceptedRun`, `AllRouted`, `RoundTrip`, `EveryClientAttended`, `WaitsEnd`,
`ClientsServed`, `HandlerEnds`, `ClientsGoOn` and the `Progress` part of `ImplementsFIFO`. The four
properties that the code violates are refuted by TLC's counterexamples.

## 6. Not modelled

See the components' notes in `PROJECT.json`. Formatting, argument parsing, time stamps and
addresses are left out because no property is about them. The demos of signals, of
thread control and of the condition variable are programs of a few calls, most of whose
code is commented out or runs for ever without a state that could be wrong. `Daemon.hpp`
(the calculator becomes a daemon) is a fixed sequence of system calls. `Sem_V!.hpp` is an
earlier version of `Sem_V2.hpp` that no program includes. A `ThreadPool.hpp` copied into `4.TcpEchaoServer` is not used by
its main. In `TicketSale` all threads can be created: with one that cannot, main joins an id it
never set.

## 7. Plan

1. *(done)* Thread pool with proofs; queues; process pool; chat server; `NetCal`
   with its abstract `Calculator`; the fork server.
2. *(done)* `HttpServer` and `TcpEchoServer`.
3. *(done)* The programs over objects of the kernel, the dictionary, the chat client's threads,
   the `Thread` class, the logger and the ticket sale, in the union runs.
4. *(done)* Proofs of every invariant that a run checks, and of all refinements as far as they are safety.
5. What is left is not in reach of the present tools: proofs of liveness. A `send` that writes only a part, and
   the buffers that make it so, would be the next thing to add to the models of the servers.
