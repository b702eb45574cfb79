------------------------------- MODULE Logger -------------------------------
(***************************************************************************)
(* Log.hpp, which most programs carry a copy of: a line is put together    *)
(* without a lock and handed to a strategy, which writes it under its      *)
(* mutex, to standard output or to a file that it opens for every line.    *)
(*                                                                         *)
(* The servers that log do so with several threads in one process, or with *)
(* one thread in each of several processes made by fork.  A mutex is of    *)
(* its process, and so is the buffer of standard output; the file and the  *)
(* terminal are everybody's.                                               *)
(***************************************************************************)
EXTENDS Naturals, Sequences, FiniteSets

CONSTANTS Processes,
          First,       \* the process that main starts in
          Free,        \* nobody holds a mutex
          MaxLines,    \* bound: lines logged
          MaxFaults    \* bound: kills, and files that cannot be opened

(* What the specification assumes of its constants.                        *)
LoggerAssumption == /\ First \in Processes /\ Free \notin Processes \X {1, 2}
                    /\ MaxLines \in Nat /\ MaxFaults \in Nat

Writers == Processes \X {1, 2}   \* a thread of a process

VARIABLES
    strategy,  \* _fflush_strategy
    pc,        \* where each writer is
    line,      \* the line a writer has put together
    _mutex,    \* the strategy's mutex in each process
    buffer,    \* standard output's buffer in each process
    out,       \* what the terminal or the file has: <<process, piece>>
    logged,    \* number of lines put together
    synced,    \* history: lines whose SyncLog has written them
    lost,      \* history: lines in the buffer of a process that was killed
    copied,    \* history: lines that were in a buffer when it was copied
    faults

vars == <<strategy, pc, line, _mutex, buffer, out, logged, synced, lost, copied, faults>>

Init == /\ strategy \in {"console", "file"}
        /\ \E several \in BOOLEAN :
             pc = [w \in Writers |-> IF w[1] = First /\ (several \/ w[2] = 1)
                                     THEN "idle" ELSE "none"]
        /\ line = [w \in Writers |-> 0]
        /\ _mutex = [p \in Processes |-> Free]
        /\ buffer = [p \in Processes |-> <<>>]
        /\ out = <<>>
        /\ logged = 0
        /\ synced = {} /\ lost = {} /\ copied = {}
        /\ faults = 0

Go(w, at) == pc' = [pc EXCEPT ![w] = at]
Fault     == faults < MaxFaults /\ faults' = faults + 1

Text(w) == <<line[w], "text">>
Sep(w)  == <<line[w], "sep">>

Threads(p) == {w \in Writers : w[1] = p /\ pc[w] \notin {"none", "gone"}}
Alive(p)   == Threads(p) # {}
Lines(pieces) == {pieces[i][1] : i \in 1..Len(pieces)}

(* What process p writes, as it arrives.                                   *)
From(p, pieces)  == [i \in 1..Len(pieces) |-> <<p, pieces[i]>>]
Write(p, pieces) == out' = out \o From(p, pieces)

-----------------------------------------------------------------------------
(* LogMessage and its operator <<.                                         *)
LogMessage(w) ==
    /\ pc[w] = "idle" /\ logged < MaxLines
    /\ logged' = logged + 1
    /\ line' = [line EXCEPT ![w] = logged + 1]
    /\ Go(w, "lock")
    /\ UNCHANGED <<strategy, _mutex, buffer, out, synced, lost, copied, faults>>

(* ~LogMessage calls SyncLog; LockGuard.                                   *)
Unguarded(p) == TRUE
Unlocked(p)  == _mutex[p] = Free

Lock(w) ==
    /\ pc[w] = "lock" /\ Unlocked(w[1])
    /\ _mutex' = [_mutex EXCEPT ![w[1]] = w]
    /\ Go(w, "text")
    /\ UNCHANGED <<strategy, line, buffer, out, logged, synced, lost, copied, faults>>

Unlock(w) == _mutex' = [_mutex EXCEPT ![w[1]] = Free] /\ Go(w, "idle")

(* ConsoleLogStrategy: the line and its end are two insertions.            *)
PutText(w) ==
    /\ strategy = "console" /\ pc[w] = "text"
    /\ buffer' = [buffer EXCEPT ![w[1]] = Append(@, Text(w))]
    /\ Go(w, "sep")
    /\ UNCHANGED <<strategy, line, _mutex, out, logged, synced, lost, copied, faults>>

PutSep(w) ==
    /\ pc[w] = "sep"
    /\ buffer' = [buffer EXCEPT ![w[1]] = Append(@, Sep(w))]
    /\ synced' = synced \cup {line[w]}
    /\ Unlock(w)
    /\ UNCHANGED <<strategy, line, out, logged, lost, copied, faults>>

(* The buffer is full, or the terminal wants whole lines.                  *)
Flush(p) ==
    /\ Alive(p) /\ buffer[p] # <<>>
    /\ Write(p, buffer[p])
    /\ buffer' = [buffer EXCEPT ![p] = <<>>]
    /\ UNCHANGED <<strategy, pc, line, _mutex, logged, synced, lost, copied, faults>>

(* FileLogStrategy: open for appending, insert, close.  A line fits the    *)
(* stream's buffer, so that close writes it at once.                       *)
CloseFile(p, pieces) == Write(p, pieces) /\ UNCHANGED buffer

AppendToFile(w) ==
    /\ strategy = "file" /\ pc[w] = "text"
    /\ CloseFile(w[1], <<Text(w), Sep(w)>>)
    /\ synced' = synced \cup {line[w]}
    /\ Unlock(w)
    /\ UNCHANGED <<strategy, line, logged, lost, copied, faults>>

(* The file cannot be opened: the line is dropped.                         *)
OpenFails(w) ==
    /\ strategy = "file" /\ pc[w] = "text" /\ Fault
    /\ Unlock(w)
    /\ UNCHANGED <<strategy, line, buffer, out, logged, synced, lost, copied>>

-----------------------------------------------------------------------------
(* The servers that fork have one thread, which is not logging then.       *)
Fork(p, q) ==
    /\ Threads(p) = {<<p, 1>>} /\ pc[<<p, 1>>] = "idle"
    /\ pc[<<q, 1>>] = "none"
    /\ buffer' = [buffer EXCEPT ![q] = buffer[p]]
    /\ copied' = copied \cup Lines(buffer[p])
    /\ Go(<<q, 1>>, "idle")
    /\ UNCHANGED <<strategy, line, _mutex, out, logged, synced, lost, faults>>

(* exit writes the buffer.                                                 *)
Exit(p) ==
    /\ Alive(p) /\ \A w \in Threads(p) : pc[w] = "idle"
    /\ pc' = [w \in Writers |-> IF w \in Threads(p) THEN "gone" ELSE pc[w]]
    /\ Write(p, buffer[p])
    /\ buffer' = [buffer EXCEPT ![p] = <<>>]
    /\ UNCHANGED <<strategy, line, _mutex, logged, synced, lost, copied, faults>>

Kill(p) ==
    /\ Alive(p) /\ Fault
    /\ pc' = [w \in Writers |-> IF w \in Threads(p) THEN "gone" ELSE pc[w]]
    /\ lost' = lost \cup Lines(buffer[p])
    /\ buffer' = [buffer EXCEPT ![p] = <<>>]
    /\ _mutex' = [_mutex EXCEPT ![p] = Free]
    /\ UNCHANGED <<strategy, line, out, logged, synced, copied>>

-----------------------------------------------------------------------------
SyncLog(w) == Lock(w) \/ PutText(w) \/ PutSep(w) \/ AppendToFile(w) \/ OpenFails(w)

Terminated == (\A p \in Processes : ~Alive(p)) /\ UNCHANGED vars

Next == \/ \E w \in Writers : LogMessage(w) \/ SyncLog(w)
        \/ \E p \in Processes : Flush(p) \/ Exit(p) \/ Kill(p)
        \/ \E p, q \in Processes : Fork(p, q)
        \/ Terminated

Spec == Init /\ [][Next]_vars

-----------------------------------------------------------------------------
(* Types; a piece is of a line that was logged.                            *)
Piece == (1..MaxLines) \X {"text", "sep"}

TypeOK ==
    /\ strategy \in {"console", "file"}
    /\ pc \in [Writers -> {"none", "idle", "lock", "text", "sep", "gone"}]
    /\ line \in [Writers -> 0..MaxLines] /\ logged \in 0..MaxLines
    /\ _mutex \in [Processes -> Writers \cup {Free}]
    /\ buffer \in [Processes -> Seq(Piece)]
    /\ out \in Seq(Processes \X Piece)
    /\ synced \cup lost \cup copied \subseteq 1..MaxLines
    /\ faults \in 0..MaxFaults

(* Of the pieces in a set of places, texts and ends alternate, each end    *)
(* behind its own text.                                                    *)
Behind(places, i, j) == i < j /\ \A k \in places : k <= i \/ k >= j

Alternate(s, places) ==
    \A j \in places :
        IF s[j][2][2] = "sep"
        THEN \E i \in places : Behind(places, i, j) /\ s[i][2] = <<s[j][2][1], "text">>
        ELSE \A i \in places : Behind(places, i, j) => s[i][2][2] = "sep"

(* What is in out, and then what p has still to write.                     *)
Everything(p) == out \o From(p, buffer[p])

PlacesOf(s, p, without) == {i \in 1..Len(s) : s[i][1] = p /\ s[i][2][1] \notin without}

(* The threads of a process do not tear each other's lines, wherever the   *)
(* buffer is cut; in the file the lines of different processes do not      *)
(* tear each other either, although each has a mutex of its own.  (A       *)
(* buffer that is copied with half a line in it gives the child that half.)*)
WholeLines ==
    /\ \A p \in Processes : Alternate(Everything(p), PlacesOf(Everything(p), p, copied))
    /\ strategy = "file" => Alternate(out, 1..Len(out))

(* A line that has been written is in one place.  On standard output that  *)
(* is so only while no process forks: the child gets a copy of what the    *)
(* buffer holds and writes it again.  A file, closed behind every line,    *)
(* leaves nothing to copy or to lose.                                      *)
InOut(l)    == {i \in 1..Len(out) : out[i][2] = <<l, "text">>}
InBuffer(l) == {p \in Processes : \E i \in 1..Len(buffer[p]) : buffer[p][i] = <<l, "text">>}

EachLineOnce ==
    /\ \A l \in synced \ (copied \cup lost) : Cardinality(InOut(l)) + Cardinality(InBuffer(l)) = 1
    /\ strategy = "file" => copied = {} /\ lost = {}
=============================================================================
