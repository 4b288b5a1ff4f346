------------------------------ MODULE Processes ------------------------------
(***************************************************************************)
(* The process module on Linux (api/process/src): process.spawn, ptyOpen,  *)
(* write, kill and ptyResize on the main thread, one reader thread per     *)
(* session (SpawnPipes, PtyOpen), and the registry they share under g_mu.  *)
(*                                                                         *)
(* A reader empties its stream, for pipes stdout first and stderr when     *)
(* stdout has ended, then waits for the child, announces the exit and      *)
(* removes the session.  It works with the descriptor numbers it was       *)
(* started with, whatever became of them: the kernel's table says what a   *)
(* number stands for.  A read(2) in progress keeps its file open.          *)
(*                                                                         *)
(* process.write holds g_mu as long as it blocks; every other critical     *)
(* section is one step here.  ptyResize takes no lock.                     *)
(*                                                                         *)
(* Left out: calls that fail and change nothing, process.list, and the     *)
(* ends of pipes that are closed before the call returns.                  *)
(***************************************************************************)
EXTENDS Naturals, FiniteSets

CONSTANTS MaxSessions,  \* bound: sessions opened
          Numbers,      \* descriptor numbers
          Capacity,     \* units a pipe or a terminal holds
          MaxOutput,    \* bound: units a child writes into each stream
          MaxWrites     \* bound: calls of process.write

ASSUME BoundsAssumption ==
    /\ MaxSessions \in Nat /\ MaxOutput \in Nat /\ MaxWrites \in Nat
    /\ Capacity \in Nat \ {0}
    /\ Numbers \subseteq Nat \ {0} /\ IsFiniteSet(Numbers)

VARIABLES
    procs,        \* g_procs: the sessions that are registered
    kind,         \* kind[s]: "none" until s is opened
    child,        \* child[s]: "none", "running", "zombie" or "reaped"
    masterFd,     \* masterFd[s]: Proc.masterFd holds a number
    number,       \* number[f]: the number the file f was opened with, 0 before
    table,        \* table[n]: the file n stands for, or None
    reader,       \* where the reader thread of s is
    inRead,       \* inRead[s]: the file of its read(2) in progress, or None
    buffer,       \* buffer[f]: units in f that nobody has read
    main,         \* what the main thread is doing
    writes,       \* calls of process.write so far
    wrote,        \* history: wrote[f]: units the child wrote into f
    heard,        \* history: heard[s, f]: units of f announced as output of s
    exited,       \* history: sessions whose exit was announced
    killed        \* history: terminals process.kill closed

osVars == <<child, number, table, buffer, wrote>>
procVars == <<procs, kind, masterFd>>
readerVars == <<reader, inRead, heard, exited>>
mainVars == <<main, writes, killed>>
vars == <<osVars, procVars, readerVars, mainVars>>

Session == 1 .. MaxSessions
Output == Session \X {"out", "err", "pty"}
File == Output \cup (Session \X {"in"})
None == <<0, "none">>
Streams == [pipe |-> {"out", "err"}, pty |-> {"pty"}, none |-> {}]
Idle == [op |-> "idle", id |-> 0, left |-> 0]

Init ==
    /\ procs = {}
    /\ kind = [s \in Session |-> "none"]
    /\ child = [s \in Session |-> "none"]
    /\ masterFd = [s \in Session |-> FALSE]
    /\ number = [f \in Output |-> 0]
    /\ table = [n \in Numbers |-> None]
    /\ reader = [s \in Session |-> "none"]
    /\ inRead = [s \in Session |-> None]
    /\ buffer = [f \in File |-> 0]
    /\ main = Idle
    /\ writes = 0
    /\ wrote = [f \in Output |-> 0]
    /\ heard = [p \in Session \X Output |-> 0]
    /\ exited = {}
    /\ killed = {}

(***************************************************************************)
(* The children.  A child writes, reads its input, and exits when it likes.*)
(* One whose terminal has no open master any more is hung up.              *)
(***************************************************************************)
ChildWrites(f) ==
    /\ child[f[1]] = "running"
    /\ f[2] \in Streams[kind[f[1]]]
    /\ wrote[f] < MaxOutput
    /\ buffer[f] < Capacity
    /\ wrote' = [wrote EXCEPT ![f] = @ + 1]
    /\ buffer' = [buffer EXCEPT ![f] = @ + 1]
    /\ UNCHANGED <<child, number, table, procVars, readerVars, mainVars>>

ChildReads(s) ==
    /\ child[s] = "running"
    /\ buffer[<<s, "in">>] > 0
    /\ buffer' = [buffer EXCEPT ![<<s, "in">>] = 0]
    /\ UNCHANGED <<child, number, table, wrote, procVars, readerVars, mainVars>>

ChildExits(s) ==
    /\ child[s] = "running"
    /\ child' = [child EXCEPT ![s] = "zombie"]
    /\ UNCHANGED <<number, table, buffer, wrote, procVars, readerVars, mainVars>>

MasterOpen(s) ==
    \/ \E n \in Numbers : table[n] = <<s, "pty">>
    \/ \E r \in Session : inRead[r] = <<s, "pty">>

HangUp(s) ==
    /\ kind[s] = "pty"
    /\ ~MasterOpen(s)
    /\ ChildExits(s)

(***************************************************************************)
(* SpawnPipes and PtyOpen.  Files get numbers that are free (the lowest of *)
(* those never used before stands for all of them); of the two pipes the   *)
(* kernel reads from, stdout is opened first.                              *)
(***************************************************************************)
UsedBefore(n) == \E f \in Output : number[f] = n

Free(taken) ==
    LET free == {n \in Numbers : table[n] = None} \ taken IN
    {n \in free : \A m \in free : m < n => UsedBefore(m)}

Open(s, k, first) ==
    /\ main = Idle
    /\ kind[s] = "none" /\ \A r \in Session : r < s => kind[r] # "none"
    /\ kind' = [kind EXCEPT ![s] = k]
    /\ child' = [child EXCEPT ![s] = "running"]
    /\ procs' = procs \cup {s}
    /\ reader' = [reader EXCEPT ![s] = first]
    /\ UNCHANGED <<buffer, wrote, inRead, heard, exited, mainVars>>

SpawnPipes(s) ==
    /\ Open(s, "pipe", "out")
    /\ \E n \in Free({}) : \E m \in Free({n}) :
        /\ n < m
        /\ number' = [number EXCEPT ![<<s, "out">>] = n, ![<<s, "err">>] = m]
        /\ table' = [table EXCEPT ![n] = <<s, "out">>, ![m] = <<s, "err">>]
    /\ UNCHANGED masterFd

PtyOpen(s) ==
    /\ Open(s, "pty", "pty")
    /\ masterFd' = [masterFd EXCEPT ![s] = TRUE]
    /\ \E n \in Free({}) :
        /\ number' = [number EXCEPT ![<<s, "pty">>] = n]
        /\ table' = [table EXCEPT ![n] = <<s, "pty">>]

(***************************************************************************)
(* The reader thread of session s: read until the end or an error, close.  *)
(***************************************************************************)
Stream(s) == <<s, reader[s]>>
StartsRead(s) == reader[s] \in {"out", "err", "pty"} /\ inRead[s] = None

BeginRead(s) ==
    /\ StartsRead(s)
    /\ table[number[Stream(s)]] # None
    /\ inRead' = [inRead EXCEPT ![s] = table[number[Stream(s)]]]
    /\ UNCHANGED <<osVars, procVars, reader, heard, exited, mainVars>>

\* Fault: stderr is not read.
EndOfStreamNoStderr(s) ==
    /\ reader' = [reader EXCEPT ![s] = IF @ = "pty" THEN "close" ELSE "wait"]
    /\ table' = IF reader[s] = "pty" THEN table
                ELSE [table EXCEPT ![number[Stream(s)]] = None]

\* Fault: the reader closes stdout and stderr together when stdout has ended.
EndOfStreamClosesBoth(s) ==
    /\ reader' = [reader EXCEPT ![s] =
           CASE @ = "out" -> "err" [] @ = "err" -> "wait" [] @ = "pty" -> "close"]
    /\ table' = IF reader[s] = "pty" THEN table
                ELSE [table EXCEPT ![number[<<s, "out">>]] = None,
                                   ![number[<<s, "err">>]] = None]

\* The loop is over: the number of a pipe, which nobody else has, is closed in
\* the same step; the number of a terminal in the next one.
EndOfStream(s) ==
    /\ reader' = [reader EXCEPT ![s] =
           CASE @ = "out" -> "err" [] @ = "err" -> "wait" [] @ = "pty" -> "close"]
    /\ table' = IF reader[s] = "pty" THEN table
                ELSE [table EXCEPT ![number[Stream(s)]] = None]

\* The number is closed: EBADF.
ReadFails(s) ==
    /\ StartsRead(s)
    /\ table[number[Stream(s)]] = None
    /\ EndOfStream(s)
    /\ UNCHANGED <<child, number, buffer, wrote, procVars, inRead, heard, exited, mainVars>>

\* read(2) returns all there is and EmitData announces it.
EmitData(s) ==
    LET f == inRead[s] IN
    /\ f # None /\ buffer[f] > 0
    /\ heard' = [heard EXCEPT ![<<s, f>>] = @ + buffer[f]]
    /\ buffer' = [buffer EXCEPT ![f] = 0]
    /\ inRead' = [inRead EXCEPT ![s] = None]
    /\ UNCHANGED <<child, number, table, wrote, procVars, reader, exited, mainVars>>

\* Nobody is left who could write: end of file, or EIO on a terminal.
ReadEnds(s) ==
    LET f == inRead[s] IN
    /\ f # None /\ buffer[f] = 0 /\ child[f[1]] # "running"
    /\ inRead' = [inRead EXCEPT ![s] = None]
    /\ EndOfStream(s)
    /\ UNCHANGED <<child, number, buffer, wrote, procVars, heard, exited, mainVars>>

CloseMaster(s) ==
    /\ reader[s] = "close"
    /\ reader' = [reader EXCEPT ![s] = "wait"]
    /\ table' = [table EXCEPT ![number[<<s, "pty">>]] = None]
    /\ UNCHANGED <<child, number, buffer, wrote, procVars, inRead, heard, exited, mainVars>>

\* waitpid(2), and process.exit is announced.
Waitpid(s) ==
    /\ reader[s] = "wait"
    /\ child[s] = "zombie"
    /\ child' = [child EXCEPT ![s] = "reaped"]
    /\ exited' = exited \cup {s}
    /\ reader' = [reader EXCEPT ![s] = "remove"]
    /\ UNCHANGED <<number, table, buffer, wrote, procVars, inRead, heard, mainVars>>

\* Fault: Remove does not take g_mu.
RemoveUnlocked(s) ==
    /\ reader[s] = "remove"
    /\ procs' = procs \ {s}
    /\ reader' = [reader EXCEPT ![s] = "gone"]
    /\ UNCHANGED <<osVars, kind, masterFd, inRead, heard, exited, mainVars>>

\* Fault: Remove leaves the session in the map.
RemoveKeepsEntry(s) ==
    /\ reader[s] = "remove"
    /\ main.op # "write"
    /\ reader' = [reader EXCEPT ![s] = "gone"]
    /\ UNCHANGED <<osVars, procVars, inRead, heard, exited, mainVars>>

\* Remove takes g_mu, which process.write may hold.
Remove(s) ==
    /\ reader[s] = "remove"
    /\ main.op # "write"
    /\ procs' = procs \ {s}
    /\ reader' = [reader EXCEPT ![s] = "gone"]
    /\ UNCHANGED <<osVars, kind, masterFd, inRead, heard, exited, mainVars>>

Reader(s) ==
    /\ reader[s] \notin {"none", "gone"}
    /\ \/ BeginRead(s) \/ ReadFails(s) \/ EmitData(s) \/ ReadEnds(s)
       \/ CloseMaster(s) \/ Waitpid(s) \/ Remove(s)

(***************************************************************************)
(* process.write: as many write(2) as it takes, with g_mu held.  A write   *)
(* that fails ends it.  A closed terminal is refused.                      *)
(***************************************************************************)
WriteFn(s) ==
    /\ main = Idle
    /\ s \in procs
    /\ kind[s] = "pty" => masterFd[s]
    /\ writes < MaxWrites
    /\ writes' = writes + 1
    /\ main' = [op |-> "write", id |-> s, left |-> Capacity + 1]
    /\ UNCHANGED <<osVars, procVars, readerVars, killed>>

\* Where the units go: the child's standard input, or the input of whatever
\* terminal the number of the master stands for now.
Input(s) ==
    LET t == IF kind[s] = "pipe" THEN <<s, "pipe">> ELSE table[number[<<s, "pty">>]] IN
    IF t[2] \in {"pipe", "pty"} /\ child[t[1]] = "running" THEN <<t[1], "in">> ELSE None

\* Fault: a write that fails is tried again.
WriteStdinRetries ==
    /\ main.op = "write"
    /\ Input(main.id) # None
    /\ buffer[Input(main.id)] < Capacity
    /\ buffer' = [buffer EXCEPT ![Input(main.id)] = @ + 1]
    /\ main' = IF main.left = 1 THEN Idle ELSE [main EXCEPT !.left = @ - 1]
    /\ UNCHANGED <<child, number, table, wrote, procVars, readerVars, writes, killed>>

WriteStdin ==
    /\ main.op = "write"
    /\ IF Input(main.id) = None
       THEN main' = Idle /\ UNCHANGED buffer
       ELSE /\ buffer[Input(main.id)] < Capacity
            /\ buffer' = [buffer EXCEPT ![Input(main.id)] = @ + 1]
            /\ main' = IF main.left = 1 THEN Idle ELSE [main EXCEPT !.left = @ - 1]
    /\ UNCHANGED <<child, number, table, wrote, procVars, readerVars, writes, killed>>

(***************************************************************************)
(* process.kill closes the master of a terminal, and otherwise sends the   *)
(* signal, of which the child dies or not.                                 *)
(***************************************************************************)
KillTerminal(s) ==
    /\ main = Idle
    /\ s \in procs /\ kind[s] = "pty" /\ masterFd[s]
    /\ table' = [table EXCEPT ![number[<<s, "pty">>]] = None]
    /\ masterFd' = [masterFd EXCEPT ![s] = FALSE]
    /\ killed' = killed \cup {s}
    /\ UNCHANGED <<child, number, buffer, wrote, procs, kind, readerVars, main, writes>>

Kill(s) ==
    /\ main = Idle
    /\ s \in procs /\ ~masterFd[s]
    /\ ChildExits(s)

\* process.ptyResize: Get without g_mu, then the use of what it returned.
PtyResize(s) ==
    /\ main = Idle
    /\ s \in procs /\ masterFd[s]
    /\ main' = [op |-> "resize", id |-> s, left |-> 0]
    /\ UNCHANGED <<osVars, procVars, readerVars, writes, killed>>

PtyResizeDone ==
    /\ main.op = "resize"
    /\ main' = Idle
    /\ UNCHANGED <<osVars, procVars, readerVars, writes, killed>>

Next ==
    \/ \E f \in Output : ChildWrites(f)
    \/ \E s \in Session :
        \/ ChildReads(s) \/ ChildExits(s) \/ HangUp(s)
        \/ SpawnPipes(s) \/ PtyOpen(s)
        \/ Reader(s)
        \/ WriteFn(s) \/ KillTerminal(s) \/ Kill(s) \/ PtyResize(s)
    \/ WriteStdin \/ PtyResizeDone

(***************************************************************************)
(* Threads run, system calls that can return do, and a child whose         *)
(* terminal is closed gets its SIGHUP.  No child is obliged to read, to    *)
(* write or to exit.                                                       *)
(***************************************************************************)
Fairness ==
    /\ \A s \in Session : WF_vars(Reader(s))
    /\ WF_vars(\E s \in Session : HangUp(s))
    /\ WF_vars(WriteStdin \/ PtyResizeDone)

Spec == Init /\ [][Next]_vars /\ Fairness

------------------------------------------------------------------------------
TypeOK ==
    /\ procs \subseteq Session
    /\ kind \in [Session -> {"none", "pipe", "pty"}]
    /\ child \in [Session -> {"none", "running", "zombie", "reaped"}]
    /\ masterFd \in [Session -> BOOLEAN]
    /\ number \in [Output -> Numbers \cup {0}]
    /\ table \in [Numbers -> Output \cup {None}]
    /\ reader \in [Session -> {"none", "out", "err", "pty", "close", "wait", "remove", "gone"}]
    /\ inRead \in [Session -> Output \cup {None}]
    /\ buffer \in [File -> 0 .. Capacity]
    /\ main \in [op : {"idle", "write", "resize"}, id : Session \cup {0},
                 left : 0 .. Capacity + 1]
    /\ writes \in 0 .. MaxWrites
    /\ wrote \in [Output -> 0 .. MaxOutput]
    /\ heard \in [Session \X Output -> 0 .. MaxOutput]
    /\ exited \subseteq Session /\ killed \subseteq Session

(***************************************************************************)
(* process.write keeps using the Proc it looked up for as long as it       *)
(* blocks; the reader of the session, which deletes it, cannot get in      *)
(* between (g_mu).                                                         *)
(***************************************************************************)
WriteUsesLiveProc == main.op = "write" => main.id \in procs

(***************************************************************************)
(* A page hears process.exit of a session after all its output: what the   *)
(* child wrote into stdout and stderr before it exited is announced, as    *)
(* output of its own session and of no other.  It holds until process.kill *)
(* closes the number of a terminal that its reader still uses.             *)
(***************************************************************************)
AllOutputBeforeExit ==
    killed = {} => \A s \in exited : \A f \in Output :
        f[1] = s => buffer[f] = 0 /\ heard[<<s, f>>] = wrote[f]

OwnOutput ==
    killed = {} => \A s \in Session :
        /\ \A f \in Output : heard[<<s, f>>] > 0 => f[1] = s
        /\ StartsRead(s) => table[number[Stream(s)]] = Stream(s)

(***************************************************************************)
(* The exit of a child is announced and its session leaves the registry,   *)
(* unless process.write is blocked for ever by a child that does not read: *)
(* a write delays the end, and when it has returned the claim holds again. *)
(***************************************************************************)
SessionEnds ==
    []<>(\/ \A s \in Session :
              child[s] \in {"zombie", "reaped"} => s \in exited /\ s \notin procs
         \/ main.op = "write" \/ killed # {})

(***************************************************************************)
(* The main thread is not held up by a process that is gone: process.write *)
(* to a child that exits comes back, also when the pipe was full.  (A      *)
(* terminal's number may stand for another terminal by then.)              *)
(***************************************************************************)
WriteReturns ==
    []<>~(main.op = "write" /\ kind[main.id] = "pipe" /\ child[main.id] # "running")

\* What a session writes is read, whole and by nobody else, before its end
\* is announced.
OutputIsWhole == AllOutputBeforeExit /\ OwnOutput

\* No session and no call stays for ever because of a child that has gone.
ProcessesComeToAnEnd == SessionEnds /\ WriteReturns

(***************************************************************************)
(* module.cpp: "PTY: cerrar el master termina la sesión".                  *)
(***************************************************************************)
ClosingMasterEndsSession == \A s \in Session : s \in killed ~> s \in exited

(***************************************************************************)
(* A child is not blocked for ever on a stream the reader has not come to. *)
(***************************************************************************)
ChildIsDrained ==
    \A f \in Output : buffer[f] = Capacity ~> buffer[f] < Capacity \/ killed # {}

(***************************************************************************)
(* What is written to a session goes to its own child.                     *)
(***************************************************************************)
WritesToOwnChild == main.op = "write" => Input(main.id) \in {<<main.id, "in">>, None}

(***************************************************************************)
(* process.ptyResize does not use a Proc that the reader has deleted.      *)
(***************************************************************************)
ResizeUsesLiveProc == main.op = "resize" => main.id \in procs
==============================================================================
