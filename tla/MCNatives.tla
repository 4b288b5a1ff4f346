----------------------------- MODULE MCNatives -----------------------------
(***************************************************************************)
(* The native modules process and fs, for TLC: two sessions, of pipes or   *)
(* of a terminal, pipes of one unit, children that write more than fits    *)
(* and a write that is longer than the pipe (Processes); two watchers of   *)
(* one tree (FsWatch); and two names for three files, with handles and     *)
(* other programs that write (FsHandles).  `scenario' says which a         *)
(* behaviour runs; the others stay in an initial state, where they are     *)
(* owed no step.                                                           *)
(***************************************************************************)
EXTENDS Processes

CONSTANTS MaxWatchers, MaxChanges, BatchLimit,
          Paths, MaxFiles, MaxLength, Threshold, MaxHandles, MaxCalls

VARIABLES scenario,
          sub, changes, watchers, recursive, stop, watched, queue, todo, batch, ripe,
          readerF, mainF, reported, announced, told,
          names, node, g_handles, g_nextId, reading, answer, opened, cursor, calls

watchVars == <<sub, changes, watchers, recursive, stop, watched, queue, todo, batch, ripe,
               readerF, mainF, reported, announced, told>>
fileVars == <<names, node, g_handles, g_nextId, reading, answer, opened, cursor, calls>>

F == INSTANCE FsWatch WITH reader <- readerF, main <- mainF
H == INSTANCE FsHandles

AllNext ==
    \/ scenario = "process" /\ Next   /\ UNCHANGED <<scenario, watchVars, fileVars>>
    \/ scenario = "watch"   /\ F!Next /\ UNCHANGED <<scenario, vars, fileVars>>
    \/ scenario = "files"   /\ H!Next /\ UNCHANGED <<scenario, vars, watchVars>>

AllInit ==
    /\ scenario \in {"process", "watch", "files"} /\ Init /\ F!Init /\ H!Init
    /\ scenario # "watch" => sub

AllSpec ==
    /\ AllInit
    /\ [][AllNext]_<<scenario, vars, watchVars, fileVars>>
    /\ Fairness /\ F!Fairness

-----------------------------------------------------------------------------
\* FsWatch: fs.unwatch destroys no Watcher whose thread still works with it.
ReaderHasWatcher == F!ReaderHasWatcher

\* FsWatch: what inotify reported is announced once each and in order.
NothingLostOrRepeated == F!NothingLostOrRepeated

\* FsWatch: fs.unwatch comes back, and a new directory comes to be watched.
WatchesProgress == F!WatchesProgress

\* FsHandles: reads of a handle get the bytes of the file it opened, in order.
ReadsFollow == H!ReadsFollow
=============================================================================
