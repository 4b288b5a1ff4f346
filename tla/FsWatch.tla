------------------------------- MODULE FsWatch -------------------------------
(***************************************************************************)
(* Watching directories on Linux (api/fs/src/watch): fs.watch and          *)
(* fs.unwatch on the main thread, one reader thread per watcher (Start),   *)
(* its batches (FlushEvents), and other programs that change the tree at   *)
(* any moment.  The tree is a directory, "root", and one inside it, "sub". *)
(*                                                                         *)
(* What is done under g_mu is one step here.  Get reads the map without    *)
(* it: a reader is "torn" when the map changed meanwhile, and what Get     *)
(* found is then anything.  A read that finds nothing changes nothing: the *)
(* reader sleeps and starts over.                                          *)
(*                                                                         *)
(* Left out: the type of an event, removal of the watched root, the events *)
(* without a name (IN_IGNORED, next to that of the removal), and calls     *)
(* that are refused before they change anything.                           *)
(***************************************************************************)
EXTENDS Naturals, Sequences

CONSTANTS MaxWatchers,  \* bound: calls of fs.watch
          MaxChanges,   \* bound: changes of the tree
          BatchLimit    \* events a batch may hold before it is flushed early

VARIABLES
    sub,        \* the directory inside root exists
    changes,    \* changes so far; a change is known by its number
    watchers,   \* g_watchers
    recursive,  \* Watcher.recursive
    stop,       \* Watcher.stop
    watched,    \* watched[w]: directories with an inotify watch of w
    queue,      \* events in the kernel, oldest first
    todo,       \* events in the buffer that read(2) filled
    batch,      \* changes gathered for the page
    ripe,       \* 50 ms have passed since lastFlush
    reader,     \* where the reader thread is
    main,       \* what the main thread is doing
    reported,   \* history: changes inotify reported
    announced,  \* history: changes announced with fs.watch
    told        \* history: recursive watchers told that sub was made

treeVars == <<sub, changes, queue, reported>>
watcherVars == <<watchers, recursive, stop>>
readerVars == <<todo, batch, ripe, announced>>
vars == <<treeVars, watcherVars, watched, readerVars, reader, main, told>>

Watcher == 1 .. MaxWatchers
Dir == {"root", "sub"}
Change == 1 .. MaxChanges
Event == [change : Change, mkdir : BOOLEAN]
Idle == [op |-> "idle", id |-> 0, dirs |-> {}]

Init ==
    /\ sub \in BOOLEAN
    /\ changes = 0
    /\ watchers = {}
    /\ recursive = [w \in Watcher |-> FALSE]
    /\ stop = [w \in Watcher |-> FALSE]
    /\ watched = [w \in Watcher |-> {}]
    /\ queue = [w \in Watcher |-> <<>>]
    /\ todo = [w \in Watcher |-> <<>>]
    /\ batch = [w \in Watcher |-> <<>>]
    /\ ripe = [w \in Watcher |-> TRUE]
    /\ reader = [w \in Watcher |-> "none"]
    /\ main = Idle
    /\ reported = [w \in Watcher |-> <<>>]
    /\ announced = [w \in Watcher |-> <<>>]
    /\ told = {}

(***************************************************************************)
(* The tree and inotify: a change in a directory is reported to those who  *)
(* watch that directory.                                                   *)
(***************************************************************************)
ChangeIn(d, mkdir) ==
    LET n == changes + 1
        e == [change |-> n, mkdir |-> mkdir] IN
    /\ n \in Change
    /\ changes' = n
    /\ queue' = [w \in Watcher |->
           IF d \in watched[w] THEN Append(queue[w], e) ELSE queue[w]]
    /\ reported' = [w \in Watcher |->
           IF d \in watched[w] THEN Append(reported[w], n) ELSE reported[w]]
    /\ UNCHANGED <<watcherVars, readerVars, reader, main>>

\* A file is made, written or removed.
TouchFile(d) ==
    /\ d = "sub" => sub
    /\ ChangeIn(d, FALSE)
    /\ UNCHANGED <<sub, watched, told>>

MakeSub ==
    /\ ~sub
    /\ ChangeIn("root", TRUE)
    /\ sub' = TRUE
    /\ told' = {w \in Watcher : recursive[w] /\ "root" \in watched[w]}
    /\ UNCHANGED watched

\* A directory that is moved in is IN_MOVED_TO, not IN_CREATE.
MoveSubIn ==
    /\ ~sub
    /\ ChangeIn("root", FALSE)
    /\ sub' = TRUE
    /\ told' = {}
    /\ UNCHANGED watched

\* The kernel drops the watch together with the directory.
RemoveSub ==
    /\ sub
    /\ ChangeIn("root", FALSE)
    /\ sub' = FALSE
    /\ told' = {}
    /\ watched' = [w \in Watcher |-> watched[w] \ {"sub"}]

(***************************************************************************)
(* The main thread.  Create and Destroy change the map under g_mu, and     *)
(* tear the readers that search it without.                                *)
(***************************************************************************)
Torn == [start |-> "tornStart", lookup |-> "tornLookup"]
Tear(rd) == [w \in Watcher |-> IF rd[w] \in DOMAIN Torn THEN Torn[rd[w]] ELSE rd[w]]

\* fs.watch: Create, and Start begins.
Watch(w, rec) ==
    /\ main = Idle
    /\ w \notin watchers /\ reader[w] = "none" /\ ~stop[w]
    /\ \A v \in Watcher : v < w => v \in watchers \/ stop[v]
    /\ watchers' = watchers \cup {w}
    /\ recursive' = [recursive EXCEPT ![w] = rec]
    /\ reader' = Tear(reader)
    /\ main' = [op |-> "walk", id |-> w, dirs |-> {}]
    /\ UNCHANGED <<treeVars, stop, watched, readerVars, told>>

WalkDirs ==
    /\ main.op = "walk"
    /\ main' = [main EXCEPT !.op = "add",
           !.dirs = {"root"} \cup (IF recursive[main.id] /\ sub THEN {"sub"} ELSE {})]
    /\ UNCHANGED <<treeVars, watcherVars, watched, readerVars, reader, told>>

\* inotify_init1 or opendir failed: the watcher is destroyed.  Its id is not
\* given out again (stop says so here).
StartFails ==
    /\ main.op = "walk"
    /\ watchers' = watchers \ {main.id}
    /\ stop' = [stop EXCEPT ![main.id] = TRUE]
    /\ reader' = Tear(reader)
    /\ main' = Idle
    /\ UNCHANGED <<treeVars, recursive, watched, readerVars, told>>

\* A directory that is gone by now has no watch, and nobody asks.
AddWatches ==
    /\ main.op = "add"
    /\ watched' = [watched EXCEPT ![main.id] =
           IF sub THEN main.dirs ELSE main.dirs \ {"sub"}]
    /\ reader' = [reader EXCEPT ![main.id] = "start"]
    /\ main' = Idle
    /\ UNCHANGED <<treeVars, watcherVars, readerVars, told>>

\* Fault: Stop does not wait for the thread.
UnwatchNoJoin(w) ==
    /\ main = Idle
    /\ w \in watchers
    /\ stop' = [stop EXCEPT ![w] = TRUE]
    /\ watchers' = watchers \ {w}
    /\ UNCHANGED <<treeVars, recursive, watched, readerVars, reader, main, told>>

\* fs.unwatch: Stop, which waits for the thread.
Unwatch(w) ==
    /\ main = Idle
    /\ w \in watchers
    /\ stop' = [stop EXCEPT ![w] = TRUE]
    /\ main' = [op |-> "join", id |-> w, dirs |-> {}]
    /\ UNCHANGED <<treeVars, watchers, recursive, watched, readerVars, reader, told>>

\* The thread is over: Destroy.
Joined ==
    /\ main.op = "join"
    /\ reader[main.id] = "done"
    /\ watchers' = watchers \ {main.id}
    /\ reader' = Tear(reader)
    /\ main' = Idle
    /\ UNCHANGED <<treeVars, recursive, stop, watched, readerVars, told>>

(***************************************************************************)
(* The reader thread of w.                                                 *)
(***************************************************************************)
\* The loop is over: the inotify descriptor is closed.
Leave(w) ==
    /\ reader' = [reader EXCEPT ![w] = "done"]
    /\ watched' = [watched EXCEPT ![w] = {}]
    /\ queue' = [queue EXCEPT ![w] = <<>>]
    /\ told' = told \ {w}
    /\ UNCHANGED <<sub, changes, reported, watcherVars, readerVars, main>>

GetSelf(w) ==
    /\ reader[w] \in {"start", "tornStart"}
    /\ reader' = [reader EXCEPT ![w] = "poll"]
    /\ UNCHANGED <<treeVars, watcherVars, watched, readerVars, main, told>>

\* Get found nothing in a map that changed under it.
GetSelfTorn(w) == reader[w] = "tornStart" /\ Leave(w)

StopReader(w) == reader[w] = "poll" /\ stop[w] /\ Leave(w)

ReadEvents(w) ==
    /\ reader[w] = "poll" /\ ~stop[w]
    /\ queue[w] # <<>>
    /\ todo' = [todo EXCEPT ![w] = queue[w]]
    /\ queue' = [queue EXCEPT ![w] = <<>>]
    /\ reader' = [reader EXCEPT ![w] = "process"]
    /\ UNCHANGED <<sub, changes, reported, watcherVars, watched, batch, ripe, announced, main, told>>

PushEvent(w) ==
    /\ batch' = [batch EXCEPT ![w] = Append(@, Head(todo[w]).change)]
    /\ todo' = [todo EXCEPT ![w] = Tail(@)]
    /\ reader' = [reader EXCEPT ![w] = IF Len(todo[w]) = 1 THEN "flush" ELSE "process"]
    /\ UNCHANGED <<treeVars, watcherVars, ripe, announced, main>>

\* Fault: directories that are made later are not watched.
ProcessEventFlat(w) ==
    /\ reader[w] = "process"
    /\ PushEvent(w)
    /\ UNCHANGED <<watched, told>>

ProcessEvent(w) ==
    /\ reader[w] = "process"
    /\ IF Head(todo[w]).mkdir
       THEN /\ reader' = [reader EXCEPT ![w] = "lookup"]
            /\ UNCHANGED <<treeVars, watcherVars, readerVars, main>>
       ELSE PushEvent(w)
    /\ UNCHANGED <<watched, told>>

\* A directory was made: a recursive watcher watches it too, if it is there.
WatchNewDir(w) ==
    /\ reader[w] \in {"lookup", "tornLookup"}
    /\ watched' = [watched EXCEPT ![w] =
           IF recursive[w] /\ sub THEN @ \cup {"sub"} ELSE @]
    /\ PushEvent(w)
    /\ UNCHANGED told

WatchNewDirTorn(w) ==
    /\ reader[w] = "tornLookup"
    /\ told' = told \ {w}
    /\ PushEvent(w)
    /\ UNCHANGED watched

\* Fault: a batch waits for its limit.
FlushIsDueFull(w) == Len(batch[w]) > BatchLimit

FlushIsDue(w) == ripe[w] \/ Len(batch[w]) > BatchLimit

\* Fault: what was announced stays in the batch.
FlushEventsKeeps(w) ==
    /\ reader[w] = "flush"
    /\ reader' = [reader EXCEPT ![w] = "poll"]
    /\ IF FlushIsDue(w) /\ w \in watchers
       THEN /\ announced' = [announced EXCEPT ![w] = @ \o batch[w]]
            /\ ripe' = [ripe EXCEPT ![w] = FALSE]
       ELSE UNCHANGED <<announced, ripe>>
    /\ UNCHANGED <<treeVars, watcherVars, watched, todo, batch, main, told>>

\* Fault: fs.unwatch waits for the thread with g_mu held.
FlushEventsLocked(w) ==
    /\ reader[w] = "flush"
    /\ main.op # "join"
    /\ reader' = [reader EXCEPT ![w] = "poll"]
    /\ IF FlushIsDue(w) /\ w \in watchers
       THEN /\ announced' = [announced EXCEPT ![w] = @ \o batch[w]]
            /\ batch' = [batch EXCEPT ![w] = <<>>]
            /\ ripe' = [ripe EXCEPT ![w] = FALSE]
       ELSE UNCHANGED <<announced, batch, ripe>>
    /\ UNCHANGED <<treeVars, watcherVars, watched, todo, main, told>>

\* The end of one turn of the loop.  lastFlush is set also when FlushEvents
\* finds no watcher and returns.
FlushEvents(w) ==
    /\ reader[w] = "flush"
    /\ reader' = [reader EXCEPT ![w] = "poll"]
    /\ ripe' = IF FlushIsDue(w) THEN [ripe EXCEPT ![w] = FALSE] ELSE ripe
    /\ IF FlushIsDue(w) /\ w \in watchers
       THEN /\ announced' = [announced EXCEPT ![w] = @ \o batch[w]]
            /\ batch' = [batch EXCEPT ![w] = <<>>]
       ELSE UNCHANGED <<announced, batch>>
    /\ UNCHANGED <<treeVars, watcherVars, watched, todo, main, told>>

Ripen(w) ==
    /\ ~ripe[w]
    /\ ripe' = [ripe EXCEPT ![w] = TRUE]
    /\ UNCHANGED <<treeVars, watcherVars, watched, todo, batch, announced, reader, main, told>>

Reader(w) ==
    /\ reader[w] \notin {"none", "done"}
    /\ \/ GetSelf(w) \/ GetSelfTorn(w) \/ StopReader(w)
       \/ ReadEvents(w) \/ ProcessEvent(w)
       \/ WatchNewDir(w) \/ WatchNewDirTorn(w)
       \/ FlushEvents(w)

Next ==
    \/ \E d \in Dir : TouchFile(d)
    \/ MakeSub \/ MoveSubIn \/ RemoveSub
    \/ \E w \in Watcher, rec \in BOOLEAN : Watch(w, rec)
    \/ WalkDirs \/ StartFails \/ AddWatches
    \/ \E w \in Watcher : Unwatch(w) \/ Reader(w) \/ Ripen(w)
    \/ Joined

(***************************************************************************)
(* The threads run and time passes.                                        *)
(***************************************************************************)
Fairness ==
    /\ \A w \in Watcher : WF_vars(Reader(w)) /\ WF_vars(Ripen(w))
    /\ WF_vars(WalkDirs \/ AddWatches \/ Joined)

Spec == Init /\ [][Next]_vars /\ Fairness

------------------------------------------------------------------------------
TypeOK ==
    /\ sub \in BOOLEAN /\ changes \in 0 .. MaxChanges
    /\ watchers \subseteq Watcher /\ told \subseteq Watcher
    /\ recursive \in [Watcher -> BOOLEAN] /\ stop \in [Watcher -> BOOLEAN]
    /\ watched \in [Watcher -> SUBSET Dir]
    /\ queue \in [Watcher -> Seq(Event)] /\ todo \in [Watcher -> Seq(Event)]
    /\ batch \in [Watcher -> Seq(Change)] /\ ripe \in [Watcher -> BOOLEAN]
    /\ reader \in [Watcher -> {"none", "start", "tornStart", "poll", "process",
                               "lookup", "tornLookup", "flush", "done"}]
    /\ main \in [op : {"idle", "walk", "add", "join"}, id : Watcher \cup {0}, dirs : SUBSET Dir]
    /\ reported \in [Watcher -> Seq(Change)] /\ announced \in [Watcher -> Seq(Change)]

Runs(w) == reader[w] \notin {"none", "done"}
Changes(events) == [i \in DOMAIN events |-> events[i].change]

(***************************************************************************)
(* A reader works with the Watcher it found once, so fs.unwatch must not   *)
(* destroy it before the thread is over: Stop joins.                       *)
(***************************************************************************)
ReaderHasWatcher == \A w \in Watcher : Runs(w) => w \in watchers

(***************************************************************************)
(* While the reader runs, what inotify reported is announced or on its way *)
(* to the page, each change once and in order; a flush repeats nothing.    *)
(***************************************************************************)
NothingLostOrRepeated ==
    \A w \in Watcher : Runs(w) =>
        announced[w] \o batch[w] \o Changes(todo[w]) \o Changes(queue[w]) = reported[w]

(***************************************************************************)
(* fs.unwatch comes back: the reader it waits for is never itself waiting  *)
(* for the main thread, also in the middle of a flush.                     *)
(***************************************************************************)
UnwatchReturns == []<>(main.op # "join")

(***************************************************************************)
(* A directory made in a tree that is watched recursively comes to be      *)
(* watched, unless it is gone first, the watch ends, or Get was torn: no   *)
(* watcher is told of one and for ever without it.                         *)
(***************************************************************************)
NewDirIsWatched ==
    []<>(\A w \in Watcher : w \in told => "sub" \in watched[w] \/ stop[w])

\* Neither the function unwatch nor a recursive watch stops half-way.
WatchesProgress == UnwatchReturns /\ NewDirIsWatched

(***************************************************************************)
(* A change that comes 50 ms after the last flush or later is announced    *)
(* without waiting for another one.                                        *)
(***************************************************************************)
QuietChangeIsAnnounced ==
    \A w \in Watcher : \A n \in Change :
        reader[w] = "poll" /\ ripe[w] /\ queue[w] # <<>> /\ Len(reported[w]) = n
            ~> Len(announced[w]) >= n \/ stop[w]

(***************************************************************************)
(* watch.cpp: "acumula eventos por watcher y emite cada ~50 ms".  Every    *)
(* change that was read is announced in the end.                           *)
(***************************************************************************)
EveryChangeIsAnnounced ==
    \A w \in Watcher : \A n \in Change :
        Runs(w) /\ Len(reported[w]) = n ~> Len(announced[w]) >= n \/ ~Runs(w) \/ stop[w]

(***************************************************************************)
(* watch_linux.cpp: "recursivo: nuevo directorio → vigilarlo también".     *)
(* A recursive watcher is told of every change in the tree.                *)
(***************************************************************************)
RecursiveSeesAll ==
    [][\A w \in Watcher :
         changes' # changes /\ recursive[w] /\ "root" \in watched[w]
            => reported'[w] # reported[w]]_vars

(***************************************************************************)
(* Nobody changes the map of watchers while a thread searches it.          *)
(***************************************************************************)
RegistryStillWhileRead ==
    [][watchers' # watchers =>
         \A w \in Watcher : reader[w] \notin {"start", "lookup"}]_vars
==============================================================================
