# Owear: a verification project

TLA+ models of the Owear kernel (C++: `src/src`, native modules `src/api`, Node
SDK `src/packages/core`), the TLC configurations that check them, and TLAPS
proofs of their main properties. Paths below are relative to the repository;
`Core/…`, `Window/…` and so on are under `src/src`, `api/…` under `src/api`.

## 1. Inventory

An Owear application is one kernel process (the main thread runs GTK, Win32 or
Cocoa), a Node sidecar that drives it over a local socket, and pages in
webviews that call native modules. Everything that touches a window runs on the
main thread; other threads (watchers, readers of pipes and terminals, the reader
of the named pipe) reach it only through `App::Post`.

| Part | State it keeps | Operations | Talks to |
|---|---|---|---|
| Main loop (`Core/App*`) | `g_pending` under a mutex, idle sources, thread messages or a timer | `PlatformPost`, `OnIdle` / `DrainPending`, `PlatformDelay`, `PlatformQuit` | every thread that posts |
| Window (`Window/Window_common.cpp`) | outbox, `outboxScheduled`, close request and its flags, `alive` flag | `EmitToJS`, `FlushOutbox`, `BeginCloseFlow`, `CloseTimerFired`, `RespondJsClose`, `PDestroy` | main loop, webview, control server |
| Native window (`Window/window_linux.cpp`, `_win.cpp`, `_mac.mm`, `Core/WindowModule.cpp`) | the toolkit's window, `pdata->fullscreen`, `HwndMap` / `WindowMap` | minimise, maximise, full screen, show, move, drag, title, close | window manager, SDK |
| Window registry and events (`Control/ControlServer.cpp`) | `LiveWindows` (raw pointers), listeners | `window.*` commands, `WireWindowEvents` | windows, SDK |
| Bridge (`Bridge/*.cpp`) | per document: `nextId`, `pending`; kernel: dispatch table | `ow.invoke`, `ow.emit`, `_apply`, `_batch`, `Dispatcher::Execute` | page, modules |
| Control channel (`Control/ControlServer_*`, `packages/core/src/index.ts`) | clients and their buffers; SDK: pending calls | `OnReadable` / reader thread, `HandleLine`, `WriteAll`, `call`, `handleLine` | SDK, kernel |
| Modules (`Core/ModuleLoader.cpp`, `Bridge/Dispatcher.cpp`, `Bridge/Shm.cpp`) | handles of libraries, function table, regions | load, register, execute, `HostEmitEvent`, `Shutdown` | main loop |
| Webviews (`Webview/*`) | the view, its init scripts, the asset root | create, navigate, evaluate, serve `app://` | pages |
| Session and extras (`api/session`, `api/window`) | `g_downloads`, find controllers | cookies, site data, downloads, captures, `findInPage`, setters | WebKit, nested loops |
| Node runtime (`Runtime/NodeManager*`, `Http`, `TarGz`) | cache directory | index, pick, download, verify, extract, spawn | file system, network |
| Processes and terminals (`api/process`) | registry of sessions under `g_mu`, reader threads | `spawn`, `ptyOpen`, `write`, `kill`, `ptyResize`, `list` | children, main loop |
| File watchers (`api/fs/src/watch`) | inotify descriptor, batch, watch descriptors | `watch`, `unwatch`, reader thread | file system, main loop |
| Files (`api/fs/src`) | streams by number | `open`, `read`, `write`, `size`, `close`, `readFile`, `writeFile`, … | file system |
| App module (`api/app`) | single-instance lock socket | `requestSingleInstanceLock`, `quit`, `relaunch` | other instances |
| Updater (`api/updater`) | manifest, downloaded file | check, download, verify, install | network, the program file |
| JSON, base64, codec (`include/ow`, `Bridge/Codec.cpp`) | none | parse, write, look up, encode | everything |
| Desktop modules (`api/clipboard`, `dialog`, `menu`, `tray`, …) | little or none | one desktop call each | GTK, nested loops |

Hard behaviours: posts of several threads that race with the drain; Win32 modal
loops that swallow wake-ups; timers of requests that have been answered; a window
whose native side is gone while its object is still there; what a window was asked
for and becomes later; results that come in another order than the calls, from
nested loops, or after the document has been replaced; a non-blocking socket that
fills; ends of the channel that go away with calls in flight; batches that wait for
more; readers that block; crashes in the middle of an extraction or an update;
two processes on one cache or one lock; input cut anywhere. `PROJECT.json` lists
them line by line under "hazards".

What makes the parts correct: a posted callback runs once, in order, and never
waits without a wake-up; a window closes for a reason, once, and its object is
deleted once, after it has left `LiveWindows`; the SDK knows what a window is; an
operation for a page is delivered once, in order; a call settles once, with its
own result; a call of the SDK is answered or rejected; a runtime that is started
and a program that is replaced are whole; what is written, sent or packed is read,
received and unpacked as it was.

## 2. Modules

Abstract specifications, which say what a part promises:

- `PostQueue`: what `App::Post` promises. A FIFO of callbacks that each run once.
  `MainLoopGtk` and `MainLoopWin` implement it, and `MainLoopMac` by the mapping of
  `MainLoopWin`, whose variables it has.
- `CloseContract`: one window from the user's point of view: open, asking, gone,
  and why it went; a request is decided in the end. `CloseVeto` and every window
  of `WindowLifecycle` implement it.
- `EventChannel`: a FIFO channel into a page that loses and repeats nothing.
  `Outbox` implements it.
- `RpcContract`: calls that run at most once and settle at most once, after they
  ran. `Bridge` (while the document stays) and `ControlChannel` implement it.

Detailed specifications:

| Module | Code | State and actions |
|---|---|---|
| `MainLoopGtk` | `Core/App_linux.cpp` | `Push` and `AddIdle` are the two halves of `PlatformPost`, before and after the unlock; `OnIdle` swaps the queue, `RunCallback` runs one callback of the batch. `sources` never falls: `OnIdle` returns `G_SOURCE_CONTINUE`. |
| `MainLoopWin` | `Core/App_win.cpp` | `Push` decides under the lock whether to wake; `PostPump` posts `kWmOwPump` after it; `EnterModal`, `ModalSwallowsPump`, `LeaveModal` are a modal loop inside `DispatchMessageW`; the drain follows every message. |
| `MainLoopMac` | `Core/App_mac.mm` | `Timer` takes the whole queue every 16 ms; `terminate:` ends the process from inside the loop. |
| `CloseVeto` | `Window_common.cpp` 238–280 | One window, one action per handler. `life` separates the GTK window from the C++ object. A timer carries no request in the code; `timers` says whose it was, for the properties only. |
| `Outbox` | `Window_common.cpp` 173–234 | An emission has three visible steps: `EnqueueOp`, `ScheduleFlush` (test and set in one critical section), `PostFlush`. |
| `WindowLifecycle` | `ControlServer.cpp`, `Window_common.cpp`, `window_linux.cpp`, `ModuleLoader.cpp` | The composition: several windows, the registry, the close flow, outboxes (as counters), posted callbacks run in batches, timers between the batches, what is sent to the SDK. `PDestroy` contains the whole "destroy" signal: closed listener, line to the SDK, posted deletion, event to the outbox. |
| `NativeWindow` | `window_linux.cpp`, `window_win.cpp`, `window_mac.mm`, `WindowModule.cpp`, `HandleCommand` | One window on any of three platforms. GTK passes requests on (`asked`) and hears of them later (`notices`); AppKit animates full screen; Win32 sends messages from inside the call. |
| `Session` | `session_builtin.cpp`, `window_extra.cpp`, `BuiltinUtil*` | Calls that wait in a loop of their own form a stack; `turn` alternates one dispatch of the main context with what the innermost loop does after it; windows end at any moment; downloads and their ids. |
| `Bridge` | `BridgeScript.cpp`, `Window_common.cpp` 60–157, `Dispatcher.cpp`, `BuiltinUtil.hpp` | Pages call, the kernel executes plain functions at once and modal ones in nested loops (`stack`), answers go back directly or through the outbox; time-outs, a new document, deletion of the window. |
| `ControlChannel` | `index.ts`, `ControlServer_linux.cpp`, `ControlServer.cpp` | SDK, socket and kernel. A line is two units so that half a line can be written; `Capacity` is the room in the socket; the SDK gets chunks, and continuations run after a chunk. |
| `IoServer` | `ControlServer_win.cpp`, `ControlServer_mac.mm` | The servers with input on a thread: accepting, reading half lines, posting, answering by client id, stopping. `Platform` chooses pipe or socket. |
| `Modules` | `ModuleLoader.cpp`, `Dispatcher.cpp`, `Shm.cpp`, `App::Main` | Libraries loaded and registered one after another, a table in which a later library takes a key over, calls within calls, threads left behind, events posted, regions given to pages, the order of the shutdown. |
| `NodeCache` | `NodeManager.cpp`, `NodeManager_linux.cpp`, `Bootstrap` | `Ensure` cut where a crash or another kernel finds a different directory. `bin/node` comes first in the archive, then its data, then the rest. |
| `Releases` | `NodeManager.cpp`, `updater.cpp` | `FetchIndex`, `SemverCompare`, `Pick` as operators, with the reference order of versions. |
| `Http` | `Http.cpp` | `Perform` with redirects, one request per hop, `Dechunk` over cells, the two downloads. A connection may end anywhere. |
| `TarGz` | `TarGz.cpp` | The parser as a state machine over blocks, fed with chunks of any size; long names, padding, unsafe paths, archives that are cut. |
| `Json`, `Codec` | `minjson.hpp`, `Base64.h`, `Codec.cpp` | Parser and writer on bytes, as operators with a position and a depth; base64; the messages of the bridge. |
| `SyncCalls` | `WebKitGTKBackend.cpp` (the scheme `ow-sync`), `BridgeScript.cpp` (`invokeSync`) | How a synchronous call is read from its URL, how its answer is written, and what the page makes of it, as operators. |
| `Webviews` | `WebKitGTKBackend.cpp`, `Webview2Backend.cpp`, `WKWebviewBackend.mm` | Creation (deferred on Windows), the first navigation, init scripts, evaluation, the files of `app://` with the path handling of each platform. |
| `FsHandles` | `basic.cpp`, `meta.cpp`, `handles.cpp` | One directory of files, links and directories; handles with their stream position, what is held, what was read ahead, and the failed state; other programs write the same files. |
| `SingleInstance` | `app_builtin.cpp` 60–150 | The instances run side by side and meet in the file system: each system call is a step. |
| `Updater` | `updater.cpp`, `updater_platform_linux.cpp` | Check, download, verification, replacement by rename or by copy, and a crash between any two steps; another instance uses the same download name. |
| `Processes` | `api/process/src` (Linux) | Two kinds of sessions, their children and reader threads, and the table of descriptors: a reader keeps its number, and the number may come to stand for something else. `process.write` holds `g_mu` while it blocks, so it spans many steps. |
| `FsWatch` | `api/fs/src/watch` (inotify) | Watchers, their readers and batches, and a tree that changes at any moment; readers search the map of watchers while it changes. |

Some actions come with variants under a comment that begins with "Fault:": the
code with one plausible mistake. No specification uses them. Putting such a
variant in the place of the action must break the property it is meant for,
which shows that the property looks at something.

### Modules for TLC

Six `MC*` modules put the components that belong together side by side:
`MCMainLoop` (the three loops), `MCChannels` (`Outbox`, `Bridge`,
`ControlChannel`, `IoServer` twice), `MCWindows` (`CloseVeto`, `WindowLifecycle` as
`W`, `Session` as `S`, `NativeWindow` as `N`, `Webviews` as `V`), `MCNatives`
(`Processes`, `FsWatch` as `F`, `FsHandles` as `H`), `MCStartup` (`NodeCache`
with what it uses: `Releases` as `R`, `Http` as `H`, `TarGz` as `T`; `SingleInstance`,
`Updater`, `Modules`) and `MCFormats` (`SyncCalls` with `Codec` and `Json`).
Each of them EXTENDS one component and INSTANCEs the others with variables
of their own. The variable `scenario` is chosen in the initial state and says
which component a behaviour is about; the others keep still, in a state in which
their fairness owes them no step. So the state space is the sum of the components'
spaces, not their product, a run's properties are those of all its components,
and its temporal properties hold under the fairness each component has alone. A
property of an instance has an alias of the same name in the MC module.

Components that do interact are composed in one module instead: `WindowLifecycle`
has the windows with the registry, the post queue, the outboxes and the SDK's
lines; `Bridge` has page, kernel and outbox; `ControlChannel` has both ends.

## 3. Runs

| Run | Bounds | What it shows |
|---|---|---|
| `main_loop` | GTK: main thread and `Workers` 2; Win32 and macOS: `FewWorkers` 1; `MaxPosts` 2 per thread; `MaxInput` 2 | No wake-up is lost; callbacks run once, in the order of the pushes; all run before the end (on macOS only if the process is not ended first). Two posts per thread are the smallest number with a push during a drain after an earlier drain; two workers race with each other and with the main thread; two input messages allow a modal loop before and after a wake-up. |
| `channels` | `Emitters` 2, `MaxOps` 2; `BridgeCalls` 2 in each of `MaxLoads` 2 documents, one frame, all `Kinds`; `SdkCalls` 3, `MaxEvents` 1, `Capacity` 10; `Clients` 2, `MaxLines` 2 | Outbox: no operation waits without a flush, FIFO into the page. Bridge: while the document stays results reach their own promises and a promise settles once; a plain call settles also while dialogs stay open. SDK: a call is executed and settled at most once, and answered or rejected in the end. Threaded servers: lines are handled in order, answers go to who asked, `Stop` returns. With `Capacity` 10 the socket does not fill (three calls, an event and the end of the window are fewer units): what happens when it does is in section 5. Two clients are what an id could be confused between. |
| `windows` | `MaxRequests` 4, `StrayIds` {3}; `MaxWindows` 2, `CloseRequests` 1, `MaxEvents` 1, `PageEvents` own and forwarded; `SessionWindows` 1, `SessionCalls` 3, `MaxDownloads` 1, `Setters` {icon}, `FindGuard` 2, `FindStable` 1; `Platforms` all three, `NativeCalls` 3; `MaxAsked` 2, roots, files and requests as listed in `MCWindows` | Close flow: a request in flight has its own timer; the window goes for the reason of its last request; the contract with its liveness. Registry: deferred callbacks never touch a deleted object, the SDK sees created, events, closed, and every object is deleted. Session: WebKit answers no frame that has returned; one entry per download. Native windows: the SDK knows the state when nothing is under way, and on GTK the last request wins. Views: no document starts without its scripts, and of the addresses asked for the last is shown, however late the controller comes; `app://` serves files whose names are below the root and nothing else. An answer for an id not given out yet is in the bounds; two windows are needed for a batch that holds callbacks of a window an earlier callback deletes; three nested calls show a middle one that is answered first; `FindGuard` and `FindStable` stand for 300 and 10: the loop ends by either; the requests have a host and two parts, `..` and a name with two dots in it among them. |
| `natives` | `MaxSessions` 2, `Numbers` 3, `Capacity` 1 unit, `MaxOutput` 1 per stream, `MaxWrites` 1 of two units; `MaxWatchers` 2, `MaxChanges` 2, `BatchLimit` 1; `Paths` 2, `MaxFiles` 3, `MaxLength` 3, `Threshold` 2, `MaxHandles` 2, `MaxCalls` 4 | Processes: all output of a child is announced before its exit and under its own session; the session leaves the registry, never while `process.write` uses it; a write to a child that is gone returns. Watchers: nothing reported is lost, repeated or overtaken; `unwatch` returns, after the thread; a new directory comes to be watched. Files: reads of a handle follow one another and get what is there. Three numbers for two sessions make numbers come back; a write longer than the pipe blocks. Two watchers tear each other's search of the map; a batch of two is flushed for its size. Two names and three files let a name come to stand for another file while it is open. |
| `startup` | `Kernels` 2, `MaxVersion` 2, `MaxMishaps` 1 (a crash or a lost write); `Instances` 2; `MaxUpdates` 3; `Libs` 2, `Keys` 2, `Ids` 2, `Contents` 2, `MaxDepth` 2, `MaxEvents` 1; indexes of up to two releases, seven ranges, addresses, bodies of up to three chunks and archives of up to three entries, of which the disk takes all or only the beginning, as listed in `MCStartup`; `kBlock` 2 (512) | A sidecar fails to start only from an extraction that a crash cut, another kernel ran into, or that went on after a write was lost, and a failed attempt never stands in the way of the next; an instance that reached another is announced to it; whatever step of an update fails, the program file is no part of a file, and without another instance's download in between it is the old program or what was downloaded, the announced one if it was checked; the code of every function, call and thread is mapped while the loop runs, and regions keep their bytes; the newest release asked for is picked (an exact version asks for its major line); a download is what was sent; an archive unpacks to what its whole entries hold, as far as the disk takes it, however it is cut into chunks. Two versions let a newer release come between an attempt and the next; two regions and two libraries are what one can replace another's; two releases can be in either order, and three chunks have a border before and after one; a block of two cells has a border inside. |
| `formats` | texts of up to four pieces, values nested up to and beyond `kMaxDepth` 3 (128 in the code), `MaxIntegral` 120 (2^53), `IdBits` 16 (64), `WindowBits` 8 (32), as listed in `MCFormats` | What is written is read: JSON without fractions, base64, the messages of the bridge, the calls of `ow-sync` with the id -1 and their answers, be they a result, an error or the refusal of a text that is no call. Depth 3 is reached and exceeded by the texts; 1e2 is below `MaxIntegral` and 1.5e2 above it. |
| `close_veto_stale_timer`, `window_close_request_sdk`, `builtin_events`, `bridge_stale_result`, `json_fractions`, `http_last_header` | the scenario concerned, the same bounds | Counterexamples: section 5. |

All runs have `CHECK_DEADLOCK FALSE`: the systems may stop (the application
ends, the window is deleted, an input has been read, the bounds of the inputs are
reached), and what must not stop is stated as liveness. Every bound is a CONSTANT
named in its module. The type invariants (`TypeOK`) of `Outbox`, `Bridge`,
`ControlChannel`, `CloseVeto`, `WindowLifecycle`, `Processes` and `FsWatch`, and
`OneFlushPerTick`, `SettledOnce`, `OwnResultWithoutReload`, `LiveIsUsable`,
`DeletedExactlyOnce`, `QuietChangeIsAnnounced` and `AnnouncedOnce`, hold on the
same bounds when they are added to a `.cfg`; the runs keep the properties that
imply most.

### Fairness

- A thread that has begun a call of `App::Post` or an emission finishes it:
  threads are not suspended for ever between an unlock and the next statement.
- The main context dispatches a ready source (`OnIdle`, timers, sockets):
  GLib polls every source; the `OnIdle` sources have `G_PRIORITY_HIGH_IDLE`
  (`Core/App_linux.cpp:51`), below the default priority of sockets and timers, and no
  source of the kernel with a higher priority is always ready.
- Win32: the loop takes messages, the user ends a modal loop, and a message
  does not open modal loops for ever (strong fairness of `DrainPending`). macOS:
  the timer fires.
- WebKit runs the scripts it is given, calls back and answers the requests of
  `Session`; a loop whose condition holds is left.
- Node handles the data of its socket. A reader thread runs, and closing a pipe
  ends the call that waits on it.
- The window manager does what a window asks for and tells it (no policy that
  refuses).
- System calls that can return do; a child whose terminal has no master gets its
  SIGHUP; time passes between two flushes of a watcher.
- `NodeCache`: a kernel that runs goes on; the network and the disk recover at
  some point, after which nothing crashes and no write is lost; after a failed start the user starts again. Without the last two
  nothing could be promised, and they are exactly the premise of the property.
- `SingleInstance`: a call that has begun goes on, a main loop serves its sources.
- Nobody is obliged to post, call, answer, close, type, download or crash.
  Time-outs of `ow.invoke` have no fairness: calls must settle without them.

### Assumed of the outside

GLib dispatches one handler at a time on the main thread, except in nested
loops; WebKit evaluates scripts and delivers messages in order; WebView2 performs
what its controller is asked in order, so that scripts added before a navigation
are there when its document starts; Win32 modal loops take thread messages from
the queue and give them to no window; a Unix socket keeps the order of bytes and
reports HUP with the last data; GIO has SIGPIPE ignored (the kernel does not do it
itself), so a write to a child or a client that is gone fails and does not end the
process; two archives with one SHA-256 are equal.

## 4. Proofs

TLAPS proves what follows for every value of the constants, within the assumptions
named. Each result has the same argument: an inductive invariant that implies the
property, preserved by every action; a refinement shows besides that each step is a
step of the abstract specification or none. The actions of a module have a lemma
each where they are long. `Induction` holds what several modules need: induction
over the natural numbers and over the prefixes of a sequence, each for a set instead
of a predicate, and what a fold computes, by that induction. Theorems about a component of an `MC*` module are about
the component's own specification (`S!Spec`, or `Init` and `[][Next]` where it has no
other), not about the composition.

| Module | Theorems | Inductive invariant, and why it is needed |
|---|---|---|
| `MainLoopProofs` | `LoopTypeCorrect`, `WakeupNeverLost`, `LoopKeepsPromise` (GTK); `WinWakeupNeverLost`, `WinKeepsPromise`; `MacKeepsPromise` | GTK: the types and `NoLostWakeup`, inductive because `sources` never falls. Win32: a queue that is not empty has its wake-up posted, a thread that is about to post it, or a drain that follows the message being dispatched; that covers the wake-up a modal loop swallows. macOS: outside a block the batch is empty. The contract's queue is `batch \o pending`. |
| `ChannelsProofs` | `OutboxTypeCorrect`, `FlushNeverLost`, `OneFlushAtATime`, `OutboxImplementsChannel` | `FlagInv`: the flag is set exactly while a flush is posted or about to be, and at most one is. Without the count neither property is inductive. |
| | `PipeAnswersItsClients`, `SocketAnswersItsClients` | `IoInv`: an id is given to one client; what a client has written, what is in its stream, what the reader holds of it and what was posted are one sequence. The pipe and the socket differ in who may come again (`WinFresh`, `MacFresh`). |
| | `SdkCallsKeepContract` | `ChannelInv`: an open call is either pending in the SDK or settled; its command is in one place only (the socket or the lines), and an answer belongs to a command that ran, however half lines are cut. |
| | `PageCallsKeepContract`, `ResultsFindTheirCall` | `BridgeInv`: in the first document a message is under way once and never after its execution, and what nested loops, the outbox and the page's queue hold are results of executed calls. |
| `WindowsProofs` | `TypeCorrect`, `PendingAlwaysTimed`, `VerdictsDecide`, `VerdictsAreFinal`, `ImplementsContractSafety` (`CloseVeto`) | `BookInv` ties the request in flight to the last number, the flag `jsCloseResponded` and the timers; `VerdictInv` adds what is known of every number. |
| | `AnswersFindTheirFrame`, `DownloadsHaveOneId` (`Session`) | `CallsInv`: every open request of WebKit has a frame on the stack, and no frame with an open request is done. `DownloadsInv`: a context has at most one handler, ids are given once, and lead to downloads that run. |
| | `SdkKnowsWindow` (`NativeWindow`) | `NativeInv`, by platform: on GTK the last notice under way is the window's state, and with none the SDK knows it; on macOS this is so when no animation runs; on Windows full screen is never entered. |
| | `DocumentsLoadWhole` (`Webviews`) | `ViewInv`: while the controller of Windows is not there, both scripts are queued in order and the handler and root are kept; once it is, they are in the view before the navigation. The address kept for later is the one asked for last, and what the view has loaded was. |
| | `AppServesItsRoot` (`Webviews`) | A theorem about names: there are no symbolic links in the module. `RootInv`: the root that is registered is one of `Roots`. The rest is about the walk that `lexically_normal` takes over the components: by induction over them, its result has `..` only in front, and walking a path that begins with another goes on from the end of the other's walk. So a full path that has the root as a prefix stays below it when it is seen from the current directory. |
| `WindowLifecycleProofs` | `WindowsTypeCorrect`, `LiveWindowsUsable`, `NeverUsedAfterDelete`, `SdkSeesLifeInOrder`, `ObjectsDeletedOnce`, `WindowsKeepContract` | A window is in `LiveWindows` exactly while it is up; a destroyed one has exactly one deletion posted, in the queue or the batch, before which no callback of it stays that would use the object unguarded. Each window implements `CloseContract`, by the close flow's own invariant for all windows at once. |
| `ProcessesProofs` | `ProcessesTypeCorrect`, `WrittenProcStays`, `OutputStaysWhole` | The stage of a reader says what is open and counted; numbers of descriptors stand for one file each, and a reader's for its own, until `process.kill` closes a terminal (`Undisturbed`): from then on the code lets a reader read another session's file. |
| `NativesProofs` | `WatchTypeCorrect`, `ReadersKeepTheirWatcher`, `ChangesNeverLost` | A reader runs only for a watcher of the map; what `read` returned is worked off before the next read; nothing is reported before the start. |
| | `HandlesReadWhatIsThere` (`FsHandles`) | `FsInv`: a handle stays with the file it opened, whatever becomes of the name, and a stream that has not failed stands where the program's next byte is. |
| `StartupProofs` | `SidecarStarts` (`NodeCache`) | `CacheInv`: of an untainted release (no crash, no other kernel, no lost write during its extraction) at most one kernel is inside the tree, others that picked it have not looked, and the tree has what that kernel's step says. |
| | `ProgramIsWhole` (`Updater`) | `UpdateInv`: a history of who wrote the download last (`origin`) and the program file (`exeOrigin`); a download that counts as checked is the announced program or has become the program file; the copy takes its place only when whole. |
| | `NothingInUseGoes` (`Modules`) | The property with its types is inductive: a library leaves memory only in `Shutdown`, after the loop. |
| | `NewestIsPicked` (`Releases`, in the composition) | The index is a sequence of entries. By induction over its prefixes, the best so far is an eligible release no eligible one before it is newer than; `SemverCompare` is shown to be the order number by number of what it reads of any two versions, and the prefix test of `Pick` to be the comparison of major versions. |
| | `DownloadsAreTrue` (`Http`) | `HttpInv`: once the headers are read, the body is right for the cells that arrived. By induction over its turns, after `k` turns the loop of `Dechunk` has taken `k` whole chunks, or is over. |
| | `AnyChunksAreAsGood` (`TarGz`) | `TarInv`: the parser is where the cells fed so far bring it from the start. By induction over the second of two chunks, feeding both is feeding their concatenation. |
| | `ArchivesUnpackWhole` (`TarGz`) | `Reach`, by induction over the cells: after `n` of them the parser is in the header of an entry, in its blocks or in the zeros at the end, knows a long name just when the entry before gave one, and the files are those of the entries so far, each up to the first cell the disk refused (`Extracted`). With `TarInv` that is where any chunks bring it; a success was reached between two entries or in the zeros. |

### Assumptions

The bounds are natural numbers; where a module declares that (`MainLoopGtk`, `Outbox`,
`CloseVeto`, `Processes`), TLC evaluates it in the run, and elsewhere it is a
hypothesis of the theorem. The others, each stated in the theorem:

- `0 \notin StrayIds` (`VerdictsDecide`, `VerdictsAreFinal`,
  `ImplementsContractSafety`): nobody answers the request 0. With such an answer the
  code does close a window nobody asked to close (`AnswerNeedsRequest`, section 5).
- `NoPageCloses` (`WindowLifecycleProofs`): pages use no event named `closed`. With
  one, a window leaves the registry while it is up (`ClosedMeansGone`).
- `OneFrame` (`PageCallsKeepContract`, `ResultsFindTheirCall`): the page has one
  frame, and the theorems speak of its first document. Ids start again in each
  document and frame, and results are found by id alone (`bridge_stale_result`).
- `PathsAssumption` (`AppServesItsRoot`): the current directory and the names of files
  are absolute and normal, as the system gives them; a host and a path in a URL are
  relative; a root has a component that is not `..`; the names with two dots in a row (`Dotted`) are names, `..` among them. The last is what the theorem
  needs of the application (see below).
- `IndexesAssumption` (`NewestIsPicked`): an index is a sequence of entries, a range a text.
  `BodiesAssumption` (`DownloadsAreTrue`): a body is any number of chunks of one to nine
  bytes, because the model gives the size of a chunk one cell (the code reads any
  number of hexadecimal digits). `ArchivesAssumption` (`AnyChunksAreAsGood`,
  `ArchivesUnpackWhole`): blocks are not empty, sizes and what the disk takes are natural numbers, a file has a
  name and a long name with data is not empty (`Begin` of a file without one fails to
  open it, which the model counts among the unsafe names). TLC evaluates these and `PathsAssumption` in the runs.
- `NoClient \notin Clients`, `M!None \notin Contents`: the value that stands for none
  is no client, or no content. `Platforms` has no member but the three.

### What the proofs found

The invariant of `FsHandles` could not be shown inductive as the module was first
written: a read did not write out the bytes a stream opened for writing alone
holds, and the program's place after a read of old bytes was not the stream's. Both
were errors of the model; it was corrected from `handles.cpp`.

`ServedFromRoot` is false for an asset root made of nothing but `..`: the way from such
a root to a file above it is written with more `..`, so the root is a prefix of it. That is an assumption on `Roots`
now: the default is `./dist`, a directory with a name.

`SameForAnyChunks` speaks of an extraction that has ended and is not inductive. Two facts
carry it: the whole state of the parser is independent of the borders
(`BordersDoNotMatter`, which no run needs to check because it is proved), and, for one
chunk, `Reach`. Both the invariant and the property were first checked by TLC on archives
of up to three entries. The property had allowed a success at any block
border behind the last entry; `Reach` shows that only none, one, or two and more blocks
of zeros can have come, which is what it says now.

`PicksNewest` once took the code's own test for the meaning of a range. Stated of what a
range asks for instead, it is false for an exact version and for an `lts` that says
false; the property now says what holds, and the two claims are in section 5. `ProgramStaysWhole`
needs to know who wrote the download: another instance may truncate it between the
check and the rename.

### Only model-checked

- Liveness: `EventuallyRuns`, `EventuallySettled`, `AnsweredOrRejected`,
  `StopReturns`, `EventuallyDeleted`, `ProcessesComeToAnEnd`, `WatchesProgress`,
  `RuntimeEventually`, `HandedOver`, `LastRequestWins`, and the fair half of
  `ImplementsContract` of `CloseVeto` and of `OthersKeepPromise`. TLAPS does not
  reach fairness.
- `WhatIsWrittenIsRead`: `Json`, `Codec`, `SyncCalls` and `MCFormats` are written with
  RECURSIVE operators, which the provers cannot use. (`Releases`, `Http` and
  `TarGz` have recursive functions and folds instead.)
- The module `SingleInstance`, whose property is liveness.

## 5. Known divergences between code and documents

Shown by a run:

- `close_veto_stale_timer`: `CloseTimerFired` does not know its request.
- `window_close_request_sdk`: `closeRequested` never reaches the SDK.
- `builtin_events`: every event of a builtin module is dropped on Linux, because
  `Host()` takes a null context for no host.
- `bridge_stale_result`: ids of calls restart in every document.
- `json_fractions`: `Value(double)` forgets its argument.
- `http_last_header`: the last header is lost, and with it chunked framing.

Stated in a module and violated there. To see one, put the property in the place
of the others in the `.cfg` of its run (under an alias that names the instance),
with the changed constant where one is given:

| Property | Run's `.cfg` | What the code does |
|---|---|---|
| `CloseVeto!DestroyedOnce` | `MCWindows` | A timer between `Destroy` and the posted deletion destroys the GTK window again: the alive flag is cleared by `~Impl` only. |
| `CloseVeto!AnswerNeedsRequest` | `MCWindows`, `StrayIds` {0, 3} | An answer for the request 0 closes a window when none is pending (`Window_p.hpp:73`, "0 = sin petición pendiente"). |
| `WindowLifecycle!NoEvalOnDeadView` | `MCWindows` | A flush posted before `Destroy` runs after it and evaluates in the destroyed webview. |
| `WindowLifecycle!ClosedMeansGone` | `MCWindows`, `PageEvents` with closed | An event of a page named `closed` reaches the kernel's own listener: the SDK is told of the end of a window that is up. |
| `Session!GivenToAttached` | `MCWindows`, `SessionWindows` 2 | A download goes to the newest window, attached or not (`session_builtin.cpp:316`). |
| `Session!FindsInLiveView` | `MCWindows` | `findInPage` goes on with a view that ended while it waited. |
| `NativeWindow!ClosedIsTold` | `MCWindows` | On Windows and macOS the map is cleared before the listeners run: the SDK hears no `closed` and `LiveWindows` keeps the window. |
| `NativeWindow!UnansweredReachSystem` | `MCWindows` | On Windows `origProc` is `OwWndProc` itself: a message it does not answer recurses without end. |
| `ControlChannel!NoLostAnswer` | `MCChannels`, `Capacity` 3 | `WriteAll` drops what a full socket refuses, in the middle of a line. |
| `ControlChannel!EventsAreHeard` | `MCChannels` | Events in the chunk of the answer to `window.create` come before the listeners. |
| `Processes!ChildIsDrained` | `MCNatives`, `MaxOutput` 2 | A child that fills stderr waits for the end of its own stdout. |
| `Processes!ClosingMasterEndsSession` | `MCNatives` | The reader blocked in `read` keeps the terminal open (`module.cpp:140`, "PTY: cerrar el master termina la sesión"). |
| `Processes!ResizeUsesLiveProc` | `MCNatives` | `ptyResize` uses a session without `g_mu`. |
| `FsWatch!EveryChangeIsAnnounced` | `MCNatives` | The last changes of a burst wait for the next change (`watch.cpp:61`, "emite cada ~50 ms"): the loop skips the flush when nothing can be read. |
| `FsWatch!RecursiveSeesAll` | `MCNatives` | Changes in a directory before it is watched are not seen (`watch_linux.cpp:109`). |
| `FsWatch!RegistryStillWhileRead` | `MCNatives` | `Get` searches the map of watchers without `g_mu`. |
| `SingleInstance!OneHolder` | `MCStartup` | The lock path is unlinked before the bind: two instances are both told to be the first. |
| `Updater!InstallsOwnDownload` | `MCStartup` | The name of the download is fixed: another instance that truncates it after the check makes `installAndRelaunch` install an empty program (`docs/ROADMAP.md`, "manifest+semver+sha256+replace atómico"). |
| `TarGz!FailureIsReported` | `MCStartup` | `file_.write` and `close` are not looked at (`TarGz.cpp:97`, `:104`): a full disk is a success with truncated files (`TarGz.hpp:14`, "Devuelve false y `error` en fallo"). |
| `Releases!ExactIsPicked` | `MCStartup`, as `R!ExactIsPicked(index, <<VV, 1, Dot, 0, Dot, 9>>)` | v1.0.9 picks v1.3.0, though v1.0.9 is in the index (`NodeManager.cpp:121`, "exacto o prefijo de major"). |
| `Releases!FalseIsNotLongTerm` | `MCStartup`, as `R!FalseIsNotLongTerm(index)` | An `lts` that says false counts as long-term (`NodeManager.cpp:78`, "lts es codename string cuando aplica, null si no"); nodejs.org writes false. |
| `FsHandles!ReadsFollowAfterEnd` | `MCNatives` | A read that met the end of the file leaves the stream failed for good. |
| `FsHandles!SizeIsOfBytes` | `MCNatives` | `readFile` takes the size before the read; the file may change in between. |
| `Webviews!NoEvalIsLost` | `MCWindows` | On Windows an evaluation before the controller is there is dropped, and `window.eval` is never answered. |
| `Webviews!ViewOutlivesItsCallback` | `MCWindows` | On Windows the callback of the creation holds a raw pointer to the backend. |
| `Webviews!ViewFillsWindow` | `MCWindows` | On Windows a resize before the controller is there is forgotten. |

Of the fs watcher's promise the part that holds is `QuietChangeIsAnnounced`.

Also violated: calls of a frame have ids of their own and are
answered in the main document (`Bridge!OwnResultWithoutReload` with two `Frames`); a
handler that comes back from a nested loop uses a window that may have been
deleted in it (`Bridge!HandlersOutliveNoWindow`); between the reader's close of the master and the
removal of the session, `process.write` goes to whatever has the number by then
(`Processes!WritesToOwnChild`).

Noticed while reading, with no property:

- Comments: `Window_common.cpp:9`, `ControlServer.cpp:106` and `index.ts:276` say
  300 ms for the close time-out whose default is 1000.
- Bridge: `HandleInternalInvoke` refuses every function of `ow-window` but the two
  drags (`docs/API.md:141` says only the drags are intercepted) and looks for the
  edge of a resize in an object, though the arguments are an array, so the edge is
  always the bottom right; `window.eval` encodes its JSON twice on Linux and
  Windows and takes a result with the text `owError` for a failure; the body of an
  `ow-sync` response is a local string; `ow-shm` and `ow-sync` are registered on
  Linux only.
- Windows: `BeginCloseFlow` never returns true; `setBounds` takes missing fields
  for 0; on macOS both `PMaximize` and `PUnmaximize` toggle the zoom.
- Loop: `App::Quit`'s exit code is dropped; the idle sources that `OnIdle` keeps make
  the main context spin; on macOS `terminate:` skips `Shutdown` and `Stop`;
  `shm::Shutdown` has no caller.
- Servers: the client is inserted in `ControlServer_win.cpp:148` without `sendMu_`.
- Runtime: a runtime whose extraction lost a write counts as installed for good, because
  `bin/node` exists (`NodeManager.cpp:181`); a truncated body is a successful download; a location that is not
  absolute is refused; the updater sets the permissions after the rename.
- Archives: the size of an entry is rounded up to whole blocks before the data is
  written, so files get the padding too.
- Processes: between `waitpid` and `Remove` a session is registered with a pid
  that may be another's; nothing closes the write end of a child's standard input
  (`registry.hpp:71`).
- Session: the calls without a window use the default context, while every view has
  one of its own.
- Webviews: an asset root written `./dist`, or with a slash at its end, refuses
  every file (`WebKitGTKBackend.cpp:219`; `docs/API.md:328` gives `./dist` as the
  default); `app://index.html` loses its host on macOS,
  which also refuses a file whose name has two dots in a row (`WKWebviewBackend.mm:62`).
- Control channel: when the sidecar writes a command and exits, the hang-up
  arrives with the last data and the data is dropped unread
  (`ControlServer_linux.cpp:144`).

## 6. Not modelled

`PROJECT.json` gives the reason for each part. In short:

- Variants of modelled parts that hand the work to another API: `spawn_win`,
  `spawn_mac`, `pty_win`, `pty_mac`, `watch_win`, `watch_mac`, the Windows and
  macOS halves of the updater and of `NodeManager`, `PlatformDelay`'s threads on
  Win32.
- Calls of a library with no state of the program's: desktop modules, title bar
  styles, bounds queries, vibrancy, zoom, printing, dev tools, `mkdtemp`,
  `utimes`.
- `Sha256` (arithmetic with test vectors), the crash reporter (one write from a
  signal handler), the log, the command line and the build plugin.
- Inside modelled parts: the nested execution of `ow.invokeSync`, `event.emit` of
  the SDK, several clients of the Linux socket, integers beyond 64 bits in `Json`,
  symbolic links below an asset root, an error of a downloaded file that shows only
  when its stream is closed.

## 7. Plan

Done, in this order: main loops, close flow, outbox, window registry, bridge,
control channel, processes, watchers; then the start and the end of the kernel
(`NodeCache`, `SingleInstance`, `Updater`, `Modules`), what is read and written
(`Json`, `Codec`, `Releases`, `Http`, `TarGz`, `Webviews`, `FsHandles`), the
windows on three platforms (`NativeWindow`), the builtins that wait (`Session`), the
macOS loop and the threaded servers (`MainLoopMac`, `IoServer`).

Next:

1. Proofs: that a GTK window nothing asks
   any more is as it was last asked to be; type correctness of the modules that
   have none yet; the bridge with several frames; `OneFlushPerTick` and the outboxes of
   `WindowLifecycle`; a chunk's size of several cells in `Http`.
2. Compositions: `ControlChannel` over the queue of `MainLoopGtk`; the bridge over
   `Outbox` itself instead of a queue; `NativeWindow` with `CloseVeto`.
3. The backends of watchers and processes on Windows and macOS.
