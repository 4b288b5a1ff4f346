------------------------------ MODULE Modules ------------------------------
(***************************************************************************)
(* The modules of the kernel: the loader (src/src/Core/ModuleLoader.cpp),  *)
(* the table of functions and the calls of Dispatcher.cpp, the life of the *)
(* kernel around them (App::Main, Bootstrap), and the shared regions in    *)
(* which modules hand large results to a page (src/src/Bridge/Shm.cpp).    *)
(*                                                                         *)
(* All of it runs on the main thread, except the threads that functions    *)
(* leave behind.  A function that runs a nested main loop lets other calls *)
(* begin and end before it returns, so calls form a stack.  A key stands   *)
(* for "module/function"; a library's descriptor is the set of keys with a *)
(* name and a function, and may be missing.                                *)
(***************************************************************************)
EXTENDS Naturals, Sequences

CONSTANTS Libs,             \* the files LoadAll finds in the search paths
          Builtin,          \* the code linked into the kernel
          Keys,
          Ids,              \* bound: the ids GenId can draw
          Contents,         \* what a function puts into a region
          MaxDepth,         \* bound: calls inside calls
          MaxEvents         \* bound: events posted and not delivered

VARIABLES
    phase,                  \* "boot", "running", "unloaded", "ended"
    unread,                 \* libraries LoadAll has not come to yet
    mapped,                 \* libraries that are in memory (g_handles)
    fns,                    \* fns_: whose function a key leads to, or "none"
    calls,                  \* the calls under way, innermost last: whose code
    threads,                \* whose background threads run
    posted,                 \* events of HostEmitEvent on the main queue
    regions,                \* g_regions: id -> content, or "none"
    given                   \* history: ids handed out, with their content

moduleVars == <<phase, unread, mapped, fns, calls, threads, posted, regions, given>>

None == "none"

Init ==
    /\ phase = "boot"
    /\ unread = Libs
    /\ mapped = {}
    /\ fns = [k \in Keys |-> None]
    /\ calls = <<>> /\ threads = {} /\ posted = <<>>
    /\ regions = [i \in Ids |-> None]
    /\ given = {}

\* RegisterModule: a key that is there already changes hands.
Registered(desc, owner) == [k \in Keys |-> IF k \in desc THEN owner ELSE fns[k]]

\* RegisterStatic, and the descriptors RegisterBuiltinModules registers.
RegisterStatic ==
    /\ phase = "boot" /\ unread = Libs
    /\ \E desc \in SUBSET Keys : fns' = Registered(desc, Builtin)
    /\ UNCHANGED <<phase, unread, mapped, calls, threads, posted, regions, given>>

\* Fault: only the keys that are new count, so the code of a library that
\* replaces functions is unmapped.
KeptNew(desc) == \E k \in desc : fns[k] = None

\* count > 0: the handle is kept; otherwise the library is closed again.
Kept(desc) == desc # {}

(***************************************************************************)
(* LoadFile, for every file LoadAll finds.  A file dlopen refuses, one     *)
(* without the symbol and one without a usable descriptor register         *)
(* nothing.                                                                *)
(***************************************************************************)
LoadFile(lib) ==
    /\ phase = "boot" /\ lib \in unread
    /\ unread' = unread \ {lib}
    /\ \E desc \in SUBSET Keys :
          /\ fns' = Registered(desc, lib)
          /\ mapped' = IF Kept(desc) THEN mapped \cup {lib} ELSE mapped
    /\ UNCHANGED <<phase, calls, threads, posted, regions, given>>

\* The end of Bootstrap: the control server starts, then the main loop.
RunMainLoop ==
    /\ phase = "boot" /\ unread = {}
    /\ phase' = "running"
    /\ UNCHANGED <<unread, mapped, fns, calls, threads, posted, regions, given>>

(***************************************************************************)
(* Execute: the entry is looked up under the lock and called outside it;   *)
(* an unknown function is answered with an error, and so is one that       *)
(* throws: both leave the stack as it was.                                 *)
(***************************************************************************)
Execute(key) ==
    /\ phase = "running" /\ Len(calls) < MaxDepth
    /\ fns[key] # None
    /\ calls' = Append(calls, fns[key])
    /\ UNCHANGED <<phase, unread, mapped, fns, threads, posted, regions, given>>

Return ==
    /\ calls # <<>>
    /\ calls' = SubSeq(calls, 1, Len(calls) - 1)
    /\ UNCHANGED <<phase, unread, mapped, fns, threads, posted, regions, given>>

Running == calls[Len(calls)]

\* A watcher, a terminal or a pipe: a thread of the function's code.
StartThread ==
    /\ calls # <<>>
    /\ threads' = threads \cup {Running}
    /\ UNCHANGED <<phase, unread, mapped, fns, calls, posted, regions, given>>

EndThread(owner) ==
    /\ owner \in threads
    /\ threads' = threads \ {owner}
    /\ UNCHANGED <<phase, unread, mapped, fns, calls, posted, regions, given>>

\* HostEmitEvent posts copies of the name and the payload, and the main loop
\* delivers them: nothing of the module is read then.
HostEmitEvent(owner) ==
    /\ owner \in threads /\ Len(posted) < MaxEvents
    /\ posted' = Append(posted, owner)
    /\ UNCHANGED <<phase, unread, mapped, fns, calls, threads, regions, given>>

Deliver ==
    /\ phase = "running" /\ posted # <<>>
    /\ posted' = Tail(posted)
    /\ UNCHANGED <<phase, unread, mapped, fns, calls, threads, regions, given>>

(***************************************************************************)
(* Shm.  The file is created with O_EXCL: an id that is in use gives "".   *)
(* Nothing but the end of the process frees a region: Shutdown has no      *)
(* caller.                                                                 *)
(***************************************************************************)
\* Fault: the region's file is opened whether or not it is there.
PutOver(id, content) == regions' = [regions EXCEPT ![id] = content]

Put(id, content) == regions[id] = None /\ regions' = [regions EXCEPT ![id] = content]

PutRegion ==
    /\ calls # <<>>
    /\ \E id \in Ids, content \in Contents :
          /\ Put(id, content)
          /\ given' = given \cup {<<id, content>>}
    /\ UNCHANGED <<phase, unread, mapped, fns, calls, threads, posted>>

(***************************************************************************)
(* The end of App::Main.  The calls have returned when RunMainLoop does,   *)
(* but nobody waits for the threads.                                       *)
(***************************************************************************)
Shutdown ==
    /\ phase = "running" /\ calls = <<>>
    /\ phase' = "unloaded"
    /\ mapped' = {}
    /\ UNCHANGED <<unread, fns, calls, threads, posted, regions, given>>

StopServer ==
    /\ phase = "unloaded"
    /\ phase' = "ended"
    /\ UNCHANGED <<unread, mapped, fns, calls, threads, posted, regions, given>>

Next ==
    \/ RegisterStatic \/ RunMainLoop \/ Return \/ StartThread \/ Deliver
    \/ PutRegion \/ Shutdown \/ StopServer
    \/ \E lib \in Libs : LoadFile(lib)
    \/ \E key \in Keys : Execute(key)
    \/ \E owner \in Libs \cup {Builtin} : EndThread(owner) \/ HostEmitEvent(owner)

-----------------------------------------------------------------------------
Mapped(owner) == owner = Builtin \/ owner \in mapped

(***************************************************************************)
(* From the moment it is loaded until the main loop has ended, the code    *)
(* that anything leads to is in memory: every function of the table,       *)
(* whoever registered its key before, every call on the stack, and every   *)
(* thread a call has left behind.  (After the loop Shutdown unmaps the     *)
(* libraries under the threads that still run: see the README.)            *)
(***************************************************************************)
CodeIsMapped ==
    phase \in {"boot", "running"} =>
        /\ \A k \in Keys : fns[k] # None => Mapped(fns[k])
        /\ \A n \in 1 .. Len(calls) : Mapped(calls[n])
        /\ \A owner \in threads : Mapped(owner)

(***************************************************************************)
(* An id a module was given leads to the bytes it put, for as long as the  *)
(* kernel runs and however many regions are made after it: the page that   *)
(* is told the id may fetch it late, or twice.                             *)
(***************************************************************************)
RegionsStay == \A g \in given : regions[g[1]] = g[2]

\* What is in use does not go away.
NothingIsPulledAway == CodeIsMapped /\ RegionsStay
=============================================================================
