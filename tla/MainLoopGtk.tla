---------------------------- MODULE MainLoopGtk ----------------------------
(***************************************************************************)
(* The GTK main loop of the kernel (src/src/Core/App_linux.cpp): the queue *)
(* behind App::Post, its drain from a GLib idle source, and PlatformQuit.  *)
(*                                                                         *)
(* PlatformPost has two steps another thread can see: the push under       *)
(* g_pendingMu, then g_idle_add_full after the unlock.  OnIdle takes the   *)
(* whole queue under the lock (its local `batch') and runs the callbacks   *)
(* of the batch one after another; GLib dispatches nothing else on the     *)
(* main thread meanwhile, but the callbacks themselves may post.           *)
(***************************************************************************)
EXTENDS Naturals, Sequences

CONSTANTS Main,       \* the main thread
          Workers,    \* background threads (watchers, PTY and pipe readers)
          MaxPosts    \* bound: callbacks each thread posts

ASSUME MainAssumption == Main \notin Workers
ASSUME MaxPostsAssumption == MaxPosts \in Nat \ {0}

Threads == Workers \cup {Main}

VARIABLES
    pending,          \* g_pending
    batch,            \* OnIdle's local queue; <<>> outside OnIdle
    sources,          \* OnIdle idle sources installed in the main context
    pc,               \* pc[t] = "pushed" between the push and g_idle_add_full
    quitting,         \* the idle source of PlatformQuit is installed
    looping,          \* gtk_main has not returned
    posted,           \* posted[t]: callbacks t has pushed
    ran               \* history: callbacks run, in order

vars == <<pending, batch, sources, pc, quitting, looping, posted, ran>>

Callback == Threads \X (1 .. MaxPosts)

Init ==
    /\ pending = <<>>
    /\ batch = <<>>
    /\ sources = 0
    /\ pc = [t \in Threads |-> "idle"]
    /\ quitting = FALSE
    /\ looping = TRUE
    /\ posted = [t \in Threads |-> 0]
    /\ ran = <<>>

(***************************************************************************)
(* PlatformPost                                                            *)
(***************************************************************************)
\* Fault: the callback is queued before it has its number.
PushUnnumbered(t) ==
    /\ pc[t] = "idle"
    /\ t = Main => looping
    /\ posted[t] < MaxPosts
    /\ posted' = [posted EXCEPT ![t] = @ + 1]
    /\ pending' = Append(pending, <<t, posted[t]>>)
    /\ pc' = [pc EXCEPT ![t] = "pushed"]
    /\ UNCHANGED <<batch, sources, quitting, looping, ran>>

Push(t) ==
    /\ pc[t] = "idle"
    /\ t = Main => looping
    /\ posted[t] < MaxPosts
    /\ posted' = [posted EXCEPT ![t] = @ + 1]
    /\ pending' = Append(pending, <<t, posted'[t]>>)
    /\ pc' = [pc EXCEPT ![t] = "pushed"]
    /\ UNCHANGED <<batch, sources, quitting, looping, ran>>

\* Fault: a source is installed only for the callback that found the queue
\* empty, but that is looked up after g_pendingMu was released.
AddIdleIfFirst(t) ==
    /\ pc[t] = "pushed"
    /\ sources' = IF Len(pending) = 1 THEN sources + 1 ELSE sources
    /\ pc' = [pc EXCEPT ![t] = "idle"]
    /\ UNCHANGED <<pending, batch, quitting, looping, posted, ran>>

AddIdle(t) ==
    /\ pc[t] = "pushed"
    /\ sources' = sources + 1
    /\ pc' = [pc EXCEPT ![t] = "idle"]
    /\ UNCHANGED <<pending, batch, quitting, looping, posted, ran>>

(***************************************************************************)
(* OnIdle.  It always returns G_SOURCE_CONTINUE: `sources' never falls.    *)
(***************************************************************************)
MainIsFree == looping /\ pc[Main] = "idle"

OnIdle ==
    /\ MainIsFree
    /\ batch = <<>>
    /\ sources > 0
    /\ pending # <<>>
    /\ batch' = pending
    /\ pending' = <<>>
    /\ UNCHANGED <<sources, pc, quitting, looping, posted, ran>>

\* Fault: a callback that runs ends the drain (an exception that escapes fn()):
\* the rest of the batch is dropped with the local queue.
RunCallbackDropsRest ==
    /\ MainIsFree
    /\ batch # <<>>
    /\ ran' = Append(ran, Head(batch))
    /\ batch' = <<>>
    /\ UNCHANGED <<pending, sources, pc, quitting, looping, posted>>

RunCallback ==
    /\ MainIsFree
    /\ batch # <<>>
    /\ ran' = Append(ran, Head(batch))
    /\ batch' = Tail(batch)
    /\ UNCHANGED <<pending, sources, pc, quitting, looping, posted>>

(***************************************************************************)
(* PlatformQuit, from any thread, and the idle source it installs.         *)
(***************************************************************************)
RequestQuit ==
    /\ looping
    /\ ~quitting
    /\ quitting' = TRUE
    /\ UNCHANGED <<pending, batch, sources, pc, looping, posted, ran>>

GtkMainQuit ==
    /\ MainIsFree
    /\ batch = <<>>
    /\ quitting
    /\ looping' = FALSE
    /\ UNCHANGED <<pending, batch, sources, pc, quitting, posted, ran>>

Next ==
    \/ \E t \in Threads : Push(t) \/ AddIdle(t)
    \/ OnIdle
    \/ RunCallback
    \/ RequestQuit
    \/ GtkMainQuit

(***************************************************************************)
(* A posting thread finishes its call; the main context dispatches a ready *)
(* source.  Nobody is obliged to post or to quit.                          *)
(***************************************************************************)
Fairness ==
    /\ \A t \in Threads : WF_vars(AddIdle(t))
    /\ WF_vars(OnIdle)
    /\ WF_vars(RunCallback)

Spec == Init /\ [][Next]_vars /\ Fairness

-----------------------------------------------------------------------------
TypeOK ==
    /\ pending \in Seq(Callback)
    /\ batch \in Seq(Callback)
    /\ sources \in Nat
    /\ pc \in [Threads -> {"idle", "pushed"}]
    /\ quitting \in BOOLEAN
    /\ looping \in BOOLEAN
    /\ posted \in [Threads -> 0 .. MaxPosts]
    /\ ran \in Seq(Callback)

(***************************************************************************)
(* PlatformPost pushes before it installs the source: whenever the queue   *)
(* holds a callback, a source that will drain it is installed or the       *)
(* posting thread is about to install one.  No callback is left with       *)
(* nobody to run it.                                                       *)
(***************************************************************************)
NoLostWakeup ==
    pending # <<>> => sources > 0 \/ \E t \in Threads : pc[t] = "pushed"

(***************************************************************************)
(* App::Post: a callback posted while the loop runs eventually runs,       *)
(* unless the application quits first.                                     *)
(***************************************************************************)
EventuallyRuns ==
    \A t \in Threads : \A n \in 1 .. MaxPosts :
        posted[t] >= n ~> \/ quitting
                          \/ \E k \in 1 .. Len(ran) : ran[k] = <<t, n>>

(***************************************************************************)
(* The loop implements the promise of App::Post.                           *)
(***************************************************************************)
Promise == INSTANCE PostQueue
             WITH queue <- batch \o pending, quit <- ~looping

PromiseSafety == Promise!Init /\ [][Promise!Next]_(Promise!vars)
=============================================================================
