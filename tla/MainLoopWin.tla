---------------------------- MODULE MainLoopWin ----------------------------
(***************************************************************************)
(* The Win32 main loop of the kernel (src/src/Core/App_win.cpp).           *)
(*                                                                         *)
(* PlatformPost wakes the main thread only when it found the queue empty:  *)
(* the test is made under g_pendingMu, the thread message kWmOwPump is     *)
(* posted after the unlock.  RunMainLoop drains the queue after EVERY      *)
(* message it dispatches, whatever the message was.  A message whose       *)
(* handler runs a modal loop (moving or resizing a window, a dialog) keeps *)
(* the main thread inside DispatchMessageW; the modal loop takes thread    *)
(* messages out of the queue and dispatches them to no window, so a        *)
(* kWmOwPump that arrives meanwhile is swallowed.                          *)
(***************************************************************************)
EXTENDS Naturals, Sequences

CONSTANTS Main,       \* the main thread
          Workers,    \* background threads (transport, watchers, pipe readers)
          MaxPosts,   \* bound: callbacks each thread posts
          MaxInput    \* bound: input and system messages

Threads == Workers \cup {Main}

VARIABLES
    pending,          \* g_pending
    batch,            \* DrainPending's local queue
    msgs,             \* thread messages posted to the main thread, in order
    input,            \* window messages received so far
    at,               \* where the main thread is in RunMainLoop
    pc,               \* pc[t] = "wake" between the unlock and PostThreadMessageW
    quitting,         \* PlatformQuit has been called
    posted,           \* posted[t]: callbacks t has pushed
    ran               \* history: callbacks run, in order

vars == <<pending, batch, msgs, input, at, pc, quitting, posted, ran>>

Init ==
    /\ pending = <<>>
    /\ batch = <<>>
    /\ msgs = <<>>
    /\ input = 0
    /\ at = "get"
    /\ pc = [t \in Threads |-> "idle"]
    /\ quitting = FALSE
    /\ posted = [t \in Threads |-> 0]
    /\ ran = <<>>

(***************************************************************************)
(* PlatformPost.  The main thread posts from the handlers it dispatches    *)
(* and from the callbacks it runs.                                         *)
(***************************************************************************)
Push(t) ==
    /\ pc[t] = "idle"
    /\ t = Main => at \in {"dispatch", "modal", "drain"}
    /\ posted[t] < MaxPosts
    /\ posted' = [posted EXCEPT ![t] = @ + 1]
    /\ pending' = Append(pending, <<t, posted'[t]>>)
    /\ pc' = [pc EXCEPT ![t] = IF pending = <<>> THEN "wake" ELSE "idle"]
    /\ UNCHANGED <<batch, msgs, input, at, quitting, ran>>

PostPump(t) ==
    /\ pc[t] = "wake"
    /\ msgs' = Append(msgs, "pump")
    /\ pc' = [pc EXCEPT ![t] = "idle"]
    /\ UNCHANGED <<pending, batch, input, at, quitting, posted, ran>>

PlatformQuit ==
    /\ ~quitting
    /\ quitting' = TRUE
    /\ msgs' = Append(msgs, "quit")
    /\ UNCHANGED <<pending, batch, input, at, pc, posted, ran>>

(***************************************************************************)
(* RunMainLoop                                                             *)
(***************************************************************************)
MainIsFree == pc[Main] = "idle"

GetPump ==
    /\ at = "get"
    /\ msgs # <<>> /\ Head(msgs) = "pump"
    /\ msgs' = Tail(msgs)
    /\ at' = "dispatch"
    /\ UNCHANGED <<pending, batch, input, pc, quitting, posted, ran>>

GetInput ==
    /\ at = "get"
    /\ input < MaxInput
    /\ input' = input + 1
    /\ at' = "dispatch"
    /\ UNCHANGED <<pending, batch, msgs, pc, quitting, posted, ran>>

GetQuit ==
    /\ at = "get"
    /\ msgs # <<>> /\ Head(msgs) = "quit"
    /\ at' = "end"
    /\ UNCHANGED <<pending, batch, msgs, input, pc, quitting, posted, ran>>

EnterModal ==
    /\ at = "dispatch" /\ MainIsFree
    /\ at' = "modal"
    /\ UNCHANGED <<pending, batch, msgs, input, pc, quitting, posted, ran>>

ModalSwallowsPump ==
    /\ at = "modal"
    /\ msgs # <<>> /\ Head(msgs) = "pump"
    /\ msgs' = Tail(msgs)
    /\ UNCHANGED <<pending, batch, input, at, pc, quitting, posted, ran>>

\* Fault: the message that ran a modal loop is not followed by a drain.
LeaveModalNoDrain ==
    /\ at = "modal" /\ MainIsFree
    /\ at' = "get"
    /\ UNCHANGED <<pending, batch, msgs, input, pc, quitting, posted, ran>>

LeaveModal ==
    /\ at = "modal" /\ MainIsFree
    /\ at' = "dispatch"
    /\ UNCHANGED <<pending, batch, msgs, input, pc, quitting, posted, ran>>

(***************************************************************************)
(* DrainPending: swap under the lock, then run the batch.                  *)
(***************************************************************************)
DrainPending ==
    /\ at = "dispatch" /\ MainIsFree
    /\ batch' = pending
    /\ pending' = <<>>
    /\ at' = "drain"
    /\ UNCHANGED <<msgs, input, pc, quitting, posted, ran>>

\* Fault: the callback is run from the front of the batch without popping it.
RunCallbackNoPop ==
    /\ at = "drain" /\ MainIsFree
    /\ batch # <<>>
    /\ ran' = Append(ran, Head(batch))
    /\ UNCHANGED <<pending, batch, msgs, input, at, pc, quitting, posted>>

RunCallback ==
    /\ at = "drain" /\ MainIsFree
    /\ batch # <<>>
    /\ ran' = Append(ran, Head(batch))
    /\ batch' = Tail(batch)
    /\ UNCHANGED <<pending, msgs, input, at, pc, quitting, posted>>

EndDrain ==
    /\ at = "drain" /\ MainIsFree
    /\ batch = <<>>
    /\ at' = "get"
    /\ UNCHANGED <<pending, batch, msgs, input, pc, quitting, posted, ran>>

LoopStep ==
    \/ GetPump \/ GetInput \/ GetQuit
    \/ EnterModal \/ ModalSwallowsPump \/ LeaveModal
    \/ DrainPending \/ RunCallback \/ EndDrain

Next == (\E t \in Threads : Push(t) \/ PostPump(t)) \/ PlatformQuit \/ LoopStep

(***************************************************************************)
(* A posting thread finishes its call; the loop takes and handles the      *)
(* messages; the user ends every modal loop, and one message does not open *)
(* modal loops for ever (strong fairness of DrainPending).  Nobody need    *)
(* post, type or quit.                                                     *)
(***************************************************************************)
Fairness ==
    /\ \A t \in Threads : WF_vars(PostPump(t))
    /\ WF_vars(GetPump) /\ WF_vars(GetQuit)
    /\ WF_vars(LeaveModal) /\ SF_vars(DrainPending)
    /\ WF_vars(RunCallback) /\ WF_vars(EndDrain)

Spec == Init /\ [][Next]_vars /\ Fairness

-----------------------------------------------------------------------------
Callback == Threads \X (1 .. MaxPosts)

TypeOK ==
    /\ pending \in Seq(Callback) /\ batch \in Seq(Callback) /\ ran \in Seq(Callback)
    /\ msgs \in Seq({"pump", "quit"})
    /\ input \in Nat
    /\ at \in {"get", "dispatch", "modal", "drain", "end"}
    /\ pc \in [Threads -> {"idle", "wake"}]
    /\ quitting \in BOOLEAN
    /\ posted \in [Threads -> 0 .. MaxPosts]

(***************************************************************************)
(* "solo despierta si la cola estaba vacía" (App_win.cpp) loses no         *)
(* callback: while the main thread waits in GetMessageW, or drains an      *)
(* earlier batch, a non-empty queue has a kWmOwPump on its way, even if    *)
(* modal loops swallowed others.                                           *)
(***************************************************************************)
PumpOnItsWay ==
    \/ \E k \in 1 .. Len(msgs) : msgs[k] = "pump"
    \/ \E t \in Threads : pc[t] = "wake"

NoLostWakeup ==
    pending # <<>> /\ at \in {"get", "drain"} => PumpOnItsWay

(***************************************************************************)
(* App::Post: a callback posted eventually runs, unless the application    *)
(* quits first, however the user holds the thread in modal loops.          *)
(***************************************************************************)
EventuallyRuns ==
    \A t \in Threads : \A n \in 1 .. MaxPosts :
        posted[t] >= n ~> \/ quitting
                          \/ \E k \in 1 .. Len(ran) : ran[k] = <<t, n>>

(***************************************************************************)
(* The loop implements the promise of App::Post.                           *)
(***************************************************************************)
Promise == INSTANCE PostQueue
             WITH queue <- batch \o pending, quit <- (at = "end")

PromiseSafety == Promise!Init /\ [][Promise!Next]_(Promise!vars)
=============================================================================
