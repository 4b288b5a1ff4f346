---------------------------- MODULE MainLoopMac ----------------------------
(***************************************************************************)
(* The macOS main loop of the kernel (src/src/Core/App_mac.mm).  Nothing   *)
(* depends on a wake-up: a timer of 16 ms takes the whole queue and runs   *)
(* it.  PlatformQuit calls terminate:, which ends the process from inside  *)
(* RunMainLoop, so that what App::Main does after it is never done.        *)
(***************************************************************************)
EXTENDS Naturals, Sequences

CONSTANTS Main,       \* the main thread
          Workers,    \* background threads
          MaxPosts    \* bound: callbacks each thread posts

Threads == Workers \cup {Main}

VARIABLES
    pending,          \* g_pending
    batch,            \* the local queue of the timer's block
    at,               \* "run", "block" (inside the timer's block), "end"
    quitting,         \* the block of PlatformQuit is on the main queue
    posted,           \* posted[t]: callbacks t has pushed
    ran               \* history: callbacks run, in order

vars == <<pending, batch, at, quitting, posted, ran>>

Init ==
    /\ pending = <<>> /\ batch = <<>>
    /\ at = "run"
    /\ quitting = FALSE
    /\ posted = [t \in Threads |-> 0]
    /\ ran = <<>>

PlatformPost(t) ==
    /\ posted[t] < MaxPosts /\ at # "end"
    /\ posted' = [posted EXCEPT ![t] = @ + 1]
    /\ pending' = Append(pending, <<t, posted'[t]>>)
    /\ UNCHANGED <<batch, at, quitting, ran>>

Timer ==
    /\ at = "run" /\ pending # <<>>
    /\ batch' = pending /\ pending' = <<>>
    /\ at' = "block"
    /\ UNCHANGED <<quitting, posted, ran>>

RunCallback ==
    /\ at = "block" /\ batch # <<>>
    /\ ran' = Append(ran, Head(batch))
    /\ batch' = Tail(batch)
    /\ UNCHANGED <<pending, at, quitting, posted>>

EndBlock ==
    /\ at = "block" /\ batch = <<>>
    /\ at' = "run"
    /\ UNCHANGED <<pending, batch, quitting, posted, ran>>

PlatformQuit ==
    /\ ~quitting /\ at # "end"
    /\ quitting' = TRUE
    /\ UNCHANGED <<pending, batch, at, posted, ran>>

Terminate ==
    /\ quitting /\ at = "run"
    /\ at' = "end"
    /\ UNCHANGED <<pending, batch, quitting, posted, ran>>

Next ==
    \/ \E t \in Threads : PlatformPost(t)
    \/ Timer \/ RunCallback \/ EndBlock \/ PlatformQuit \/ Terminate

\* The timer fires, and a block that has begun goes on.
Fairness == WF_vars(Timer) /\ WF_vars(RunCallback) /\ WF_vars(EndBlock)

Spec == Init /\ [][Next]_vars /\ Fairness

-----------------------------------------------------------------------------
Callback == Threads \X (1 .. MaxPosts)

TypeOK ==
    /\ pending \in Seq(Callback) /\ batch \in Seq(Callback) /\ ran \in Seq(Callback)
    /\ at \in {"run", "block", "end"}
    /\ quitting \in BOOLEAN
    /\ posted \in [Threads -> 0 .. MaxPosts]
=============================================================================
