----------------------------- MODULE PostQueue -----------------------------
(***************************************************************************)
(* What App::Post promises (include/ow/App.h, "Encola una devolución en el *)
(* main loop (thread-safe)"), whatever the platform: callbacks posted by   *)
(* any thread run one at a time, in the order they were accepted, each     *)
(* exactly once, for as long as the main loop runs.                        *)
(*                                                                         *)
(* A callback is a pair <<thread, number>>: the number-th one its thread   *)
(* posted.  All three main loops are shown to implement this module.       *)
(***************************************************************************)
EXTENDS Naturals, Sequences

CONSTANTS Threads,    \* threads that post, the main one included
          MaxPosts    \* bound: callbacks each thread posts

VARIABLES
    queue,            \* accepted callbacks that have not run, oldest first
    ran,              \* callbacks that have run, in order
    posted,           \* posted[t]: how many callbacks t has posted
    quit              \* the loop has ended

vars == <<queue, ran, posted, quit>>

Init ==
    /\ queue = <<>>
    /\ ran = <<>>
    /\ posted = [t \in Threads |-> 0]
    /\ quit = FALSE

Post(t) ==
    /\ posted[t] < MaxPosts
    /\ posted' = [posted EXCEPT ![t] = @ + 1]
    /\ queue' = Append(queue, <<t, posted'[t]>>)
    /\ UNCHANGED <<ran, quit>>

Run ==
    /\ ~quit
    /\ queue # <<>>
    /\ ran' = Append(ran, Head(queue))
    /\ queue' = Tail(queue)
    /\ UNCHANGED <<posted, quit>>

Quit ==
    /\ ~quit
    /\ quit' = TRUE
    /\ UNCHANGED <<queue, ran, posted>>

Next == (\E t \in Threads : Post(t)) \/ Run \/ Quit

Spec == Init /\ [][Next]_vars /\ WF_vars(Run)
=============================================================================
