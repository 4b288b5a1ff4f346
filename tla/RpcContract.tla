---------------------------- MODULE RpcContract ----------------------------
(***************************************************************************)
(* What ow.invoke promises a page (docs/BRIDGE.md, "Promise; rechaza con   *)
(* Error(message)"): a call is executed at most once, its promise settles  *)
(* at most once, with its own result or with the time-out of 30 s, and a   *)
(* result is there only after the execution.  A page that goes away takes  *)
(* its promises with it.                                                   *)
(***************************************************************************)
EXTENDS Naturals

CONSTANT Call         \* the calls of all the pages

VARIABLES
    promise,          \* promise[c]: "none", "waiting", "settled", "timeout", "dropped"
    executed          \* calls the kernel has begun to execute

vars == <<promise, executed>>

Init ==
    /\ promise = [c \in Call |-> "none"]
    /\ executed = {}

Move(S, from, to) ==
    /\ S # {}
    /\ \A c \in S : promise[c] = from
    /\ promise' = [c \in Call |-> IF c \in S THEN to ELSE promise[c]]

Invoke(c) ==
    /\ Move({c}, "none", "waiting")
    /\ UNCHANGED executed

Execute(c) ==
    /\ promise[c] # "none"
    /\ c \notin executed
    /\ executed' = executed \cup {c}
    /\ UNCHANGED promise

Settle(S) ==
    /\ S \subseteq executed
    /\ Move(S, "waiting", "settled")
    /\ UNCHANGED executed

TimeOut(c) ==
    /\ Move({c}, "waiting", "timeout")
    /\ UNCHANGED executed

Unload(S) ==
    /\ Move(S, "waiting", "dropped")
    /\ UNCHANGED executed

Next ==
    \/ \E c \in Call : Invoke(c) \/ Execute(c) \/ TimeOut(c)
    \/ \E S \in SUBSET Call : Settle(S) \/ Unload(S)

Spec == Init /\ [][Next]_vars
=============================================================================
