---------------------------- MODULE EventChannel ----------------------------
(***************************************************************************)
(* What a window's outbox promises (F3.2): the operations emitted for the  *)
(* page reach it in the order they were emitted, each once, possibly       *)
(* several at a time.  Outbox is shown to implement this module.           *)
(***************************************************************************)
EXTENDS Naturals, Sequences

CONSTANT Op           \* operations: invoke results and events

VARIABLES
    inFlight,         \* emitted operations the page has not got, oldest first
    delivered         \* operations the page has got, in order

vars == <<inFlight, delivered>>

Init ==
    /\ inFlight = <<>>
    /\ delivered = <<>>

Emit(op) ==
    /\ inFlight' = Append(inFlight, op)
    /\ UNCHANGED delivered

DeliverAll ==
    /\ inFlight # <<>>
    /\ delivered' = delivered \o inFlight
    /\ inFlight' = <<>>

Next == (\E op \in Op : Emit(op)) \/ DeliverAll

Spec == Init /\ [][Next]_vars
=============================================================================
