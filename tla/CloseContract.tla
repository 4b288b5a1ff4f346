--------------------------- MODULE CloseContract ---------------------------
(***************************************************************************)
(* What closing a window promises its user and the application (Window.h,  *)
(* docs/BRIDGE.md "Cierre con veto (F3)"), without saying how.  A request  *)
(* to close is either refused at once by a native listener or put to the   *)
(* page; one put to the page is denied, allowed, or times out, and the     *)
(* window goes away in the last two cases only.  An explicit Destroy takes *)
(* the window away at any moment.                                          *)
(***************************************************************************)
EXTENDS Naturals

CONSTANT MaxRequests  \* bound: close requests over the window's life

VARIABLES
    phase,            \* "open" | "asking" | "gone"
    requests,         \* close requests made so far
    cause             \* why the window went away

vars == <<phase, requests, cause>>

Init ==
    /\ phase = "open"
    /\ requests = 0
    /\ cause = "none"

Request(next) ==
    /\ phase = "open"
    /\ requests < MaxRequests
    /\ requests' = requests + 1
    /\ phase' = next
    /\ UNCHANGED cause

Ask == Request("asking")

Refuse == Request("open")

Deny ==
    /\ phase = "asking"
    /\ phase' = "open"
    /\ UNCHANGED <<requests, cause>>

Close(why) ==
    /\ phase = "asking"
    /\ phase' = "gone"
    /\ cause' = why
    /\ UNCHANGED requests

Decide == Deny \/ Close("allowed") \/ Close("timeout")

Destroy ==
    /\ phase # "gone"
    /\ phase' = "gone"
    /\ cause' = "destroy"
    /\ UNCHANGED requests

Next == Ask \/ Refuse \/ Decide \/ Destroy

Spec == Init /\ [][Next]_vars /\ WF_vars(Decide)
=============================================================================
