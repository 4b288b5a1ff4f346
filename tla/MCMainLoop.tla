--------------------------- MODULE MCMainLoop -----------------------------
(***************************************************************************)
(* The three main loops.  GTK has the variables of MainLoopGtk; the other  *)
(* two share a second set (their state is the same, but for the messages   *)
(* of Win32).  `scenario' says which of them a behaviour runs.  Several    *)
(* threads post up to two callbacks each, so batches of several callbacks  *)
(* from several threads occur; two window messages let the user of Win32   *)
(* enter modal loops while another thread posts.                           *)
(***************************************************************************)
EXTENDS MainLoopGtk

CONSTANTS FewWorkers, MaxInput

VARIABLES scenario,
          pending2, batch2, at, pc2, quitting2, posted2, ran2, msgs, input

W == INSTANCE MainLoopWin
       WITH Workers <- FewWorkers, pending <- pending2, batch <- batch2, pc <- pc2,
            quitting <- quitting2, posted <- posted2, ran <- ran2

M == INSTANCE MainLoopMac
       WITH Workers <- FewWorkers, pending <- pending2, batch <- batch2,
            quitting <- quitting2, posted <- posted2, ran <- ran2

otherVars == <<pending2, batch2, at, pc2, quitting2, posted2, ran2, msgs, input>>

\* A loop that stands still has nothing to do: no fair step is enabled.
OtherInit ==
    /\ IF scenario = "mac"
       THEN M!Init /\ pc2 = [t \in W!Threads |-> "idle"] /\ msgs = <<>> /\ input = 0
       ELSE W!Init

AllNext ==
    \/ scenario = "gtk" /\ Next   /\ UNCHANGED <<scenario, otherVars>>
    \/ scenario = "win" /\ W!Next /\ UNCHANGED <<scenario, vars>>
    \/ scenario = "mac" /\ M!Next /\ UNCHANGED <<scenario, vars, pc2, msgs, input>>

AllInit == scenario \in {"gtk", "win", "mac"} /\ Init /\ OtherInit

AllSpec ==
    /\ AllInit
    /\ [][AllNext]_<<scenario, vars, otherVars>>
    /\ Fairness /\ W!Fairness /\ M!Fairness

-----------------------------------------------------------------------------
(***************************************************************************)
(* The promise of App::Post, for Win32 and macOS: callbacks run once each, *)
(* in the order they were accepted; and each of them runs, unless the      *)
(* application quits.                                                      *)
(***************************************************************************)
OthersKeepPromise == W!PromiseSafety /\ W!EventuallyRuns
=============================================================================
