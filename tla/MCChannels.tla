---------------------------- MODULE MCChannels -----------------------------
(***************************************************************************)
(* What goes between the kernel and its two clients, for TLC: the outbox   *)
(* of a window (Outbox: two emitting threads, two operations each), the    *)
(* bridge (Bridge: all kinds of calls, dialogs in dialogs, time-outs, a    *)
(* reload, the deletion of the window), the control channel of Linux with  *)
(* the SDK (ControlChannel), and the servers of Windows and macOS with two *)
(* clients (IoServer).  `scenario' says which of them a behaviour runs;    *)
(* the others stay in their initial state, where they are owed no step.    *)
(***************************************************************************)
EXTENDS Outbox

CONSTANTS Scenarios,
          Frames, Main, Kinds, MaxLoads, BridgeCalls,
          SdkCalls, MaxEvents, Capacity,
          Clients, NoClient, MaxLines

VARIABLES scenario,
          load, nextIdB, pendingB, toKernelB, stack, outboxB, flushPosted, toPage,
          object, promiseB, executedB, resultOf, faults,
          connected, nextId, pending, buffer, midChunk, createId, browserWindow,
          toKernel, toSdk, serving, client, lines, evalsC, window, quitting,
          events, heard, promise, executed,
          pipe, conn, stream, written, clientOf, half, nextClientId, reader,
          queue, running, readerEnded, stopped, handled, answersTo

bridgeVars == <<load, nextIdB, pendingB, toKernelB, stack, outboxB, flushPosted, toPage,
                object, promiseB, executedB, resultOf, faults>>

sdkVars == <<connected, nextId, pending, buffer, midChunk, createId, browserWindow,
             toKernel, toSdk, serving, client, lines, evalsC, window, quitting,
             events, heard, promise, executed>>

ioVars == <<pipe, conn, stream, written, clientOf, half, nextClientId, reader,
            queue, running, readerEnded, stopped, handled, answersTo>>

B == INSTANCE Bridge
       WITH MaxCalls <- BridgeCalls, nextId <- nextIdB, pending <- pendingB,
            toKernel <- toKernelB, outbox <- outboxB, promise <- promiseB,
            executed <- executedB

C == INSTANCE ControlChannel WITH MaxCalls <- SdkCalls, evals <- evalsC

Win == INSTANCE IoServer WITH Platform <- "win"
Mac == INSTANCE IoServer WITH Platform <- "mac"

AllNext ==
    \/ scenario = "outbox" /\ Next     /\ UNCHANGED <<scenario, bridgeVars, sdkVars, ioVars>>
    \/ scenario = "bridge" /\ B!Next   /\ UNCHANGED <<scenario, vars, sdkVars, ioVars>>
    \/ scenario = "linux"  /\ C!Next   /\ UNCHANGED <<scenario, vars, bridgeVars, ioVars>>
    \/ scenario = "win"    /\ Win!Next /\ UNCHANGED <<scenario, vars, bridgeVars, sdkVars>>
    \/ scenario = "mac"    /\ Mac!Next /\ UNCHANGED <<scenario, vars, bridgeVars, sdkVars>>

AllInit == scenario \in Scenarios /\ Init /\ B!Init /\ C!Init /\ Win!Init

AllSpec ==
    /\ AllInit
    /\ [][AllNext]_<<scenario, vars, bridgeVars, sdkVars, ioVars>>
    /\ Fairness /\ B!Fairness /\ C!Fairness /\ Win!Fairness

-----------------------------------------------------------------------------
\* Bridge: a promise is resolved with the result of its own call, also when
\* the page is loaded again meanwhile (ow.invoke, _apply).
OwnResult == B!OwnResult

\* Bridge: without a reload, ow.invoke keeps the contract of a remote call.
KeepsContractWithoutReload == B!KeepsContractWithoutReload

\* Bridge: every call of ow.invoke is settled, or its page goes away.
EventuallySettled == B!EventuallySettled

\* ControlChannel: the calls of the SDK keep the contract of a remote call.
ImplementsContract == C!ImplementsContract

\* ControlChannel: every call is answered, or rejected when the channel closes.
AnsweredOrRejected == C!AnsweredOrRejected

\* IoServer: lines are handled once, whole and in order, and a client gets
\* answers to its own lines only (HandleLine, PlatformSend).
OwnLinesOwnAnswers == Win!OwnLinesOwnAnswers

\* IoServer: PlatformStop comes back, whatever the reader waits for.
StopReturns == Win!StopReturns
=============================================================================
