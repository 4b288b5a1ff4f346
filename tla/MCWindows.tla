----------------------------- MODULE MCWindows -----------------------------
(***************************************************************************)
(* Windows, for TLC: the close flow of one window (CloseVeto), the         *)
(* registry, events and deletion of two (WindowLifecycle), the calls and   *)
(* callbacks that reach a window's view from the session and extra         *)
(* functions (Session), the native window with its window manager          *)
(* (NativeWindow), and the view with its documents and the files of app:// *)
(* (Webviews).  `scenario' says which of them a behaviour runs; the others *)
(* stay in an initial state, where they are owed no step.                  *)
(***************************************************************************)
EXTENDS CloseVeto, SequencesExt

CONSTANTS Scenarios,
          MaxWindows, CloseRequests, MaxEvents, PageEvents,
          SessionWindows, SessionCalls, MaxDownloads, Setters, FindGuard, FindStable,
          Platforms, NativeCalls,
          Roots, Cwd, Files, Requests, Dotted, MaxAsked

VARIABLES scenario,
          created, live, widget, object, seqOf, requestId, responded, queued,
          outboxScheduled, posts, batch, closeTimers, toSdk, events, causeOf, faults,
          opened, liveS, host, property, jar, stack, turn, asked, calls, counted,
          connected, handlers, g_downloads, g_nextDl, transfer, transferIn, emitted, faultsS,
          platform, lifeN, liveN, mapped, shown, state, place, title, flag, askedN,
          notices, heard, grip, asking, told, crashed, wanted, callsN,
          platformV, root, view, size, evals, askedV, reply, lastUrl

registryVars == <<created, live, widget, object, seqOf, requestId, responded, queued,
                  outboxScheduled, posts, batch, closeTimers, toSdk, events, causeOf, faults>>

sessionVars == <<opened, liveS, host, property, jar, stack, turn, asked, calls, counted,
                 connected, handlers, g_downloads, g_nextDl, transfer, transferIn, emitted,
                 faultsS>>

nativeVars == <<platform, lifeN, liveN, mapped, shown, state, place, title, flag, askedN,
                notices, heard, grip, asking, told, crashed, wanted, callsN>>

viewVars == <<platformV, root, view, size, evals, askedV, reply, lastUrl>>

W == INSTANCE WindowLifecycle
       WITH MaxRequests <- CloseRequests, jsCloseSeq <- seqOf, jsCloseRequestId <- requestId,
            jsCloseResponded <- responded, timers <- closeTimers, cause <- causeOf

S == INSTANCE Session
       WITH MaxWindows <- SessionWindows, MaxCalls <- SessionCalls, live <- liveS,
            faults <- faultsS

N == INSTANCE NativeWindow
       WITH MaxCalls <- NativeCalls, life <- lifeN, live <- liveN, asked <- askedN,
            calls <- callsN

V == INSTANCE Webviews WITH platform <- platformV, asked <- askedV

ASSUME PathsAssumption == V!PathsProper

AllNext ==
    \/ /\ scenario = "close" /\ Next
       /\ UNCHANGED <<scenario, registryVars, sessionVars, nativeVars, viewVars>>
    \/ /\ scenario = "windows" /\ W!Next
       /\ UNCHANGED <<scenario, vars, sessionVars, nativeVars, viewVars>>
    \/ /\ scenario = "session" /\ S!Next
       /\ UNCHANGED <<scenario, vars, registryVars, nativeVars, viewVars>>
    \/ /\ scenario = "native" /\ N!Next
       /\ UNCHANGED <<scenario, vars, registryVars, sessionVars, viewVars>>
    \/ /\ scenario = "view" /\ V!Next
       /\ UNCHANGED <<scenario, vars, registryVars, sessionVars, nativeVars>>

AllInit ==
    /\ scenario \in Scenarios
    /\ Init /\ W!Init /\ S!Init /\ N!Init /\ V!Init
    /\ scenario # "native" => platform = CHOOSE p \in Platforms : TRUE
    /\ scenario # "view" => /\ platformV = CHOOSE p \in Platforms : TRUE
                            /\ root = CHOOSE r \in Roots : TRUE

AllSpec ==
    /\ AllInit
    /\ [][AllNext]_<<scenario, vars, registryVars, sessionVars, nativeVars, viewVars>>
    /\ WF_vars(CloseTimerFired) /\ WF_vars(DeleteObject)
    /\ W!Fairness /\ S!Fairness /\ N!Fairness

-----------------------------------------------------------------------------
\* WindowLifecycle: no callback works on a Window that has been deleted.
NoUseAfterDelete == W!NoUseAfterDelete

\* WindowLifecycle: the SDK sees the creation of a window, its events, closed
\* once, and nothing more (WireWindowEvents, BroadcastEvent).
SdkSeesOrderedLife == W!SdkSeesOrderedLife

\* WindowLifecycle: the object of a destroyed window is deleted.
EventuallyDeleted == W!EventuallyDeleted

\* WindowLifecycle: a close request is sent to the SDK, which is to answer it.
CloseRequestReachesSdk == W!CloseRequestReachesSdk

\* Session: WebKit never answers into the frame of a handler that has returned.
NoLateAnswer == S!NoLateAnswer

\* Session: a tracked download has one id while it runs, and none after.
DownloadsTracked == S!DownloadsTracked

\* Session: every download with an id was announced to the application.
DownloadsAreAnnounced == S!DownloadsAreAnnounced

\* NativeWindow: isFullScreen and the last events the SDK heard agree with
\* what the window is, once nothing is under way.
SdkKnowsState == N!SdkKnowsState

\* NativeWindow: a GTK window ends as it was last asked to be.
LastRequestWins == N!LastRequestWins

\* Webviews: a document is loaded with the scripts, handler and files in place,
\* and the one asked for last is what a view that is there shows.
DocumentsAreWhole == V!DocumentsAreWhole

\* Webviews: the scheme app serves files beneath the root of the assets only.
ServedFromRoot == V!ServedFromRoot

-----------------------------------------------------------------------------
MCRoots == {<<"/", "d">>, <<"/", "d", "">>, <<".", "d">>, <<"d">>, <<"..", "d">>}
MCCwd == <<"/", "a">>
MCFiles == {<<"/", "d", "f">>, <<"/", "d", "a", "f">>, <<"/", "f">>, <<"/", "a", "d", "f">>,
            <<"/", "d", "a..f">>, <<"/", "d", "a", "a..f">>}
MCRequests == [host : {<<>>, <<"f">>, <<"a">>, <<"..">>},
               path : SeqOf({"a", "f", "a..f", "..", "."}, 2)]
=============================================================================
