---------------------------- MODULE NativeWindow ----------------------------
(***************************************************************************)
(* One window of the SDK and its native side, on the three platforms       *)
(* (window_linux.cpp, window_mac.mm, window_win.cpp), with the calls that  *)
(* reach it: HandleCommand (ControlServer.cpp), the module ow-window       *)
(* (WindowModule.cpp), and the delegations of Window (Window_common.cpp).  *)
(*                                                                         *)
(* GTK passes what the program wants to the window manager and hears of it *)
(* later; AppKit does it at once, but for full screen, an animation that   *)
(* begins with the call and is heard of when it ends; Win32 sends the      *)
(* window messages from inside the call.  CloseVeto has the whole close    *)
(* flow: here it is asked and decided.                                     *)
(***************************************************************************)
EXTENDS Naturals, Sequences

CONSTANTS Platforms,  \* those a behaviour may run on: "gtk", "mac", "win"
          MaxCalls    \* bound: calls, and what the user does himself

VARIABLES
    platform,
    life,       \* the native window: "none", "up", "gone"
    live,       \* the window is in LiveWindows
    mapped,     \* it is in HwndMap or WindowMap
    shown,
    state,      \* what the window is: [zoomed, iconic, full]
    place,      \* where it is: what each of position and size was set to
    title,      \* who set its title last
    flag,       \* pdata->fullscreen
    asked,      \* asked of the window manager and not done; the animation
    notices,    \* states GTK has not been told of
    heard,      \* history: the last events of each kind
    grip,       \* the edge the user resizes the window by
    asking,     \* a close request is in flight
    told,       \* history: the SDK has heard "closed"
    crashed,    \* Win32: the window procedure has used up the stack
    wanted,     \* history: what was last asked for
    calls       \* calls so far

viewVars == <<place, title, grip>>
sdkVars == <<live, told, asking>>
nativeVars == <<life, mapped, shown, state, place, title, flag, asked, notices, crashed>>
vars == <<platform, nativeVars, live, grip, heard, asking, told, wanted, calls>>

Operations == {"minimize", "restore", "maximize", "unmaximize", "fullscreen", "unfullscreen"}
NavigationEvents == {"navigationStarted", "loadCommitted", "didFailLoad", "didFinishLoad"}
Plain == [zoomed |-> FALSE, iconic |-> FALSE, full |-> FALSE]

\* What an operation makes of a state.
Changed(op, s) ==
    CASE op \in {"minimize", "restore"}        -> [s EXCEPT !.iconic = (op = "minimize")]
      [] op \in {"maximize", "unmaximize"}     -> [s EXCEPT !.zoomed = (op = "maximize")]
      [] op \in {"fullscreen", "unfullscreen"} -> [s EXCEPT !.full = (op = "fullscreen")]

\* The part of a state an operation is about.
About(op) == CASE op \in {"minimize", "restore"}    -> "iconic"
               [] op \in {"maximize", "unmaximize"} -> "zoomed"
               [] OTHER                             -> "full"

InMotion == asked # <<>> \/ notices # <<>>

Init ==
    /\ platform \in Platforms
    /\ life = "none" /\ live = FALSE /\ mapped = FALSE /\ shown = FALSE
    /\ state = Plain
    /\ place = [position |-> "default", size |-> "options"]
    /\ title = "options"
    /\ flag = FALSE
    /\ asked = <<>> /\ notices = <<>>
    /\ heard = [zoomed |-> "nothing", full |-> "nothing", page |-> "nothing"]
    /\ grip = "none"
    /\ asking = FALSE /\ told = FALSE /\ crashed = FALSE
    /\ wanted = Plain
    /\ calls = 0

(***************************************************************************)
(* Win32.  OwWndProc answers WM_CLOSE and WM_DESTROY; what it does not     *)
(* answer it gives to origProc, which PCreate has taken from the window,   *)
(* and the window's procedure was OwWndProc already: it is its class's.    *)
(***************************************************************************)
origProc == "OwWndProc"
Answered == {"WM_CLOSE", "WM_DESTROY"}
OwWndProc(messages) ==
    crashed' = (crashed \/ \E m \in messages : m \notin Answered /\ origProc = "OwWndProc")

\* What Windows sends while a call of the program lasts.
MessagesOf(call) ==
    CASE call \in {"show", "hide", "maximize", "minimize", "restore", "unmaximize"} ->
             {"WM_WINDOWPOSCHANGING", "WM_SIZE"}
      [] call = "focus"                        -> {"WM_ACTIVATE"}
      [] call \in {"fullscreen", "unfullscreen"} -> {"WM_STYLECHANGING"}
      [] call \in {"setBounds", "center"}      -> {"WM_WINDOWPOSCHANGING"}
      [] call = "setTitle"                     -> {"WM_SETTEXT"}
      [] call = "destroy"                      -> {"WM_DESTROY", "WM_NCDESTROY"}
      [] OTHER                                 -> {}

(***************************************************************************)
(* Creation.  gtk_widget_show_all does not look at opts.show.              *)
(***************************************************************************)
PCreateGtk == shown' = TRUE /\ UNCHANGED <<mapped, crashed>>
PCreateMac(show) == mapped' = TRUE /\ shown' = show /\ UNCHANGED crashed
PCreateWin(show, resizable) ==
    /\ mapped' = TRUE
    /\ shown' = show
    /\ OwWndProc((IF resizable THEN {} ELSE {"WM_STYLECHANGING"}) \cup
                 (IF show THEN MessagesOf("show") ELSE {}))

Create ==
    /\ life = "none"
    /\ life' = "up" /\ live' = TRUE
    /\ \E show, resizable \in BOOLEAN :
          CASE platform = "gtk" -> PCreateGtk
            [] platform = "mac" -> PCreateMac(show)
            [] platform = "win" -> PCreateWin(show, resizable)
    /\ UNCHANGED <<platform, state, flag, asked, notices, heard, asking, told, wanted,
                   calls, viewVars>>

\* A call that names a window of LiveWindows.
Call == /\ live /\ ~crashed /\ calls < MaxCalls
        /\ calls' = calls + 1

(***************************************************************************)
(* The window's states.                                                    *)
(***************************************************************************)
\* Fault: GTK is not asked for what the flag says is so.
GtkRequestIfNew(op) ==
    /\ asked' = IF About(op) = "full" /\ flag = (op = "fullscreen")
                THEN asked ELSE Append(asked, op)
    /\ UNCHANGED <<state, crashed>>

GtkRequest(op) == asked' = Append(asked, op) /\ UNCHANGED <<state, crashed>>

\* PMaximize and PUnmaximize are both zoom:, which goes from one to the other;
\* toggleFullScreen: does nothing while the animation runs.
MacRequest(op) ==
    /\ UNCHANGED crashed
    /\ CASE About(op) = "zoomed" ->
              state' = [state EXCEPT !.zoomed = ~@] /\ UNCHANGED asked
         [] About(op) = "iconic" -> state' = Changed(op, state) /\ UNCHANGED asked
         [] About(op) = "full"   ->
              /\ asked' = IF flag # (op = "fullscreen") /\ asked = <<>>
                          THEN <<IF state.full THEN "unfullscreen" ELSE "fullscreen">>
                          ELSE asked
              /\ UNCHANGED state

WinRequest(op) == OwWndProc(MessagesOf(op)) /\ UNCHANGED <<state, asked>>

Request(op) ==
    /\ Call
    /\ wanted' = Changed(op, wanted)
    /\ CASE platform = "gtk" -> GtkRequest(op)
         [] platform = "mac" -> MacRequest(op)
         [] platform = "win" -> WinRequest(op)
    /\ UNCHANGED <<platform, life, mapped, shown, flag, notices, heard, viewVars,
                   sdkVars>>

(***************************************************************************)
(* The window manager does what it was asked, or what the user wants, and  *)
(* tells GTK when it changes anything.                                     *)
(***************************************************************************)
Becomes(s) ==
    /\ state' = s
    /\ notices' = IF s # state THEN Append(notices, s) ELSE notices

WindowManager ==
    /\ platform = "gtk" /\ life = "up" /\ asked # <<>>
    /\ Becomes(Changed(Head(asked), state))
    /\ asked' = Tail(asked)
    /\ UNCHANGED <<platform, life, mapped, shown, flag, crashed, heard, wanted, calls,
                   viewVars, sdkVars>>

UserChanges(op) ==
    /\ platform = "gtk" /\ life = "up" /\ calls < MaxCalls
    /\ calls' = calls + 1
    /\ Becomes(Changed(op, state))
    /\ wanted' = IF \E k \in 1 .. Len(asked) : About(asked[k]) = About(op)
                 THEN wanted ELSE Changed(op, wanted)
    /\ UNCHANGED <<platform, life, mapped, shown, flag, asked, crashed, heard,
                   viewVars, sdkVars>>

Hears(s) == [heard EXCEPT !.zoomed = IF s.zoomed THEN "maximize" ELSE "unmaximize",
                          !.full   = IF s.full THEN "enterFullScreen" ELSE "leaveFullScreen"]

\* Fault: only what was entered is announced.
StateEventEnters ==
    /\ platform = "gtk" /\ life = "up" /\ notices # <<>>
    /\ flag' = Head(notices).full
    /\ heard' = [heard EXCEPT !.zoomed = IF Head(notices).zoomed THEN "maximize" ELSE @,
                              !.full = IF Head(notices).full THEN "enterFullScreen" ELSE @]
    /\ notices' = Tail(notices)
    /\ UNCHANGED <<platform, life, mapped, shown, state, asked, crashed, wanted,
                   calls, viewVars, sdkVars>>

\* "window-state-event": both events, whatever has changed.
StateEvent ==
    /\ platform = "gtk" /\ life = "up" /\ notices # <<>>
    /\ flag' = Head(notices).full
    /\ heard' = Hears(Head(notices))
    /\ notices' = Tail(notices)
    /\ UNCHANGED <<platform, life, mapped, shown, state, asked, crashed, wanted,
                   calls, viewVars, sdkVars>>

\* AppKit: the animation is over, and the observer runs.
AnimationEnds ==
    /\ platform = "mac" /\ life = "up" /\ asked # <<>>
    /\ state' = Changed(Head(asked), state)
    /\ asked' = <<>>
    /\ IF mapped
       THEN flag' = state'.full /\ heard' = [heard EXCEPT !.full = Hears(state').full]
       ELSE UNCHANGED <<flag, heard>>
    /\ UNCHANGED <<platform, life, mapped, shown, notices, crashed, wanted, calls,
                   viewVars, sdkVars>>

(***************************************************************************)
(* What shows at once.  A GTK window that is presented is de-iconified by  *)
(* the window manager.                                                     *)
(***************************************************************************)
GtkAppearance(call) ==
    /\ shown' = (call # "hide")
    /\ asked' = IF call = "focus" THEN Append(asked, "restore") ELSE asked
    /\ UNCHANGED crashed

MacAppearance(call) == shown' = (call # "hide") /\ UNCHANGED <<asked, crashed>>

Appearance(call) ==
    /\ Call
    /\ CASE platform = "gtk" -> GtkAppearance(call)
         [] platform = "mac" -> MacAppearance(call)
         [] platform = "win" -> OwWndProc(MessagesOf(call)) /\ UNCHANGED <<shown, asked>>
    /\ wanted' = IF call = "focus" THEN [wanted EXCEPT !.iconic = FALSE] ELSE wanted
    /\ UNCHANGED <<platform, life, mapped, state, flag, notices, heard, viewVars,
                   sdkVars>>

\* window.setBounds: a field that is not given is 0.
SetBounds(position, size) ==
    /\ Call
    /\ IF platform = "win"
       THEN OwWndProc(MessagesOf("setBounds")) /\ UNCHANGED place
       ELSE place' = [position |-> position, size |-> size] /\ UNCHANGED crashed
    /\ UNCHANGED <<platform, grip, life, mapped, shown, state, title, flag, asked,
                   notices, heard, wanted, sdkVars>>

SetTitle ==
    /\ Call
    /\ IF platform = "win"
       THEN OwWndProc(MessagesOf("setTitle")) /\ UNCHANGED title
       ELSE title' = "sdk" /\ UNCHANGED crashed
    /\ UNCHANGED <<platform, grip, life, mapped, shown, state, place, flag, asked,
                   notices, heard, wanted, sdkVars>>

(***************************************************************************)
(* The drags of a page that draws its own title bar.  The arguments are a  *)
(* list, where Find finds nothing: the edge is always "bottom-right".      *)
(***************************************************************************)
GtkResizeDrag(edge) == grip' = edge /\ UNCHANGED crashed
WinResizeDrag == OwWndProc({"WM_NCLBUTTONDOWN"}) /\ UNCHANGED grip
MacResizeDrag == UNCHANGED <<grip, crashed>>

HandleInternalInvoke ==
    /\ life = "up" /\ ~crashed
    /\ CASE platform = "gtk" -> GtkResizeDrag("bottom-right")
         [] platform = "mac" -> MacResizeDrag
         [] platform = "win" -> WinResizeDrag
    /\ UNCHANGED <<platform, life, mapped, shown, state, place, title, flag, asked,
                   notices, heard, wanted, calls, sdkVars>>

(***************************************************************************)
(* GTK: the SDK hears how a load goes on, and the title of the window is   *)
(* bound to that of the page.                                              *)
(***************************************************************************)
May(event) ==
    CASE event = "navigationStarted" -> TRUE
      [] event = "loadCommitted"     -> heard.page = "navigationStarted"
      [] event = "didFailLoad"       -> heard.page \in {"navigationStarted", "loadCommitted"}
      [] event = "didFinishLoad"     -> heard.page \in {"loadCommitted", "didFailLoad"}

PageLoads(event) ==
    /\ platform = "gtk" /\ life = "up"
    /\ May(event)
    /\ heard' = [heard EXCEPT !.page = event]
    /\ UNCHANGED <<platform, nativeVars, grip, wanted, calls, sdkVars>>

PageTitle ==
    /\ platform = "gtk" /\ life = "up"
    /\ title' = "page"
    /\ UNCHANGED <<platform, life, mapped, shown, state, place, flag, asked, notices,
                   crashed, grip, heard, wanted, calls, sdkVars>>

(***************************************************************************)
(* The end.  GTK's "destroy" is where "closed" is emitted; on the other    *)
(* two PDestroy takes the window out of the map its handlers look in       *)
(* before it destroys it, and nobody emits anything.                       *)
(***************************************************************************)
Closed == told' = TRUE /\ live' = FALSE

PDestroyGtk == Closed /\ UNCHANGED <<mapped, crashed>>
PDestroyMac == mapped' = FALSE /\ UNCHANGED <<told, live, crashed>>
PDestroyWin == mapped' = FALSE /\ OwWndProc(MessagesOf("destroy")) /\ UNCHANGED <<told, live>>

PDestroy ==
    /\ life' = "gone"
    /\ CASE platform = "gtk" -> PDestroyGtk
         [] platform = "mac" -> PDestroyMac
         [] platform = "win" -> PDestroyWin

WindowDestroy ==
    /\ Call
    /\ life = "up"
    /\ PDestroy
    /\ UNCHANGED <<platform, shown, state, flag, asked, notices, heard, asking,
                   wanted, viewVars>>

\* BeginCloseFlow, for window.close.
WindowClose ==
    /\ Call
    /\ asking' = TRUE
    /\ UNCHANGED <<platform, grip, nativeVars, live, heard, told, wanted>>

\* The user closes it: "delete-event" and WM_CLOSE keep the window and ask;
\* NSWindowWillCloseNotification asks while the window goes.
UserCloses ==
    /\ life = "up" /\ ~crashed /\ calls < MaxCalls
    /\ calls' = calls + 1
    /\ asking' = TRUE
    /\ life' = IF platform = "mac" THEN "gone" ELSE life
    /\ UNCHANGED <<platform, mapped, shown, state, flag, asked, notices, crashed,
                   live, heard, told, wanted, viewVars>>

\* RespondJsClose or the timer.
CloseDecided(allow) ==
    /\ asking /\ ~crashed
    /\ asking' = FALSE
    /\ IF allow /\ life = "up"
       THEN PDestroy
       ELSE /\ mapped' = (mapped /\ ~allow)
            /\ UNCHANGED <<life, live, told, crashed>>
    /\ UNCHANGED <<platform, shown, state, flag, asked, notices, heard, wanted, calls,
                   viewVars>>

Next ==
    \/ Create
    \/ \E op \in Operations : Request(op) \/ UserChanges(op)
    \/ WindowManager \/ StateEvent \/ AnimationEnds
    \/ \E call \in {"show", "hide", "focus"} : Appearance(call)
    \/ \E p, s \in {"given", "zero"} : SetBounds(p, s)
    \/ SetTitle \/ PageTitle \/ HandleInternalInvoke
    \/ \E event \in NavigationEvents : PageLoads(event)
    \/ WindowDestroy \/ WindowClose \/ UserCloses
    \/ \E allow \in BOOLEAN : CloseDecided(allow)

Fairness == WF_vars(WindowManager) /\ WF_vars(StateEvent) /\ WF_vars(AnimationEnds)

Spec == Init /\ [][Next]_vars /\ Fairness

-----------------------------------------------------------------------------
(***************************************************************************)
(* When nothing is under way, the answer of isFullScreen and the last      *)
(* events the SDK heard agree with what the window is; the events about    *)
(* its size only on GTK, the others emit none.                             *)
(***************************************************************************)
SdkKnowsState ==
    life = "up" /\ ~InMotion =>
        /\ flag = state.full
        /\ heard.full \in {Hears(state).full} \cup (IF state.full THEN {} ELSE {"nothing"})
        /\ platform = "gtk" => heard.zoomed \in {Hears(state).zoomed}
                                   \cup (IF state.zoomed THEN {} ELSE {"nothing"})

(***************************************************************************)
(* GTK: whatever is asked for while earlier requests are on their way, the *)
(* window ends as it was last asked to be.                                 *)
(***************************************************************************)
LastRequestWins ==
    (platform = "gtk") => <>[](life = "up" => state = wanted /\ ~InMotion)

(***************************************************************************)
(* ControlServer.cpp: "destroy dispara 'closed' -> limpia LiveWindows": a  *)
(* window that was destroyed is no longer in LiveWindows, and the SDK was  *)
(* told.                                                                   *)
(***************************************************************************)
ClosedIsTold == life = "gone" /\ ~asking => told /\ ~live

(***************************************************************************)
(* window_win.cpp, at WM_NCHITTEST: "DefWindowProc los resuelve": what     *)
(* OwWndProc does not answer, the procedure of the system does.            *)
(***************************************************************************)
UnansweredReachSystem == ~crashed
=============================================================================
