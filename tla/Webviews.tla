------------------------------ MODULE Webviews ------------------------------
(***************************************************************************)
(* The three webview backends: src/src/Webview/linux/WebKitGTKBackend.cpp, *)
(* win/Webview2Backend.cpp and mac/WKWebviewBackend.mm, as InitCommon and  *)
(* EvalJS of src/src/Window/Window_common.cpp and PCreate drive them.      *)
(*                                                                         *)
(* A backend creates its view at once, except on Windows: there the view   *)
(* comes from a callback, some time after Create has returned, and what    *)
(* the window asks for until then is kept, or not.  All of it runs on the  *)
(* main thread.  `view' is the backend, with the documents it has loaded.  *)
(*                                                                         *)
(* A path is a sequence of components: "/" first if it is absolute, "" last *)
(* if it is written with a slash at its end.  A URL of the scheme app has  *)
(* a host and a path, each without its slashes.                            *)
(***************************************************************************)
EXTENDS Integers, SequencesExt

CONSTANTS
    Platforms,              \* "gtk", "win", "mac"
    Roots,                  \* what OW_ASSETS_DIR names
    Cwd,                    \* the current directory
    Files,                  \* the regular files, by their absolute paths
    Requests,               \* the URLs pages ask for
    Dotted,                 \* the components with two dots in a row, ".." too
    MaxAsked                \* bound: loads, evaluations, resizings, requests

VARIABLES platform, root, view, size, evals, asked, reply,
          lastUrl           \* history: the address asked for last

webviewVars == <<platform, root, view, size, evals, asked, reply, lastUrl>>

NoUrl == ""

NoReply == [url |-> [host |-> <<>>, path |-> <<>>], result |-> <<>>]

Init ==
    /\ platform \in Platforms
    /\ root \in Roots
    /\ view = [state |-> "none", queue |-> <<>>, scripts |-> <<>>, handler |-> FALSE,
               attached |-> FALSE, url |-> NoUrl, root |-> <<>>, mapped |-> <<>>,
               bounds |-> 0, docs |-> <<>>]
    /\ size = 1
    /\ evals = <<>>                     \* per evaluation: "pending", "lost" or its answer
    /\ asked = 0
    /\ reply = NoReply                  \* the last answer of the scheme app
    /\ lastUrl = NoUrl

-----------------------------------------------------------------------------
(***************************************************************************)
(* What the window calls, as functions of the backend.                     *)
(***************************************************************************)
Ready(v) == v.state = "ready"

InjectInitScript(v, js) ==
    IF Ready(v) THEN [v EXCEPT !.scripts = Append(@, js)] ELSE [v EXCEPT !.queue = Append(@, js)]

SetMessageHandler(v) == [v EXCEPT !.handler = TRUE, !.attached = Ready(v)]

RegisterAssetScheme(v, dir) ==
    IF Ready(v) THEN [v EXCEPT !.root = dir, !.mapped = dir] ELSE [v EXCEPT !.root = dir]

\* On Windows the scheme app is a host of https.
Target(url) == IF platform = "win" /\ url = "app" THEN "https://app.owear" ELSE url

\* Fault: the address that waits stays, and a later one is dropped.
LoadURLKeepsFirst(v, url) ==
    IF ~Ready(v) THEN [v EXCEPT !.url = IF @ = NoUrl THEN url ELSE @]
    ELSE [v EXCEPT !.docs = Append(@, [url |-> Target(url), scripts |-> v.scripts,
                                       heard |-> v.attached, root |-> v.mapped])]

LoadURL(v, url) ==
    IF ~Ready(v) THEN [v EXCEPT !.url = url]
    ELSE [v EXCEPT !.docs = Append(@, [url |-> Target(url), scripts |-> v.scripts,
                                       heard |-> v.attached, root |-> v.mapped])]

Create(v) == [v EXCEPT !.state = IF platform = "win" THEN "creating" ELSE "ready"]

\* InitCommon, with the part of PCreate that is about the view.
InitCommon ==
    /\ view.state = "none"
    /\ \E url \in {NoUrl, "app", "http"} :
          LET made    == RegisterAssetScheme(Create(view), root)
              bridged == InjectInitScript(InjectInitScript(made, "bridge"), "windowId")
              heard   == SetMessageHandler(bridged)
          IN /\ view' = IF url = NoUrl THEN heard ELSE LoadURL(heard, url)
             /\ lastUrl' = url
    /\ UNCHANGED <<platform, root, size, evals, asked, reply>>

\* PCreate stops when Create fails, and InitCommon with it: the window has
\* no view, and is there.
CreateFails ==
    /\ view.state = "none"
    /\ view' = [view EXCEPT !.state = "failed"]
    /\ UNCHANGED <<platform, root, size, evals, asked, reply, lastUrl>>

OnControllerReady ==
    /\ platform = "win" /\ view.state = "creating"
    /\ LET v == [view EXCEPT !.state = "ready", !.scripts = view.queue, !.queue = <<>>,
                             !.attached = view.handler, !.mapped = view.root,
                             !.url = NoUrl, !.bounds = size]
       IN view' = IF view.url = NoUrl THEN v ELSE LoadURL(v, view.url)
    /\ UNCHANGED <<platform, root, size, evals, asked, reply, lastUrl>>

\* The environment or the controller is refused; or the callback comes when
\* the window has gone, with the address of a backend that has been deleted.
ControllerFails ==
    /\ platform = "win" /\ view.state \in {"creating", "gone"}
    /\ view' = [view EXCEPT !.state = IF @ = "gone" THEN "misused" ELSE "failed"]
    /\ UNCHANGED <<platform, root, size, evals, asked, reply, lastUrl>>

Asks == asked < MaxAsked /\ asked' = asked + 1

Navigate ==
    /\ Asks
    /\ view.state \in {"creating", "ready"}
    /\ \E url \in {"app", "http"} : view' = LoadURL(view, url) /\ lastUrl' = url
    /\ UNCHANGED <<platform, root, size, evals, reply>>

\* GTK and AppKit lay the view out with the window.  Nothing calls Resize.
UserResizes ==
    /\ Asks
    /\ view.state \in {"creating", "ready"}
    /\ size' = 3 - size
    /\ UNCHANGED <<platform, root, view, evals, reply, lastUrl>>

\* A window that is deleted takes its backend along.  WebKit ends the
\* evaluations with an error.
Destroy ==
    /\ view.state \in {"creating", "ready", "failed"}
    /\ view' = [view EXCEPT !.state = IF @ = "creating" THEN "gone" ELSE "ended"]
    /\ evals' = [i \in DOMAIN evals |-> IF evals[i] = "pending" THEN "null" ELSE evals[i]]
    /\ UNCHANGED <<platform, root, size, asked, reply, lastUrl>>

-----------------------------------------------------------------------------
(***************************************************************************)
(* EvalJS.  A backend without a view drops the script with its callback.   *)
(***************************************************************************)
EvalJS ==
    /\ Asks
    /\ view.state \in {"creating", "ready", "failed"}
    /\ evals' = Append(evals, IF Ready(view) THEN "pending" ELSE "lost")
    /\ UNCHANGED <<platform, root, view, size, reply, lastUrl>>

\* What the script comes to once WrapEval has put it into a function: the
\* text JSON.stringify makes of its value, no text for undefined, the member
\* owError for an exception, an error for a script that cannot be parsed.
Outcomes == {"text", "undefined", "exception", "syntax"}

\* The text of a string is written as JSON again, but by WebKit of macOS; an
\* error becomes null in Window::EvalJS, which keeps no word of it.
Answer(outcome) ==
    CASE outcome \in {"undefined", "syntax"} -> "null"
      [] outcome = "exception" -> "owError"
      [] outcome = "text" -> IF platform = "mac" THEN "json" ELSE "json in json"

EvalDone ==
    /\ view.state = "ready"
    /\ \E i \in DOMAIN evals, outcome \in Outcomes :
          /\ evals[i] = "pending"
          /\ evals' = [evals EXCEPT ![i] = Answer(outcome)]
    /\ UNCHANGED <<platform, root, view, size, asked, reply, lastUrl>>

-----------------------------------------------------------------------------
(***************************************************************************)
(* Files.  lexically_normal drops ".", takes a component and the ".."      *)
(* after it away, and keeps a slash at the end.                            *)
(***************************************************************************)
\* The empty string and "/" are named for the provers, which do not know
\* that they are strings.
Component == STRING \cup {"", "/"}

Absolute(path) == path # <<>> /\ path[1] = "/"

AddComponent(out, c) ==
    CASE c \in {"", "."} -> out
      [] c = ".." /\ out = <<"/">> -> out
      [] c = ".." /\ out \notin {<<>>, <<"/">>} /\ Last(out) # ".." -> Front(out)
      [] OTHER -> Append(out, c)

Walk(path) ==
    LET out[n \in 0 .. Len(path)] ==
            IF n = 0 THEN <<>> ELSE AddComponent(out[n - 1], path[n])
    IN out[Len(path)]

Normal(path) ==
    LET out == Walk(path)
    IN IF path # <<>> /\ Last(path) \in {"", ".", ".."} /\ out \notin {<<>>, <<"/">>}
       THEN Append(out, "") ELSE out

\* Without the slash at its end.
Bare(path) == IF path # <<>> /\ Last(path) = "" THEN Front(path) ELSE path

\* operator/: an absolute path replaces the one it is appended to.
Join(base, rel) ==
    IF Absolute(rel) THEN rel ELSE IF rel = <<>> THEN Append(Bare(base), "") ELSE Bare(base) \o rel

\* The current directory and the files have absolute paths in normal form,
\* hosts and paths of URLs come without the slash before them, and the root
\* is no mere row of "..": out of one a name leads that is written with more.
PathsProper ==
    /\ Cwd \in Seq(Component) /\ Absolute(Cwd) /\ Bare(Cwd) = Cwd
    /\ Roots \subseteq Seq(Component)
    /\ \A r \in Roots : \E i \in 1 .. Len(r) : r[i] # ".."
    /\ Files \subseteq Seq(Component)
    /\ \A f \in Files : /\ Absolute(f) /\ Normal(f) = f
                        /\ f # <<"/">> /\ f[Len(f)] # ""
    /\ Requests \subseteq [host : Seq(Component), path : Seq(Component)]
    /\ \A url \in Requests : ~Absolute(url.host) /\ ~Absolute(url.path)
    /\ ".." \in Dotted

Forbidden == <<"forbidden">>
NotFound  == <<"not found">>
Undefined == <<"undefined">>

IsRegularFile(path) == Normal(Join(Cwd, path)) \in Files

\* WebKitGTK: everything after "://" is the name, the host as well.
LinuxName(url) == IF url.host = <<>> /\ url.path # <<>> THEN <<"/">> \o url.path
                  ELSE url.host \o url.path

\* Fault: the path is compared as it was written, with its "..".
ServeLinuxAsWritten(url) ==
    LET full == Join(root, LinuxName(url))
    IN IF root = <<>> THEN {NotFound}
       ELSE IF ~IsPrefix(root, full) THEN {Forbidden}
       ELSE IF IsRegularFile(full) THEN {Normal(Join(Cwd, full))} ELSE {NotFound}

\* std::mismatch compares as many components as the root has.  When the file
\* has fewer, it reads behind them, and anything may come of it.
ServeLinux(url) ==
    LET full == Normal(Join(root, LinuxName(url)))
    IN IF root = <<>> THEN {NotFound}
       ELSE IF IsStrictPrefix(full, root) THEN {Forbidden, NotFound, Undefined}
       ELSE IF ~IsPrefix(root, full) THEN {Forbidden}
       ELSE IF IsRegularFile(full) THEN {Normal(Join(Cwd, full))} ELSE {NotFound}

\* WebKit of macOS: the host is left out, and a path with two dots in a row
\* anywhere is refused, be it only in the middle of a name.
ServeMac(url) ==
    LET full == Normal(Join(root, url.path))
    IN IF \E i \in DOMAIN url.path : url.path[i] \in Dotted THEN {Forbidden}
       ELSE IF IsStrictPrefix(full, root) THEN {NotFound, Undefined}
       ELSE IF IsPrefix(root, full) /\ IsRegularFile(full) THEN {Normal(Join(Cwd, full))}
       ELSE {NotFound}

\* A page asks for a file.  WebView2 maps a folder to a host by itself.
Request ==
    /\ Asks
    /\ view.state = "ready" /\ view.docs # <<>> /\ platform # "win"
    /\ \E url \in Requests :
          \E result \in IF platform = "mac" THEN ServeMac(url) ELSE ServeLinux(url) :
             reply' = [url |-> url, result |-> result]
    /\ UNCHANGED <<platform, root, view, size, evals, lastUrl>>

Next == \/ InitCommon \/ CreateFails \/ OnControllerReady \/ ControllerFails \/ Destroy
        \/ Navigate \/ UserResizes \/ EvalJS \/ EvalDone \/ Request

-----------------------------------------------------------------------------
(***************************************************************************)
(* Whenever a backend begins to load a document, both scripts are in place *)
(* and in order, the message handler is attached and the files of the      *)
(* application are mapped, also when the view was not there when they were *)
(* asked for.  And once the view is there, the document it loads is the    *)
(* one asked for last, by the options of the window or by a later          *)
(* navigation, before or after it came: none waits any more, and none is   *)
(* loaded that was not asked for (InjectInitScript, SetMessageHandler,     *)
(* LoadURL and OnControllerReady).                                         *)
(***************************************************************************)
DocumentsAreWhole ==
    /\ \A i \in DOMAIN view.docs :
          /\ view.docs[i].scripts = <<"bridge", "windowId">>
          /\ view.docs[i].heard
          /\ view.docs[i].root = root
    /\ view.state = "ready" =>
          /\ view.url = NoUrl
          /\ IF lastUrl = NoUrl THEN view.docs = <<>>
             ELSE view.docs # <<>> /\ Last(view.docs).url = Target(lastUrl)

(***************************************************************************)
(* The scheme app serves nothing but files beneath the root of the assets, *)
(* however the name in the URL is written; and with a root that is written *)
(* in its normal form, it serves each of them under the name it has there, *)
(* but on macOS those with two dots in a row in their name (the callback   *)
(* of the scheme in WebKitGTKBackend, startURLSchemeTask).  Beneath means  *)
(* by its name: a symbolic link in the root is followed by the system, and *)
(* is a regular file here.                                                 *)
(***************************************************************************)
ServedFromRoot ==
    reply # NoReply =>
        /\ reply.result \in Files =>
              IsPrefix(Bare(Normal(Join(Cwd, root))), reply.result)
        /\ LET name == IF platform = "mac" THEN reply.url.path
                       ELSE reply.url.host \o reply.url.path
               file == Join(root, name)
           IN /\ root = Normal(Join(Cwd, root)) /\ Last(root) # ""
              /\ file \in Files /\ reply.url.host # <<>>
              /\ platform = "mac" => \A i \in DOMAIN name : name[i] \notin Dotted
              => reply.result = file

(***************************************************************************)
(* An evaluation asked for while the window is there is not forgotten: it  *)
(* runs, and window.eval answers the sidecar.                              *)
(***************************************************************************)
NoEvalIsLost == \A i \in DOMAIN evals : evals[i] # "lost"

\* The callback that brings the view finds the backend it belongs to.
ViewOutlivesItsCallback == view.state # "misused"

\* The view of a window is as large as the window.
ViewFillsWindow == platform = "win" /\ view.state = "ready" => view.bounds = size
=============================================================================
