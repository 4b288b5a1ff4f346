--------------------------- MODULE ControlChannel ---------------------------
(***************************************************************************)
(* The control channel between the SDK of the Node sidecar and the kernel: *)
(* ControlChannel and BrowserWindow (packages/core/src/index.ts), the UDS  *)
(* server (src/src/Control/ControlServer_linux.cpp) and its commands       *)
(* (src/src/Control/ControlServer.cpp), for one client and one window.     *)
(*                                                                         *)
(* The kernel runs one handler at a time; OnReadable reads what there is   *)
(* and handles every line of it.  Its socket is non-blocking: WriteAll     *)
(* stops at the first write that fails.  A line is two units, its text and *)
(* the end with the newline, so that half a line can be written.  The SDK  *)
(* gets chunks: it handles the lines of a chunk one after another, and the *)
(* continuations of the promises it resolved run after the last one.       *)
(***************************************************************************)
EXTENDS Naturals, Sequences

CONSTANTS MaxCalls,   \* bound: calls of the SDK
          MaxEvents,  \* bound: events of the window, "closed" apart
          Capacity    \* units the kernel's side of the socket holds

VARIABLES
    \* SDK
    connected,        \* the socket of the channel
    nextId, pending,
    buffer,           \* units received since the last newline
    midChunk,         \* the data handler is running
    createId,         \* id of the window.create call, 0 before it
    browserWindow,    \* "none", "creating", "created" (resolved), "wired", "closed"
    \* between them
    toKernel, toSdk,
    \* kernel
    serving,          \* the main loop runs and the server listens
    client,           \* the client is in clients_
    lines,            \* lines OnReadable has read and not handled
    evals,            \* window.eval calls whose callback has not run
    window,           \* "none", "up", "closed"
    quitting,
    \* history
    events,           \* events of the window that were broadcast
    heard,            \* those that the BrowserWindow has emitted
    promise, executed

sdkVars == <<connected, nextId, pending, buffer, midChunk, createId, browserWindow>>
kernelVars == <<serving, client, lines, evals, window, quitting>>
vars == <<sdkVars, toKernel, toSdk, kernelVars, events, heard, promise, executed>>

Call == 1 .. MaxCalls
Command == {"create", "destroy", "eval", "quit", "other"}
Line == [type : {"answer"}, id : Call] \cup [type : {"event", "closed"}, id : {0}]
Unit == [line : Line, part : {"text", "end"}]

Units(line) == <<[line |-> line, part |-> "text"], [line |-> line, part |-> "end"]>>
Answer(id) == [type |-> "answer", id |-> id]
Event(type) == [type |-> type, id |-> 0]

Init ==
    /\ connected = TRUE
    /\ nextId = 1
    /\ pending = {}
    /\ buffer = <<>>
    /\ midChunk = FALSE
    /\ createId = 0
    /\ browserWindow = "none"
    /\ toKernel = <<>>
    /\ toSdk = <<>>
    /\ serving = TRUE
    /\ client = TRUE
    /\ lines = <<>>
    /\ evals = {}
    /\ window = "none"
    /\ quitting = FALSE
    /\ events = 0
    /\ heard = 0
    /\ promise = [c \in Call |-> "none"]
    /\ executed = {}

(***************************************************************************)
(* ControlChannel.call.  A BrowserWindow makes one window.create and uses  *)
(* the window once it has its id.                                          *)
(***************************************************************************)
Callable(cmd) ==
    CASE cmd = "create" -> browserWindow = "none"
      [] cmd \in {"destroy", "eval"} -> browserWindow \in {"wired", "closed"}
      [] OTHER -> TRUE

SdkCall(cmd) ==
    /\ connected
    /\ ~midChunk
    /\ nextId <= MaxCalls
    /\ Callable(cmd)
    /\ browserWindow' = IF cmd = "create" THEN "creating" ELSE browserWindow
    /\ createId' = IF cmd = "create" THEN nextId ELSE createId
    /\ nextId' = nextId + 1
    /\ pending' = pending \cup {nextId}
    /\ promise' = [promise EXCEPT ![nextId] = "waiting"]
    /\ toKernel' = Append(toKernel, [id |-> nextId, cmd |-> cmd])
    /\ UNCHANGED <<connected, buffer, midChunk, toSdk, kernelVars, events, heard, executed>>

(***************************************************************************)
(* WriteAll: what does not fit now is dropped.  Nothing is written once    *)
(* the client has gone.                                                    *)
(***************************************************************************)
WhatFits(s) == IF Len(s) <= Capacity THEN s ELSE SubSeq(s, 1, Capacity)

Write(units) ==
    toSdk' = IF client /\ connected
             THEN WhatFits(toSdk \o units)
             ELSE toSdk

(***************************************************************************)
(* OnReadable and HandleLine.  When the client has closed its end, HUP     *)
(* comes with the last data, and the data is not read.                     *)
(***************************************************************************)
Idle == serving /\ lines = <<>>

OnReadable ==
    /\ Idle /\ client
    /\ IF connected
       THEN /\ toKernel # <<>>
            /\ lines' = toKernel
            /\ toKernel' = <<>>
            /\ UNCHANGED client
       ELSE client' = FALSE /\ UNCHANGED <<lines, toKernel>>
    /\ UNCHANGED <<sdkVars, toSdk, serving, evals, window, quitting, events,
                   heard, promise, executed>>

\* Fault: window.eval is never answered here, not even with an error.
HandleLineDropsError ==
    LET id == Head(lines).id
        cmd == Head(lines).cmd
        destroys == cmd = "destroy" /\ window = "up"
        evaluates == cmd = "eval" /\ window = "up" IN
    /\ serving
    /\ lines # <<>>
    /\ lines' = Tail(lines)
    /\ executed' = executed \cup {id}
    /\ quitting' = (quitting \/ cmd = "quit")
    /\ evals' = IF evaluates THEN evals \cup {id} ELSE evals
    /\ window' = IF destroys THEN "closed" ELSE IF cmd = "create" THEN "up" ELSE window
    /\ events' = IF destroys THEN events + 1 ELSE events
    /\ CASE destroys -> Write(Units(Event("closed")) \o Units(Answer(id)))
         [] cmd = "eval" -> UNCHANGED toSdk
         [] OTHER -> Write(Units(Answer(id)))
    /\ UNCHANGED <<sdkVars, toKernel, serving, client, heard, promise>>

\* destroy broadcasts "closed" from inside the command, before its answer;
\* window.eval of a window that is up is answered by its callback.
HandleLine ==
    LET id == Head(lines).id
        cmd == Head(lines).cmd
        destroys == cmd = "destroy" /\ window = "up"
        evaluates == cmd = "eval" /\ window = "up" IN
    /\ serving
    /\ lines # <<>>
    /\ lines' = Tail(lines)
    /\ executed' = executed \cup {id}
    /\ quitting' = (quitting \/ cmd = "quit")
    /\ evals' = IF evaluates THEN evals \cup {id} ELSE evals
    /\ window' = IF destroys THEN "closed" ELSE IF cmd = "create" THEN "up" ELSE window
    /\ events' = IF destroys THEN events + 1 ELSE events
    /\ CASE destroys -> Write(Units(Event("closed")) \o Units(Answer(id)))
         [] evaluates -> UNCHANGED toSdk
         [] OTHER -> Write(Units(Answer(id)))
    /\ UNCHANGED <<sdkVars, toKernel, serving, client, heard, promise>>

\* The callback of window.eval: its answer comes after those of later commands.
EvalDone(id) ==
    /\ Idle
    /\ id \in evals
    /\ evals' = evals \ {id}
    /\ Write(Units(Answer(id)))
    /\ UNCHANGED <<sdkVars, toKernel, serving, client, lines, window, quitting,
                   events, heard, promise, executed>>

\* The listeners of WireWindowEvents: an event, or the end of the window
\* (its page or its close timer closes it).
WindowEvent ==
    /\ Idle
    /\ window = "up"
    /\ events' = events + 1
    /\ \/ events < MaxEvents /\ Write(Units(Event("event"))) /\ UNCHANGED window
       \/ Write(Units(Event("closed"))) /\ window' = "closed"
    /\ UNCHANGED <<sdkVars, toKernel, serving, client, lines, evals, quitting,
                   heard, promise, executed>>

\* The main loop ends and App::Main stops the server.
Stop ==
    /\ Idle
    /\ quitting
    /\ serving' = FALSE
    /\ client' = FALSE
    /\ UNCHANGED <<sdkVars, toKernel, toSdk, lines, evals, window, quitting,
                   events, heard, promise, executed>>

(***************************************************************************)
(* The SDK handles one unit of a chunk; last says that it is the last one  *)
(* of the chunk, after which the continuation of _create runs.             *)
(***************************************************************************)
EndOfChunk(last, state) == IF last /\ state = "created" THEN "wired" ELSE state

\* Fault: the answered call stays in the map.
OnDataKeepsPending(last) ==
    LET unit == Head(toSdk)
        line == unit.line
        whole == unit.part = "end" /\ buffer = <<Units(line)[1]>>
        answers == whole /\ line.type = "answer" /\ line.id \in pending
        hears == whole /\ line.type # "answer" /\ browserWindow = "wired" IN
    /\ connected
    /\ toSdk # <<>>
    /\ toSdk' = Tail(toSdk)
    /\ Tail(toSdk) = <<>> => last
    /\ midChunk' = ~last
    /\ buffer' = IF unit.part = "end" THEN <<>> ELSE Append(buffer, unit)
    /\ promise' = IF answers THEN [promise EXCEPT ![line.id] = "settled"] ELSE promise
    /\ heard' = IF hears THEN heard + 1 ELSE heard
    /\ browserWindow' = EndOfChunk(last,
           CASE hears /\ line.type = "closed" -> "closed"
             [] answers /\ line.id = createId -> "created"
             [] OTHER -> browserWindow)
    /\ UNCHANGED <<connected, nextId, pending, createId, toKernel, kernelVars, events,
                   executed>>

OnData(last) ==
    LET unit == Head(toSdk)
        line == unit.line
        whole == unit.part = "end" /\ buffer = <<Units(line)[1]>>
        answers == whole /\ line.type = "answer" /\ line.id \in pending
        hears == whole /\ line.type # "answer" /\ browserWindow = "wired" IN
    /\ connected
    /\ toSdk # <<>>
    /\ toSdk' = Tail(toSdk)
    /\ Tail(toSdk) = <<>> => last
    /\ midChunk' = ~last
    /\ buffer' = IF unit.part = "end" THEN <<>> ELSE Append(buffer, unit)
    /\ pending' = IF answers THEN pending \ {line.id} ELSE pending
    /\ promise' = IF answers THEN [promise EXCEPT ![line.id] = "settled"] ELSE promise
    /\ heard' = IF hears THEN heard + 1 ELSE heard
    /\ browserWindow' = EndOfChunk(last,
           CASE hears /\ line.type = "closed" -> "closed"
             [] answers /\ line.id = createId -> "created"
             [] OTHER -> browserWindow)
    /\ UNCHANGED <<connected, nextId, createId, toKernel, kernelVars, events, executed>>

\* The socket closes and rejectAllPending runs: after the kernel's end and the
\* last data (OnClose), or with the sidecar, whose promises end with it.
Disconnect ==
    /\ connected
    /\ connected' = FALSE
    /\ pending' = {}
    /\ promise' = [c \in Call |-> IF c \in pending THEN "dropped" ELSE promise[c]]
    /\ midChunk' = FALSE
    /\ UNCHANGED <<nextId, buffer, createId, browserWindow, toKernel, toSdk, kernelVars,
                   events, heard, executed>>

\* Fault: 'close' does not reject the pending calls.
OnCloseKeepsPending ==
    /\ ~client
    /\ toSdk = <<>>
    /\ connected
    /\ connected' = FALSE
    /\ UNCHANGED <<nextId, pending, buffer, midChunk, createId, browserWindow, toKernel,
                   toSdk, kernelVars, events, heard, promise, executed>>

OnClose == ~client /\ toSdk = <<>> /\ Disconnect

Next ==
    \/ \E cmd \in Command : SdkCall(cmd)
    \/ OnReadable \/ HandleLine \/ WindowEvent \/ Stop
    \/ \E c \in Call : EvalDone(c)
    \/ \E last \in BOOLEAN : OnData(last)
    \/ Disconnect \/ OnClose

(***************************************************************************)
(* Fairness of the kernel's main loop, of WebKit's callbacks and of the    *)
(* event loop of Node.  Nothing obliges a call, an event or an end.        *)
(***************************************************************************)
Fairness ==
    /\ WF_vars(OnReadable) /\ WF_vars(HandleLine) /\ WF_vars(Stop)
    /\ \A c \in Call : WF_vars(EvalDone(c))
    /\ WF_vars(\E last \in BOOLEAN : OnData(last)) /\ WF_vars(OnClose)

Spec == Init /\ [][Next]_vars /\ Fairness

------------------------------------------------------------------------------
TypeOK ==
    /\ connected \in BOOLEAN /\ midChunk \in BOOLEAN
    /\ serving \in BOOLEAN /\ client \in BOOLEAN /\ quitting \in BOOLEAN
    /\ nextId \in 1 .. MaxCalls + 1
    /\ createId \in 0 .. nextId - 1
    /\ pending \subseteq 1 .. nextId - 1
    /\ evals \subseteq executed /\ executed \subseteq 1 .. nextId - 1
    /\ toKernel \in Seq([id : Call, cmd : Command])
    /\ lines \in Seq([id : Call, cmd : Command])
    /\ toSdk \in Seq(Unit) /\ Len(toSdk) <= Capacity
    /\ buffer \in Seq(Unit)
    /\ browserWindow \in {"none", "creating", "created", "wired", "closed"}
    /\ window \in {"none", "up", "closed"}
    /\ events \in 0 .. MaxEvents + 1 /\ heard \in 0 .. events
    /\ promise \in [Call -> {"none", "waiting", "settled", "dropped"}]

(***************************************************************************)
(* "{id, cmd, params} -> {id, ok, result | error}" (docs/API.md): as long  *)
(* as both ends are up, a call that waits is on its way to the kernel, in  *)
(* it, or has its answer, readable, on its way back.  Needs a socket that  *)
(* never fills: WriteAll drops what does not fit.                          *)
(***************************************************************************)
CommandsOf(s) == {s[i].id : i \in DOMAIN s}

Answered == {c \in Call :
    \E i \in DOMAIN toSdk :
        /\ toSdk[i] = Units(Answer(c))[2]
        /\ (IF i = 1 THEN buffer ELSE <<toSdk[i - 1]>>) = <<Units(Answer(c))[1]>>}

NoLostAnswer ==
    connected /\ client =>
        pending \subseteq CommandsOf(toKernel) \cup CommandsOf(lines) \cup evals \cup Answered

(***************************************************************************)
(* "Eventos reenviados" (docs/BRIDGE.md): once everything sent has been    *)
(* read, the BrowserWindow has emitted every event of its window.  The     *)
(* code loses those that come in one chunk with the answer to              *)
(* window.create: the listeners are attached by a continuation.            *)
(***************************************************************************)
EventsAreHeard ==
    connected /\ client /\ toSdk = <<>> /\ browserWindow \in {"wired", "closed"} =>
        heard = events

\* Every promise of the SDK settles: answered, or rejected with the socket.
AnsweredOrRejected == \A c \in Call : promise[c] = "waiting" ~> promise[c] # "waiting"

\* A call runs at most once and settles at most once, after it ran.
Contract == INSTANCE RpcContract
ImplementsContract == Contract!Spec
=============================================================================
