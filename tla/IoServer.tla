------------------------------ MODULE IoServer ------------------------------
(***************************************************************************)
(* The control servers that do their input on a thread of their own: the   *)
(* named pipe of Windows (src/src/Control/ControlServer_win.cpp), with one *)
(* reader thread and one client at a time, and the socket of macOS         *)
(* (ControlServer_mac.mm), with a serial queue and any number of clients.  *)
(* Both post every line to the main loop, which handles it and sends the   *)
(* answer to the client by its id, if that client is still there.          *)
(*                                                                         *)
(* A line is two units, so that a read can end in the middle of it; a      *)
(* client sends its lines 1, 2, ... and never connects twice.              *)
(***************************************************************************)
EXTENDS Naturals, Sequences, FiniteSets

CONSTANTS Platform,     \* "win" or "mac"
          Clients,      \* processes that connect, any of them the SDK
          NoClient,
          MaxLines      \* bound: lines of a client

VARIABLES
    pipe,               \* win: "listening", "connected", "closed"; mac: "listening"
    conn,               \* conn[c]: "away", "waiting", "open", "refused", "left"
    stream,             \* stream[c]: units the client has sent, the server not read
    written,            \* written[c]: lines the client has sent
    clientOf,           \* clients_: clientOf[id] is the client of an id, or NoClient
    half,               \* half[id]: its buffer holds the first half of a line
    nextClientId,
    reader,             \* the client AcceptOne reads from, or NoClient (win)
    queue,              \* posted HandleLine calls: <<id, line, its client>>
    running,            \* running_ / acceptSource_
    readerEnded,        \* the reader thread has returned (mac: the queue is idle)
    stopped,            \* PlatformStop has returned
    handled,            \* history: the lines handled, <<client, line>>
    answersTo           \* history: answersTo[c]: whose lines it got answers to

serverVars == <<pipe, conn, stream, written, clientOf, half, nextClientId, reader,
                queue, running, readerEnded, stopped, handled, answersTo>>

ClientIds == 1 .. Cardinality(Clients)

Init ==
    /\ pipe = "listening"
    /\ conn = [c \in Clients |-> "away"]
    /\ stream = [c \in Clients |-> 0]
    /\ written = [c \in Clients |-> 0]
    /\ clientOf = [i \in ClientIds |-> NoClient]
    /\ half = [i \in ClientIds |-> FALSE]
    /\ nextClientId = 1
    /\ reader = NoClient
    /\ queue = <<>> /\ running = TRUE /\ readerEnded = FALSE /\ stopped = FALSE
    /\ handled = <<>>
    /\ answersTo = [c \in Clients |-> {}]

Served(c) == {i \in ClientIds : clientOf[i] = c}

(***************************************************************************)
(* The clients: a second one cannot open the pipe until it is made again;  *)
(* a socket lets it wait in the backlog.                                   *)
(***************************************************************************)
Connect(c) ==
    /\ conn[c] = "away" /\ pipe = "listening"
    /\ conn' = [conn EXCEPT ![c] = "waiting"]
    /\ pipe' = IF Platform = "win" THEN "connected" ELSE pipe
    /\ UNCHANGED <<stream, written, clientOf, half, nextClientId, reader, queue,
                   running, readerEnded, stopped, handled, answersTo>>

SendLine(c) ==
    /\ conn[c] \in {"waiting", "open"} /\ written[c] < MaxLines
    /\ written' = [written EXCEPT ![c] = @ + 1]
    /\ stream' = [stream EXCEPT ![c] = @ + 2]
    /\ UNCHANGED <<pipe, conn, clientOf, half, nextClientId, reader, queue,
                   running, readerEnded, stopped, handled, answersTo>>

Leave(c) ==
    /\ conn[c] \in {"waiting", "open"}
    /\ conn' = [conn EXCEPT ![c] = "left"]
    /\ UNCHANGED <<pipe, stream, written, clientOf, half, nextClientId, reader, queue,
                   running, readerEnded, stopped, handled, answersTo>>

(***************************************************************************)
(* AcceptOne up to its read loop, and the handler of acceptSource_.  A     *)
(* client of another user is refused (on Windows the pipe is made again).  *)
(***************************************************************************)
\* Fault: the ids of clients that have left are used again.
RegisterReuses(c) ==
    LET id == CHOOSE i \in ClientIds :
                 clientOf[i] = NoClient /\ \A j \in 1 .. i - 1 : clientOf[j] # NoClient
    IN /\ clientOf' = [clientOf EXCEPT ![id] = c]
       /\ half' = [half EXCEPT ![id] = FALSE]
       /\ UNCHANGED nextClientId

Register(c) ==
    /\ clientOf' = [clientOf EXCEPT ![nextClientId] = c]
    /\ half' = [half EXCEPT ![nextClientId] = FALSE]
    /\ nextClientId' = nextClientId + 1

\* ConnectNamedPipe fails for ever once a client has come and gone before it.

AcceptOne(c) ==
    /\ Platform = "win" /\ running
    /\ reader = NoClient /\ pipe = "connected" /\ conn[c] = "waiting"
    /\ \/ /\ Register(c)
          /\ reader' = c
          /\ conn' = [conn EXCEPT ![c] = "open"]
          /\ UNCHANGED pipe
       \/ /\ conn' = [conn EXCEPT ![c] = "refused"]
          /\ pipe' = "listening"
          /\ UNCHANGED <<clientOf, half, nextClientId, reader>>
    /\ stream' = IF conn'[c] = "refused" THEN [stream EXCEPT ![c] = 0] ELSE stream
    /\ UNCHANGED <<written, queue, running, readerEnded, stopped, handled, answersTo>>

OnAccept(c) ==
    /\ Platform = "mac" /\ running /\ Served(c) = {}
    /\ \/ conn[c] = "waiting"
       \/ conn[c] = "left" /\ stream[c] > 0         \* it has left its data
    /\ \/ /\ Register(c)
          /\ conn' = [conn EXCEPT ![c] = IF @ = "waiting" THEN "open" ELSE @]
          /\ UNCHANGED stream
       \/ /\ conn' = [conn EXCEPT ![c] = "refused"]
          /\ stream' = [stream EXCEPT ![c] = 0]
          /\ UNCHANGED <<clientOf, half, nextClientId>>
    /\ UNCHANGED <<pipe, written, reader, queue, running, readerEnded, stopped,
                   handled, answersTo>>

\* One read of n units, the pieces put together, and a post for every line.
Read(id, n) ==
    LET c     == clientOf[id]
        had   == IF half[id] THEN 1 ELSE 0
        lines == (had + n) \div 2
        first == written[c] - (stream[c] + had) \div 2 + 1
    IN /\ c # NoClient /\ n \in 1 .. stream[c]
       /\ stream' = [stream EXCEPT ![c] = @ - n]
       /\ half' = [half EXCEPT ![id] = (had + n) % 2 = 1]
       /\ queue' = queue \o [k \in 1 .. lines |-> <<id, first + k - 1, c>>]
       /\ UNCHANGED <<pipe, conn, written, clientOf, nextClientId, reader,
                      running, readerEnded, stopped, handled, answersTo>>

ReadPipe(id) ==
    /\ Platform = "win" /\ running /\ reader # NoClient /\ clientOf[id] = reader
    /\ \E n \in 1 .. 2 * MaxLines : Read(id, n)

OnReadable(id) ==
    /\ Platform = "mac" /\ running
    /\ \E n \in 1 .. 2 * MaxLines : Read(id, n)

\* The client has closed its end and everything is read: its id goes.  On
\* Windows the pipe is made again for the next client.
EndOfPipe(id) ==
    /\ Platform = "win" /\ reader # NoClient /\ clientOf[id] = reader
    /\ pipe = "closed" \/ (conn[reader] = "left" /\ stream[reader] = 0)
    /\ clientOf' = [clientOf EXCEPT ![id] = NoClient]
    /\ reader' = NoClient
    /\ pipe' = IF running THEN "listening" ELSE "closed"
    /\ UNCHANGED <<conn, stream, written, half, nextClientId, queue, running,
                   readerEnded, stopped, handled, answersTo>>

Cleanup(id) ==
    /\ Platform = "mac" /\ clientOf[id] # NoClient
    /\ conn[clientOf[id]] = "left" /\ stream[clientOf[id]] = 0
    /\ clientOf' = [clientOf EXCEPT ![id] = NoClient]
    /\ UNCHANGED <<pipe, conn, stream, written, half, nextClientId, reader, queue,
                   running, readerEnded, stopped, handled, answersTo>>

\* ReaderLoop ends: ConnectNamedPipe fails on the closed handle.
ReaderEnds ==
    /\ Platform = "win" /\ pipe = "closed" /\ reader = NoClient
    /\ ~readerEnded
    /\ readerEnded' = TRUE
    /\ UNCHANGED <<pipe, conn, stream, written, clientOf, half, nextClientId, reader,
                   queue, running, stopped, handled, answersTo>>

(***************************************************************************)
(* The main thread: a posted HandleLine, whose answer PlatformSend writes  *)
(* to the client of the id, and PlatformStop.                              *)
(***************************************************************************)
HandleLine ==
    /\ running /\ queue # <<>>
    /\ queue' = Tail(queue)
    /\ LET id == Head(queue)[1]
           to == clientOf[id]
           by == Head(queue)[3]
       IN /\ handled' = Append(handled, <<by, Head(queue)[2]>>)
          /\ answersTo' = IF to = NoClient THEN answersTo
                          ELSE [answersTo EXCEPT ![to] = @ \cup {by}]
    /\ UNCHANGED <<pipe, conn, stream, written, clientOf, half, nextClientId, reader,
                   running, readerEnded, stopped>>

\* Fault: the pipe is not closed before the thread is waited for.
PlatformStopOpen ==
    /\ Platform = "win" /\ running
    /\ running' = FALSE
    /\ UNCHANGED <<pipe, conn, stream, written, clientOf, half, nextClientId, reader,
                   queue, readerEnded, stopped, handled, answersTo>>

PlatformStop ==
    /\ Platform = "win" /\ running
    /\ running' = FALSE /\ pipe' = "closed"
    /\ UNCHANGED <<conn, stream, written, clientOf, half, nextClientId, reader,
                   queue, readerEnded, stopped, handled, answersTo>>

Join ==
    /\ Platform = "win" /\ ~running /\ readerEnded /\ ~stopped
    /\ stopped' = TRUE
    /\ UNCHANGED <<pipe, conn, stream, written, clientOf, half, nextClientId, reader,
                   queue, running, readerEnded, handled, answersTo>>

\* The accept source is cancelled, every socket closed, the map cleared.
PlatformStopMac ==
    /\ Platform = "mac" /\ running
    /\ running' = FALSE /\ stopped' = TRUE
    /\ clientOf' = [i \in ClientIds |-> NoClient]
    /\ UNCHANGED <<pipe, conn, stream, written, half, nextClientId, reader, queue,
                   readerEnded, handled, answersTo>>

Io(c) == AcceptOne(c) \/ OnAccept(c)

IoOf(id) == ReadPipe(id) \/ OnReadable(id) \/ EndOfPipe(id) \/ Cleanup(id)

Next ==
    \/ \E c \in Clients : Connect(c) \/ SendLine(c) \/ Leave(c) \/ Io(c)
    \/ \E id \in ClientIds : IoOf(id)
    \/ ReaderEnds \/ HandleLine \/ PlatformStop \/ Join \/ PlatformStopMac

\* The I/O thread and the main thread do what they have to do.
Fairness ==
    /\ WF_serverVars(\E id \in ClientIds : IoOf(id))
    /\ WF_serverVars(ReaderEnds) /\ WF_serverVars(Join)

-----------------------------------------------------------------------------
(***************************************************************************)
(* However the reads cut the stream, and whoever has left meanwhile, the   *)
(* main loop handles the lines of a client once each and in their order,   *)
(* and the answer to a line goes to the client that sent it or to nobody:  *)
(* never to the next client, which has not asked.                          *)
(***************************************************************************)
\* A line comes after the one before it, and after no later one.
InOrder(list) ==
    \A k \in 1 .. Len(list) :
        LET c == list[k][1]
            n == list[k][2]
        IN /\ \A j \in 1 .. k - 1 : list[j][1] = c => list[j][2] < n
           /\ n = 1 \/ \E j \in 1 .. k - 1 : list[j] = <<c, n - 1>>

OwnLinesOwnAnswers == InOrder(handled) /\ \A c \in Clients : answersTo[c] \subseteq {c}

(***************************************************************************)
(* PlatformStop returns: wherever the reader thread is (waiting for a      *)
(* client, in a read, between two pipes), closing the pipe lets it end.    *)
(***************************************************************************)
StopReturns == ~running ~> stopped
=============================================================================
