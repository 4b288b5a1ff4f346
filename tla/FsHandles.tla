----------------------------- MODULE FsHandles -----------------------------
(***************************************************************************)
(* The functions of the module fs on files (handles.cpp, basic.cpp,        *)
(* meta.cpp): handles, which are std::fstream, and the functions that      *)
(* take paths.  They run one at a time on the main thread; the sidecar and *)
(* other programs work on the same files meanwhile, also in the middle of  *)
(* readFile, which asks for the size and then reads.                       *)
(*                                                                         *)
(* A stream has one position for reading and writing, reads ahead, keeps   *)
(* what is written until it seeks, reads or is closed, and once it has     *)
(* failed does nothing until it is cleared; nothing here clears it.        *)
(***************************************************************************)
EXTENDS Integers, Sequences

CONSTANTS Paths,      \* names in one directory
          MaxFiles,   \* bound: files, directories and links made
          MaxLength,  \* bound: bytes of a file
          Threshold,  \* bytes from which an answer goes through shared memory (256 KB)
          MaxHandles, \* bound: handles opened
          MaxCalls    \* bound: calls, and changes by other programs

VARIABLES
    names,      \* names[p]: the file of that name, 0 when there is none
    node,       \* node[n] = [kind, data, to, may]: "file", "dir" or "link", and
                \* whether its mode lets the program in
    g_handles,  \* g_handles[id] = [node, path, in, out, app, pos, held, ahead, failed]
    g_nextId,
    reading,    \* the readFile in progress: [path, size], or NotReading
    answer,     \* history: the last answer
    opened,     \* history: opened[id], the file the program opened
    cursor,     \* history: cursor[id], where the program's next byte is, from the
                \* offsets it gave and the bytes it got
    calls

handleVars == <<g_handles, g_nextId, opened, cursor>>
vars == <<names, node, g_handles, g_nextId, reading, answer, opened, cursor, calls>>

Node == 1 .. MaxFiles
Make(kind, bytes, to) == [kind |-> kind, data |-> bytes, to |-> to, may |-> TRUE]
Free == Make("free", <<>>, "none")
File(bytes) == Make("file", bytes, "none")
NotReading == [path |-> "none", size |-> 0]
Done == [ok |-> TRUE]
Refused == [ok |-> FALSE]
LeastOf(a, b) == IF a < b THEN a ELSE b
Modes == {"r", "w", "a", "r+", "w+", "x"}

\* The bytes of data with `more' written at pos; a gap is filled with zeros.
Over(data, pos, more) ==
    LET length == IF pos + Len(more) > Len(data) THEN pos + Len(more) ELSE Len(data)
    IN IF more = <<>> THEN data
       ELSE [k \in 1 .. length |->
                IF k > pos /\ k <= pos + Len(more) THEN more[k - pos]
                ELSE IF k <= Len(data) THEN data[k] ELSE 0]

\* The name a path leads to, and its file: 0 when there is none.  With two
\* names, a link to a link is a loop.
Target(p) == IF names[p] # 0 /\ node[names[p]].kind = "link" THEN node[names[p]].to ELSE p
Follow(p) ==
    LET n == names[Target(p)] IN IF n = 0 \/ node[n].kind = "link" THEN 0 ELSE n

IsA(p, kind) == Follow(p) # 0 /\ node[Follow(p)].kind = kind
IsFile(p) == IsA(p, "file") /\ node[Follow(p)].may
FreeNode == CHOOSE n \in Node : node[n].kind = "free"
CanMake == \E n \in Node : node[n].kind = "free"

Init ==
    /\ names = [p \in Paths |-> IF p = "a" THEN 1 ELSE 0]
    /\ node = [n \in Node |-> IF n = 1 THEN File(<<1, 2>>) ELSE Free]
    /\ g_handles = <<>> /\ g_nextId = 1
    /\ reading = NotReading /\ answer = Done /\ calls = 0
    /\ opened = <<>> /\ cursor = <<>>

Counting == calls < MaxCalls /\ calls' = calls + 1
Call == reading = NotReading /\ Counting /\ UNCHANGED reading

(***************************************************************************)
(* Handles.  The path of a handle is kept and used for nothing.            *)
(***************************************************************************)
Stream(n, p, flags) ==
    [node |-> n, path |-> p, in |-> flags \in {"r", "r+", "w+"}, out |-> flags # "r",
     app |-> flags = "a", pos |-> 0, held |-> <<>>, ahead |-> <<>>,
     failed |-> FALSE]

openFn(p, flags) ==
    LET makes == flags \in {"w", "a", "w+"} /\ names[Target(p)] = 0
        n == IF makes THEN FreeNode ELSE Follow(p)
    IN /\ Call
       /\ g_nextId <= MaxHandles
       /\ makes => CanMake
       /\ IF flags = "x" \/ (~makes /\ ~IsFile(p))
          THEN answer' = Refused /\ UNCHANGED <<names, node, handleVars>>
          ELSE /\ names' = IF makes THEN [names EXCEPT ![Target(p)] = n] ELSE names
               /\ node' = IF makes \/ flags \in {"w", "w+"}
                          THEN [node EXCEPT ![n] = File(<<>>)] ELSE node
               /\ g_handles' = [id \in DOMAIN g_handles \cup {g_nextId} |->
                      IF id = g_nextId THEN Stream(n, p, flags) ELSE g_handles[id]]
               /\ g_nextId' = g_nextId + 1
               /\ opened' = Append(opened, n) /\ cursor' = Append(cursor, 0)
               /\ answer' = [fd |-> g_nextId]

\* What a stream holds goes into its file before the held bytes' end, pos.
Flushed(h) ==
    LET at == IF h.app THEN Len(node[h.node].data) ELSE h.pos - Len(h.held)
    IN [node EXCEPT ![h.node].data = Over(@, at, h.held)]

NoOffset == -1

\* What a read must answer: the bytes at the cursor of the file that was opened.
Expected(id, offset, length, files) ==
    LET at == IF offset = NoOffset THEN cursor[id] ELSE offset
        data == files[opened[id]].data
    IN [from |-> at, bytes |-> SubSeq(data, at + 1, LeastOf(at + length, Len(data)))]

\* After a seek the stream reads the file, otherwise what it has read ahead.
\* Both write first what it holds, even if it was not opened for reading.
readFn(id, offset, length) ==
    LET h == g_handles[id]
        files == IF h.failed THEN node ELSE Flushed(h)
        dead == h.failed \/ ~h.in
        seeks == offset # NoOffset /\ ~h.failed
        pos == IF seeks THEN offset ELSE h.pos
        ahead == IF seeks THEN <<>> ELSE h.ahead
        file == files[h.node].data
        there == IF length <= Len(ahead) THEN ahead
                 ELSE ahead \o SubSeq(file, pos + Len(ahead) + 1, Len(file))
        got == IF dead THEN <<>> ELSE SubSeq(there, 1, LeastOf(length, Len(there)))
        expected == Expected(id, offset, length, files)
    IN /\ Call /\ id \in DOMAIN g_handles
       /\ node' = files
       /\ g_handles' = [g_handles EXCEPT ![id] =
              [h EXCEPT !.pos = pos + Len(got), !.failed = @ \/ Len(got) < length,
                        !.held = IF h.failed THEN @ ELSE <<>>,
                        !.ahead = IF dead THEN @ ELSE SubSeq(there, Len(got) + 1, Len(there))]]
       /\ cursor' = [cursor EXCEPT ![id] = expected.from + Len(got)]
       /\ answer' = [bytes |-> got, eof |-> Len(got) < length \/ got = <<>>,
                     shm |-> Len(got) >= Threshold, expected |-> expected.bytes,
                     failed |-> dead,
                     stale |-> \/ pos + Len(ahead) > Len(file)
                               \/ ahead # SubSeq(file, pos + 1, pos + Len(ahead))]
       /\ UNCHANGED <<names, g_nextId, opened>>

writeFn(id, offset, b) ==
    LET h == g_handles[id]
        moves == offset # NoOffset
        pos == IF moves THEN offset ELSE h.pos
    IN /\ Call /\ id \in DOMAIN g_handles
       /\ IF h.failed \/ ~h.out
          THEN /\ g_handles' = [g_handles EXCEPT ![id].failed = TRUE]
               /\ answer' = Refused /\ UNCHANGED <<node, cursor>>
          ELSE /\ pos < MaxLength
               /\ node' = IF moves THEN Flushed(h) ELSE node
               /\ g_handles' = [g_handles EXCEPT ![id] =
                      [h EXCEPT !.pos = pos + 1, !.ahead = <<>>,
                                !.held = IF moves THEN <<b>> ELSE Append(@, b)]]
               /\ cursor' = [cursor EXCEPT ![id] = 1 + IF moves THEN offset ELSE @]
               /\ answer' = [written |-> 1]
       /\ UNCHANGED <<names, g_nextId, opened>>

\* Fault: the position stays at the end.
SizeFnStaysAtEnd(id) ==
    LET h == g_handles[id]
        end == Len(Flushed(h)[h.node].data)
    IN /\ Call /\ id \in DOMAIN g_handles
       /\ IF h.failed
          THEN answer' = [size |-> -1] /\ UNCHANGED <<node, g_handles>>
          ELSE /\ node' = Flushed(h)
               /\ g_handles' = [g_handles EXCEPT ![id] = 
                      [h EXCEPT !.held = <<>>, !.ahead = <<>>, !.pos = end]]
               /\ answer' = [size |-> end]
       /\ UNCHANGED <<names, g_nextId, opened, cursor>>

sizeFn(id) ==
    LET h == g_handles[id] IN
    /\ Call /\ id \in DOMAIN g_handles
    /\ IF h.failed
       THEN answer' = [size |-> -1] /\ UNCHANGED <<node, g_handles>>
       ELSE /\ node' = Flushed(h)
            /\ g_handles' = [g_handles EXCEPT ![id] = [h EXCEPT !.held = <<>>, !.ahead = <<>>]]
            /\ answer' = [size |-> Len(node'[h.node].data)]
    /\ UNCHANGED <<names, g_nextId, opened, cursor>>

closeFn(id) ==
    /\ Call /\ id \in DOMAIN g_handles
    /\ node' = Flushed(g_handles[id])
    /\ g_handles' = [k \in DOMAIN g_handles \ {id} |-> g_handles[k]]
    /\ answer' = Done
    /\ UNCHANGED <<names, g_nextId, opened, cursor>>

(***************************************************************************)
(* Functions that take paths.  Those that change nothing:                  *)
(***************************************************************************)
exists(p) == [yes |-> Follow(p) # 0]
stat(p) == IF Follow(p) = 0 THEN Done
           ELSE [kind |-> node[Follow(p)].kind, length |-> Len(node[Follow(p)].data)]
lstat(p) == IF names[p] = 0 THEN Done ELSE [type |-> node[names[p]].kind]
readlink(p) == IF names[p] # 0 /\ node[names[p]].kind = "link"
               THEN [link |-> node[names[p]].to] ELSE Refused
realpath(p) == IF Follow(p) = 0 THEN Refused ELSE [path |-> Target(p)]
access(p) == [yes |-> Follow(p) # 0 /\ node[Follow(p)].may]
readText(p) == IF IsFile(p) THEN [text |-> node[Follow(p)].data] ELSE Refused
readDir(p) == IF IsA(p, "dir") THEN [entries |-> {}] ELSE Refused

Ask(p) ==
    /\ Call
    /\ answer' \in {exists(p), stat(p), lstat(p), readlink(p), realpath(p), access(p),
                    readText(p), readDir(p)}
    /\ UNCHANGED <<names, node, handleVars>>

\* readFile: the size, and later the bytes, in one answer.
readFileSize(p) ==
    /\ reading = NotReading /\ Counting
    /\ IF IsA(p, "file")
       THEN /\ reading' = [path |-> p, size |-> Len(node[Follow(p)].data)]
            /\ UNCHANGED answer
       ELSE answer' = Refused /\ UNCHANGED reading
    /\ UNCHANGED <<names, node, handleVars>>

readFileBytes ==
    /\ reading # NotReading
    /\ reading' = NotReading
    /\ answer' = IF IsFile(reading.path)
                 THEN [bytes |-> node[Follow(reading.path)].data,
                       shm |-> reading.size >= Threshold, said |-> reading.size]
                 ELSE Refused
    /\ UNCHANGED <<names, node, handleVars, calls>>

\* What writing bytes under a path makes of names and node.
Written(p, bytes) ==
    LET n == IF names[Target(p)] = 0 THEN FreeNode ELSE Follow(p) IN
    /\ names' = [names EXCEPT ![Target(p)] = n]
    /\ node' = [node EXCEPT ![n] = IF names[Target(p)] = 0 THEN File(bytes)
                                   ELSE [@ EXCEPT !.data = bytes]]

CanWrite(p) == names[Target(p)] = 0 \/ IsFile(p)

writeFile(p, bytes) ==
    /\ Call
    /\ names[Target(p)] = 0 => CanMake
    /\ IF CanWrite(p)
       THEN Written(p, bytes) /\ answer' = Done
       ELSE answer' = Refused /\ UNCHANGED <<names, node>>
    /\ UNCHANGED handleVars

Created(p, made) ==
    /\ names' = [names EXCEPT ![p] = FreeNode]
    /\ node' = [node EXCEPT ![FreeNode] = made]

\* create_directory says nothing when the directory is there already.
mkdir(p) ==
    /\ Call /\ CanMake
    /\ IF names[p] = 0
       THEN Created(p, Make("dir", <<>>, "none")) /\ answer' = Done
       ELSE /\ answer' = IF IsA(p, "dir") THEN Done ELSE Refused
            /\ UNCHANGED <<names, node>>
    /\ UNCHANGED handleVars

symlink(target, p) ==
    /\ Call /\ CanMake
    /\ IF names[p] = 0
       THEN Created(p, Make("link", <<>>, target)) /\ answer' = Done
       ELSE answer' = Refused /\ UNCHANGED <<names, node>>
    /\ UNCHANGED handleVars

\* A file that is not there is removed without an error.
remove(p) ==
    /\ Call
    /\ names' = [names EXCEPT ![p] = 0]
    /\ answer' = Done
    /\ UNCHANGED <<node, handleVars>>

copy(from, to, overwrite) ==
    LET onto == IF names[Target(to)] = 0 THEN "nothing"
                ELSE IF Follow(to) = 0 THEN "loop" ELSE node[Follow(to)].kind
        can == /\ Follow(from) # 0 /\ node[Follow(from)].may
               /\ Follow(from) # Follow(to)
               /\ \/ IsA(from, "file") /\ onto \in {"nothing", "dir"}
                  \/ IsA(from, "file") /\ onto = "file" /\ overwrite /\ IsFile(to)
                  \/ IsA(from, "dir") /\ onto \in {"nothing", "dir"}
    IN /\ Call
       /\ onto = "nothing" => CanMake
       /\ answer' = IF can THEN Done ELSE Refused
       /\ IF ~can \/ onto = "dir" THEN UNCHANGED <<names, node>>
          ELSE IF IsA(from, "file") THEN Written(to, node[Follow(from)].data)
          ELSE Created(Target(to), Make("dir", <<>>, "none"))
       /\ UNCHANGED handleVars

rename(from, to) ==
    LET dir(p) == node[names[p]].kind = "dir"
        can == names[from] # 0 /\ (names[to] # 0 => dir(from) = dir(to))
    IN /\ Call
       /\ answer' = IF can THEN Done ELSE Refused
       /\ names' = IF can /\ from # to
                   THEN [names EXCEPT ![to] = names[from], ![from] = 0] ELSE names
       /\ UNCHANGED <<node, handleVars>>

chmod(p, may) ==
    /\ Call
    /\ IF Follow(p) # 0
       THEN node' = [node EXCEPT ![Follow(p)].may = may] /\ answer' = Done
       ELSE answer' = Refused /\ UNCHANGED node
    /\ UNCHANGED <<names, handleVars>>

truncate(p, size) ==
    /\ Call
    /\ IF IsFile(p)
       THEN /\ node' = [node EXCEPT ![Follow(p)].data =
                            [k \in 1 .. size |-> IF k <= Len(@) THEN @[k] ELSE 0]]
            /\ answer' = Done
       ELSE answer' = Refused /\ UNCHANGED node
    /\ UNCHANGED <<names, handleVars>>

\* Another program writes a file, in place or a new one under the same name.
Other(p, bytes) ==
    /\ Counting
    /\ \/ /\ IsA(p, "file")
          /\ node' = [node EXCEPT ![Follow(p)].data = bytes] /\ UNCHANGED names
       \/ CanMake /\ Created(p, File(bytes))
    /\ UNCHANGED <<handleVars, reading, answer>>

Next ==
    \/ \E p \in Paths :
          \/ \E flags \in Modes : openFn(p, flags)
          \/ Ask(p) \/ readFileSize(p) \/ mkdir(p) \/ remove(p)
          \/ \E bytes \in {<<>>, <<3, 3, 3>>} : writeFile(p, bytes) \/ Other(p, bytes)
          \/ \E q \in Paths : symlink(q, p) \/ rename(q, p)
          \/ \E q \in Paths, b \in BOOLEAN : copy(q, p, b)
          \/ \E b \in BOOLEAN : chmod(p, b)
          \/ \E n \in {1, MaxLength} : truncate(p, n)
    \/ readFileBytes
    \/ \E id \in DOMAIN g_handles :
          \/ \E at \in {NoOffset, 0, 1} :
                 \/ \E n \in {1, 2} : readFn(id, at, n)
                 \/ writeFn(id, at, 7)
          \/ sizeFn(id) \/ closeFn(id)

Spec == Init /\ [][Next]_vars

-----------------------------------------------------------------------------
(***************************************************************************)
(* A program that reads a handle, with offsets or one read after the       *)
(* other, gets the bytes of the file it opened, its own writes among them, *)
(* each at its place, whatever it asks in between and whatever becomes of  *)
(* the name; until a read has met the end, and unless another has changed  *)
(* bytes the stream had read ahead.                                        *)
(***************************************************************************)
IsRead == "expected" \in DOMAIN answer

ReadsFollow ==
    IsRead /\ ~answer.failed /\ ~answer.stale => answer.bytes = answer.expected

(***************************************************************************)
(* The same after a read has met the end of the file.                      *)
(***************************************************************************)
ReadsFollowAfterEnd == IsRead /\ ~answer.stale => answer.bytes = answer.expected

(***************************************************************************)
(* The size readFile gives is that of the bytes it gives.                  *)
(***************************************************************************)
SizeIsOfBytes == "said" \in DOMAIN answer => answer.said = Len(answer.bytes)
=============================================================================
