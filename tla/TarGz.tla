------------------------------- MODULE TarGz -------------------------------
(***************************************************************************)
(* The extractor of .tar.gz files (src/src/Runtime/TarGz.cpp): the lambda  *)
(* `feed' of ExtractTarGz and the TarWriter it drives.  zlib hands the     *)
(* archive over in chunks whose borders have nothing to do with the blocks *)
(* of the tar format, so every piece of the parser's state must survive    *)
(* from one call of `feed' to the next.                                    *)
(*                                                                         *)
(* A block has kBlock cells instead of 512 bytes.  An archive is a         *)
(* sequence of entries followed by blocks of zeros; Stream lays it out.    *)
(* The stream may be cut anywhere (a download that ended early is taken    *)
(* for a whole one, see Http.tla) or turn out corrupt at any chunk, and    *)
(* the disk may refuse what is written.                                    *)
(***************************************************************************)
EXTENDS Integers, SequencesExt

CONSTANTS kBlock,      \* cells of a block
          Archives     \* bound: the archives tried, [entries, zeros, takes]

VARIABLES
    archive,           \* the archive being extracted; the disk takes the first
                       \* archive.takes[e] cells of entry e's blocks
    cut,               \* cells of it the file really has
    fed,               \* cells inflate has produced
    tar,               \* the state of the parser and of its TarWriter
    tarResult          \* "running", or what ExtractTarGz returned: "ok", "error"

tarVars == <<archive, cut, fed, tar, tarResult>>

\* No path, and the empty long name.
NoName == ""

Cell(kind, e, i) == [kind |-> kind, e |-> e, i |-> i]

Rounded(size) == ((size + kBlock - 1) \div kBlock) * kBlock

Blocks(a, e) ==
    [i \in 1 .. kBlock |-> Cell("header", e, i)]
    \o [i \in 1 .. Rounded(a.entries[e].size) |->
           Cell(IF i <= a.entries[e].size THEN "data" ELSE "padding", e, i)]

\* The first n entries, and the whole archive.
Laid(a, n) == FlattenSeq([e \in 1 .. n |-> Blocks(a, e)])

Stream(a) == Laid(a, Len(a.entries)) \o [i \in 1 .. a.zeros * kBlock |-> Cell("zero", 0, 0)]

Start == [hdr |-> <<>>, left |-> 0, inData |-> FALSE, longName |-> NoName,
          pendingLong |-> FALSE, sawEnd |-> FALSE, ended |-> FALSE, ok |-> TRUE,
          open |-> NoName, collecting |-> FALSE, longBuf |-> NoName, files |-> <<>>]

Init ==
    /\ archive \in Archives
    /\ cut \in 0 .. Len(Stream(archive))
    /\ fed = 0
    /\ tar = Start
    /\ tarResult = "running"

(***************************************************************************)
(* TarWriter: Begin, Data and End.  `unsafe' stands for a name that Begin  *)
(* refuses: absolute, with "..", or not one a file can be opened by.       *)
(***************************************************************************)
Truncated(files, path) ==
    [f \in DOMAIN files \cup {path} |-> IF f = path THEN <<>> ELSE files[f]]

Begin(s, entry) ==
    LET path == IF s.longName = NoName THEN entry.name ELSE s.longName
    IN CASE path = "unsafe" -> [s EXCEPT !.ok = FALSE]
         [] path # "unsafe" /\ entry.type = "long" -> [s EXCEPT !.longBuf = NoName]
         [] path # "unsafe" /\ entry.type = "file" ->
                [s EXCEPT !.open = path, !.files = Truncated(@, path)]
         [] OTHER -> s

\* A write that fails leaves file_ in an error state, in which it writes nothing
\* more of this file.  Neither it nor close is looked at.
Taken(a, s, cell) == s.open # NoName /\ Len(s.files[s.open]) < a.takes[cell.e]

Data(a, s, cell) ==
    CASE s.collecting /\ cell.kind = "data" -> [s EXCEPT !.longBuf = a.entries[cell.e].text]
      [] ~s.collecting /\ Taken(a, s, cell) -> [s EXCEPT !.files[s.open] = Append(@, cell)]
      [] OTHER -> s

\* Fault: the name a long-name entry gave stays for every entry that follows.
EndKeepsName(s) ==
    [s EXCEPT !.open = NoName, !.collecting = FALSE, !.inData = FALSE,
              !.pendingLong = FALSE,
              !.longName = IF s.pendingLong THEN s.longBuf ELSE @]

End(s) ==
    [s EXCEPT !.open = NoName, !.collecting = FALSE, !.inData = FALSE,
              !.pendingLong = FALSE,
              !.longName = IF s.pendingLong THEN s.longBuf ELSE NoName]

(***************************************************************************)
(* feed, one cell at a time: a call with a chunk goes through its cells.   *)
(***************************************************************************)
\* A block of zeros: the second one in a row ends the archive.
ZeroBlock(s) == [s EXCEPT !.hdr = <<>>, !.sawEnd = TRUE, !.ended = s.sawEnd]

HeaderBlock(s, entry) ==
    LET t == [s EXCEPT !.hdr = <<>>, !.sawEnd = FALSE,
                       !.collecting = @ \/ entry.type = "long",
                       !.pendingLong = @ \/ entry.type = "long"]
        b == Begin(t, entry)
    IN CASE ~b.ok -> b
         [] b.ok /\ entry.size > 0 ->
                [b EXCEPT !.inData = TRUE, !.left = Rounded(entry.size)]
         [] OTHER -> End(b)

HeaderCell(a, s, cell) ==
    LET t == [s EXCEPT !.hdr = Append(@, cell)]
    IN CASE Len(t.hdr) < kBlock -> t
         [] Len(t.hdr) = kBlock /\ t.hdr[1].kind = "zero" -> ZeroBlock(t)
         [] OTHER -> HeaderBlock(t, a.entries[t.hdr[1].e])

DataCell(a, s, cell) ==
    LET t == [Data(a, s, cell) EXCEPT !.left = @ - 1]
    IN IF t.left = 0 THEN End(t) ELSE t

FeedCell(a, s, cell) ==
    IF ~s.ok \/ s.ended THEN s
    ELSE IF s.inData THEN DataCell(a, s, cell) ELSE HeaderCell(a, s, cell)

\* Fault: the header read so far is forgotten at the end of a chunk.
FeedForgetsHeader(a, s, chunk) ==
    LET t[n \in 0 .. Len(chunk)] == IF n = 0 THEN s ELSE FeedCell(a, t[n - 1], chunk[n])
    IN [t[Len(chunk)] EXCEPT !.hdr = <<>>]

Feed(a, s, chunk) ==
    LET t[n \in 0 .. Len(chunk)] == IF n = 0 THEN s ELSE FeedCell(a, t[n - 1], chunk[n])
    IN t[Len(chunk)]

(***************************************************************************)
(* ExtractTarGz                                                            *)
(***************************************************************************)
Inflate ==
    /\ tarResult = "running" /\ tar.ok
    /\ \E n \in 1 .. cut - fed :
          /\ tar' = Feed(archive, tar, SubSeq(Stream(archive), fed + 1, fed + n))
          /\ fed' = fed + n
    /\ UNCHANGED <<archive, cut, tarResult>>

InflateError ==
    /\ tarResult = "running" /\ tar.ok
    /\ tarResult' = "error"
    /\ UNCHANGED <<archive, cut, fed, tar>>

Return ==
    /\ tarResult = "running"
    /\ ~tar.ok \/ fed = cut
    /\ tarResult' = IF tar.ok /\ ~tar.inData /\ tar.hdr = <<>> THEN "ok" ELSE "error"
    /\ UNCHANGED <<archive, cut, fed, tar>>

Next == Inflate \/ InflateError \/ Return

-----------------------------------------------------------------------------
\* The cells up to the end of entry e.
EndOf(a, e) == Len(Laid(a, e))

NameOf(a, e) ==
    IF e > 1 /\ a.entries[e - 1].type = "long" /\ a.entries[e - 1].size > 0
    THEN a.entries[e - 1].text ELSE a.entries[e].name

Whole == {e \in 1 .. Len(archive.entries) : EndOf(archive, e) <= cut}

\* The file entry whose data the extracted file of a name must have.
Owner(name) ==
    {e \in Whole : /\ archive.entries[e].type = "file" /\ NameOf(archive, e) = name
                   /\ \A d \in Whole : d > e => \/ NameOf(archive, d) # name
                                                \/ archive.entries[d].type # "file"}

\* What the fields of a header say: the size is a number, a file has a name,
\* and a long name that was given is one.  A block has room for a header.
ProperArchives ==
    /\ kBlock \in Nat \ {0}
    /\ \A a \in Archives :
          /\ DOMAIN a.entries = 1 .. Len(a.entries) /\ Len(a.entries) \in Nat /\ a.zeros \in Nat
          /\ \A e \in 1 .. Len(a.entries) :
                /\ a.entries[e].size \in Nat /\ a.takes[e] \in Nat
                /\ a.entries[e].type = "file" => a.entries[e].name # NoName
                /\ a.entries[e].type = "long" /\ a.entries[e].size > 0 => a.entries[e].text # NoName

(***************************************************************************)
(* Wherever the chunks end, the parser and the files are what they would   *)
(* be had everything come in one chunk: nothing that `feed' has to         *)
(* remember from one call to the next is lost or counted twice.            *)
(***************************************************************************)
BordersDoNotMatter == tar = Feed(archive, Start, SubSeq(Stream(archive), 1, fed))

(***************************************************************************)
(* What ExtractTarGz reports and leaves on disk does not depend on where   *)
(* the chunks end.  If it succeeds, it was given whole entries, none of    *)
(* them with an unsafe path, and every file has the cells of the last      *)
(* entry with its (long) name, in order and none of another entry: all of  *)
(* them if the disk took them, and those before the first it refused if    *)
(* not.  (The padding of the last block is written too: the code rounds    *)
(* the size before it counts the data.)                                    *)
(***************************************************************************)
\* The cells of entry e that are on disk once the first n of the archive are read.
Written(a, e, n) ==
    LET begin == EndOf(a, e - 1) + kBlock
    IN SubSeq(Stream(a), begin + 1, IF n - begin <= a.takes[e] THEN n ELSE begin + a.takes[e])

SameForAnyChunks ==
    tarResult = "ok" =>
        /\ \/ cut \in {0} \cup {EndOf(archive, e) : e \in Whole}
           \/ /\ Whole = 1 .. Len(archive.entries)
              /\ LET zeros == cut - EndOf(archive, Len(archive.entries))
                 IN zeros >= 2 * kBlock \/ zeros \in {0, kBlock}
        /\ \A e \in Whole : NameOf(archive, e) # "unsafe"
        /\ DOMAIN tar.files = {NameOf(archive, e) : e \in {d \in Whole : archive.entries[d].type = "file"}}
        /\ \A name \in DOMAIN tar.files : \A e \in Owner(name) :
               tar.files[name] = Written(archive, e, EndOf(archive, e))

(***************************************************************************)
(* TarGz.hpp:14: "Devuelve false y `error` en fallo": after a success      *)
(* every file has all the cells of its entry.  Violated by the first write *)
(* that the disk refuses.                                                  *)
(***************************************************************************)
FailureIsReported ==
    tarResult = "ok" =>
        \A name \in DOMAIN tar.files : \A e \in Owner(name) :
            Len(tar.files[name]) = Rounded(archive.entries[e].size)
=============================================================================
