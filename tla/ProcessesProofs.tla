--------------------------- MODULE ProcessesProofs ---------------------------
(***************************************************************************)
(* Proofs about Processes, for any number of sessions, descriptor numbers, *)
(* capacities and amounts of output.                                       *)
(***************************************************************************)
EXTENDS Processes, TLAPS

(***************************************************************************)
(* The inductive invariant.  First what holds whatever is called: where a  *)
(* reader can be, given what its session is; and that nobody hears more    *)
(* than was written.                                                       *)
(***************************************************************************)
Staged ==
    \A s \in Session :
        /\ reader[s] = "none" <=> kind[s] = "none"
        /\ reader[s] \in {"out", "err"} => kind[s] = "pipe"
        /\ reader[s] \in {"pty", "close"} => kind[s] = "pty"
        /\ kind[s] = "pipe" => number[<<s, "out">>] \in Numbers /\ number[<<s, "err">>] \in Numbers
        /\ kind[s] = "pty" => number[<<s, "pty">>] \in Numbers
        /\ s \in procs => kind[s] # "none"
        /\ s \in exited => reader[s] \in {"remove", "gone"}
        /\ inRead[s] # None => reader[s] \in {"out", "err", "pty"}

HeardOnce ==
    \A s \in Session, f \in Output : heard[<<s, f>>] + buffer[f] <= wrote[f]

WriteGoesOn == main.op = "write" => main.id \in procs /\ main.left > 0

(***************************************************************************)
(* Then what holds until process.kill closes a terminal: a number that a   *)
(* reader will still use stands for its own file, which keeps the readers  *)
(* apart; and a stream that was read to its end stays empty.               *)
(***************************************************************************)
Using(f) ==
    \/ f[2] = "out" /\ reader[f[1]] = "out"
    \/ f[2] = "err" /\ reader[f[1]] \in {"out", "err"}
    \/ f[2] = "pty" /\ reader[f[1]] \in {"pty", "close"}

NumbersKept == \A f \in Output : Using(f) => table[number[f]] = f

ReadsOwn ==
    \A s \in Session : inRead[s] # None => inRead[s] = Stream(s)

HeardOwn ==
    \A f \in Output :
        /\ \A s \in Session : heard[<<s, f>>] > 0 => f[1] = s
        /\ heard[<<f[1], f>>] + buffer[f] = wrote[f]
        /\ f[2] \notin Streams[kind[f[1]]] => wrote[f] = 0

ReadToTheEnd ==
    \A s \in Session :
        /\ reader[s] = "err" => child[s] # "running" /\ buffer[<<s, "out">>] = 0
        /\ reader[s] \in {"close", "wait", "remove", "gone"} =>
              child[s] # "running" /\ \A k \in {"out", "err", "pty"} : buffer[<<s, k>>] = 0

Undisturbed == killed = {} => NumbersKept /\ ReadsOwn /\ HeardOwn /\ ReadToTheEnd

IInv == TypeOK /\ Staged /\ HeardOnce /\ WriteGoesOn /\ Undisturbed

-----------------------------------------------------------------------------
\* The files of a session.
LEMMA Files ==
    /\ \A s \in Session, k \in {"out", "err", "pty"} : <<s, k>> \in Output
    /\ \A f \in Output : /\ f[1] \in Session /\ f[2] \in {"out", "err", "pty"}
                         /\ f = <<f[1], f[2]>> /\ f \in File
    /\ \A s \in Session : <<s, "in">> \in File /\ <<s, "in">> \notin Output
    /\ None \notin Output
<1>1. 0 \notin Session
  BY DEF Session
<1> QED BY <1>1 DEF Output, File, None

LEMMA StreamsAre ==
    /\ Streams["pipe"] = {"out", "err"} /\ Streams["pty"] = {"pty"} /\ Streams["none"] = {}
BY DEF Streams

\* Where a reader reads, its session has that file and the file a number.
LEMMA StreamFacts ==
    ASSUME TypeOK, Staged, NEW s \in Session, reader[s] \in {"out", "err", "pty"}
    PROVE  /\ Stream(s) \in Output /\ Stream(s) = <<s, reader[s]>>
           /\ number[Stream(s)] \in Numbers
           /\ reader[s] \in Streams[kind[s]] /\ Using(Stream(s))
<1>1. Stream(s) \in Output /\ Stream(s) = <<s, reader[s]>>
  BY Files DEF Stream
<1>2. number[Stream(s)] \in Numbers
  BY <1>1 DEF Staged
<1>3. reader[s] \in Streams[kind[s]]
  BY StreamsAre DEF Staged
<1>4. Using(Stream(s))
  BY <1>1 DEF Using
<1> QED BY <1>1, <1>2, <1>3, <1>4

\* Amounts are numbers.
LEMMA Amounts ==
    ASSUME TypeOK
    PROVE  /\ \A f \in Output : buffer[f] \in Nat /\ wrote[f] \in Nat
           /\ \A s \in Session, f \in Output : heard[<<s, f>>] \in Nat
<1>1. 0 .. Capacity \subseteq Nat /\ 0 .. MaxOutput \subseteq Nat
  BY BoundsAssumption
<1>2. \A f \in Output : buffer[f] \in 0 .. Capacity /\ wrote[f] \in 0 .. MaxOutput
  BY Files DEF TypeOK
<1>3. \A s \in Session, f \in Output : heard[<<s, f>>] \in 0 .. MaxOutput
  BY DEF TypeOK
<1> QED BY <1>1, <1>2, <1>3

LEMMA InitIInv == Init => IInv
<1> SUFFICES ASSUME Init PROVE IInv
  OBVIOUS
<1>1. TypeOK
  BY BoundsAssumption DEF Init, TypeOK, Idle
<1>2. Staged
  BY DEF Init, Staged
<1>3. HeardOnce
  BY Files DEF Init, HeardOnce
<1>4. WriteGoesOn
  BY DEF Init, WriteGoesOn, Idle
<1>5. NumbersKept
  BY Files DEF Init, NumbersKept, Using
<1>6. ReadsOwn /\ ReadToTheEnd
  BY DEF Init, ReadsOwn, ReadToTheEnd
<1>7. HeardOwn
  BY Files DEF Init, HeardOwn
<1> QED BY <1>1, <1>2, <1>3, <1>4, <1>5, <1>6, <1>7 DEF IInv, Undisturbed

-----------------------------------------------------------------------------
(***************************************************************************)
(* The children.                                                           *)
(***************************************************************************)
LEMMA ChildWritesKeeps == ASSUME IInv, NEW f \in Output, ChildWrites(f) PROVE IInv'
<1>1. /\ child[f[1]] = "running" /\ f[2] \in Streams[kind[f[1]]]
      /\ wrote[f] < MaxOutput /\ buffer[f] < Capacity
      /\ wrote' = [wrote EXCEPT ![f] = @ + 1]
      /\ buffer' = [buffer EXCEPT ![f] = @ + 1]
      /\ UNCHANGED <<child, number, table, procs, kind, masterFd, reader, inRead, heard,
                     exited, main, writes, killed>>
  BY DEF ChildWrites, procVars, readerVars, mainVars
<1>2. /\ buffer \in [File -> 0 .. Capacity] /\ wrote \in [Output -> 0 .. MaxOutput]
      /\ heard \in [Session \X Output -> 0 .. MaxOutput]
  BY DEF IInv, TypeOK
<1>3. buffer[f] + 1 \in 0 .. Capacity /\ wrote[f] + 1 \in 0 .. MaxOutput
  <2>1. f \in File
    BY Files
  <2> QED BY <1>1, <1>2, <2>1, BoundsAssumption
<1>4. TypeOK'
  BY <1>1, <1>2, <1>3 DEF IInv, TypeOK
<1>5. Staged' /\ WriteGoesOn'
  BY <1>1 DEF IInv, Staged, WriteGoesOn
<1>6. /\ \A g \in Output : /\ buffer'[g] = IF g = f THEN buffer[g] + 1 ELSE buffer[g]
                           /\ wrote'[g] = IF g = f THEN wrote[g] + 1 ELSE wrote[g]
                           /\ buffer[g] \in Nat /\ wrote[g] \in Nat
      /\ \A s \in Session, g \in Output : heard[<<s, g>>] \in Nat
  <2>1. f \in File /\ \A g \in Output : g \in File
    BY Files
  <2>2. \A g \in Output : buffer'[g] = IF g = f THEN buffer[g] + 1 ELSE buffer[g]
    BY <1>1, <1>2, <2>1
  <2>3. \A g \in Output : wrote'[g] = IF g = f THEN wrote[g] + 1 ELSE wrote[g]
    BY <1>1, <1>2
  <2> QED BY <2>2, <2>3, Amounts DEF IInv
<1>8. HeardOnce'
  <2> SUFFICES ASSUME NEW s \in Session, NEW g \in Output
               PROVE  heard[<<s, g>>] + buffer'[g] <= wrote'[g]
    BY <1>1 DEF HeardOnce
  <2>1. heard[<<s, g>>] + buffer[g] <= wrote[g]
    BY DEF IInv, HeardOnce
  <2> QED BY <1>6, <2>1
<1>7. ASSUME killed' = {}
      PROVE  NumbersKept' /\ ReadsOwn' /\ HeardOwn' /\ ReadToTheEnd'
  <2>1. NumbersKept /\ ReadsOwn /\ HeardOwn /\ ReadToTheEnd
    BY <1>1, <1>7 DEF IInv, Undisturbed
  <2>2. NumbersKept' /\ ReadsOwn'
    BY <1>1, <2>1 DEF NumbersKept, Using, ReadsOwn, Stream
  <2>3. HeardOwn'
    <3>1. \A g \in Output : heard[<<g[1], g>>] + buffer'[g] = wrote'[g]
      <4> SUFFICES ASSUME NEW g \in Output
                   PROVE  heard[<<g[1], g>>] + buffer'[g] = wrote'[g]
        OBVIOUS
      <4>1. heard[<<g[1], g>>] + buffer[g] = wrote[g] /\ g[1] \in Session
        BY <2>1, Files DEF HeardOwn
      <4>2. heard[<<g[1], g>>] \in Nat
        BY <1>6, <4>1
      <4> QED BY <1>6, <4>1, <4>2
    <3>2. \A g \in Output : g[2] \notin Streams[kind[g[1]]] => wrote'[g] = 0
      BY <1>1, <1>6, <2>1 DEF HeardOwn
    <3> QED BY <1>1, <2>1, <3>1, <3>2 DEF HeardOwn
  <2>4. ReadToTheEnd'
    <3>1. \A r \in Session, k \in {"out", "err", "pty"} :
             child[r] # "running" => buffer'[<<r, k>>] = buffer[<<r, k>>]
      <4> SUFFICES ASSUME NEW r \in Session, NEW k \in {"out", "err", "pty"},
                          child[r] # "running"
                   PROVE  buffer'[<<r, k>>] = buffer[<<r, k>>]
        OBVIOUS
      <4>1. <<r, k>> \in Output /\ <<r, k>>[1] = r
        BY Files
      <4>2. <<r, k>> # f
        BY <1>1, <4>1
      <4> QED BY <1>6, <4>1, <4>2
    <3> QED BY <1>1, <2>1, <3>1 DEF ReadToTheEnd
  <2> QED BY <2>2, <2>3, <2>4
<1> QED BY <1>4, <1>5, <1>7, <1>8 DEF IInv, Undisturbed

LEMMA ChildReadsKeeps == ASSUME IInv, NEW s \in Session, ChildReads(s) PROVE IInv'
<1> USE Files
<1>1. /\ buffer' = [buffer EXCEPT ![<<s, "in">>] = 0]
      /\ UNCHANGED <<child, number, table, wrote, procs, kind, masterFd, reader, inRead,
                     heard, exited, main, writes, killed>>
  BY DEF ChildReads, procVars, readerVars, mainVars
<1>2. buffer \in [File -> 0 .. Capacity]
  BY DEF IInv, TypeOK
<1>3. buffer' \in [File -> 0 .. Capacity] /\ \A f \in Output : buffer'[f] = buffer[f]
  BY <1>1, <1>2, BoundsAssumption
<1>4. TypeOK'
  BY <1>1, <1>3 DEF IInv, TypeOK
<1>5. Staged' /\ WriteGoesOn' /\ HeardOnce'
  BY <1>1, <1>3 DEF IInv, Staged, WriteGoesOn, HeardOnce
<1>6. Undisturbed'
  BY <1>1, <1>3 DEF IInv, Undisturbed, NumbersKept, Using, ReadsOwn, Stream, HeardOwn,
                    ReadToTheEnd
<1> QED BY <1>4, <1>5, <1>6 DEF IInv

LEMMA ChildExitsKeeps == ASSUME IInv, NEW s \in Session, ChildExits(s) PROVE IInv'
<1>1. /\ child' = [child EXCEPT ![s] = "zombie"]
      /\ UNCHANGED <<number, table, buffer, wrote, procs, kind, masterFd, reader, inRead,
                     heard, exited, main, writes, killed>>
  BY DEF ChildExits, procVars, readerVars, mainVars
<1>2. TypeOK'
  BY <1>1 DEF IInv, TypeOK
<1>3. Staged' /\ WriteGoesOn' /\ HeardOnce'
  BY <1>1 DEF IInv, Staged, WriteGoesOn, HeardOnce
<1>4. \A r \in Session : child[r] # "running" => child'[r] # "running"
  BY <1>1 DEF IInv, TypeOK
<1>5. Undisturbed'
  BY <1>1, <1>4 DEF IInv, Undisturbed, NumbersKept, Using, ReadsOwn, Stream, HeardOwn,
                    ReadToTheEnd
<1> QED BY <1>2, <1>3, <1>5 DEF IInv

-----------------------------------------------------------------------------
(***************************************************************************)
(* The calls that open a session: it has not been opened before, and its   *)
(* files get numbers that stand for nothing.                               *)
(***************************************************************************)
Opened(s, k) == number'[<<s, k>>] \in Numbers /\ table'[number'[<<s, k>>]] = <<s, k>>

LEMMA OpenKeeps ==
    ASSUME IInv, NEW s \in Session, NEW k, NEW first, Open(s, k, first),
           number' \in [Output -> Numbers \cup {0}],
           table' \in [Numbers -> Output \cup {None}],
           masterFd' \in [Session -> BOOLEAN],
           \A f \in Output : f[1] # s => number'[f] = number[f],
           \A n \in Numbers : table[n] # None => table'[n] = table[n],
           \/ k = "pipe" /\ first = "out" /\ Opened(s, "out") /\ Opened(s, "err")
           \/ k = "pty" /\ first = "pty" /\ Opened(s, "pty")
    PROVE  IInv'
<1>1. /\ main = Idle /\ kind[s] = "none"
      /\ kind' = [kind EXCEPT ![s] = k]
      /\ child' = [child EXCEPT ![s] = "running"]
      /\ procs' = procs \cup {s}
      /\ reader' = [reader EXCEPT ![s] = first]
      /\ UNCHANGED <<buffer, wrote, inRead, heard, exited, main, writes, killed>>
  BY DEF Open, mainVars
<1>2. TypeOK /\ Staged /\ reader[s] = "none" /\ s \notin exited
  BY <1>1 DEF IInv, Staged
<1>3. /\ k \in {"pipe", "pty"} /\ first \in {"out", "pty"}
      /\ kind'[s] = k /\ reader'[s] = first /\ child'[s] = "running"
      /\ \A r \in Session : r # s => kind'[r] = kind[r] /\ reader'[r] = reader[r]
                                     /\ child'[r] = child[r]
  BY <1>1, <1>2 DEF TypeOK
<1>4. TypeOK'
  BY <1>1, <1>2, <1>3 DEF TypeOK
<1>5. Staged'
  <2> SUFFICES ASSUME NEW r \in Session
               PROVE  /\ reader'[r] = "none" <=> kind'[r] = "none"
                      /\ reader'[r] \in {"out", "err"} => kind'[r] = "pipe"
                      /\ reader'[r] \in {"pty", "close"} => kind'[r] = "pty"
                      /\ kind'[r] = "pipe" => number'[<<r, "out">>] \in Numbers
                                              /\ number'[<<r, "err">>] \in Numbers
                      /\ kind'[r] = "pty" => number'[<<r, "pty">>] \in Numbers
                      /\ r \in procs' => kind'[r] # "none"
                      /\ r \in exited' => reader'[r] \in {"remove", "gone"}
                      /\ inRead'[r] # None => reader'[r] \in {"out", "err", "pty"}
    BY DEF Staged
  <2>1. CASE r = s
    BY <1>1, <1>2, <1>3, <2>1 DEF Opened
  <2>2. CASE r # s
    <3>1. \A j \in {"out", "err", "pty"} : number'[<<r, j>>] = number[<<r, j>>]
      BY <2>2, Files
    <3> QED BY <1>1, <1>2, <1>3, <2>2, <3>1 DEF Staged
  <2> QED BY <2>1, <2>2
<1>6. HeardOnce' /\ WriteGoesOn'
  BY <1>1 DEF IInv, HeardOnce, WriteGoesOn, Idle
<1>7. ASSUME killed' = {}
      PROVE  NumbersKept' /\ ReadsOwn' /\ HeardOwn' /\ ReadToTheEnd'
  <2>1. NumbersKept /\ ReadsOwn /\ HeardOwn /\ ReadToTheEnd
    BY <1>1, <1>7 DEF IInv, Undisturbed
  <2>2. NumbersKept'
    <3> SUFFICES ASSUME NEW f \in Output, Using(f)' PROVE table'[number'[f]] = f
      BY DEF NumbersKept
    <3>1. f[1] \in Session /\ f[2] \in {"out", "err", "pty"} /\ f = <<f[1], f[2]>>
      BY Files
    <3>2. CASE f[1] = s
      BY <1>3, <3>1, <3>2 DEF Using, Opened
    <3>3. CASE f[1] # s
      <4>1. Using(f)
        BY <1>3, <3>1, <3>3 DEF Using
      <4>2. table[number[f]] = f /\ number[f] \in Numbers
        BY <1>2, <2>1, <3>1, <4>1 DEF NumbersKept, Using, Staged
      <4>3. number'[f] = number[f] /\ f # None
        BY <3>3, Files
      <4> QED BY <4>2, <4>3
    <3> QED BY <3>2, <3>3
  <2>3. ReadsOwn'
    <3>1. inRead[s] = None
      BY <1>2 DEF Staged
    <3> QED BY <1>1, <1>3, <2>1, <3>1 DEF ReadsOwn, Stream
  <2>4. HeardOwn'
    <3>1. \A f \in Output : f[2] \notin Streams[kind'[f[1]]] => wrote[f] = 0
      <4> SUFFICES ASSUME NEW f \in Output, f[2] \notin Streams[kind'[f[1]]]
                   PROVE  wrote[f] = 0
        OBVIOUS
      <4>1. f[1] \in Session
        BY Files
      <4>2. CASE f[1] = s
        BY <1>1, <2>1, <4>2, StreamsAre DEF HeardOwn
      <4>3. CASE f[1] # s
        BY <1>3, <2>1, <4>1, <4>3 DEF HeardOwn
      <4> QED BY <4>2, <4>3
    <3> QED BY <1>1, <2>1, <3>1 DEF HeardOwn
  <2>5. ReadToTheEnd'
    BY <1>1, <1>3, <2>1 DEF ReadToTheEnd
  <2> QED BY <2>2, <2>3, <2>4, <2>5
<1> QED BY <1>4, <1>5, <1>6, <1>7 DEF IInv, Undisturbed

LEMMA SpawnPipesKeeps == ASSUME IInv, NEW s \in Session, SpawnPipes(s) PROVE IInv'
<1> DEFINE o == <<s, "out">>
           e == <<s, "err">>
<1>0. PICK n \in Free({}) : \E m \in Free({n}) :
         /\ n < m
         /\ number' = [number EXCEPT ![o] = n, ![e] = m]
         /\ table' = [table EXCEPT ![n] = o, ![m] = e]
  BY DEF SpawnPipes
<1>1. PICK m \in Free({n}) :
         /\ n < m
         /\ number' = [number EXCEPT ![o] = n, ![e] = m]
         /\ table' = [table EXCEPT ![n] = o, ![m] = e]
  BY <1>0
<1>2. Open(s, "pipe", "out") /\ masterFd' = masterFd
  BY DEF SpawnPipes
<1>3. /\ n \in Numbers /\ m \in Numbers /\ n # m /\ table[n] = None /\ table[m] = None
  BY <1>1 DEF Free
<1>4. o \in Output /\ e \in Output /\ o # e /\ o[1] = s /\ e[1] = s
  BY Files
<1>5. /\ number \in [Output -> Numbers \cup {0}] /\ table \in [Numbers -> Output \cup {None}]
      /\ masterFd \in [Session -> BOOLEAN]
  BY DEF IInv, TypeOK
<1> HIDE DEF o, e
<1>6. /\ number' \in [Output -> Numbers \cup {0}]
      /\ number'[o] = n /\ number'[e] = m
      /\ \A f \in Output : f # o /\ f # e => number'[f] = number[f]
  BY <1>1, <1>3, <1>4, <1>5
<1>7. /\ table' \in [Numbers -> Output \cup {None}]
      /\ table'[n] = o /\ table'[m] = e
      /\ \A x \in Numbers : x # n /\ x # m => table'[x] = table[x]
  BY <1>1, <1>3, <1>4, <1>5
<1>8. Opened(s, "out") /\ Opened(s, "err")
  BY <1>3, <1>6, <1>7 DEF Opened, o, e
<1>9. \A f \in Output : f[1] # s => number'[f] = number[f]
  BY <1>4, <1>6
<1>10. \A x \in Numbers : table[x] # None => table'[x] = table[x]
  BY <1>3, <1>7
<1> QED BY <1>2, <1>5, <1>6, <1>7, <1>8, <1>9, <1>10, OpenKeeps

LEMMA PtyOpenKeeps == ASSUME IInv, NEW s \in Session, PtyOpen(s) PROVE IInv'
<1> DEFINE p == <<s, "pty">>
<1>1. PICK n \in Free({}) :
         /\ number' = [number EXCEPT ![p] = n]
         /\ table' = [table EXCEPT ![n] = p]
  BY DEF PtyOpen
<1>2. Open(s, "pty", "pty") /\ masterFd' = [masterFd EXCEPT ![s] = TRUE]
  BY DEF PtyOpen
<1>3. n \in Numbers /\ table[n] = None
  BY <1>1 DEF Free
<1>4. p \in Output /\ p[1] = s
  BY Files
<1>5. /\ number \in [Output -> Numbers \cup {0}] /\ table \in [Numbers -> Output \cup {None}]
      /\ masterFd \in [Session -> BOOLEAN]
  BY DEF IInv, TypeOK
<1> HIDE DEF p
<1>6. /\ number' \in [Output -> Numbers \cup {0}] /\ number'[p] = n
      /\ \A f \in Output : f # p => number'[f] = number[f]
  BY <1>1, <1>3, <1>4, <1>5
<1>7. /\ table' \in [Numbers -> Output \cup {None}] /\ table'[n] = p
      /\ \A x \in Numbers : x # n => table'[x] = table[x]
  BY <1>1, <1>3, <1>4, <1>5
<1>8. Opened(s, "pty")
  BY <1>3, <1>6, <1>7 DEF Opened, p
<1>9. \A f \in Output : f[1] # s => number'[f] = number[f]
  BY <1>4, <1>6
<1>10. \A x \in Numbers : table[x] # None => table'[x] = table[x]
  BY <1>3, <1>7
<1>11. masterFd' \in [Session -> BOOLEAN]
  BY <1>2, <1>5
<1> QED BY <1>2, <1>6, <1>7, <1>8, <1>9, <1>10, <1>11, OpenKeeps

-----------------------------------------------------------------------------
(***************************************************************************)
(* The reader.                                                             *)
(***************************************************************************)
\* Until process.kill, a number the reader still uses stands for its file.
LEMMA KeptNumber ==
    ASSUME TypeOK, Staged, NumbersKept, NEW f \in Output, Using(f)
    PROVE  number[f] \in Numbers /\ table[number[f]] = f /\ f # None
BY Files DEF Staged, NumbersKept, Using

LEMMA BeginReadKeeps == ASSUME IInv, NEW s \in Session, BeginRead(s) PROVE IInv'
<1>1. /\ reader[s] \in {"out", "err", "pty"}
      /\ inRead' = [inRead EXCEPT ![s] = table[number[Stream(s)]]]
      /\ UNCHANGED <<child, number, table, buffer, wrote, procs, kind, masterFd, reader,
                     heard, exited, main, writes, killed>>
  BY DEF BeginRead, StartsRead, osVars, procVars, mainVars
<1>2. TypeOK /\ Staged
  BY DEF IInv
<1>3. Stream(s) \in Output /\ number[Stream(s)] \in Numbers /\ Using(Stream(s))
  BY <1>1, <1>2, StreamFacts
<1>4. table[number[Stream(s)]] \in Output \cup {None}
  BY <1>2, <1>3 DEF TypeOK
<1>5. TypeOK'
  BY <1>1, <1>2, <1>4 DEF TypeOK
<1>6. \A r \in Session : r # s => inRead'[r] = inRead[r]
  BY <1>1, <1>2 DEF TypeOK
<1>7. Staged'
  BY <1>1, <1>2, <1>6 DEF Staged
<1>8. HeardOnce' /\ WriteGoesOn'
  BY <1>1 DEF IInv, HeardOnce, WriteGoesOn
<1>9. ASSUME killed' = {}
      PROVE  NumbersKept' /\ ReadsOwn' /\ HeardOwn' /\ ReadToTheEnd'
  <2>1. NumbersKept /\ ReadsOwn /\ HeardOwn /\ ReadToTheEnd
    BY <1>1, <1>9 DEF IInv, Undisturbed
  <2>2. table[number[Stream(s)]] = Stream(s)
    BY <1>3, <2>1 DEF NumbersKept
  <2>3. inRead'[s] = Stream(s)
    BY <1>1, <1>2, <2>2 DEF TypeOK
  <2>4. ReadsOwn'
    BY <1>1, <1>6, <2>1, <2>3 DEF ReadsOwn, Stream
  <2>5. NumbersKept' /\ HeardOwn' /\ ReadToTheEnd'
    BY <1>1, <2>1 DEF NumbersKept, Using, HeardOwn, ReadToTheEnd
  <2> QED BY <2>4, <2>5
<1> QED BY <1>5, <1>7, <1>8, <1>9 DEF IInv, Undisturbed

(***************************************************************************)
(* A stream comes to its end, regularly (ReadEnds) or because its number   *)
(* was closed (ReadFails), which nothing but process.kill does.            *)
(***************************************************************************)
LEMMA EndOfStreamKeeps ==
    ASSUME IInv, NEW s \in Session, reader[s] \in {"out", "err", "pty"}, EndOfStream(s),
           inRead' \in [Session -> Output \cup {None}], inRead'[s] = None,
           \A r \in Session : r # s => inRead'[r] = inRead[r],
           killed = {} => buffer[Stream(s)] = 0 /\ child[s] # "running",
           UNCHANGED <<child, number, buffer, wrote, procs, kind, masterFd, heard, exited,
                       main, writes, killed>>
    PROVE  IInv'
<1>1. TypeOK /\ Staged
  BY DEF IInv
<1>2. /\ Stream(s) \in Output /\ Stream(s) = <<s, reader[s]>>
      /\ number[Stream(s)] \in Numbers /\ Using(Stream(s)) /\ reader[s] \in Streams[kind[s]]
  BY <1>1, StreamFacts
<1>3. /\ reader[s] = "out" => reader'[s] = "err"
      /\ reader[s] = "err" => reader'[s] = "wait"
      /\ reader[s] = "pty" => reader'[s] = "close"
      /\ reader' \in [Session -> {"none", "out", "err", "pty", "close", "wait", "remove", "gone"}]
      /\ \A r \in Session : r # s => reader'[r] = reader[r]
  BY <1>1 DEF EndOfStream, TypeOK
<1>4. /\ table' \in [Numbers -> Output \cup {None}]
      /\ reader[s] = "pty" => table' = table
      /\ \A n \in Numbers : n # number[Stream(s)] => table'[n] = table[n]
  BY <1>1, <1>2 DEF EndOfStream, TypeOK
<1>5. TypeOK'
  BY <1>1, <1>3, <1>4 DEF TypeOK
<1>6. Staged'
  BY <1>1, <1>3 DEF Staged
<1>7. HeardOnce' /\ WriteGoesOn'
  BY DEF IInv, HeardOnce, WriteGoesOn
<1>8. ASSUME killed' = {}
      PROVE  NumbersKept' /\ ReadsOwn' /\ HeardOwn' /\ ReadToTheEnd'
  <2>1. /\ NumbersKept /\ ReadsOwn /\ HeardOwn /\ ReadToTheEnd
        /\ buffer[Stream(s)] = 0 /\ child[s] # "running"
    BY <1>8 DEF IInv, Undisturbed
  <2>2. NumbersKept'
    <3> SUFFICES ASSUME NEW f \in Output, Using(f)' PROVE table'[number[f]] = f
      BY DEF NumbersKept
    <3>1. f[1] \in Session /\ f[2] \in {"out", "err", "pty"} /\ f = <<f[1], f[2]>>
      BY Files
    <3>2. Using(f)
      BY <1>3, <3>1 DEF Using
    <3>3. number[f] \in Numbers /\ table[number[f]] = f
      BY <1>1, <2>1, <3>2, KeptNumber
    <3>4. CASE f = Stream(s)
      BY <1>2, <1>3, <1>4, <3>3, <3>4 DEF Using
    <3>5. CASE f # Stream(s)
      <4>1. table[number[Stream(s)]] = Stream(s)
        BY <1>1, <1>2, <2>1, KeptNumber
      <4>2. number[f] # number[Stream(s)]
        BY <3>3, <3>5, <4>1
      <4> QED BY <1>4, <3>3, <4>2
    <3> QED BY <3>4, <3>5
  <2>3. ReadsOwn'
    BY <1>3, <2>1 DEF ReadsOwn, Stream
  <2>4. HeardOwn'
    BY <2>1 DEF HeardOwn
  <2>5. \A k \in {"out", "err", "pty"} : k \notin Streams[kind[s]] => buffer[<<s, k>>] = 0
    <3> SUFFICES ASSUME NEW k \in {"out", "err", "pty"}, k \notin Streams[kind[s]]
                 PROVE  buffer[<<s, k>>] = 0
      OBVIOUS
    <3> DEFINE f == <<s, k>>
    <3>1. f \in Output /\ f[1] = s /\ f[2] = k
      BY Files
    <3> HIDE DEF f
    <3>2. wrote[f] = 0 /\ heard[<<s, f>>] + buffer[f] = wrote[f]
      BY <2>1, <3>1 DEF HeardOwn
    <3>3. heard[<<s, f>>] \in Nat /\ buffer[f] \in Nat
      BY <1>1, <3>1, Amounts
    <3>4. buffer[f] = 0
      BY <3>2, <3>3
    <3> QED BY <3>4 DEF f
  <2>6. /\ reader[s] = "out" => buffer[<<s, "out">>] = 0
        /\ reader[s] = "err" => \A k \in {"out", "err", "pty"} : buffer[<<s, k>>] = 0
        /\ reader[s] = "pty" => \A k \in {"out", "err", "pty"} : buffer[<<s, k>>] = 0
    BY <1>1, <1>2, <2>1, <2>5, StreamsAre DEF Staged, ReadToTheEnd
  <2>7. ReadToTheEnd'
    BY <1>3, <2>1, <2>6 DEF ReadToTheEnd
  <2> QED BY <2>2, <2>3, <2>4, <2>7
<1> QED BY <1>5, <1>6, <1>7, <1>8 DEF IInv, Undisturbed

LEMMA ReadFailsKeeps == ASSUME IInv, NEW s \in Session, ReadFails(s) PROVE IInv'
<1>1. /\ reader[s] \in {"out", "err", "pty"} /\ inRead[s] = None
      /\ table[number[Stream(s)]] = None /\ EndOfStream(s)
      /\ UNCHANGED <<child, number, buffer, wrote, procs, kind, masterFd, inRead, heard,
                     exited, main, writes, killed>>
  BY DEF ReadFails, StartsRead, procVars, mainVars
<1>2. inRead \in [Session -> Output \cup {None}]
  BY DEF IInv, TypeOK
<1>3. killed # {}
  <2> SUFFICES ASSUME killed = {} PROVE FALSE
    OBVIOUS
  <2>1. Stream(s) \in Output /\ Using(Stream(s))
    BY <1>1, StreamFacts DEF IInv
  <2> QED BY <1>1, <2>1, KeptNumber DEF IInv, Undisturbed
<1> QED BY <1>1, <1>2, <1>3, EndOfStreamKeeps

LEMMA ReadEndsKeeps == ASSUME IInv, NEW s \in Session, ReadEnds(s) PROVE IInv'
<1> DEFINE f == inRead[s]
<1>1. /\ f # None /\ buffer[f] = 0 /\ child[f[1]] # "running"
      /\ inRead' = [inRead EXCEPT ![s] = None]
      /\ EndOfStream(s)
      /\ UNCHANGED <<child, number, buffer, wrote, procs, kind, masterFd, heard,
                     exited, main, writes, killed>>
  BY DEF ReadEnds, procVars, mainVars
<1>2. inRead \in [Session -> Output \cup {None}]
  BY DEF IInv, TypeOK
<1>3. /\ inRead' \in [Session -> Output \cup {None}] /\ inRead'[s] = None
      /\ \A r \in Session : r # s => inRead'[r] = inRead[r]
  BY <1>1, <1>2
<1>4. reader[s] \in {"out", "err", "pty"}
  BY <1>1 DEF IInv, Staged
<1>5. ASSUME killed = {} PROVE buffer[Stream(s)] = 0 /\ child[s] # "running"
  <2>1. f = Stream(s)
    BY <1>1, <1>5 DEF IInv, Undisturbed, ReadsOwn
  <2>2. Stream(s)[1] = s
    BY DEF Stream
  <2> QED BY <1>1, <2>1, <2>2
<1> QED BY <1>1, <1>3, <1>4, <1>5, EndOfStreamKeeps

LEMMA EmitDataKeeps == ASSUME IInv, NEW s \in Session, EmitData(s) PROVE IInv'
<1> DEFINE f == inRead[s]
<1>1. /\ f # None
      /\ heard' = [heard EXCEPT ![<<s, f>>] = @ + buffer[f]]
      /\ buffer' = [buffer EXCEPT ![f] = 0]
      /\ inRead' = [inRead EXCEPT ![s] = None]
      /\ UNCHANGED <<child, number, table, wrote, procs, kind, masterFd, reader, exited,
                     main, writes, killed>>
  BY DEF EmitData, procVars, mainVars
<1>2. TypeOK /\ Staged /\ HeardOnce
  BY DEF IInv
<1>3. f \in Output /\ f \in File
  BY <1>1, <1>2, Files DEF TypeOK
<1> HIDE DEF f
<1>4. \A g \in Output : buffer'[g] = IF g = f THEN 0 ELSE buffer[g]
  BY <1>1, <1>2, Files DEF TypeOK
<1>5. \A r \in Session, g \in Output :
         heard'[<<r, g>>] = IF r = s /\ g = f THEN heard[<<r, g>>] + buffer[g]
                            ELSE heard[<<r, g>>]
  BY <1>1, <1>2, <1>3 DEF TypeOK
<1>6. heard[<<s, f>>] + buffer[f] \in 0 .. MaxOutput
  <2>1. heard[<<s, f>>] + buffer[f] <= wrote[f]
    BY <1>2, <1>3 DEF HeardOnce
  <2>2. wrote[f] <= MaxOutput
    BY <1>2, <1>3, BoundsAssumption DEF TypeOK
  <2>3. heard[<<s, f>>] \in Nat /\ buffer[f] \in Nat /\ wrote[f] \in Nat
    BY <1>2, <1>3, Amounts
  <2> QED BY <2>1, <2>2, <2>3, BoundsAssumption
<1>7. TypeOK'
  <2>1. heard' \in [Session \X Output -> 0 .. MaxOutput]
    BY <1>1, <1>2, <1>3, <1>6 DEF TypeOK
  <2>2. buffer' \in [File -> 0 .. Capacity]
    BY <1>1, <1>2, <1>3, BoundsAssumption DEF TypeOK
  <2>3. inRead' \in [Session -> Output \cup {None}]
    BY <1>1, <1>2 DEF TypeOK
  <2> QED BY <1>1, <1>2, <2>1, <2>2, <2>3 DEF TypeOK
<1>8. \A r \in Session : inRead'[r] = IF r = s THEN None ELSE inRead[r]
  BY <1>1, <1>2 DEF TypeOK
<1>9. Staged' /\ WriteGoesOn'
  BY <1>1, <1>2, <1>8 DEF IInv, Staged, WriteGoesOn
<1>10. HeardOnce'
  <2> SUFFICES ASSUME NEW r \in Session, NEW g \in Output
               PROVE  heard'[<<r, g>>] + buffer'[g] <= wrote[g]
    BY <1>1 DEF HeardOnce
  <2>1. heard[<<r, g>>] + buffer[g] <= wrote[g]
    BY <1>2 DEF HeardOnce
  <2>2. heard[<<r, g>>] \in Nat /\ buffer[g] \in Nat /\ wrote[g] \in Nat
    BY <1>2, Amounts
  <2> QED BY <1>4, <1>5, <2>1, <2>2
<1>11. ASSUME killed' = {}
       PROVE  NumbersKept' /\ ReadsOwn' /\ HeardOwn' /\ ReadToTheEnd'
  <2>1. NumbersKept /\ ReadsOwn /\ HeardOwn /\ ReadToTheEnd
    BY <1>1, <1>11 DEF IInv, Undisturbed
  <2>2. f[1] = s
    BY <1>1, <2>1 DEF f, ReadsOwn, Stream
  <2>3. NumbersKept' /\ ReadsOwn'
    BY <1>1, <1>8, <2>1 DEF NumbersKept, Using, ReadsOwn, Stream
  <2>4. HeardOwn'
    <3> SUFFICES ASSUME NEW g \in Output
                 PROVE  /\ \A r \in Session : heard'[<<r, g>>] > 0 => g[1] = r
                        /\ heard'[<<g[1], g>>] + buffer'[g] = wrote[g]
                        /\ g[2] \notin Streams[kind[g[1]]] => wrote[g] = 0
      BY <1>1 DEF HeardOwn
    <3>1. g[1] \in Session
      BY Files
    <3>2. \A r \in Session : heard[<<r, g>>] > 0 => g[1] = r
      BY <2>1 DEF HeardOwn
    <3>3. /\ heard[<<g[1], g>>] + buffer[g] = wrote[g]
          /\ g[2] \notin Streams[kind[g[1]]] => wrote[g] = 0
      BY <2>1 DEF HeardOwn
    <3>4. heard[<<g[1], g>>] \in Nat /\ buffer[g] \in Nat
      BY <1>2, <3>1, Amounts
    <3>5. \A r \in Session : heard'[<<r, g>>] > 0 => g[1] = r
      BY <1>5, <2>2, <3>2
    <3>6. heard'[<<g[1], g>>] + buffer'[g] = wrote[g]
      BY <1>4, <1>5, <2>2, <3>1, <3>3, <3>4
    <3> QED BY <3>3, <3>5, <3>6
  <2>5. ReadToTheEnd'
    <3>1. \A r \in Session, k \in {"out", "err", "pty"} :
             buffer[<<r, k>>] = 0 => buffer'[<<r, k>>] = 0
      BY <1>4, Files
    <3> QED BY <1>1, <2>1, <3>1 DEF ReadToTheEnd
  <2> QED BY <2>3, <2>4, <2>5
<1> QED BY <1>7, <1>9, <1>10, <1>11 DEF IInv, Undisturbed

LEMMA CloseMasterKeeps == ASSUME IInv, NEW s \in Session, CloseMaster(s) PROVE IInv'
<1> DEFINE p == <<s, "pty">>
<1>1. /\ reader[s] = "close"
      /\ reader' = [reader EXCEPT ![s] = "wait"]
      /\ table' = [table EXCEPT ![number[p]] = None]
      /\ UNCHANGED <<child, number, buffer, wrote, procs, kind, masterFd, inRead, heard,
                     exited, main, writes, killed>>
  BY DEF CloseMaster, procVars, mainVars
<1>2. TypeOK /\ Staged
  BY DEF IInv
<1>3. p \in Output /\ p[1] = s /\ number[p] \in Numbers /\ Using(p)
  BY <1>1, <1>2, Files DEF Staged, Using
<1> HIDE DEF p
<1>4. \A r \in Session : reader'[r] = IF r = s THEN "wait" ELSE reader[r]
  BY <1>1, <1>2 DEF TypeOK
<1>5. \A n \in Numbers : n # number[p] => table'[n] = table[n]
  BY <1>1, <1>2 DEF TypeOK
<1>6. TypeOK'
  BY <1>1, <1>2, <1>3 DEF TypeOK
<1>7. Staged'
  <2> SUFFICES ASSUME NEW r \in Session
               PROVE  /\ reader'[r] = "none" <=> kind[r] = "none"
                      /\ reader'[r] \in {"out", "err"} => kind[r] = "pipe"
                      /\ reader'[r] \in {"pty", "close"} => kind[r] = "pty"
                      /\ r \in procs' => kind[r] # "none"
                      /\ r \in exited' => reader'[r] \in {"remove", "gone"}
                      /\ inRead[r] # None => reader'[r] \in {"out", "err", "pty"}
    BY <1>1, <1>2 DEF Staged
  <2>1. CASE r = s
    <3>1. kind[s] = "pty" /\ s \notin exited /\ inRead[s] = None
      BY <1>1, <1>2 DEF Staged
    <3> QED BY <1>1, <1>4, <2>1, <3>1
  <2>2. CASE r # s
    BY <1>1, <1>2, <1>4, <2>2 DEF Staged
  <2> QED BY <2>1, <2>2
<1>8. HeardOnce' /\ WriteGoesOn'
  BY <1>1 DEF IInv, HeardOnce, WriteGoesOn
<1>9. ASSUME killed' = {}
      PROVE  NumbersKept' /\ ReadsOwn' /\ HeardOwn' /\ ReadToTheEnd'
  <2>1. NumbersKept /\ ReadsOwn /\ HeardOwn /\ ReadToTheEnd
    BY <1>1, <1>9 DEF IInv, Undisturbed
  <2>2. NumbersKept'
    <3> SUFFICES ASSUME NEW f \in Output, Using(f)' PROVE table'[number[f]] = f
      BY <1>1 DEF NumbersKept
    <3>1. f[1] \in Session /\ f[1] # s /\ Using(f)
      BY <1>4, Files DEF Using
    <3>2. number[f] \in Numbers /\ table[number[f]] = f /\ table[number[p]] = p
      BY <1>2, <1>3, <2>1, <3>1, KeptNumber
    <3>3. number[f] # number[p]
      BY <1>3, <3>1, <3>2
    <3> QED BY <1>5, <3>2, <3>3
  <2>3. ReadsOwn'
    BY <1>1, <1>2, <1>4, <2>1 DEF ReadsOwn, Stream, Staged
  <2>4. HeardOwn'
    BY <1>1, <2>1 DEF HeardOwn
  <2>5. ReadToTheEnd'
    BY <1>1, <1>4, <2>1 DEF ReadToTheEnd
  <2> QED BY <2>2, <2>3, <2>4, <2>5
<1> QED BY <1>6, <1>7, <1>8, <1>9 DEF IInv, Undisturbed

\* The reader has closed its files and goes on to its end.
LEMMA ReaderEndsKeeps ==
    ASSUME IInv, NEW s \in Session, NEW next,
           \/ reader[s] = "wait" /\ next = "remove"
           \/ reader[s] = "remove" /\ next = "gone",
           reader' = [reader EXCEPT ![s] = next],
           child' \in [Session -> {"none", "running", "zombie", "reaped"}],
           \A r \in Session : child[r] # "running" => child'[r] # "running",
           exited' \subseteq exited \cup {s}, procs' \subseteq procs, WriteGoesOn',
           UNCHANGED <<number, table, buffer, wrote, kind, masterFd, inRead, heard, main,
                       writes, killed>>
    PROVE  IInv'
<1>1. TypeOK /\ Staged
  BY DEF IInv
<1>2. \A r \in Session : reader'[r] = IF r = s THEN next ELSE reader[r]
  BY <1>1 DEF TypeOK
<1>3. TypeOK'
  BY <1>1 DEF TypeOK
<1>4. Staged'
  <2> SUFFICES ASSUME NEW r \in Session
               PROVE  /\ reader'[r] = "none" <=> kind[r] = "none"
                      /\ reader'[r] \in {"out", "err"} => kind[r] = "pipe"
                      /\ reader'[r] \in {"pty", "close"} => kind[r] = "pty"
                      /\ r \in procs' => kind[r] # "none"
                      /\ r \in exited' => reader'[r] \in {"remove", "gone"}
                      /\ inRead[r] # None => reader'[r] \in {"out", "err", "pty"}
    BY <1>1 DEF Staged
  <2>1. CASE r = s
    BY <1>1, <1>2, <2>1 DEF Staged
  <2>2. CASE r # s
    BY <1>1, <1>2, <2>2 DEF Staged
  <2> QED BY <2>1, <2>2
<1>5. HeardOnce'
  BY DEF IInv, HeardOnce
<1>6. ASSUME killed' = {}
      PROVE  NumbersKept' /\ ReadsOwn' /\ HeardOwn' /\ ReadToTheEnd'
  <2>1. NumbersKept /\ ReadsOwn /\ HeardOwn /\ ReadToTheEnd
    BY <1>6 DEF IInv, Undisturbed
  <2>2. NumbersKept'
    BY <1>2, <2>1, Files DEF NumbersKept, Using
  <2>3. ReadsOwn'
    BY <1>1, <1>2, <2>1 DEF ReadsOwn, Stream, Staged
  <2>4. HeardOwn'
    BY <2>1 DEF HeardOwn
  <2>5. ReadToTheEnd'
    BY <1>2, <2>1 DEF ReadToTheEnd
  <2> QED BY <2>2, <2>3, <2>4, <2>5
<1> QED BY <1>3, <1>4, <1>5, <1>6 DEF IInv, Undisturbed

LEMMA WaitpidKeeps == ASSUME IInv, NEW s \in Session, Waitpid(s) PROVE IInv'
<1>1. /\ reader[s] = "wait"
      /\ child' = [child EXCEPT ![s] = "reaped"]
      /\ exited' = exited \cup {s}
      /\ reader' = [reader EXCEPT ![s] = "remove"]
      /\ UNCHANGED <<number, table, buffer, wrote, procs, kind, masterFd, inRead, heard,
                     main, writes, killed>>
  BY DEF Waitpid, procVars, mainVars
<1>2. child \in [Session -> {"none", "running", "zombie", "reaped"}]
  BY DEF IInv, TypeOK
<1>3. /\ child' \in [Session -> {"none", "running", "zombie", "reaped"}]
      /\ \A r \in Session : child[r] # "running" => child'[r] # "running"
  BY <1>1, <1>2
<1>4. WriteGoesOn'
  BY <1>1 DEF IInv, WriteGoesOn
<1> QED BY <1>1, <1>3, <1>4, ReaderEndsKeeps

\* Remove waits for process.write, which keeps its session in the map.
LEMMA RemoveKeeps == ASSUME IInv, NEW s \in Session, Remove(s) PROVE IInv'
<1>1. /\ reader[s] = "remove" /\ main.op # "write"
      /\ procs' = procs \ {s}
      /\ reader' = [reader EXCEPT ![s] = "gone"]
      /\ UNCHANGED <<child, number, table, buffer, wrote, kind, masterFd, inRead, heard,
                     exited, main, writes, killed>>
  BY DEF Remove, osVars, mainVars
<1>2. WriteGoesOn'
  BY <1>1 DEF WriteGoesOn
<1>3. child' \in [Session -> {"none", "running", "zombie", "reaped"}]
  BY <1>1 DEF IInv, TypeOK
<1> QED BY <1>1, <1>2, <1>3, ReaderEndsKeeps

LEMMA ReaderKeeps == ASSUME IInv, NEW s \in Session, Reader(s) PROVE IInv'
BY BeginReadKeeps, ReadFailsKeeps, EmitDataKeeps, ReadEndsKeeps, CloseMasterKeeps,
   WaitpidKeeps, RemoveKeeps DEF Reader

-----------------------------------------------------------------------------
(***************************************************************************)
(* The other calls.                                                        *)
(***************************************************************************)
\* A step of the main thread that touches nothing the readers work with.
LEMMA MainStepKeeps ==
    ASSUME IInv, WriteGoesOn', writes' \in 0 .. MaxWrites,
           main' \in [op : {"idle", "write", "resize"}, id : Session \cup {0},
                      left : 0 .. Capacity + 1],
           buffer' \in [File -> 0 .. Capacity], \A f \in Output : buffer'[f] = buffer[f],
           UNCHANGED <<child, number, table, wrote, procVars, readerVars, killed>>
    PROVE  IInv'
<1>1. UNCHANGED <<child, number, table, wrote, procs, kind, masterFd, reader, inRead, heard,
                  exited, killed>>
  BY DEF procVars, readerVars
<1>2. TypeOK'
  BY <1>1 DEF IInv, TypeOK
<1>3. Staged' /\ HeardOnce'
  BY <1>1 DEF IInv, Staged, HeardOnce
<1>4. Undisturbed'
  BY <1>1, Files DEF IInv, Undisturbed, NumbersKept, Using, ReadsOwn, Stream, HeardOwn,
                     ReadToTheEnd
<1> QED BY <1>2, <1>3, <1>4 DEF IInv

LEMMA WriteFnKeeps == ASSUME IInv, NEW s \in Session, WriteFn(s) PROVE IInv'
<1>1. /\ s \in procs /\ writes < MaxWrites /\ writes' = writes + 1
      /\ main' = [op |-> "write", id |-> s, left |-> Capacity + 1]
      /\ UNCHANGED <<child, number, table, buffer, wrote, procVars, readerVars, killed>>
  BY DEF WriteFn, osVars
<1>2. procs' = procs
  BY <1>1 DEF procVars
<1>3. Capacity + 1 \in 0 .. Capacity + 1 /\ Capacity + 1 > 0
  BY BoundsAssumption
<1>4. WriteGoesOn'
  BY <1>1, <1>2, <1>3 DEF WriteGoesOn
<1>5. writes' \in 0 .. MaxWrites
  BY <1>1, BoundsAssumption DEF IInv, TypeOK
<1>6. buffer' \in [File -> 0 .. Capacity] /\ buffer' = buffer
  BY <1>1 DEF IInv, TypeOK
<1> QED BY <1>1, <1>3, <1>4, <1>5, <1>6, MainStepKeeps

LEMMA WriteStdinKeeps == ASSUME IInv, WriteStdin PROVE IInv'
<1> DEFINE f == Input(main.id)
<1>1. /\ main.op = "write"
      /\ IF f = None
         THEN main' = Idle /\ UNCHANGED buffer
         ELSE /\ buffer[f] < Capacity
              /\ buffer' = [buffer EXCEPT ![f] = @ + 1]
              /\ main' = IF main.left = 1 THEN Idle ELSE [main EXCEPT !.left = @ - 1]
      /\ UNCHANGED <<child, number, table, wrote, procVars, readerVars, writes, killed>>
  BY DEF WriteStdin
<1>2. TypeOK /\ main.id \in procs /\ main.left > 0
  BY <1>1 DEF IInv, WriteGoesOn
<1>3. f = None \/ \E s \in Session : f = <<s, "in">>
  <2>1. main.id \in Session
    BY <1>2 DEF TypeOK
  <2>2. CASE kind[main.id] = "pipe"
    BY <2>1, <2>2 DEF Input
  <2>3. CASE kind[main.id] # "pipe"
    <3>1. kind[main.id] = "pty" /\ number[<<main.id, "pty">>] \in Numbers
      BY <1>2, <2>1, <2>3 DEF IInv, Staged, TypeOK
    <3>2. table[number[<<main.id, "pty">>]] \in Output \cup {None}
      BY <1>2, <3>1 DEF TypeOK
    <3>3. None[2] \notin {"pipe", "pty"}
      BY DEF None
    <3> QED BY <2>3, <3>2, <3>3, Files DEF Input
  <2> QED BY <2>2, <2>3
<1>4. Idle.op # "write" /\ Idle \in [op : {"idle", "write", "resize"}, id : Session \cup {0},
                                      left : 0 .. Capacity + 1]
  BY BoundsAssumption DEF Idle
<1> HIDE DEF f
<1>5. \/ main' = Idle
      \/ main.left # 1 /\ main' = [main EXCEPT !.left = @ - 1]
  BY <1>1
<1>6. WriteGoesOn' /\ main' \in [op : {"idle", "write", "resize"}, id : Session \cup {0},
                                 left : 0 .. Capacity + 1]
  <2>1. CASE main' = Idle
    BY <1>4, <2>1 DEF WriteGoesOn
  <2>2. CASE main.left # 1 /\ main' = [main EXCEPT !.left = @ - 1]
    <3>1. main \in [op : {"idle", "write", "resize"}, id : Session \cup {0},
                    left : 0 .. Capacity + 1]
      BY <1>2 DEF TypeOK
    <3>2. main.left - 1 \in 0 .. Capacity + 1 /\ main.left - 1 > 0
      BY <1>2, <2>2, <3>1, BoundsAssumption
    <3>3. procs' = procs
      BY <1>1 DEF procVars
    <3> QED BY <1>2, <2>2, <3>1, <3>2, <3>3 DEF WriteGoesOn
  <2> QED BY <1>5, <2>1, <2>2
<1>7. buffer' \in [File -> 0 .. Capacity] /\ \A g \in Output : buffer'[g] = buffer[g]
  <2>1. CASE f = None
    BY <1>1, <1>2, <2>1 DEF TypeOK
  <2>2. CASE f # None
    <3>1. f \in File /\ f \notin Output
      BY <1>3, <2>2, Files
    <3>2. buffer \in [File -> 0 .. Capacity] /\ buffer[f] + 1 \in 0 .. Capacity
      BY <1>1, <1>2, <2>2, <3>1, BoundsAssumption DEF TypeOK
    <3> QED BY <1>1, <2>2, <3>1, <3>2, Files
  <2> QED BY <2>1, <2>2
<1>8. writes' \in 0 .. MaxWrites
  BY <1>1, <1>2 DEF TypeOK
<1> QED BY <1>1, <1>6, <1>7, <1>8, MainStepKeeps

LEMMA KillTerminalKeeps == ASSUME IInv, NEW s \in Session, KillTerminal(s) PROVE IInv'
<1>1. /\ s \in procs /\ kind[s] = "pty"
      /\ table' = [table EXCEPT ![number[<<s, "pty">>]] = None]
      /\ masterFd' = [masterFd EXCEPT ![s] = FALSE]
      /\ killed' = killed \cup {s}
      /\ UNCHANGED <<child, number, buffer, wrote, procs, kind, reader, inRead, heard, exited,
                     main, writes>>
  BY DEF KillTerminal, readerVars
<1>2. TypeOK'
  BY <1>1 DEF IInv, TypeOK
<1>3. Staged' /\ HeardOnce' /\ WriteGoesOn'
  BY <1>1 DEF IInv, Staged, HeardOnce, WriteGoesOn
<1>4. killed' # {}
  BY <1>1
<1> QED BY <1>2, <1>3, <1>4 DEF IInv, Undisturbed

LEMMA ResizeKeeps ==
    ASSUME IInv, PtyResizeDone \/ \E s \in Session : PtyResize(s) PROVE IInv'
<1>1. /\ main' = Idle \/ \E s \in Session : main' = [op |-> "resize", id |-> s, left |-> 0]
      /\ UNCHANGED <<child, number, table, buffer, wrote, procVars, readerVars, writes, killed>>
  BY DEF PtyResize, PtyResizeDone, osVars
<1>2. 0 \in 0 .. Capacity + 1
  BY BoundsAssumption
<1>3. WriteGoesOn' /\ main' \in [op : {"idle", "write", "resize"}, id : Session \cup {0},
                                 left : 0 .. Capacity + 1]
  BY <1>1, <1>2 DEF WriteGoesOn, Idle
<1>4. buffer' = buffer /\ buffer' \in [File -> 0 .. Capacity] /\ writes' \in 0 .. MaxWrites
  BY <1>1 DEF IInv, TypeOK
<1> QED BY <1>1, <1>3, <1>4, MainStepKeeps

LEMMA StutterKeeps == ASSUME IInv, UNCHANGED vars PROVE IInv'
<1>1. UNCHANGED <<child, number, table, buffer, wrote, procVars, readerVars, main, writes,
                  killed>>
  BY DEF vars, osVars, mainVars
<1>2. WriteGoesOn'
  BY <1>1 DEF IInv, WriteGoesOn, procVars
<1>3. /\ writes' \in 0 .. MaxWrites /\ buffer' \in [File -> 0 .. Capacity]
      /\ main' \in [op : {"idle", "write", "resize"}, id : Session \cup {0},
                    left : 0 .. Capacity + 1]
  BY <1>1 DEF IInv, TypeOK
<1> QED BY <1>1, <1>2, <1>3, MainStepKeeps

LEMMA StepKeeps == ASSUME IInv, [Next]_vars PROVE IInv'
<1>1. ASSUME NEW f \in Output, ChildWrites(f) PROVE IInv'
  BY <1>1, ChildWritesKeeps
<1>2. ASSUME NEW s \in Session, ChildReads(s) PROVE IInv'
  BY <1>2, ChildReadsKeeps
<1>3. ASSUME NEW s \in Session, ChildExits(s) \/ HangUp(s) \/ Kill(s) PROVE IInv'
  BY <1>3, ChildExitsKeeps DEF HangUp, Kill
<1>4. ASSUME NEW s \in Session, SpawnPipes(s) PROVE IInv'
  BY <1>4, SpawnPipesKeeps
<1>5. ASSUME NEW s \in Session, PtyOpen(s) PROVE IInv'
  BY <1>5, PtyOpenKeeps
<1>6. ASSUME NEW s \in Session, Reader(s) PROVE IInv'
  BY <1>6, ReaderKeeps
<1>7. ASSUME NEW s \in Session, WriteFn(s) PROVE IInv'
  BY <1>7, WriteFnKeeps
<1>8. ASSUME NEW s \in Session, KillTerminal(s) PROVE IInv'
  BY <1>8, KillTerminalKeeps
<1>9. CASE PtyResizeDone \/ \E s \in Session : PtyResize(s)
  BY <1>9, ResizeKeeps
<1>10. CASE WriteStdin
  BY <1>10, WriteStdinKeeps
<1>11. CASE UNCHANGED vars
  BY <1>11, StutterKeeps
<1> QED BY <1>1, <1>2, <1>3, <1>4, <1>5, <1>6, <1>7, <1>8, <1>9, <1>10, <1>11 DEF Next

LEMMA AlwaysIInv == Spec => []IInv
<1>1. Init => IInv
  BY InitIInv
<1>2. IInv /\ [Next]_vars => IInv'
  BY StepKeeps
<1> QED BY <1>1, <1>2, PTL DEF Spec

-----------------------------------------------------------------------------
(***************************************************************************)
(* Every variable keeps to its type: in particular no pipe holds more than *)
(* its capacity and no session is said to have put out more than its child *)
(* wrote.                                                                  *)
(***************************************************************************)
THEOREM ProcessesTypeCorrect == Spec => []TypeOK
<1>1. IInv => TypeOK
  BY DEF IInv
<1> QED BY <1>1, AlwaysIInv, PTL

(***************************************************************************)
(* The Proc that process.write holds on to while it blocks is not deleted: *)
(* Remove takes the same mutex.                                            *)
(***************************************************************************)
THEOREM WrittenProcStays == Spec => []WriteUsesLiveProc
<1>1. IInv => WriteUsesLiveProc
  BY DEF IInv, WriteGoesOn, WriteUsesLiveProc
<1> QED BY <1>1, AlwaysIInv, PTL

(***************************************************************************)
(* As long as process.kill has closed no terminal, whatever a child wrote  *)
(* is announced once, as the output of its own session, and before the     *)
(* exit is; a reader that is about to read finds its own file behind its   *)
(* number, though numbers are used again.                                  *)
(***************************************************************************)
THEOREM OutputStaysWhole == Spec => []OutputIsWhole
<1>1. IInv => OutputIsWhole
  <2> SUFFICES ASSUME IInv, killed = {} PROVE OutputIsWhole
    BY DEF OutputIsWhole, AllOutputBeforeExit, OwnOutput
  <2>1. /\ TypeOK /\ Staged
        /\ NumbersKept /\ ReadsOwn /\ HeardOwn /\ ReadToTheEnd
    BY DEF IInv, Undisturbed
  <2>2. ASSUME NEW s \in exited, NEW f \in Output, f[1] = s
        PROVE  buffer[f] = 0 /\ heard[<<s, f>>] = wrote[f]
    <3>1. s \in Session /\ reader[s] \in {"remove", "gone"}
      BY <2>1 DEF TypeOK, Staged
    <3>2. f[2] \in {"out", "err", "pty"} /\ f = <<s, f[2]>>
      BY <2>2, Files
    <3>3. buffer[f] = 0
      BY <2>1, <3>1, <3>2 DEF ReadToTheEnd
    <3>4. heard[<<s, f>>] + buffer[f] = wrote[f]
      BY <2>1, <2>2 DEF HeardOwn
    <3>5. heard[<<s, f>>] \in Nat
      BY <2>1, <3>1, Amounts
    <3> QED BY <3>3, <3>4, <3>5
  <2>3. \A s \in Session : \A f \in Output : heard[<<s, f>>] > 0 => f[1] = s
    BY <2>1 DEF HeardOwn
  <2>4. ASSUME NEW s \in Session, StartsRead(s)
        PROVE  table[number[Stream(s)]] = Stream(s)
    <3>1. Stream(s) \in Output /\ Using(Stream(s))
      BY <2>1, <2>4, StreamFacts DEF StartsRead
    <3> QED BY <2>1, <3>1 DEF NumbersKept
  <2> QED BY <2>2, <2>3, <2>4 DEF OutputIsWhole, AllOutputBeforeExit, OwnOutput
<1> QED BY <1>1, AlwaysIInv, PTL
=============================================================================
