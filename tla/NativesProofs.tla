---------------------------- MODULE NativesProofs ----------------------------
(***************************************************************************)
(* Proofs about the file system's modules: FsWatch (F in MCNatives), for   *)
(* any number of watchers, any number of changes of the tree and any limit *)
(* of a batch; and FsHandles (H in MCNatives), for any number of files,    *)
(* handles and calls.                                                      *)
(***************************************************************************)
EXTENDS MCNatives, SequenceTheorems, TLAPS

(***************************************************************************)
(* The inductive invariant.  A reader runs only for a watcher of the map,  *)
(* which the main thread does not take out before the reader is over or    *)
(* while it is not started; what read(2) returned is worked off before the *)
(* next read; and nothing is reported to a watcher that has not started.   *)
(***************************************************************************)
Starting == mainF.op \in {"walk", "add"} => mainF.id \in watchers /\ readerF[mainF.id] = "none"

BusyFor(op) == mainF.op = op => mainF.id \in F!Watcher

BufferWorkedOff ==
    \A w \in F!Watcher :
        /\ readerF[w] \in {"process", "lookup", "tornLookup"} => todo[w] # <<>>
        /\ readerF[w] \in {"start", "tornStart", "poll", "flush"} => todo[w] = <<>>

NothingBeforeStart ==
    \A w \in F!Watcher : readerF[w] = "none" =>
        /\ watched[w] = {}
        /\ queue[w] = <<>> /\ todo[w] = <<>> /\ batch[w] = <<>>
        /\ announced[w] = <<>> /\ reported[w] = <<>>

WatchInv ==
    /\ F!TypeOK
    /\ F!ReaderHasWatcher
    /\ Starting /\ BusyFor("join")
    /\ BufferWorkedOff
    /\ NothingBeforeStart
    /\ F!NothingLostOrRepeated

-----------------------------------------------------------------------------
(***************************************************************************)
(* Sequences.                                                              *)
(***************************************************************************)
\* A new change comes behind all that is on its way.
LEMMA ConcatAppend ==
    ASSUME NEW S, NEW a \in Seq(S), NEW b \in Seq(S), NEW n \in S
    PROVE  a \o Append(b, n) = Append(a \o b, n)
<1>1. Append(b, n) = b \o <<n>>
  BY AppendIsConcat
<1>2. a \o b \in Seq(S)
  BY ConcatProperties
<1>3. Append(a \o b, n) = (a \o b) \o <<n>>
  BY <1>2, AppendIsConcat
<1>4. <<n>> \in Seq(S)
  OBVIOUS
<1>5. (a \o b) \o <<n>> = a \o (b \o <<n>>)
  BY <1>4, ConcatAssociative
<1> QED BY <1>1, <1>3, <1>5

\* The first of what is left becomes the last of what is gathered.
LEMMA ConcatMove ==
    ASSUME NEW S, NEW a \in Seq(S), NEW b \in Seq(S), b # <<>>
    PROVE  Append(a, Head(b)) \o Tail(b) = a \o b
<1> DEFINE l == Append(a, Head(b)) \o Tail(b)
           r == a \o b
<1>1. /\ Head(b) \in S /\ Tail(b) \in Seq(S) /\ Head(b) = b[1]
      /\ Len(b) \in Nat /\ Len(b) > 0 /\ Len(Tail(b)) = Len(b) - 1
      /\ \A i \in 1 .. Len(Tail(b)) : Tail(b)[i] = b[i + 1]
  OBVIOUS
<1>2. /\ Append(a, Head(b)) \in Seq(S)
      /\ Len(a) \in Nat /\ Len(Append(a, Head(b))) = Len(a) + 1
      /\ \A i \in 1 .. Len(a) : Append(a, Head(b))[i] = a[i]
      /\ Append(a, Head(b))[Len(a) + 1] = Head(b)
  BY <1>1, AppendProperties
<1>3. /\ l \in Seq(S) /\ Len(l) = Len(a) + 1 + Len(Tail(b))
      /\ \A i \in 1 .. Len(a) + 1 + Len(Tail(b)) :
            l[i] = IF i <= Len(a) + 1 THEN Append(a, Head(b))[i]
                   ELSE Tail(b)[i - (Len(a) + 1)]
  BY <1>1, <1>2, ConcatProperties
<1>4. /\ r \in Seq(S) /\ Len(r) = Len(a) + Len(b)
      /\ \A i \in 1 .. Len(a) + Len(b) : r[i] = IF i <= Len(a) THEN a[i] ELSE b[i - Len(a)]
  BY ConcatProperties
<1> HIDE DEF l, r
<1>5. Len(l) = Len(r)
  BY <1>1, <1>2, <1>3, <1>4
<1>6. ASSUME NEW i \in 1 .. Len(l) PROVE l[i] = r[i]
  <2>0. /\ i \in Nat /\ i \in 1 .. Len(a) + 1 + Len(Tail(b)) /\ i \in 1 .. Len(a) + Len(b)
        /\ Len(Tail(b)) \in Nat
    BY <1>1, <1>2, <1>3
  <2>1. CASE i <= Len(a)
    <3>1. i \in 1 .. Len(a)
      BY <1>2, <2>0, <2>1
    <3>2. l[i] = Append(a, Head(b))[i] /\ r[i] = a[i]
      BY <1>2, <1>3, <1>4, <2>0, <2>1
    <3> QED BY <1>2, <3>1, <3>2
  <2>2. CASE i = Len(a) + 1
    <3>1. l[i] = Append(a, Head(b))[Len(a) + 1] /\ r[i] = b[i - Len(a)]
      BY <1>2, <1>3, <1>4, <2>0, <2>2
    <3>2. i - Len(a) = 1
      BY <1>2, <2>2
    <3> QED BY <1>1, <1>2, <3>1, <3>2
  <2>3. CASE i > Len(a) + 1
    <3>1. i - (Len(a) + 1) \in 1 .. Len(Tail(b))
      BY <1>1, <1>2, <1>3, <2>3
    <3>2. Tail(b)[i - (Len(a) + 1)] = b[(i - (Len(a) + 1)) + 1]
      BY <1>1, <3>1
    <3>3. (i - (Len(a) + 1)) + 1 = i - Len(a)
      BY <1>2
    <3> QED BY <1>1, <1>2, <1>3, <1>4, <2>3, <3>2, <3>3
  <2> QED BY <1>2, <2>1, <2>2, <2>3
<1>7. l = r
  BY <1>3, <1>4, <1>5, <1>6, SeqEqual
<1> QED BY <1>7 DEF l, r

\* The numbers of the changes of a sequence of events.
LEMMA ChangesOf ==
    ASSUME NEW q \in Seq(F!Event)
    PROVE  /\ F!Changes(q) \in Seq(F!Change) /\ Len(F!Changes(q)) = Len(q)
           /\ \A i \in 1 .. Len(q) : F!Changes(q)[i] = q[i].change
<1>1. Len(q) \in Nat /\ DOMAIN q = 1 .. Len(q) /\ \A i \in 1 .. Len(q) : q[i] \in F!Event
  OBVIOUS
<1>2. \A i \in 1 .. Len(q) : q[i].change \in F!Change
  BY <1>1 DEF F!Event
<1>3. F!Changes(q) = [i \in 1 .. Len(q) |-> q[i].change]
  BY <1>1 DEF F!Changes
<1> QED BY <1>1, <1>2, <1>3

LEMMA ChangesEmpty == F!Changes(<<>>) = <<>>
BY DEF F!Changes

LEMMA ChangesAppend ==
    ASSUME NEW q \in Seq(F!Event), NEW e \in F!Event
    PROVE  F!Changes(Append(q, e)) = Append(F!Changes(q), e.change)
<1>1. /\ Append(q, e) \in Seq(F!Event) /\ Len(Append(q, e)) = Len(q) + 1 /\ Len(q) \in Nat
      /\ \A i \in 1 .. Len(q) : Append(q, e)[i] = q[i]
      /\ Append(q, e)[Len(q) + 1] = e
  BY AppendProperties
<1>2. e.change \in F!Change
  BY DEF F!Event
<1> DEFINE l == F!Changes(Append(q, e))
           c == F!Changes(q)
           r == Append(c, e.change)
<1>3. l \in Seq(F!Change) /\ Len(l) = Len(q) + 1
      /\ \A i \in 1 .. Len(q) + 1 : l[i] = Append(q, e)[i].change
  BY <1>1, ChangesOf
<1>4. c \in Seq(F!Change) /\ Len(c) = Len(q) /\ \A i \in 1 .. Len(q) : c[i] = q[i].change
  BY ChangesOf
<1> HIDE DEF l, c
<1>5. /\ r \in Seq(F!Change) /\ Len(r) = Len(c) + 1
      /\ \A i \in 1 .. Len(c) : r[i] = c[i]
      /\ r[Len(c) + 1] = e.change
  BY <1>2, <1>4, AppendProperties
<1> HIDE DEF r
<1>6. \A i \in 1 .. Len(l) : l[i] = r[i]
  <2> SUFFICES ASSUME NEW i \in 1 .. Len(l) PROVE l[i] = r[i]
    OBVIOUS
  <2>1. CASE i = Len(q) + 1
    BY <1>1, <1>3, <1>4, <1>5, <2>1
  <2>2. CASE i \in 1 .. Len(q)
    BY <1>1, <1>3, <1>4, <1>5, <2>2
  <2> QED BY <1>1, <1>3, <2>1, <2>2
<1>7. l = r
  BY <1>1, <1>3, <1>4, <1>5, <1>6, SeqEqual
<1> QED BY <1>7 DEF l, r, c

LEMMA ChangesTail ==
    ASSUME NEW q \in Seq(F!Event), q # <<>>
    PROVE  /\ F!Changes(q) # <<>>
           /\ Head(F!Changes(q)) = Head(q).change
           /\ Tail(F!Changes(q)) = F!Changes(Tail(q))
<1> DEFINE c == F!Changes(q)
           l == Tail(c)
           r == F!Changes(Tail(q))
<1>1. c \in Seq(F!Change) /\ Len(c) = Len(q) /\ \A i \in 1 .. Len(q) : c[i] = q[i].change
  BY ChangesOf
<1>2. /\ Len(q) \in Nat /\ Len(q) > 0 /\ Head(q) = q[1]
      /\ Tail(q) \in Seq(F!Event) /\ Len(Tail(q)) = Len(q) - 1
      /\ \A i \in 1 .. Len(Tail(q)) : Tail(q)[i] = q[i + 1]
  OBVIOUS
<1>3. r \in Seq(F!Change) /\ Len(r) = Len(Tail(q))
      /\ \A i \in 1 .. Len(Tail(q)) : r[i] = Tail(q)[i].change
  BY <1>2, ChangesOf
<1> HIDE DEF c, r
<1>4. c # <<>>
  BY <1>1, <1>2
<1>5. /\ l \in Seq(F!Change) /\ Len(l) = Len(c) - 1 /\ Head(c) = c[1]
      /\ \A i \in 1 .. Len(l) : l[i] = c[i + 1]
  BY <1>1, <1>4
<1> HIDE DEF l
<1>6. 1 \in 1 .. Len(q) /\ \A i \in 1 .. Len(l) : i + 1 \in 1 .. Len(q) /\ i \in 1 .. Len(Tail(q))
  BY <1>1, <1>2, <1>5
<1>7. \A i \in 1 .. Len(l) : l[i] = r[i]
  BY <1>1, <1>2, <1>3, <1>5, <1>6
<1>8. l = r
  BY <1>1, <1>2, <1>3, <1>5, <1>7, SeqEqual
<1> QED BY <1>1, <1>2, <1>4, <1>5, <1>6, <1>8 DEF c, l, r

-----------------------------------------------------------------------------
LEMMA InitIInv == ASSUME MaxChanges \in Nat, F!Init PROVE WatchInv
<1>1. /\ <<>> \in Seq(F!Event) /\ <<>> \in Seq(F!Change)
      /\ 0 \in 0 .. MaxChanges
  OBVIOUS
<1>2. F!TypeOK
  BY <1>1 DEF F!Init, F!TypeOK, F!Idle
<1>3. \A w \in F!Watcher : ~F!Runs(w)
  BY DEF F!Init, F!Runs
<1> QED BY <1>2, <1>3 DEF F!Init, WatchInv, F!ReaderHasWatcher, Starting, BusyFor, F!Idle,
                          BufferWorkedOff, NothingBeforeStart, F!NothingLostOrRepeated

\* What is on its way of watcher w.
LEMMA PartsTyped ==
    ASSUME F!TypeOK, NEW w \in F!Watcher
    PROVE  /\ announced[w] \in Seq(F!Change) /\ batch[w] \in Seq(F!Change)
           /\ todo[w] \in Seq(F!Event) /\ queue[w] \in Seq(F!Event)
           /\ F!Changes(todo[w]) \in Seq(F!Change) /\ F!Changes(queue[w]) \in Seq(F!Change)
           /\ announced[w] \o batch[w] \in Seq(F!Change)
           /\ announced[w] \o batch[w] \o F!Changes(todo[w]) \in Seq(F!Change)
<1>1. /\ announced[w] \in Seq(F!Change) /\ batch[w] \in Seq(F!Change)
      /\ todo[w] \in Seq(F!Event) /\ queue[w] \in Seq(F!Event)
  BY DEF F!TypeOK
<1>2. F!Changes(todo[w]) \in Seq(F!Change) /\ F!Changes(queue[w]) \in Seq(F!Change)
  BY <1>1, ChangesOf
<1>3. announced[w] \o batch[w] \in Seq(F!Change)
  BY <1>1, ConcatProperties
<1>4. announced[w] \o batch[w] \o F!Changes(todo[w]) \in Seq(F!Change)
  BY <1>2, <1>3, ConcatProperties
<1> QED BY <1>1, <1>2, <1>3, <1>4

(***************************************************************************)
(* The tree changes.                                                       *)
(***************************************************************************)
LEMMA ChangeKeeps ==
    ASSUME MaxChanges \in Nat, WatchInv, NEW d \in F!Dir, NEW mkdir \in BOOLEAN, F!ChangeIn(d, mkdir),
           sub' \in BOOLEAN, told' \subseteq F!Watcher,
           watched' \in [F!Watcher -> SUBSET F!Dir],
           \A w \in F!Watcher : watched'[w] \subseteq watched[w]
    PROVE  WatchInv'
<1> DEFINE n == changes + 1
           e == [change |-> n, mkdir |-> mkdir]
<1>1. /\ n \in F!Change /\ changes' = n
      /\ queue' = [w \in F!Watcher |->
             IF d \in watched[w] THEN Append(queue[w], e) ELSE queue[w]]
      /\ reported' = [w \in F!Watcher |->
             IF d \in watched[w] THEN Append(reported[w], n) ELSE reported[w]]
      /\ UNCHANGED <<watchers, recursive, stop, todo, batch, ripe, announced, readerF, mainF>>
  BY DEF F!ChangeIn, F!watcherVars, F!readerVars
<1>2. F!TypeOK
  BY DEF WatchInv
<1>3. e \in F!Event /\ e.change = n
  BY <1>1 DEF F!Event
<1>4. n \in 0 .. MaxChanges
  BY <1>1 DEF F!Change
<1> HIDE DEF e, n
<1>5. ASSUME NEW w \in F!Watcher
      PROVE  /\ Append(queue[w], e) \in Seq(F!Event)
             /\ Append(reported[w], n) \in Seq(F!Change)
  <2>1. queue[w] \in Seq(F!Event) /\ reported[w] \in Seq(F!Change)
    BY <1>2 DEF F!TypeOK
  <2> QED BY <1>1, <1>3, <2>1, AppendProperties
<1>6. queue' \in [F!Watcher -> Seq(F!Event)] /\ reported' \in [F!Watcher -> Seq(F!Change)]
  BY <1>1, <1>2, <1>5 DEF F!TypeOK
<1>7. F!TypeOK'
  BY <1>1, <1>2, <1>4, <1>6 DEF F!TypeOK
<1>8. F!ReaderHasWatcher' /\ Starting' /\ BusyFor("join")' /\ BufferWorkedOff'
  BY <1>1 DEF WatchInv, F!ReaderHasWatcher, F!Runs, Starting, BusyFor, BufferWorkedOff
<1>9. NothingBeforeStart'
  BY <1>1 DEF WatchInv, NothingBeforeStart
<1>10. F!NothingLostOrRepeated'
  <2> SUFFICES ASSUME NEW w \in F!Watcher, F!Runs(w)
               PROVE  announced[w] \o batch[w] \o F!Changes(todo[w]) \o F!Changes(queue'[w])
                          = reported'[w]
    BY <1>1 DEF F!NothingLostOrRepeated, F!Runs
  <2> DEFINE abc == announced[w] \o batch[w] \o F!Changes(todo[w])
  <2>1. abc \o F!Changes(queue[w]) = reported[w]
    BY DEF WatchInv, F!NothingLostOrRepeated
  <2>2. abc \in Seq(F!Change) /\ F!Changes(queue[w]) \in Seq(F!Change) /\ queue[w] \in Seq(F!Event)
    BY <1>2, PartsTyped
  <2> HIDE DEF abc
  <2>3. CASE d \in watched[w]
    <3>1. queue'[w] = Append(queue[w], e) /\ reported'[w] = Append(reported[w], n)
      BY <1>1, <2>3
    <3>2. F!Changes(queue'[w]) = Append(F!Changes(queue[w]), n)
      BY <1>3, <2>2, <3>1, ChangesAppend
    <3>3. abc \o Append(F!Changes(queue[w]), n) = Append(abc \o F!Changes(queue[w]), n)
      BY <1>1, <2>2, ConcatAppend
    <3> QED BY <2>1, <3>1, <3>2, <3>3 DEF abc
  <2>4. CASE d \notin watched[w]
    BY <1>1, <2>1, <2>4 DEF abc
  <2> QED BY <2>3, <2>4
<1> QED BY <1>7, <1>8, <1>9, <1>10 DEF WatchInv

LEMMA TreeKeeps ==
    ASSUME MaxChanges \in Nat, WatchInv,
           \/ \E d \in F!Dir : F!TouchFile(d)
           \/ F!MakeSub \/ F!MoveSubIn \/ F!RemoveSub
    PROVE  WatchInv'
<1>0. F!TypeOK
  BY DEF WatchInv
<1>1. ASSUME NEW d \in F!Dir, F!TouchFile(d) PROVE WatchInv'
  <2>1. F!ChangeIn(d, FALSE) /\ UNCHANGED <<sub, watched, told>>
    BY <1>1 DEF F!TouchFile
  <2> QED BY <1>0, <2>1, ChangeKeeps DEF F!TypeOK
<1>2. CASE F!MakeSub
  <2>1. /\ F!ChangeIn("root", TRUE) /\ sub' = TRUE /\ watched' = watched
        /\ told' = {w \in F!Watcher : recursive[w] /\ "root" \in watched[w]}
    BY <1>2 DEF F!MakeSub
  <2>2. "root" \in F!Dir /\ TRUE \in BOOLEAN
    BY DEF F!Dir
  <2> QED BY <1>0, <2>1, <2>2, ChangeKeeps DEF F!TypeOK
<1>3. CASE F!MoveSubIn
  <2>1. F!ChangeIn("root", FALSE) /\ sub' = TRUE /\ watched' = watched /\ told' = {}
    BY <1>3 DEF F!MoveSubIn
  <2>2. "root" \in F!Dir /\ FALSE \in BOOLEAN
    BY DEF F!Dir
  <2> QED BY <1>0, <2>1, <2>2, ChangeKeeps DEF F!TypeOK
<1>4. CASE F!RemoveSub
  <2>1. /\ F!ChangeIn("root", FALSE) /\ sub' = FALSE /\ told' = {}
        /\ watched' = [w \in F!Watcher |-> watched[w] \ {"sub"}]
    BY <1>4 DEF F!RemoveSub
  <2>2. "root" \in F!Dir /\ FALSE \in BOOLEAN
    BY DEF F!Dir
  <2>3. watched' \in [F!Watcher -> SUBSET F!Dir]
    BY <1>0, <2>1 DEF F!TypeOK
  <2> QED BY <2>1, <2>2, <2>3, ChangeKeeps
<1> QED BY <1>1, <1>2, <1>3, <1>4

(***************************************************************************)
(* The main thread.  A reader that is torn is where it was.                *)
(***************************************************************************)
Where(rd) == IF rd = "tornStart" THEN "start" ELSE IF rd = "tornLookup" THEN "lookup" ELSE rd

LEMMA TornStays ==
    ASSUME F!TypeOK
    PROVE  /\ F!Tear(readerF) \in [F!Watcher -> {"none", "start", "tornStart", "poll", "process",
                                            "lookup", "tornLookup", "flush", "done"}]
           /\ \A w \in F!Watcher : Where(F!Tear(readerF)[w]) = Where(readerF[w])
<1>1. DOMAIN F!Torn = {"start", "lookup"} /\ F!Torn["start"] = "tornStart"
      /\ F!Torn["lookup"] = "tornLookup"
  BY DEF F!Torn
<1>2. \A w \in F!Watcher : F!Tear(readerF)[w] = IF readerF[w] = "start" THEN "tornStart"
                                           ELSE IF readerF[w] = "lookup" THEN "tornLookup"
                                           ELSE readerF[w]
  BY <1>1 DEF F!Tear
<1>3. F!Tear(readerF) = [w \in F!Watcher |-> F!Tear(readerF)[w]]
  BY DEF F!Tear
<1> QED BY <1>2, <1>3 DEF F!TypeOK, Where

LEMMA MainKeeps ==
    ASSUME WatchInv,
           readerF' \in [F!Watcher -> {"none", "start", "tornStart", "poll", "process",
                                    "lookup", "tornLookup", "flush", "done"}],
           \A w \in F!Watcher : Where(readerF'[w]) = Where(readerF[w]),
           watchers' \subseteq F!Watcher, recursive' \in [F!Watcher -> BOOLEAN],
           stop' \in [F!Watcher -> BOOLEAN],
           mainF' \in [op : {"idle", "walk", "add", "join"}, id : F!Watcher \cup {0},
                      dirs : SUBSET F!Dir],
           \A w \in F!Watcher : F!Runs(w) => w \in watchers',
           Starting', BusyFor("join")',
           UNCHANGED <<F!treeVars, watched, F!readerVars, told>>
    PROVE  WatchInv'
<1>1. UNCHANGED <<sub, changes, queue, reported, watched, todo, batch, ripe, announced, told>>
  BY DEF F!treeVars, F!readerVars
<1>2. F!TypeOK
  BY DEF WatchInv
<1>3. \A w \in F!Watcher :
         /\ F!Runs(w)' <=> F!Runs(w)
         /\ readerF'[w] = "none" <=> readerF[w] = "none"
         /\ readerF'[w] \in {"process", "lookup", "tornLookup"}
               <=> readerF[w] \in {"process", "lookup", "tornLookup"}
         /\ readerF'[w] \in {"start", "tornStart", "poll", "flush"}
               <=> readerF[w] \in {"start", "tornStart", "poll", "flush"}
  BY <1>2 DEF F!Runs, Where, F!TypeOK
<1>4. F!TypeOK'
  BY <1>1, <1>2 DEF F!TypeOK
<1>5. F!ReaderHasWatcher'
  BY <1>3 DEF F!ReaderHasWatcher
<1>6. BufferWorkedOff' /\ NothingBeforeStart' /\ F!NothingLostOrRepeated'
  BY <1>1, <1>3 DEF WatchInv, BufferWorkedOff, NothingBeforeStart, F!NothingLostOrRepeated
<1> QED BY <1>4, <1>5, <1>6 DEF WatchInv

LEMMA MainStepKeeps ==
    ASSUME WatchInv,
           \/ \E w \in F!Watcher, rec \in BOOLEAN : F!Watch(w, rec)
           \/ F!WalkDirs \/ F!StartFails \/ F!Joined
           \/ \E w \in F!Watcher : F!Unwatch(w)
    PROVE  WatchInv'
<1>0. F!TypeOK /\ F!ReaderHasWatcher /\ Starting /\ BusyFor("join")
  BY DEF WatchInv
<1>1. \A w \in F!Watcher : F!Tear(readerF)[w] = "none" <=> readerF[w] = "none"
  BY <1>0, TornStays DEF Where, F!TypeOK
<1>2. ASSUME NEW w \in F!Watcher, NEW rec \in BOOLEAN, F!Watch(w, rec) PROVE WatchInv'
  <2>1. /\ readerF[w] = "none" /\ watchers' = watchers \cup {w}
        /\ recursive' = [recursive EXCEPT ![w] = rec] /\ stop' = stop
        /\ readerF' = F!Tear(readerF)
        /\ mainF' = [op |-> "walk", id |-> w, dirs |-> {}]
        /\ UNCHANGED <<F!treeVars, watched, F!readerVars, told>>
    BY <1>2 DEF F!Watch
  <2>2. Starting' /\ BusyFor("join")'
    BY <1>1, <2>1 DEF Starting, BusyFor
  <2>3. \A v \in F!Watcher : F!Runs(v) => v \in watchers'
    BY <1>0, <2>1 DEF F!ReaderHasWatcher
  <2> QED BY <1>0, <2>1, <2>2, <2>3, TornStays, MainKeeps DEF F!TypeOK
<1>3. CASE F!WalkDirs
  <2> DEFINE dirs == {"root"} \cup (IF recursive[mainF.id] /\ sub THEN {"sub"} ELSE {})
  <2>1. /\ mainF.op = "walk" /\ mainF' = [mainF EXCEPT !.op = "add", !.dirs = dirs]
        /\ UNCHANGED <<F!treeVars, watchers, recursive, stop, watched, F!readerVars, readerF, told>>
    BY <1>3 DEF F!WalkDirs, F!watcherVars
  <2>2. dirs \in SUBSET F!Dir
    BY DEF F!Dir
  <2> HIDE DEF dirs
  <2>3. /\ mainF' \in [op : {"idle", "walk", "add", "join"}, id : F!Watcher \cup {0},
                      dirs : SUBSET F!Dir]
        /\ mainF'.op = "add" /\ mainF'.id = mainF.id
    BY <1>0, <2>1, <2>2 DEF F!TypeOK
  <2>4. Starting' /\ BusyFor("join")'
    BY <1>0, <2>1, <2>3 DEF Starting, BusyFor
  <2>5. \A v \in F!Watcher : F!Runs(v) => v \in watchers'
    BY <1>0, <2>1 DEF F!ReaderHasWatcher
  <2> QED BY <1>0, <2>1, <2>3, <2>4, <2>5, MainKeeps DEF F!TypeOK
<1>4. CASE F!StartFails
  <2>1. /\ mainF.op = "walk"
        /\ watchers' = watchers \ {mainF.id}
        /\ stop' = [stop EXCEPT ![mainF.id] = TRUE] /\ recursive' = recursive
        /\ readerF' = F!Tear(readerF) /\ mainF' = F!Idle
        /\ UNCHANGED <<F!treeVars, watched, F!readerVars, told>>
    BY <1>4 DEF F!StartFails
  <2>2. mainF' \in [op : {"idle", "walk", "add", "join"}, id : F!Watcher \cup {0},
                   dirs : SUBSET F!Dir]
        /\ mainF'.op = "idle"
    BY <2>1 DEF F!Idle
  <2>3. Starting' /\ BusyFor("join")'
    BY <2>2 DEF Starting, BusyFor
  <2>4. \A v \in F!Watcher : F!Runs(v) => v \in watchers'
    BY <1>0, <2>1 DEF F!ReaderHasWatcher, Starting, F!Runs
  <2> QED BY <1>0, <2>1, <2>2, <2>3, <2>4, TornStays, MainKeeps DEF F!TypeOK
<1>5. CASE F!Joined
  <2>1. /\ mainF.op = "join" /\ readerF[mainF.id] = "done"
        /\ watchers' = watchers \ {mainF.id}
        /\ readerF' = F!Tear(readerF) /\ mainF' = F!Idle
        /\ UNCHANGED <<F!treeVars, recursive, stop, watched, F!readerVars, told>>
    BY <1>5 DEF F!Joined
  <2>2. mainF' \in [op : {"idle", "walk", "add", "join"}, id : F!Watcher \cup {0},
                   dirs : SUBSET F!Dir]
        /\ mainF'.op = "idle"
    BY <2>1 DEF F!Idle
  <2>3. Starting' /\ BusyFor("join")'
    BY <2>2 DEF Starting, BusyFor
  <2>4. \A v \in F!Watcher : F!Runs(v) => v \in watchers'
    BY <1>0, <2>1 DEF F!ReaderHasWatcher, F!Runs
  <2> QED BY <1>0, <2>1, <2>2, <2>3, <2>4, TornStays, MainKeeps DEF F!TypeOK
<1>6. ASSUME NEW w \in F!Watcher, F!Unwatch(w) PROVE WatchInv'
  <2>1. /\ stop' = [stop EXCEPT ![w] = TRUE]
        /\ mainF' = [op |-> "join", id |-> w, dirs |-> {}]
        /\ UNCHANGED <<F!treeVars, watchers, recursive, watched, F!readerVars, readerF, told>>
    BY <1>6 DEF F!Unwatch
  <2>2. Starting' /\ BusyFor("join")'
    BY <2>1 DEF Starting, BusyFor
  <2>3. \A v \in F!Watcher : F!Runs(v) => v \in watchers'
    BY <1>0, <2>1 DEF F!ReaderHasWatcher
  <2> QED BY <1>0, <2>1, <2>2, <2>3, MainKeeps DEF F!TypeOK
<1> QED BY <1>2, <1>3, <1>4, <1>5, <1>6

(***************************************************************************)
(* A step that moves the reader of w and works with what is on its way.    *)
(***************************************************************************)
Stage == {"start", "tornStart", "poll", "process", "lookup", "tornLookup", "flush", "done"}

LEMMA ReaderStepKeeps ==
    ASSUME WatchInv, NEW w \in F!Watcher, NEW stage \in Stage,
           readerF' = [readerF EXCEPT ![w] = stage],
           w \in watchers, Starting',
           mainF' = mainF \/ mainF' = F!Idle,
           watched' \in [F!Watcher -> SUBSET F!Dir], told' \subseteq F!Watcher,
           queue' \in [F!Watcher -> Seq(F!Event)], todo' \in [F!Watcher -> Seq(F!Event)],
           batch' \in [F!Watcher -> Seq(F!Change)], announced' \in [F!Watcher -> Seq(F!Change)],
           ripe' \in [F!Watcher -> BOOLEAN],
           \A v \in F!Watcher : v # w =>
               /\ watched'[v] = watched[v] /\ queue'[v] = queue[v] /\ todo'[v] = todo[v]
               /\ batch'[v] = batch[v] /\ announced'[v] = announced[v],
           stage \in {"process", "lookup", "tornLookup"} => todo'[w] # <<>>,
           stage \in {"start", "tornStart", "poll", "flush"} => todo'[w] = <<>>,
           stage # "done" =>
               announced'[w] \o batch'[w] \o F!Changes(todo'[w]) \o F!Changes(queue'[w])
                   = reported[w],
           UNCHANGED <<sub, changes, reported, F!watcherVars>>
    PROVE  WatchInv'
<1>1. UNCHANGED <<sub, changes, reported, watchers, recursive, stop>>
  BY DEF F!watcherVars
<1>2. F!TypeOK
  BY DEF WatchInv
<1>3. \A v \in F!Watcher : readerF'[v] = IF v = w THEN stage ELSE readerF[v]
  BY <1>2 DEF F!TypeOK
<1>4. F!TypeOK'
  <2>1. mainF' \in [op : {"idle", "walk", "add", "join"}, id : F!Watcher \cup {0}, dirs : SUBSET F!Dir]
    <3>1. CASE mainF' = mainF
      BY <1>2, <3>1 DEF F!TypeOK
    <3>2. CASE mainF' = F!Idle
      BY <3>2 DEF F!Idle
    <3> QED BY <3>1, <3>2
  <2>2. readerF' \in [F!Watcher -> {"none", "start", "tornStart", "poll", "process",
                                 "lookup", "tornLookup", "flush", "done"}]
    BY <1>2 DEF F!TypeOK, Stage
  <2> QED BY <1>1, <1>2, <2>1, <2>2 DEF F!TypeOK
<1>5. F!ReaderHasWatcher'
  BY <1>1, <1>3 DEF WatchInv, F!ReaderHasWatcher, F!Runs
<1>6. BusyFor("join")'
  BY DEF WatchInv, BusyFor, F!Idle
<1>7. BufferWorkedOff'
  BY <1>3 DEF WatchInv, BufferWorkedOff
<1>8. NothingBeforeStart'
  <2> SUFFICES ASSUME NEW v \in F!Watcher, readerF'[v] = "none"
               PROVE  /\ watched'[v] = {}
                      /\ queue'[v] = <<>> /\ todo'[v] = <<>> /\ batch'[v] = <<>>
                      /\ announced'[v] = <<>> /\ reported'[v] = <<>>
    BY DEF NothingBeforeStart
  <2>1. v # w /\ readerF[v] = "none"
    BY <1>3 DEF Stage
  <2>2. /\ watched[v] = {}
        /\ queue[v] = <<>> /\ todo[v] = <<>> /\ batch[v] = <<>>
        /\ announced[v] = <<>> /\ reported[v] = <<>>
    BY <2>1 DEF WatchInv, NothingBeforeStart
  <2> QED BY <1>1, <2>1, <2>2
<1>9. F!NothingLostOrRepeated'
  <2> SUFFICES ASSUME NEW v \in F!Watcher, F!Runs(v)'
               PROVE  announced'[v] \o batch'[v] \o F!Changes(todo'[v]) \o F!Changes(queue'[v])
                          = reported'[v]
    BY DEF F!NothingLostOrRepeated, F!Changes
  <2>1. CASE v = w
    <3>1. stage # "done"
      BY <1>3, <2>1 DEF F!Runs
    <3> QED BY <1>1, <2>1, <3>1
  <2>2. CASE v # w
    <3>1. F!Runs(v)
      BY <1>3, <2>2 DEF F!Runs
    <3>2. announced[v] \o batch[v] \o F!Changes(todo[v]) \o F!Changes(queue[v]) = reported[v]
      BY <3>1 DEF WatchInv, F!NothingLostOrRepeated
    <3>3. /\ announced'[v] = announced[v] /\ batch'[v] = batch[v]
          /\ todo'[v] = todo[v] /\ queue'[v] = queue[v] /\ reported'[v] = reported[v]
      BY <1>1, <2>2
    <3> QED BY <3>2, <3>3
  <2> QED BY <2>1, <2>2
<1> QED BY <1>4, <1>5, <1>6, <1>7, <1>8, <1>9 DEF WatchInv

LEMMA AddWatchesKeeps == ASSUME WatchInv, F!AddWatches PROVE WatchInv'
<1> DEFINE w == mainF.id
           dirs == IF sub THEN mainF.dirs ELSE mainF.dirs \ {"sub"}
<1>1. /\ mainF.op = "add"
      /\ watched' = [watched EXCEPT ![w] = dirs]
      /\ readerF' = [readerF EXCEPT ![w] = "start"]
      /\ mainF' = F!Idle
      /\ UNCHANGED <<sub, changes, queue, reported, F!watcherVars, todo, batch, ripe, announced,
                     told>>
  BY DEF F!AddWatches, F!treeVars, F!readerVars
<1>2. F!TypeOK /\ w \in watchers /\ readerF[w] = "none"
  BY <1>1 DEF WatchInv, Starting
<1>3. w \in F!Watcher /\ dirs \in SUBSET F!Dir
  BY <1>2 DEF F!TypeOK
<1> HIDE DEF w, dirs
<1>4. /\ announced[w] = <<>> /\ batch[w] = <<>> /\ todo[w] = <<>> /\ queue[w] = <<>>
      /\ reported[w] = <<>>
  BY <1>2, <1>3 DEF WatchInv, NothingBeforeStart
<1>5. announced[w] \o batch[w] \o F!Changes(todo[w]) \o F!Changes(queue[w]) = reported[w]
  <2>1. <<>> \o <<>> = <<>>
    OBVIOUS
  <2> QED BY <1>4, <2>1, ChangesEmpty
<1>6. Starting' /\ mainF' = F!Idle
  BY <1>1 DEF Starting, F!Idle
<1>7. "start" \in Stage
  BY DEF Stage
<1>8. /\ watched' \in [F!Watcher -> SUBSET F!Dir]
      /\ \A v \in F!Watcher : v # w => watched'[v] = watched[v]
  BY <1>1, <1>2, <1>3 DEF F!TypeOK
<1> QED BY <1>1, <1>2, <1>3, <1>4, <1>5, <1>6, <1>7, <1>8, ReaderStepKeeps DEF F!TypeOK

\* The reader of w moves on with what it has.
LEMMA MovesOn ==
    ASSUME WatchInv, NEW w \in F!Watcher, F!Runs(w), NEW stage \in Stage,
           readerF' = [readerF EXCEPT ![w] = stage],
           stage \in {"process", "lookup", "tornLookup"} => todo[w] # <<>>,
           stage \in {"start", "tornStart", "poll", "flush"} => todo[w] = <<>>,
           UNCHANGED <<F!treeVars, F!watcherVars, watched, F!readerVars, mainF, told>>
    PROVE  WatchInv'
<1>1. UNCHANGED <<sub, changes, queue, reported, F!watcherVars, watched, todo, batch, ripe,
                  announced, mainF, told>>
  BY DEF F!treeVars, F!readerVars
<1>2. F!TypeOK /\ w \in watchers
  BY DEF WatchInv, F!ReaderHasWatcher
<1>3. Starting'
  BY <1>1, <1>2 DEF WatchInv, Starting, F!Runs, F!watcherVars, F!TypeOK
<1>4. announced[w] \o batch[w] \o F!Changes(todo[w]) \o F!Changes(queue[w]) = reported[w]
  BY DEF WatchInv, F!NothingLostOrRepeated
<1> QED BY <1>1, <1>2, <1>3, <1>4, ReaderStepKeeps DEF F!TypeOK

LEMMA LeaveKeeps == ASSUME WatchInv, NEW w \in F!Watcher, F!Runs(w), F!Leave(w) PROVE WatchInv'
<1>1. /\ readerF' = [readerF EXCEPT ![w] = "done"]
      /\ watched' = [watched EXCEPT ![w] = {}]
      /\ queue' = [queue EXCEPT ![w] = <<>>]
      /\ told' = told \ {w}
      /\ UNCHANGED <<sub, changes, reported, F!watcherVars, todo, batch, ripe, announced, mainF>>
  BY DEF F!Leave, F!readerVars
<1>2. F!TypeOK /\ w \in watchers
  BY DEF WatchInv, F!ReaderHasWatcher
<1>3. Starting'
  BY <1>1, <1>2 DEF WatchInv, Starting, F!Runs, F!watcherVars, F!TypeOK
<1>4. <<>> \in Seq(F!Event) /\ "done" \in Stage
  BY DEF Stage
<1>5. /\ watched' \in [F!Watcher -> SUBSET F!Dir] /\ queue' \in [F!Watcher -> Seq(F!Event)]
      /\ \A v \in F!Watcher : v # w => watched'[v] = watched[v] /\ queue'[v] = queue[v]
  BY <1>1, <1>2, <1>4 DEF F!TypeOK
<1> QED BY <1>1, <1>2, <1>3, <1>4, <1>5, ReaderStepKeeps DEF F!TypeOK

LEMMA ReadEventsKeeps == ASSUME WatchInv, NEW w \in F!Watcher, F!ReadEvents(w) PROVE WatchInv'
<1>1. /\ readerF[w] = "poll" /\ queue[w] # <<>>
      /\ todo' = [todo EXCEPT ![w] = queue[w]]
      /\ queue' = [queue EXCEPT ![w] = <<>>]
      /\ readerF' = [readerF EXCEPT ![w] = "process"]
      /\ UNCHANGED <<sub, changes, reported, F!watcherVars, watched, batch, ripe, announced, mainF,
                     told>>
  BY DEF F!ReadEvents
<1>2. F!TypeOK /\ w \in watchers
  BY <1>1 DEF WatchInv, F!ReaderHasWatcher, F!Runs
<1>3. Starting'
  BY <1>1, <1>2 DEF WatchInv, Starting, F!watcherVars, F!TypeOK
<1>4. <<>> \in Seq(F!Event) /\ "process" \in Stage
  BY DEF Stage
<1>5. /\ todo' \in [F!Watcher -> Seq(F!Event)] /\ queue' \in [F!Watcher -> Seq(F!Event)]
      /\ todo'[w] = queue[w] /\ queue'[w] = <<>>
      /\ \A v \in F!Watcher : v # w => todo'[v] = todo[v] /\ queue'[v] = queue[v]
  BY <1>1, <1>2, <1>4 DEF F!TypeOK
<1>6. announced[w] \o batch[w] \o F!Changes(todo'[w]) \o F!Changes(queue'[w]) = reported[w]
  <2> DEFINE ab == announced[w] \o batch[w]
             q == F!Changes(queue[w])
  <2>1. ab \in Seq(F!Change) /\ q \in Seq(F!Change)
    BY <1>2, PartsTyped
  <2>2. todo[w] = <<>> /\ ab \o F!Changes(todo[w]) \o q = reported[w]
    BY <1>1 DEF WatchInv, BufferWorkedOff, F!NothingLostOrRepeated, F!Runs
  <2> HIDE DEF ab, q
  <2>3. ab \o <<>> = ab
    BY <2>1, ConcatEmptySeq
  <2>4. ab \o q = reported[w]
    BY <2>2, <2>3, ChangesEmpty
  <2>5. ab \o q \in Seq(F!Change)
    BY <2>1, ConcatProperties
  <2>6. (ab \o q) \o <<>> = ab \o q
    BY <2>5, ConcatEmptySeq
  <2> QED BY <1>5, <2>4, <2>6, ChangesEmpty DEF ab, q
<1> QED BY <1>1, <1>2, <1>3, <1>4, <1>5, <1>6, ReaderStepKeeps DEF F!TypeOK

(***************************************************************************)
(* An event goes from the buffer to the batch.                             *)
(***************************************************************************)
LEMMA PushEventKeeps ==
    ASSUME WatchInv, NEW w \in F!Watcher, readerF[w] \in {"process", "lookup", "tornLookup"},
           F!PushEvent(w), told' \subseteq F!Watcher,
           watched' \in [F!Watcher -> SUBSET F!Dir],
           \A v \in F!Watcher : v # w => watched'[v] = watched[v]
    PROVE  WatchInv'
<1> DEFINE h == Head(todo[w]).change
           stage == IF Len(todo[w]) = 1 THEN "flush" ELSE "process"
<1>1. /\ batch' = [batch EXCEPT ![w] = Append(@, h)]
      /\ todo' = [todo EXCEPT ![w] = Tail(@)]
      /\ readerF' = [readerF EXCEPT ![w] = stage]
      /\ UNCHANGED <<sub, changes, queue, reported, F!watcherVars, ripe, announced, mainF>>
  BY DEF F!PushEvent, F!treeVars
<1>2. F!TypeOK /\ w \in watchers /\ todo[w] # <<>> /\ todo[w] \in Seq(F!Event)
      /\ batch[w] \in Seq(F!Change)
  BY DEF WatchInv, F!ReaderHasWatcher, F!Runs, BufferWorkedOff, F!TypeOK
<1>3. Starting'
  BY <1>1, <1>2 DEF WatchInv, Starting, F!watcherVars, F!TypeOK
<1>4. Head(todo[w]) \in F!Event /\ Tail(todo[w]) \in Seq(F!Event)
  BY <1>2
<1>5. h \in F!Change
  BY <1>4 DEF F!Event
<1>6. stage \in Stage
  BY DEF Stage
<1>7. /\ Len(todo[w]) \in Nat /\ Len(Tail(todo[w])) = Len(todo[w]) - 1
  BY <1>2
<1>8. /\ stage \in {"process", "lookup", "tornLookup"} => Tail(todo[w]) # <<>>
      /\ stage \in {"start", "tornStart", "poll", "flush"} => Tail(todo[w]) = <<>>
  <2>1. Tail(todo[w]) = <<>> <=> Len(Tail(todo[w])) = 0
    BY <1>4, EmptySeq
  <2> QED BY <1>7, <2>1
<1>9. Append(batch[w], h) \in Seq(F!Change)
  BY <1>2, <1>5, AppendProperties
<1>10. /\ batch' \in [F!Watcher -> Seq(F!Change)] /\ todo' \in [F!Watcher -> Seq(F!Event)]
       /\ batch'[w] = Append(batch[w], h) /\ todo'[w] = Tail(todo[w])
       /\ \A v \in F!Watcher : v # w => batch'[v] = batch[v] /\ todo'[v] = todo[v]
  BY <1>1, <1>2, <1>4, <1>9 DEF F!TypeOK
<1>11. announced[w] \o batch'[w] \o F!Changes(todo'[w]) \o F!Changes(queue[w]) = reported[w]
  <2> DEFINE c == F!Changes(todo[w])
             ab == announced[w] \o batch[w]
  <2>1. ab \o c \o F!Changes(queue[w]) = reported[w]
    BY DEF WatchInv, F!NothingLostOrRepeated, F!Runs
  <2>2. ab \in Seq(F!Change) /\ c \in Seq(F!Change) /\ announced[w] \in Seq(F!Change)
    BY <1>2, PartsTyped
  <2>3. c # <<>> /\ Head(c) = h /\ Tail(c) = F!Changes(Tail(todo[w]))
    BY <1>2, ChangesTail
  <2> HIDE DEF c, h
  <2>4. announced[w] \o Append(batch[w], h) = Append(announced[w] \o batch[w], h)
    <3> DEFINE a == announced[w]
               b == batch[w]
    <3>1. a \in Seq(F!Change) /\ b \in Seq(F!Change) /\ h \in F!Change
      BY <1>2, <1>5, <2>2
    <3> HIDE DEF a, b, ab
    <3>2. a \o Append(b, h) = Append(a \o b, h)
      BY <3>1, ConcatAppend
    <3> QED BY <3>2 DEF a, b
  <2> HIDE DEF ab
  <2>6. announced[w] \o Append(batch[w], h) = Append(ab, h)
    BY <2>4 DEF ab
  <2>5. Append(ab, Head(c)) \o Tail(c) = ab \o c
    BY <2>2, <2>3, ConcatMove
  <2> QED BY <1>10, <2>1, <2>3, <2>6, <2>5
<1> HIDE DEF h, stage
<1> QED BY <1>1, <1>2, <1>3, <1>6, <1>8, <1>10, <1>11, ReaderStepKeeps DEF F!TypeOK

(***************************************************************************)
(* A flush announces the batch, once.                                      *)
(***************************************************************************)
LEMMA FlushKeeps == ASSUME WatchInv, NEW w \in F!Watcher, F!FlushEvents(w) PROVE WatchInv'
<1>1. /\ readerF[w] = "flush"
      /\ readerF' = [readerF EXCEPT ![w] = "poll"]
      /\ ripe' = IF F!FlushIsDue(w) THEN [ripe EXCEPT ![w] = FALSE] ELSE ripe
      /\ \/ /\ announced' = [announced EXCEPT ![w] = @ \o batch[w]]
            /\ batch' = [batch EXCEPT ![w] = <<>>]
         \/ UNCHANGED <<announced, batch>>
      /\ UNCHANGED <<sub, changes, queue, reported, F!watcherVars, watched, todo, mainF, told>>
  BY DEF F!FlushEvents, F!treeVars
<1>2. F!TypeOK /\ w \in watchers /\ todo[w] = <<>>
  BY <1>1 DEF WatchInv, F!ReaderHasWatcher, F!Runs, BufferWorkedOff
<1>3. Starting'
  BY <1>1, <1>2 DEF WatchInv, Starting, F!watcherVars, F!TypeOK
<1>4. ripe' \in [F!Watcher -> BOOLEAN] /\ "poll" \in Stage
  BY <1>1, <1>2 DEF F!TypeOK, Stage
<1>5. announced[w] \o batch[w] \o F!Changes(todo[w]) \o F!Changes(queue[w]) = reported[w]
  BY <1>1 DEF WatchInv, F!NothingLostOrRepeated, F!Runs
<1>6. announced[w] \o batch[w] \in Seq(F!Change) /\ <<>> \in Seq(F!Change)
  BY <1>2, PartsTyped
<1>7. CASE /\ announced' = [announced EXCEPT ![w] = @ \o batch[w]]
           /\ batch' = [batch EXCEPT ![w] = <<>>]
  <2>1. /\ announced' \in [F!Watcher -> Seq(F!Change)] /\ batch' \in [F!Watcher -> Seq(F!Change)]
        /\ announced'[w] = announced[w] \o batch[w] /\ batch'[w] = <<>>
        /\ \A v \in F!Watcher : v # w => announced'[v] = announced[v] /\ batch'[v] = batch[v]
    BY <1>2, <1>6, <1>7 DEF F!TypeOK
  <2>2. announced'[w] \o batch'[w] = announced[w] \o batch[w]
    BY <1>6, <2>1, ConcatEmptySeq
  <2>3. announced'[w] \o batch'[w] \o F!Changes(todo[w]) \o F!Changes(queue[w]) = reported[w]
    BY <1>5, <2>2
  <2> QED BY <1>1, <1>2, <1>3, <1>4, <2>1, <2>3, ReaderStepKeeps DEF F!TypeOK
<1>8. CASE UNCHANGED <<announced, batch>>
  BY <1>1, <1>2, <1>3, <1>4, <1>5, <1>8, ReaderStepKeeps DEF F!TypeOK
<1> QED BY <1>1, <1>7, <1>8

LEMMA ReaderKeeps == ASSUME WatchInv, NEW w \in F!Watcher, F!Reader(w) PROVE WatchInv'
<1>0. F!TypeOK /\ F!Runs(w)
  BY DEF WatchInv, F!Reader, F!Runs
<1>1. CASE F!GetSelf(w)
  <2>1. /\ readerF[w] \in {"start", "tornStart"} /\ readerF' = [readerF EXCEPT ![w] = "poll"]
        /\ UNCHANGED <<F!treeVars, F!watcherVars, watched, F!readerVars, mainF, told>>
    BY <1>1 DEF F!GetSelf
  <2>2. todo[w] = <<>> /\ "poll" \in Stage
    BY <2>1 DEF WatchInv, BufferWorkedOff, Stage
  <2> QED BY <1>0, <2>1, <2>2, MovesOn
<1>2. CASE F!GetSelfTorn(w) \/ F!StopReader(w)
  BY <1>0, <1>2, LeaveKeeps DEF F!GetSelfTorn, F!StopReader
<1>3. CASE F!ReadEvents(w)
  BY <1>3, ReadEventsKeeps
<1>4. CASE F!ProcessEvent(w)
  <2>0. readerF[w] = "process" /\ UNCHANGED <<watched, told>>
    BY <1>4 DEF F!ProcessEvent
  <2>1. CASE Head(todo[w]).mkdir
    <3>1. /\ readerF' = [readerF EXCEPT ![w] = "lookup"]
          /\ UNCHANGED <<F!treeVars, F!watcherVars, F!readerVars, mainF>>
      BY <1>4, <2>1 DEF F!ProcessEvent
    <3>2. todo[w] # <<>> /\ "lookup" \in Stage
      BY <2>0 DEF WatchInv, BufferWorkedOff, Stage
    <3> QED BY <1>0, <2>0, <3>1, <3>2, MovesOn
  <2>2. CASE ~Head(todo[w]).mkdir
    <3>1. F!PushEvent(w)
      BY <1>4, <2>2 DEF F!ProcessEvent
    <3> QED BY <1>0, <2>0, <3>1, PushEventKeeps DEF F!TypeOK
  <2> QED BY <2>1, <2>2
<1>5. CASE F!WatchNewDir(w)
  <2>1. /\ readerF[w] \in {"lookup", "tornLookup"} /\ F!PushEvent(w) /\ told' = told
        /\ watched' = [watched EXCEPT ![w] = IF recursive[w] /\ sub THEN @ \cup {"sub"} ELSE @]
    BY <1>5 DEF F!WatchNewDir
  <2>2. /\ watched' \in [F!Watcher -> SUBSET F!Dir]
        /\ \A v \in F!Watcher : v # w => watched'[v] = watched[v]
    BY <1>0, <2>1 DEF F!TypeOK, F!Dir
  <2> QED BY <1>0, <2>1, <2>2, PushEventKeeps DEF F!TypeOK
<1>6. CASE F!WatchNewDirTorn(w)
  <2>1. /\ readerF[w] = "tornLookup" /\ F!PushEvent(w) /\ told' = told \ {w}
        /\ watched' = watched
    BY <1>6 DEF F!WatchNewDirTorn
  <2> QED BY <1>0, <2>1, PushEventKeeps DEF F!TypeOK
<1>7. CASE F!FlushEvents(w)
  BY <1>7, FlushKeeps
<1> QED BY <1>1, <1>2, <1>3, <1>4, <1>5, <1>6, <1>7 DEF F!Reader

LEMMA IdleStepKeeps ==
    ASSUME WatchInv, UNCHANGED F!vars \/ \E w \in F!Watcher : F!Ripen(w) PROVE WatchInv'
<1>1. /\ ripe' = ripe \/ \E w \in F!Watcher : ripe' = [ripe EXCEPT ![w] = TRUE]
      /\ UNCHANGED <<sub, changes, queue, reported, watchers, recursive, stop, watched, todo,
                     batch, announced, readerF, mainF, told>>
  BY DEF F!Ripen, F!vars, F!treeVars, F!watcherVars, F!readerVars
<1>2. ripe' \in [F!Watcher -> BOOLEAN]
  BY <1>1 DEF WatchInv, F!TypeOK
<1>3. F!TypeOK'
  BY <1>1, <1>2 DEF WatchInv, F!TypeOK
<1> QED BY <1>1, <1>3 DEF WatchInv, F!ReaderHasWatcher, F!Runs, Starting, BusyFor, BufferWorkedOff,
                          NothingBeforeStart, F!NothingLostOrRepeated

LEMMA StepKeeps == ASSUME MaxChanges \in Nat, WatchInv, [F!Next]_(F!vars) PROVE WatchInv'
<1>1. CASE \/ \E d \in F!Dir : F!TouchFile(d)
           \/ F!MakeSub \/ F!MoveSubIn \/ F!RemoveSub
  BY <1>1, TreeKeeps
<1>2. CASE \/ \E w \in F!Watcher, rec \in BOOLEAN : F!Watch(w, rec)
           \/ F!WalkDirs \/ F!StartFails \/ F!Joined
           \/ \E w \in F!Watcher : F!Unwatch(w)
  BY <1>2, MainStepKeeps
<1>3. CASE F!AddWatches
  BY <1>3, AddWatchesKeeps
<1>4. ASSUME NEW w \in F!Watcher, F!Reader(w) PROVE WatchInv'
  BY <1>4, ReaderKeeps
<1>5. CASE UNCHANGED F!vars \/ \E w \in F!Watcher : F!Ripen(w)
  BY <1>5, IdleStepKeeps
<1> QED BY <1>1, <1>2, <1>3, <1>4, <1>5 DEF F!Next

LEMMA AlwaysIInv == ASSUME MaxChanges \in Nat PROVE F!Spec => []WatchInv
<1>1. F!Init => WatchInv
  BY InitIInv
<1>2. WatchInv /\ [F!Next]_(F!vars) => WatchInv'
  BY StepKeeps
<1> QED BY <1>1, <1>2, PTL DEF F!Spec

-----------------------------------------------------------------------------
(***************************************************************************)
(* The variables of the watchers keep to their types.                      *)
(***************************************************************************)
THEOREM WatchTypeCorrect == ASSUME MaxChanges \in Nat PROVE F!Spec => []F!TypeOK
<1>1. WatchInv => F!TypeOK
  BY DEF WatchInv
<1> QED BY <1>1, AlwaysIInv, PTL

(***************************************************************************)
(* The Watcher a reader works with is in the map for as long as the reader *)
(* runs: fs.unwatch and a failed start take it out after the thread is     *)
(* over, or before there is one.                                           *)
(***************************************************************************)
THEOREM ReadersKeepTheirWatcher ==
    ASSUME MaxChanges \in Nat PROVE F!Spec => []ReaderHasWatcher
<1>1. WatchInv => ReaderHasWatcher
  BY DEF WatchInv, ReaderHasWatcher
<1> QED BY <1>1, AlwaysIInv, PTL

(***************************************************************************)
(* While a reader runs, the changes announced, gathered, read and waiting  *)
(* in the kernel are, in this order, the changes reported: no batch loses, *)
(* repeats or reorders one.                                                *)
(***************************************************************************)
THEOREM ChangesNeverLost ==
    ASSUME MaxChanges \in Nat PROVE F!Spec => []NothingLostOrRepeated
<1>1. WatchInv => NothingLostOrRepeated
  BY DEF WatchInv, NothingLostOrRepeated
<1> QED BY <1>1, AlwaysIInv, PTL

-----------------------------------------------------------------------------
(***************************************************************************)
(* FsHandles.                                                              *)
(***************************************************************************)
FileBounds == MaxFiles \in Nat \ {0} /\ MaxLength \in Nat

NodeOf == [kind : {"file", "dir", "link", "free"}, data : Seq(Nat),
           to : Paths \cup {"none"}, may : BOOLEAN]

NodesTyped(f) ==
    /\ f \in [H!Node -> NodeOf]
    /\ \A n \in H!Node : f[n].kind = "link" => f[n].to \in Paths

HandleOf == [node : H!Node, path : Paths, in : BOOLEAN, out : BOOLEAN, app : BOOLEAN,
             pos : Nat, held : Seq(Nat), ahead : Seq(Nat), failed : BOOLEAN]

(***************************************************************************)
(* A name stands for a file or for none, a link for a name.                *)
(***************************************************************************)
FilesTyped ==
    /\ NodesTyped(node)
    /\ names \in [Paths -> 0 .. MaxFiles]

(***************************************************************************)
(* A handle is a stream of the file that was opened, whatever became of    *)
(* its name, and stands where the program's next byte is, as long as it    *)
(* has not failed; what it holds lies before that place.                   *)
(***************************************************************************)
HandlesFollow ==
    /\ g_nextId \in Nat \ {0}
    /\ opened \in Seq(H!Node) /\ Len(opened) = g_nextId - 1
    /\ cursor \in Seq(Nat) /\ Len(cursor) = g_nextId - 1
    /\ g_handles \in [DOMAIN g_handles -> HandleOf]
    /\ DOMAIN g_handles \subseteq 1 .. g_nextId - 1
    /\ \A id \in DOMAIN g_handles :
          /\ g_handles[id].node = opened[id]
          /\ Len(g_handles[id].held) <= g_handles[id].pos
          /\ ~g_handles[id].failed => g_handles[id].pos = cursor[id]

FsInv == FilesTyped /\ HandlesFollow /\ H!ReadsFollow

-----------------------------------------------------------------------------
(***************************************************************************)
(* Sequences: what is read after what was read ahead, and a file with      *)
(* bytes written into it.                                                  *)
(***************************************************************************)
LEMMA PartOf ==
    ASSUME NEW s \in Seq(Nat), NEW a \in Nat, NEW b \in Nat, a <= b, b <= Len(s)
    PROVE  /\ SubSeq(s, a + 1, b) \in Seq(Nat) /\ Len(SubSeq(s, a + 1, b)) = b - a
           /\ \A i \in 1 .. b - a : SubSeq(s, a + 1, b)[i] = s[a + i]
<1>1. \A i \in a + 1 .. b : s[i] \in Nat
  OBVIOUS
<1>2. /\ SubSeq(s, a + 1, b) \in Seq(Nat)
      /\ Len(SubSeq(s, a + 1, b)) = IF a + 1 <= b THEN b - (a + 1) + 1 ELSE 0
      /\ \A i \in 1 .. b - (a + 1) + 1 : SubSeq(s, a + 1, b)[i] = s[a + 1 + i - 1]
  BY <1>1, SubSeqProperties
<1>3. b - (a + 1) + 1 = b - a /\ \A i \in Nat : a + 1 + i - 1 = a + i
  OBVIOUS
<1> QED BY <1>2, <1>3

LEMMA SameSeq ==
    ASSUME NEW s \in Seq(Nat), NEW t \in Seq(Nat), Len(s) = Len(t),
           \A i \in 1 .. Len(s) : s[i] = t[i]
    PROVE  s = t
BY SeqEqual

LEMMA PrefixOfPart ==
    ASSUME NEW s \in Seq(Nat), NEW a \in Nat, NEW b \in Nat, a <= b, b <= Len(s),
           NEW m \in Nat, m <= b - a
    PROVE  SubSeq(SubSeq(s, a + 1, b), 1, m) = SubSeq(s, a + 1, a + m)
<1> DEFINE part == SubSeq(s, a + 1, b)
           got == SubSeq(part, 0 + 1, m)
           wanted == SubSeq(s, a + 1, a + m)
<1>1. part \in Seq(Nat) /\ Len(part) = b - a /\ \A i \in 1 .. b - a : part[i] = s[a + i]
  BY PartOf
<1>2. wanted \in Seq(Nat) /\ Len(wanted) = m /\ \A i \in 1 .. m : wanted[i] = s[a + i]
  <2>1. a + m \in Nat /\ a <= a + m /\ a + m <= Len(s) /\ a + m - a = m
    OBVIOUS
  <2> QED BY <2>1, PartOf
<1> HIDE DEF part
<1>3. got \in Seq(Nat) /\ Len(got) = m /\ \A i \in 1 .. m : got[i] = part[i]
  <2>1. 0 <= m /\ m <= Len(part) /\ m - 0 = m
    BY <1>1
  <2>2. /\ got \in Seq(Nat) /\ Len(got) = m - 0
        /\ \A i \in 1 .. m - 0 : got[i] = part[0 + i]
    BY <1>1, <2>1, PartOf
  <2> QED BY <2>1, <2>2
<1> HIDE DEF got, wanted
<1>4. Len(got) = Len(wanted) /\ \A i \in 1 .. Len(got) : got[i] = wanted[i]
  <2>1. \A i \in 1 .. m : i \in 1 .. b - a
    OBVIOUS
  <2> QED BY <1>1, <1>2, <1>3, <2>1
<1>5. got = wanted
  BY <1>2, <1>3, <1>4, SameSeq
<1> QED BY <1>5 DEF part, got, wanted

LEMMA PartsJoin ==
    ASSUME NEW s \in Seq(Nat), NEW a \in Nat, NEW b \in Nat, a <= b, b <= Len(s)
    PROVE  SubSeq(s, a + 1, b) \o SubSeq(s, b + 1, Len(s)) = SubSeq(s, a + 1, Len(s))
<1> DEFINE left == SubSeq(s, a + 1, b)
           right == SubSeq(s, b + 1, Len(s))
           whole == SubSeq(s, a + 1, Len(s))
<1>1. Len(s) \in Nat /\ a <= Len(s)
  OBVIOUS
<1>2. left \in Seq(Nat) /\ Len(left) = b - a /\ \A i \in 1 .. b - a : left[i] = s[a + i]
  BY PartOf
<1>3. /\ right \in Seq(Nat) /\ Len(right) = Len(s) - b
      /\ \A i \in 1 .. Len(s) - b : right[i] = s[b + i]
  BY <1>1, PartOf
<1>4. /\ whole \in Seq(Nat) /\ Len(whole) = Len(s) - a
      /\ \A i \in 1 .. Len(s) - a : whole[i] = s[a + i]
  BY <1>1, PartOf
<1> HIDE DEF left, right, whole
<1>5. /\ left \o right \in Seq(Nat) /\ Len(left \o right) = Len(left) + Len(right)
      /\ \A i \in 1 .. Len(left) + Len(right) :
             (left \o right)[i] = IF i <= Len(left) THEN left[i] ELSE right[i - Len(left)]
  BY <1>2, <1>3, ConcatProperties
<1>6. Len(left) + Len(right) = Len(s) - a
  BY <1>1, <1>2, <1>3
<1>7. ASSUME NEW i \in 1 .. Len(s) - a PROVE (left \o right)[i] = whole[i]
  <2>1. whole[i] = s[a + i]
    BY <1>4
  <2>2. CASE i <= Len(left)
    <3>1. i \in 1 .. b - a
      BY <1>1, <1>2, <2>2
    <3> QED BY <1>2, <1>5, <1>6, <2>1, <2>2, <3>1
  <2>3. CASE ~(i <= Len(left))
    <3>1. i - (b - a) \in 1 .. Len(s) - b /\ b + (i - (b - a)) = a + i
      BY <1>1, <1>2, <2>3
    <3>2. (left \o right)[i] = right[i - (b - a)]
      BY <1>2, <1>5, <1>6, <2>3
    <3> QED BY <1>3, <2>1, <3>1, <3>2
  <2> QED BY <2>2, <2>3
<1>8. left \o right = whole
  BY <1>4, <1>5, <1>6, <1>7, SameSeq
<1> QED BY <1>8 DEF left, right, whole

LEMMA LeastProperties ==
    ASSUME NEW a \in Nat, NEW b \in Nat, NEW c \in Nat
    PROVE  /\ a <= b => H!LeastOf(a, b) = a
           /\ H!LeastOf(a, b) \in Nat /\ H!LeastOf(a, b) <= b /\ H!LeastOf(a, b) <= a
           /\ H!LeastOf(c + a, c + b) = c + H!LeastOf(a, b)
BY DEF H!LeastOf

\* What is read, when what was read ahead, up to end, is still in the file.
LEMMA ReadOfPart ==
    ASSUME NEW file \in Seq(Nat), NEW pos \in Nat, NEW end \in Nat, NEW length \in Nat,
           pos <= end, end <= Len(file), length <= end - pos \/ end = Len(file)
    PROVE  SubSeq(SubSeq(file, pos + 1, end), 1, H!LeastOf(length, end - pos))
               = SubSeq(file, pos + 1, H!LeastOf(pos + length, Len(file)))
<1> DEFINE m == H!LeastOf(length, end - pos)
<1>1. end - pos \in Nat /\ pos + (end - pos) = end /\ Len(file) \in Nat
  OBVIOUS
<1>2. m \in Nat /\ m <= end - pos
  BY <1>1, LeastProperties
<1>3. H!LeastOf(pos + length, Len(file)) = pos + m
  <2>1. CASE length <= end - pos
    <3>1. m = length
      BY <1>1, <2>1, LeastProperties
    <3>2. pos + length \in Nat /\ pos + length <= Len(file)
      BY <2>1
    <3>3. H!LeastOf(pos + length, Len(file)) = pos + length
      BY <1>1, <3>2, LeastProperties
    <3> QED BY <3>1, <3>3
  <2>2. CASE end = Len(file)
    <3>1. H!LeastOf(pos + length, pos + (end - pos)) = pos + m
      BY <1>1, LeastProperties
    <3> QED BY <1>1, <2>2, <3>1
  <2> QED BY <2>1, <2>2
<1> HIDE DEF m
<1>4. SubSeq(SubSeq(file, pos + 1, end), 1, m) = SubSeq(file, pos + 1, pos + m)
  BY <1>2, PrefixOfPart
<1> QED BY <1>3, <1>4 DEF m

\* The bytes a stream has when it is asked for length of them.
There(file, ahead, pos, length) ==
    IF length <= Len(ahead) THEN ahead
    ELSE ahead \o SubSeq(file, pos + Len(ahead) + 1, Len(file))

LEMMA ReadGives ==
    ASSUME NEW file \in Seq(Nat), NEW ahead \in Seq(Nat), NEW pos \in Nat, NEW length \in Nat
    PROVE  ~(pos + Len(ahead) > Len(file)) /\ ahead = SubSeq(file, pos + 1, pos + Len(ahead))
           => SubSeq(There(file, ahead, pos, length), 1,
                     H!LeastOf(length, Len(There(file, ahead, pos, length))))
                  = SubSeq(file, pos + 1, H!LeastOf(pos + length, Len(file)))
<1>1. ASSUME NEW end \in Nat, pos <= end, end <= Len(file), length <= end - pos
      PROVE  SubSeq(SubSeq(file, pos + 1, end), 1,
                    H!LeastOf(length, Len(SubSeq(file, pos + 1, end))))
                 = SubSeq(file, pos + 1, H!LeastOf(pos + length, Len(file)))
  <2>1. Len(SubSeq(file, pos + 1, end)) = end - pos
    BY <1>1, PartOf
  <2>2. SubSeq(SubSeq(file, pos + 1, end), 1, H!LeastOf(length, end - pos))
            = SubSeq(file, pos + 1, H!LeastOf(pos + length, Len(file)))
    BY <1>1, ReadOfPart
  <2> QED BY <2>1, <2>2
<1>2. ASSUME pos <= Len(file)
      PROVE  SubSeq(SubSeq(file, pos + 1, Len(file)), 1,
                    H!LeastOf(length, Len(SubSeq(file, pos + 1, Len(file)))))
                 = SubSeq(file, pos + 1, H!LeastOf(pos + length, Len(file)))
  <2>1. Len(file) \in Nat /\ Len(file) <= Len(file)
    OBVIOUS
  <2>2. Len(SubSeq(file, pos + 1, Len(file))) = Len(file) - pos
    BY <1>2, <2>1, PartOf
  <2>3. SubSeq(SubSeq(file, pos + 1, Len(file)), 1, H!LeastOf(length, Len(file) - pos))
            = SubSeq(file, pos + 1, H!LeastOf(pos + length, Len(file)))
    BY <1>2, <2>1, ReadOfPart
  <2> QED BY <2>2, <2>3
<1>3. ASSUME NEW end \in Nat, pos <= end, end <= Len(file)
      PROVE  SubSeq(file, pos + 1, end) \o SubSeq(file, end + 1, Len(file))
                 = SubSeq(file, pos + 1, Len(file))
  BY <1>3, PartsJoin
<1> SUFFICES ASSUME ~(pos + Len(ahead) > Len(file)),
                    ahead = SubSeq(file, pos + 1, pos + Len(ahead))
             PROVE  SubSeq(There(file, ahead, pos, length), 1,
                           H!LeastOf(length, Len(There(file, ahead, pos, length))))
                        = SubSeq(file, pos + 1, H!LeastOf(pos + length, Len(file)))
  OBVIOUS
<1>4. PICK end \in Nat : end = pos + Len(ahead)
  OBVIOUS
<1>5. /\ pos <= end /\ end <= Len(file) /\ pos <= Len(file) /\ Len(ahead) = end - pos
      /\ ahead = SubSeq(file, pos + 1, end)
  BY <1>4
<1>6. CASE length <= Len(ahead)
  <2>1. There(file, ahead, pos, length) = SubSeq(file, pos + 1, end)
    BY <1>5, <1>6 DEF There
  <2>2. length <= end - pos
    BY <1>5, <1>6
  <2> QED BY <1>1, <1>5, <2>1, <2>2
<1>7. CASE ~(length <= Len(ahead))
  <2>1. There(file, ahead, pos, length) =
            SubSeq(file, pos + 1, end) \o SubSeq(file, end + 1, Len(file))
    BY <1>4, <1>5, <1>7 DEF There
  <2>2. There(file, ahead, pos, length) = SubSeq(file, pos + 1, Len(file))
    BY <1>3, <1>5, <2>1
  <2> QED BY <1>2, <1>5, <2>2
<1> QED BY <1>6, <1>7

LEMMA OverTyped ==
    ASSUME NEW data \in Seq(Nat), NEW pos \in Nat, NEW more \in Seq(Nat)
    PROVE  H!Over(data, pos, more) \in Seq(Nat)
<1> DEFINE length == IF pos + Len(more) > Len(data) THEN pos + Len(more) ELSE Len(data)
<1>1. length \in Nat
  OBVIOUS
<1> HIDE DEF length
<1>2. [k \in 1 .. length |-> IF k > pos /\ k <= pos + Len(more) THEN more[k - pos]
                             ELSE IF k <= Len(data) THEN data[k] ELSE 0] \in Seq(Nat)
  <2>1. ASSUME NEW k \in 1 .. length
        PROVE  (IF k > pos /\ k <= pos + Len(more) THEN more[k - pos]
                ELSE IF k <= Len(data) THEN data[k] ELSE 0) \in Nat
    <3>1. CASE k > pos /\ k <= pos + Len(more)
      <4>1. k - pos \in 1 .. Len(more)
        BY <1>1, <3>1
      <4> QED BY <3>1, <4>1
    <3>2. CASE ~(k > pos /\ k <= pos + Len(more))
      BY <1>1, <3>2
    <3> QED BY <3>1, <3>2
  <2> QED BY <1>1, <2>1
<1> QED BY <1>2 DEF H!Over, length

-----------------------------------------------------------------------------
(***************************************************************************)
(* Files and names.                                                        *)
(***************************************************************************)
LEMMA DataChanged ==
    ASSUME NEW f, NodesTyped(f), NEW n \in H!Node, NEW bytes \in Seq(Nat)
    PROVE  NodesTyped([f EXCEPT ![n].data = bytes])
<1> DEFINE made == [f[n] EXCEPT !.data = bytes]
<1>1. f \in [H!Node -> NodeOf] /\ f[n] \in NodeOf
  BY DEF NodesTyped
<1>2. made \in NodeOf /\ made.kind = f[n].kind /\ made.to = f[n].to
  BY <1>1 DEF NodeOf
<1>3. [f EXCEPT ![n].data = bytes] = [f EXCEPT ![n] = made]
  OBVIOUS
<1> HIDE DEF made
<1>4. NodesTyped([f EXCEPT ![n] = made])
  BY <1>1, <1>2 DEF NodesTyped
<1> QED BY <1>3, <1>4

LEMMA NodeChanged ==
    ASSUME NEW f, NodesTyped(f), NEW n \in H!Node, NEW made \in NodeOf,
           made.kind = "link" => made.to \in Paths
    PROVE  NodesTyped([f EXCEPT ![n] = made])
BY DEF NodesTyped

LEMMA PathsLead ==
    ASSUME FileBounds, FilesTyped, NEW p \in Paths
    PROVE  /\ H!Target(p) \in Paths /\ H!Follow(p) \in 0 .. MaxFiles
           /\ H!Follow(p) # 0 => H!Follow(p) \in H!Node
           /\ H!CanMake => H!FreeNode \in H!Node
<1>1. node \in [H!Node -> NodeOf] /\ names \in [Paths -> 0 .. MaxFiles]
  BY DEF FilesTyped, NodesTyped
<1>2. \A n \in 0 .. MaxFiles : n # 0 => n \in H!Node
  BY DEF FileBounds, H!Node
<1>3. H!Target(p) \in Paths
  BY <1>1, <1>2 DEF H!Target, FilesTyped, NodesTyped
<1>4. H!Follow(p) \in 0 .. MaxFiles
  BY <1>1, <1>3 DEF H!Follow, FileBounds
<1>5. H!CanMake => H!FreeNode \in H!Node
  BY DEF H!CanMake, H!FreeNode
<1> QED BY <1>2, <1>3, <1>4, <1>5

LEMMA MadeTyped ==
    ASSUME NEW sort \in {"file", "dir", "free"}, NEW bytes \in Seq(Nat)
    PROVE  H!Make(sort, bytes, "none") \in NodeOf /\ H!Make(sort, bytes, "none").kind # "link"
BY DEF H!Make, NodeOf

LEMMA CreatedTyped ==
    ASSUME FileBounds, FilesTyped, NEW p \in Paths, H!CanMake, NEW made \in NodeOf,
           made.kind = "link" => made.to \in Paths, H!Created(p, made)
    PROVE  FilesTyped'
<1>1. H!FreeNode \in H!Node /\ H!FreeNode \in 0 .. MaxFiles
  BY PathsLead DEF H!Node, FileBounds
<1>2. names' \in [Paths -> 0 .. MaxFiles]
  BY <1>1 DEF H!Created, FilesTyped
<1>3. NodesTyped([node EXCEPT ![H!FreeNode] = made])
  BY <1>1, NodeChanged DEF FilesTyped
<1>4. NodesTyped(node')
  BY <1>3 DEF H!Created
<1> QED BY <1>2, <1>4 DEF FilesTyped, NodesTyped

LEMMA WrittenTyped ==
    ASSUME FileBounds, FilesTyped, NEW p \in Paths, NEW bytes \in Seq(Nat),
           names[H!Target(p)] = 0 => H!CanMake, H!CanWrite(p), H!Written(p, bytes)
    PROVE  FilesTyped'
<1> DEFINE n == IF names[H!Target(p)] = 0 THEN H!FreeNode ELSE H!Follow(p)
<1>1. /\ names' = [names EXCEPT ![H!Target(p)] = n]
      /\ node' = [node EXCEPT ![n] = IF names[H!Target(p)] = 0 THEN H!File(bytes)
                                     ELSE [@ EXCEPT !.data = bytes]]
  BY DEF H!Written
<1>2. n \in H!Node
  BY PathsLead DEF H!CanWrite, H!IsFile, H!IsA
<1>3. n \in 0 .. MaxFiles
  BY <1>2 DEF H!Node, FileBounds
<1> HIDE DEF n
<1>4. names' \in [Paths -> 0 .. MaxFiles]
  BY <1>1, <1>3 DEF FilesTyped
<1>5. CASE names[H!Target(p)] = 0
  <2>1. H!File(bytes) \in NodeOf /\ H!File(bytes).kind # "link"
    BY MadeTyped DEF H!File
  <2>2. NodesTyped([node EXCEPT ![n] = H!File(bytes)])
    BY <1>2, <2>1, NodeChanged DEF FilesTyped
  <2>3. NodesTyped(node')
    BY <1>1, <1>5, <2>2
  <2> QED BY <1>4, <2>3 DEF FilesTyped, NodesTyped
<1>6. CASE names[H!Target(p)] # 0
  <2>1. NodesTyped([node EXCEPT ![n].data = bytes])
    BY <1>2, DataChanged DEF FilesTyped
  <2>2. node' = [node EXCEPT ![n].data = bytes]
    BY <1>1, <1>6
  <2>3. NodesTyped(node')
    BY <2>1, <2>2
  <2> QED BY <1>4, <2>3 DEF FilesTyped, NodesTyped
<1> QED BY <1>5, <1>6

\* Data that is read from a node is a sequence of bytes.
LEMMA DataTyped ==
    ASSUME FilesTyped, NEW n \in H!Node PROVE node[n].data \in Seq(Nat)
BY DEF FilesTyped, NodesTyped, NodeOf

\* What changes names and files, and no handle, answers no read.
PathStep == UNCHANGED H!handleVars /\ (answer' = answer \/ "expected" \notin DOMAIN answer')

LEMMA PathsAsked ==
    ASSUME NEW p \in Paths, H!Ask(p) \/ H!readFileSize(p) \/ H!readFileBytes
    PROVE  UNCHANGED <<names, node>> /\ PathStep
<1>1. H!Done = [ok |-> TRUE] /\ H!Refused = [ok |-> FALSE]
  BY DEF H!Done, H!Refused
<1>2. "expected" \notin DOMAIN H!Done /\ "expected" \notin DOMAIN H!Refused
  BY <1>1
<1>3. CASE H!Ask(p)
  <2>1. "expected" \notin DOMAIN H!exists(p)
    BY DEF H!exists
  <2>2. "expected" \notin DOMAIN H!stat(p)
    BY <1>2 DEF H!stat
  <2>3. "expected" \notin DOMAIN H!lstat(p)
    BY <1>2 DEF H!lstat
  <2>4. "expected" \notin DOMAIN H!readlink(p)
    BY <1>2 DEF H!readlink
  <2>5. "expected" \notin DOMAIN H!realpath(p)
    BY <1>2 DEF H!realpath
  <2>6. "expected" \notin DOMAIN H!access(p)
    BY DEF H!access
  <2>7. "expected" \notin DOMAIN H!readText(p)
    BY <1>2 DEF H!readText
  <2>8. "expected" \notin DOMAIN H!readDir(p)
    BY <1>2 DEF H!readDir
  <2> QED BY <1>3, <2>1, <2>2, <2>3, <2>4, <2>5, <2>6, <2>7, <2>8 DEF H!Ask, PathStep
<1>4. CASE H!readFileSize(p)
  BY <1>2, <1>4 DEF H!readFileSize, PathStep
<1>5. CASE H!readFileBytes
  <2>1. answer' = H!Refused \/ "expected" \notin DOMAIN answer'
    BY <1>5 DEF H!readFileBytes
  <2> QED BY <1>2, <1>5, <2>1 DEF H!readFileBytes, PathStep
<1> QED BY <1>3, <1>4, <1>5

LEMMA Answers == "expected" \notin DOMAIN H!Done /\ "expected" \notin DOMAIN H!Refused
<1>1. H!Done = [ok |-> TRUE] /\ H!Refused = [ok |-> FALSE]
  BY DEF H!Done, H!Refused
<1> QED BY <1>1

LEMMA PathsChanged ==
    ASSUME FileBounds, FilesTyped, NEW p \in Paths, NEW q \in Paths,
           NEW bytes \in Seq(Nat), NEW b \in BOOLEAN, NEW length \in Nat,
           \/ H!writeFile(p, bytes) \/ H!mkdir(p) \/ H!symlink(q, p) \/ H!remove(p)
           \/ H!copy(q, p, b) \/ H!rename(q, p) \/ H!chmod(p, b) \/ H!truncate(p, length)
           \/ H!Other(p, bytes)
    PROVE  FilesTyped' /\ PathStep
<1>1. CASE H!writeFile(p, bytes)
  <2>1. PathStep
    BY <1>1, Answers DEF H!writeFile, PathStep
  <2>2. CASE H!CanWrite(p)
    <3>1. H!Written(p, bytes) /\ (names[H!Target(p)] = 0 => H!CanMake)
      BY <1>1, <2>2 DEF H!writeFile
    <3>2. FilesTyped'
      BY <2>2, <3>1, WrittenTyped
    <3> QED BY <2>1, <3>2
  <2>3. CASE ~H!CanWrite(p)
    BY <1>1, <2>1, <2>3 DEF H!writeFile, FilesTyped, NodesTyped
  <2> QED BY <2>2, <2>3
<1>2. CASE H!mkdir(p)
  <2>1. PathStep
    BY <1>2, Answers DEF H!mkdir, PathStep
  <2>2. CASE names[p] = 0
    <3>1. H!CanMake /\ H!Created(p, H!Make("dir", <<>>, "none"))
      BY <1>2, <2>2 DEF H!mkdir
    <3>2. <<>> \in Seq(Nat)
      OBVIOUS
    <3>3. H!Make("dir", <<>>, "none") \in NodeOf /\ H!Make("dir", <<>>, "none").kind # "link"
      BY <3>2, MadeTyped
    <3>4. FilesTyped'
      BY <3>1, <3>3, CreatedTyped
    <3> QED BY <2>1, <3>4
  <2>3. CASE names[p] # 0
    BY <1>2, <2>1, <2>3 DEF H!mkdir, FilesTyped, NodesTyped
  <2> QED BY <2>2, <2>3
<1>3. CASE H!symlink(q, p)
  <2>1. PathStep
    BY <1>3, Answers DEF H!symlink, PathStep
  <2>2. CASE names[p] = 0
    <3>1. H!CanMake /\ H!Created(p, H!Make("link", <<>>, q))
      BY <1>3, <2>2 DEF H!symlink
    <3>2. H!Make("link", <<>>, q) \in NodeOf /\ H!Make("link", <<>>, q).to = q
      BY DEF H!Make, NodeOf
    <3>3. FilesTyped'
      BY <3>1, <3>2, CreatedTyped
    <3> QED BY <2>1, <3>3
  <2>3. CASE names[p] # 0
    BY <1>3, <2>1, <2>3 DEF H!symlink, FilesTyped, NodesTyped
  <2> QED BY <2>2, <2>3
<1>4. CASE H!remove(p)
  <2>1. PathStep
    BY <1>4, Answers DEF H!remove, PathStep
  <2>2. names' = [names EXCEPT ![p] = 0] /\ node' = node /\ 0 \in 0 .. MaxFiles
    BY <1>4 DEF H!remove, FileBounds
  <2>3. FilesTyped'
    BY <2>2 DEF FilesTyped, NodesTyped
  <2> QED BY <2>1, <2>3
<1>5. CASE H!copy(q, p, b)
  <2> DEFINE onto == IF names[H!Target(p)] = 0 THEN "nothing"
                     ELSE IF H!Follow(p) = 0 THEN "loop" ELSE node[H!Follow(p)].kind
             can == /\ H!Follow(q) # 0 /\ node[H!Follow(q)].may
                    /\ H!Follow(q) # H!Follow(p)
                    /\ \/ H!IsA(q, "file") /\ onto \in {"nothing", "dir"}
                       \/ H!IsA(q, "file") /\ onto = "file" /\ b /\ H!IsFile(p)
                       \/ H!IsA(q, "dir") /\ onto \in {"nothing", "dir"}
  <2>1. /\ onto = "nothing" => H!CanMake
        /\ answer' = IF can THEN H!Done ELSE H!Refused
        /\ IF ~can \/ onto = "dir" THEN UNCHANGED <<names, node>>
           ELSE IF H!IsA(q, "file") THEN H!Written(p, node[H!Follow(q)].data)
           ELSE H!Created(H!Target(p), H!Make("dir", <<>>, "none"))
        /\ UNCHANGED H!handleVars
    BY <1>5 DEF H!copy
  <2>2. can /\ onto # "dir" => H!Follow(q) # 0 /\ (H!IsA(q, "file") \/ onto = "nothing")
    OBVIOUS
  <2>3. can /\ onto # "dir" => onto = "nothing" \/ (onto = "file" /\ H!IsFile(p))
    OBVIOUS
  <2>4. /\ onto = "nothing" => names[H!Target(p)] = 0 
        /\ names[H!Target(p)] = 0 => onto = "nothing"
    <3>1. CASE names[H!Target(p)] = 0
      BY <3>1
    <3>2. CASE names[H!Target(p)] # 0 /\ H!Follow(p) = 0
      BY <3>2
    <3>3. CASE names[H!Target(p)] # 0 /\ H!Follow(p) # 0
      <4>1. node[H!Follow(p)] \in NodeOf
        BY <3>3, PathsLead DEF FilesTyped, NodesTyped
      <4>2. node[H!Follow(p)].kind # "nothing"
        BY <4>1 DEF NodeOf
      <4> QED BY <3>3, <4>2
    <3> QED BY <3>1, <3>2, <3>3
  <2> HIDE DEF onto, can
  <2>5. PathStep
    BY <2>1, Answers DEF PathStep
  <2>6. CASE ~can \/ onto = "dir"
    BY <2>1, <2>5, <2>6 DEF FilesTyped, NodesTyped
  <2>7. CASE can /\ onto # "dir" /\ H!IsA(q, "file")
    <3>1. node[H!Follow(q)].data \in Seq(Nat)
      BY <2>2, <2>7, PathsLead, DataTyped
    <3>2. H!Written(p, node[H!Follow(q)].data) /\ H!CanWrite(p) /\ (names[H!Target(p)] = 0 => H!CanMake)
      BY <2>1, <2>3, <2>4, <2>7 DEF H!CanWrite
    <3>3. FilesTyped'
      BY <3>1, <3>2, WrittenTyped
    <3> QED BY <2>5, <3>3
  <2>8. CASE can /\ onto # "dir" /\ ~H!IsA(q, "file")
    <3>1. H!CanMake /\ H!Created(H!Target(p), H!Make("dir", <<>>, "none"))
      BY <2>1, <2>2, <2>8
    <3>2. <<>> \in Seq(Nat) /\ H!Target(p) \in Paths
      BY PathsLead
    <3>3. H!Make("dir", <<>>, "none") \in NodeOf /\ H!Make("dir", <<>>, "none").kind # "link"
      BY <3>2, MadeTyped
    <3>4. FilesTyped'
      BY <3>1, <3>2, <3>3, CreatedTyped
    <3> QED BY <2>5, <3>4
  <2> QED BY <2>6, <2>7, <2>8
<1>6. CASE H!rename(q, p)
  <2>1. PathStep
    <3>1. answer' = H!Done \/ answer' = H!Refused
      BY <1>6 DEF H!rename
    <3> QED BY <1>6, <3>1, Answers DEF H!rename, PathStep
  <2>2. names' = [names EXCEPT ![p] = names[q], ![q] = 0] \/ names' = names
    BY <1>6 DEF H!rename
  <2>3. 0 \in 0 .. MaxFiles /\ node' = node
    BY <1>6 DEF H!rename, FileBounds
  <2>4. FilesTyped'
    BY <2>2, <2>3 DEF FilesTyped, NodesTyped
  <2> QED BY <2>1, <2>4
<1>7. CASE H!chmod(p, b)
  <2>1. PathStep
    BY <1>7, Answers DEF H!chmod, PathStep
  <2>2. CASE H!Follow(p) # 0
    <3>1. H!Follow(p) \in H!Node
      BY <2>2, PathsLead
    <3>2. PICK n \in H!Node : n = H!Follow(p)
      BY <3>1
    <3>3. node' = [node EXCEPT ![n].may = b] /\ names' = names
      BY <1>7, <2>2, <3>2 DEF H!chmod
    <3>4. NodesTyped(node) /\ node[n] \in NodeOf
      BY DEF FilesTyped, NodesTyped
    <3>5. /\ [node[n] EXCEPT !.may = b] \in NodeOf
          /\ [node[n] EXCEPT !.may = b].kind = node[n].kind
          /\ [node[n] EXCEPT !.may = b].to = node[n].to
      <4>1. CASE b = TRUE
        BY <3>4, <4>1 DEF NodeOf
      <4>2. CASE b = FALSE
        BY <3>4, <4>2 DEF NodeOf
      <4> QED BY <4>1, <4>2
    <3>6. PICK made \in NodeOf : made = [node[n] EXCEPT !.may = b]
      BY <3>5
    <3>7. made.kind = "link" => made.to \in Paths
      BY <3>4, <3>5, <3>6 DEF NodesTyped
    <3>8. NodesTyped([node EXCEPT ![n] = made])
      BY <3>4, <3>7, NodeChanged
    <3>9. node' = [node EXCEPT ![n] = made]
      BY <3>3, <3>6
    <3>10. NodesTyped(node') /\ names' = names
      BY <3>3, <3>8, <3>9
    <3> QED BY <2>1, <3>10 DEF FilesTyped, NodesTyped
  <2>3. CASE H!Follow(p) = 0
    BY <1>7, <2>1, <2>3 DEF H!chmod, FilesTyped, NodesTyped
  <2> QED BY <2>2, <2>3
<1>8. CASE H!truncate(p, length)
  <2>1. PathStep
    BY <1>8, Answers DEF H!truncate, PathStep
  <2>2. CASE H!IsFile(p)
    <3>1. PICK n \in H!Node : n = H!Follow(p)
      BY <2>2, PathsLead DEF H!IsFile, H!IsA
    <3>2. node[n].data \in Seq(Nat)
      BY DataTyped
    <3> DEFINE cutTo == [k \in 1 .. length |-> IF k <= Len(node[n].data) THEN node[n].data[k] ELSE 0]
    <3>3. cutTo \in Seq(Nat)
      BY <3>2
    <3>4. node' = [node EXCEPT ![n].data = cutTo] /\ names' = names
      BY <1>8, <2>2, <3>1 DEF H!truncate
    <3> HIDE DEF cutTo
    <3>5. NodesTyped([node EXCEPT ![n].data = cutTo])
      BY <3>3, DataChanged DEF FilesTyped
    <3>6. NodesTyped(node')
      BY <3>4, <3>5
    <3> QED BY <2>1, <3>4, <3>6 DEF FilesTyped, NodesTyped
  <2>3. CASE ~H!IsFile(p)
    BY <1>8, <2>1, <2>3 DEF H!truncate, FilesTyped, NodesTyped
  <2> QED BY <2>2, <2>3
<1>9. CASE H!Other(p, bytes)
  <2>1. PathStep
    BY <1>9 DEF H!Other, PathStep
  <2>2. CASE H!IsA(p, "file") /\ node' = [node EXCEPT ![H!Follow(p)].data = bytes] /\ UNCHANGED names
    <3>1. PICK n \in H!Node : n = H!Follow(p)
      BY <2>2, PathsLead DEF H!IsA
    <3>2. NodesTyped([node EXCEPT ![n].data = bytes])
      BY DataChanged DEF FilesTyped
    <3>3. NodesTyped(node') /\ names' = names
      BY <2>2, <3>1, <3>2
    <3> QED BY <2>1, <3>3 DEF FilesTyped, NodesTyped
  <2>3. CASE H!CanMake /\ H!Created(p, H!File(bytes))
    <3>1. H!File(bytes) \in NodeOf /\ H!File(bytes).kind # "link"
      BY MadeTyped DEF H!File
    <3>2. FilesTyped'
      BY <2>3, <3>1, CreatedTyped
    <3> QED BY <2>1, <3>2
  <2> QED BY <1>9, <2>2, <2>3 DEF H!Other
<1> QED BY <1>1, <1>2, <1>3, <1>4, <1>5, <1>6, <1>7, <1>8, <1>9

-----------------------------------------------------------------------------
(***************************************************************************)
(* Handles.                                                                *)
(***************************************************************************)
LEMMA HandleChanged ==
    ASSUME HandlesFollow, NEW id \in DOMAIN g_handles, NEW h \in HandleOf, NEW at \in Nat
    PROVE  /\ h.node = g_handles[id].node
           /\ Len(h.held) <= h.pos
           /\ ~h.failed => h.pos = at
           /\ g_handles' = [g_handles EXCEPT ![id] = h]
           /\ cursor' = [cursor EXCEPT ![id] = at]
           /\ UNCHANGED <<g_nextId, opened>>
           => HandlesFollow'
<1> SUFFICES ASSUME h.node = g_handles[id].node, Len(h.held) <= h.pos,
                    ~h.failed => h.pos = at,
                    g_handles' = [g_handles EXCEPT ![id] = h],
                    cursor' = [cursor EXCEPT ![id] = at],
                    UNCHANGED <<g_nextId, opened>>
             PROVE  HandlesFollow'
  OBVIOUS
<1>1. /\ DOMAIN g_handles' = DOMAIN g_handles /\ g_handles'[id] = h
      /\ \A k \in DOMAIN g_handles : k # id => g_handles'[k] = g_handles[k]
  BY DEF HandlesFollow
<1>2. g_handles' \in [DOMAIN g_handles' -> HandleOf]
  BY DEF HandlesFollow
<1>3. id \in 1 .. Len(cursor)
  BY DEF HandlesFollow
<1>4. /\ cursor' \in Seq(Nat) /\ Len(cursor') = Len(cursor) /\ cursor'[id] = at
      /\ \A k \in 1 .. Len(cursor) : k # id => cursor'[k] = cursor[k]
  BY <1>3 DEF HandlesFollow
<1>5. ASSUME NEW k \in DOMAIN g_handles'
      PROVE  /\ g_handles'[k].node = opened'[k]
             /\ Len(g_handles'[k].held) <= g_handles'[k].pos
             /\ ~g_handles'[k].failed => g_handles'[k].pos = cursor'[k]
  <2>1. CASE k = id
    BY <1>1, <1>4, <2>1 DEF HandlesFollow
  <2>2. CASE k # id
    <3>1. k \in DOMAIN g_handles /\ k \in 1 .. Len(cursor)
      BY <1>1 DEF HandlesFollow
    <3> QED BY <1>1, <1>4, <2>2, <3>1 DEF HandlesFollow
  <2> QED BY <2>1, <2>2
<1>6. /\ g_nextId' \in Nat \ {0} /\ opened' \in Seq(H!Node) /\ Len(opened') = g_nextId' - 1
      /\ Len(cursor') = g_nextId' - 1 /\ DOMAIN g_handles' \subseteq 1 .. g_nextId' - 1
  BY <1>1, <1>4 DEF HandlesFollow
<1> QED BY <1>2, <1>4, <1>5, <1>6 DEF HandlesFollow

\* A handle as it is found, and its file.
LEMMA HandleFound ==
    ASSUME FilesTyped, HandlesFollow, NEW id \in DOMAIN g_handles
    PROVE  /\ g_handles[id] \in HandleOf /\ g_handles[id].node = opened[id]
           /\ id \in 1 .. g_nextId - 1 /\ cursor[id] \in Nat
           /\ Len(g_handles[id].held) <= g_handles[id].pos
           /\ ~g_handles[id].failed => g_handles[id].pos = cursor[id]
           /\ node[g_handles[id].node].data \in Seq(Nat)
           /\ cursor = [cursor EXCEPT ![id] = cursor[id]]
<1>1. g_handles[id] \in HandleOf /\ id \in 1 .. g_nextId - 1
  BY DEF HandlesFollow
<1>2. g_handles[id].node \in H!Node
  BY <1>1 DEF HandleOf
<1>3. cursor \in [1 .. g_nextId - 1 -> Nat]
  BY DEF HandlesFollow
<1> QED BY <1>1, <1>2, <1>3, DataTyped DEF HandlesFollow

LEMMA FlushTyped ==
    ASSUME FilesTyped, HandlesFollow, NEW id \in DOMAIN g_handles
    PROVE  NodesTyped(H!Flushed(g_handles[id]))
<1> DEFINE h == g_handles[id]
           at == IF h.app THEN Len(node[h.node].data) ELSE h.pos - Len(h.held)
<1>1. /\ h.node \in H!Node /\ h.held \in Seq(Nat) /\ h.pos \in Nat /\ Len(h.held) <= h.pos
      /\ node[h.node].data \in Seq(Nat)
  BY HandleFound DEF HandleOf
<1>2. at \in Nat
  BY <1>1
<1>3. H!Flushed(h) = [node EXCEPT ![h.node].data = H!Over(node[h.node].data, at, h.held)]
  BY DEF H!Flushed
<1> HIDE DEF h, at
<1>4. H!Over(node[h.node].data, at, h.held) \in Seq(Nat)
  BY <1>1, <1>2, OverTyped
<1>5. NodesTyped([node EXCEPT ![h.node].data = H!Over(node[h.node].data, at, h.held)])
  BY <1>1, <1>4, DataChanged DEF FilesTyped
<1>6. NodesTyped(H!Flushed(h))
  BY <1>3, <1>5
<1> QED BY <1>6 DEF h

LEMMA OpenStep ==
    ASSUME FileBounds, FsInv, NEW p \in Paths, NEW flags \in H!Modes, H!openFn(p, flags)
    PROVE  FsInv'
<1> DEFINE makes == flags \in {"w", "a", "w+"} /\ names[H!Target(p)] = 0
           n == IF makes THEN H!FreeNode ELSE H!Follow(p)
<1>1. /\ makes => H!CanMake
      /\ IF flags = "x" \/ (~makes /\ ~H!IsFile(p))
         THEN answer' = H!Refused /\ UNCHANGED <<names, node, H!handleVars>>
         ELSE /\ names' = IF makes THEN [names EXCEPT ![H!Target(p)] = n] ELSE names
              /\ node' = IF makes \/ flags \in {"w", "w+"}
                         THEN [node EXCEPT ![n] = H!File(<<>>)] ELSE node
              /\ g_handles' = [id \in DOMAIN g_handles \cup {g_nextId} |->
                     IF id = g_nextId THEN H!Stream(n, p, flags) ELSE g_handles[id]]
              /\ g_nextId' = g_nextId + 1
              /\ opened' = Append(opened, n) /\ cursor' = Append(cursor, 0)
              /\ answer' = [fd |-> g_nextId]
  BY DEF H!openFn
<1>2. H!Target(p) \in Paths /\ (makes \/ H!IsFile(p) => n \in H!Node)
  BY <1>1, PathsLead DEF FsInv, H!IsFile, H!IsA
<1>3. "expected" \notin DOMAIN [fd |-> g_nextId]
  OBVIOUS
<1> HIDE DEF makes, n
<1>4. CASE flags = "x" \/ (~makes /\ ~H!IsFile(p))
  <2>1. answer' = H!Refused /\ UNCHANGED <<names, node, H!handleVars>>
    BY <1>1, <1>4
  <2>2. FilesTyped' /\ HandlesFollow'
    BY <2>1 DEF FsInv, FilesTyped, NodesTyped, HandlesFollow, H!handleVars
  <2> QED BY <2>1, <2>2, Answers DEF FsInv, H!ReadsFollow, H!IsRead
<1>5. CASE ~(flags = "x" \/ (~makes /\ ~H!IsFile(p)))
  <2>1. n \in H!Node
    BY <1>2, <1>5
  <2>2. /\ names' = IF makes THEN [names EXCEPT ![H!Target(p)] = n] ELSE names
        /\ node' = IF makes \/ flags \in {"w", "w+"}
                   THEN [node EXCEPT ![n] = H!File(<<>>)] ELSE node
        /\ g_handles' = [id \in DOMAIN g_handles \cup {g_nextId} |->
               IF id = g_nextId THEN H!Stream(n, p, flags) ELSE g_handles[id]]
        /\ g_nextId' = g_nextId + 1
        /\ opened' = Append(opened, n) /\ cursor' = Append(cursor, 0)
        /\ answer' = [fd |-> g_nextId]
    BY <1>1, <1>5
  <2>3. FilesTyped'
    <3>1. <<>> \in Seq(Nat)
      OBVIOUS
    <3>2. H!File(<<>>) \in NodeOf /\ H!File(<<>>).kind # "link"
      BY <3>1, MadeTyped DEF H!File
    <3>3. NodesTyped([node EXCEPT ![n] = H!File(<<>>)])
      BY <2>1, <3>2, NodeChanged DEF FsInv, FilesTyped
    <3>4. NodesTyped(node')
      BY <2>2, <3>3 DEF FsInv, FilesTyped
    <3>5. n \in 0 .. MaxFiles
      BY <2>1 DEF H!Node, FileBounds
    <3>6. names' \in [Paths -> 0 .. MaxFiles]
      BY <1>2, <2>2, <3>5 DEF FsInv, FilesTyped
    <3> QED BY <3>4, <3>6 DEF FilesTyped, NodesTyped
  <2>4. HandlesFollow'
    <3>1. /\ g_nextId \in Nat \ {0} /\ opened \in Seq(H!Node) /\ Len(opened) = g_nextId - 1
          /\ cursor \in Seq(Nat) /\ Len(cursor) = g_nextId - 1
          /\ DOMAIN g_handles \subseteq 1 .. g_nextId - 1
          /\ g_handles \in [DOMAIN g_handles -> HandleOf]
      BY DEF FsInv, HandlesFollow
    <3>2. /\ opened' \in Seq(H!Node) /\ Len(opened') = g_nextId /\ opened'[g_nextId] = n
          /\ \A k \in 1 .. g_nextId - 1 : opened'[k] = opened[k]
      BY <2>1, <2>2, <3>1
    <3>3. /\ cursor' \in Seq(Nat) /\ Len(cursor') = g_nextId /\ cursor'[g_nextId] = 0
          /\ \A k \in 1 .. g_nextId - 1 : cursor'[k] = cursor[k]
      BY <2>2, <3>1
    <3> DEFINE h == H!Stream(n, p, flags)
    <3>4. /\ h.node = n /\ h.path = p /\ h.pos = 0 /\ h.held = <<>> /\ h.ahead = <<>>
          /\ h.failed = FALSE /\ h.in = (flags \in {"r", "r+", "w+"})
      BY DEF H!Stream
    <3>5. h \in HandleOf
      <4>1. (flags \in {"r", "r+", "w+"}) \in BOOLEAN /\ (flags # "r") \in BOOLEAN
            /\ (flags = "a") \in BOOLEAN /\ FALSE \in BOOLEAN
        OBVIOUS
      <4>2. PICK i \in BOOLEAN, o \in BOOLEAN, a \in BOOLEAN, f \in BOOLEAN :
                /\ i = (flags \in {"r", "r+", "w+"}) /\ o = (flags # "r")
                /\ a = (flags = "a") /\ f = FALSE
        BY <4>1, Zenon
      <4>3. h = [node |-> n, path |-> p, in |-> i, out |-> o, app |-> a, pos |-> 0,
                 held |-> <<>>, ahead |-> <<>>, failed |-> f]
        BY <4>2, Zenon DEF H!Stream
      <4>4. <<>> \in Seq(Nat) /\ 0 \in Nat
        OBVIOUS
      <4>5. [node |-> n, path |-> p, in |-> i, out |-> o, app |-> a, pos |-> 0,
             held |-> <<>>, ahead |-> <<>>, failed |-> f] \in HandleOf
        BY <2>1, <4>4, Zenon DEF HandleOf
      <4> QED BY <4>3, <4>5, Zenon
    <3> HIDE DEF h
    <3>6. g_handles' = [id \in DOMAIN g_handles \cup {g_nextId} |->
               IF id = g_nextId THEN h ELSE g_handles[id]]
      BY <2>2 DEF h
    <3>7. /\ DOMAIN g_handles' = DOMAIN g_handles \cup {g_nextId}
          /\ g_handles'[g_nextId] = h
          /\ \A k \in DOMAIN g_handles : k \in 1 .. g_nextId - 1 /\ g_handles'[k] = g_handles[k]
          /\ g_handles' \in [DOMAIN g_handles' -> HandleOf]
      BY <3>1, <3>5, <3>6
    <3>8. ASSUME NEW k \in DOMAIN g_handles'
          PROVE  /\ g_handles'[k].node = opened'[k]
                 /\ Len(g_handles'[k].held) <= g_handles'[k].pos
                 /\ ~g_handles'[k].failed => g_handles'[k].pos = cursor'[k]
      <4>1. CASE k = g_nextId
        BY <3>2, <3>3, <3>4, <3>7, <4>1
      <4>2. CASE k \in DOMAIN g_handles
        BY <3>2, <3>3, <3>7, <4>2 DEF FsInv, HandlesFollow
      <4> QED BY <3>7, <4>1, <4>2
    <3>9. /\ g_nextId' \in Nat \ {0} /\ Len(opened') = g_nextId' - 1
          /\ Len(cursor') = g_nextId' - 1 /\ DOMAIN g_handles' \subseteq 1 .. g_nextId' - 1
      BY <2>2, <3>1, <3>2, <3>3, <3>7
    <3> QED BY <3>2, <3>3, <3>7, <3>8, <3>9 DEF HandlesFollow
  <2>5. "expected" \notin DOMAIN answer'
    BY <1>3, <2>2
  <2> QED BY <2>3, <2>4, <2>5 DEF FsInv, H!ReadsFollow, H!IsRead
<1> QED BY <1>4, <1>5

LEMMA ReadStep ==
    ASSUME FileBounds, FsInv, NEW id \in DOMAIN g_handles, NEW offset \in Nat \cup {H!NoOffset},
           NEW length \in Nat \ {0}, H!readFn(id, offset, length)
    PROVE  FsInv'
<1> DEFINE h == g_handles[id]
           files == IF h.failed THEN node ELSE H!Flushed(h)
           dead == h.failed \/ ~h.in
           seeks == offset # H!NoOffset /\ ~h.failed
           pos == IF seeks THEN offset ELSE h.pos
           ahead == IF seeks THEN <<>> ELSE h.ahead
           file == files[h.node].data
           there == There(file, ahead, pos, length)
           got == IF dead THEN <<>> ELSE SubSeq(there, 1, H!LeastOf(length, Len(there)))
           rest == SubSeq(there, Len(got) + 1, Len(there))
           from == IF offset = H!NoOffset THEN cursor[id] ELSE offset
           wanted == SubSeq(file, from + 1, H!LeastOf(from + length, Len(file)))
           h2 == [h EXCEPT !.pos = pos + Len(got), !.failed = @ \/ Len(got) < length,
                           !.held = IF h.failed THEN @ ELSE <<>>,
                           !.ahead = IF dead THEN @ ELSE rest]
<1>1. /\ FilesTyped /\ HandlesFollow /\ h \in HandleOf /\ h.node = opened[id]
      /\ Len(h.held) <= h.pos /\ cursor[id] \in Nat /\ (~h.failed => h.pos = cursor[id])
  BY HandleFound DEF FsInv
<1>2. /\ h.node \in H!Node /\ h.pos \in Nat /\ h.held \in Seq(Nat) /\ h.ahead \in Seq(Nat)
      /\ h.failed \in BOOLEAN /\ h.in \in BOOLEAN
  BY <1>1 DEF HandleOf
<1>3. /\ node' = files
      /\ g_handles' = [g_handles EXCEPT ![id] = h2]
      /\ cursor' = [cursor EXCEPT ![id] = from + Len(got)]
      /\ answer' = [bytes |-> got, eof |-> Len(got) < length \/ got = <<>>,
                    shm |-> Len(got) >= Threshold, expected |-> wanted,
                    failed |-> dead,
                    stale |-> \/ pos + Len(ahead) > Len(file)
                              \/ ahead # SubSeq(file, pos + 1, pos + Len(ahead))]
      /\ UNCHANGED <<names, g_nextId, opened>>
  BY <1>1 DEF H!readFn, H!Expected, There
<1>4. NodesTyped(files)
  BY <1>1, FlushTyped DEF FilesTyped
<1>5. file \in Seq(Nat)
  BY <1>2, <1>4 DEF NodesTyped, NodeOf
<1>6. pos \in Nat /\ ahead \in Seq(Nat) /\ from \in Nat /\ (~h.failed => from = pos)
  BY <1>1, <1>2 DEF H!NoOffset
<1> HIDE DEF files, file
<1>7. there \in Seq(Nat)
  <2>1. CASE length <= Len(ahead)
    BY <1>6, <2>1 DEF There
  <2>2. CASE ~(length <= Len(ahead)) /\ pos + Len(ahead) <= Len(file)
    <3>1. PICK end \in Nat : end = pos + Len(ahead)
      BY <1>6
    <3>2. SubSeq(file, end + 1, Len(file)) \in Seq(Nat)
      BY <1>5, <2>2, <3>1, PartOf
    <3> QED BY <1>6, <2>2, <3>1, <3>2 DEF There
  <2>3. CASE ~(length <= Len(ahead)) /\ ~(pos + Len(ahead) <= Len(file))
    <3>1. SubSeq(file, pos + Len(ahead) + 1, Len(file)) = <<>>
      BY <1>5, <1>6, <2>3
    <3>2. ahead \o <<>> \in Seq(Nat)
      BY <1>6
    <3> QED BY <2>3, <3>1, <3>2 DEF There
  <2> QED BY <2>1, <2>2, <2>3
<1> HIDE DEF there, pos, ahead, from
<1>8. got \in Seq(Nat) /\ Len(got) <= Len(there)
  <2>1. PICK m \in Nat : m = H!LeastOf(length, Len(there)) /\ m <= Len(there)
    <3>1. Len(there) \in Nat /\ length \in Nat
      BY <1>7
    <3> QED BY <3>1, LeastProperties
  <2>2. SubSeq(there, 0 + 1, m) \in Seq(Nat) /\ Len(SubSeq(there, 0 + 1, m)) = m - 0
    BY <1>7, <2>1, PartOf
  <2>3. CASE dead
    BY <1>7, <2>3
  <2>4. CASE ~dead
    <3>1. got = SubSeq(there, 0 + 1, m)
      BY <2>1, <2>4
    <3>2. m - 0 <= Len(there)
      BY <2>1
    <3> HIDE DEF got
    <3> QED BY <2>2, <3>1, <3>2
  <2> QED BY <2>3, <2>4
<1>9. rest \in Seq(Nat)
  <2>1. PICK m \in Nat : m = Len(got) /\ m <= Len(there)
    BY <1>7, <1>8
  <2>2. Len(there) \in Nat /\ Len(there) <= Len(there)
    BY <1>7
  <2>3. SubSeq(there, m + 1, Len(there)) \in Seq(Nat)
    BY <1>7, <2>1, <2>2, PartOf
  <2> HIDE DEF got
  <2> QED BY <2>1, <2>3
<1>10. dead => got = <<>>
  OBVIOUS
<1>11. ~dead /\ ~(pos + Len(ahead) > Len(file)) /\ ahead = SubSeq(file, pos + 1, pos + Len(ahead))
       => got = wanted
  <2> SUFFICES ASSUME ~dead, ~(pos + Len(ahead) > Len(file)),
                      ahead = SubSeq(file, pos + 1, pos + Len(ahead))
               PROVE  got = wanted
    OBVIOUS
  <2>1. length \in Nat
    OBVIOUS
  <2>2. SubSeq(There(file, ahead, pos, length), 1,
               H!LeastOf(length, Len(There(file, ahead, pos, length))))
            = SubSeq(file, pos + 1, H!LeastOf(pos + length, Len(file)))
    BY <1>5, <1>6, <2>1, ReadGives
  <2>3. got = SubSeq(There(file, ahead, pos, length), 1,
                     H!LeastOf(length, Len(There(file, ahead, pos, length))))
    BY DEF there
  <2>4. from = pos
    BY <1>6
  <2> QED BY <2>2, <2>3, <2>4
<1>12. FilesTyped'
  BY <1>1, <1>3, <1>4 DEF FilesTyped, NodesTyped
<1>13. H!ReadsFollow'
  BY <1>3, <1>11 DEF H!ReadsFollow, H!IsRead
<1> HIDE DEF got, rest, wanted
<1>14. /\ h2.node = h.node /\ h2.pos = pos + Len(got)
       /\ h2.held = IF h.failed THEN h.held ELSE <<>>
       /\ h2.failed = (h.failed \/ Len(got) < length)
  <2>1. "failed" \in DOMAIN h /\ "held" \in DOMAIN h /\ "pos" \in DOMAIN h /\ "node" \in DOMAIN h
    BY <1>1 DEF HandleOf
  <2> HIDE DEF h, dead
  <2> QED BY <2>1
<1>15. h2 \in HandleOf
  <2>1. PICK f \in BOOLEAN : f = (h.failed \/ Len(got) < length)
    <3>1. (h.failed \/ Len(got) < length) \in BOOLEAN
      OBVIOUS
    <3> QED BY <3>1, Zenon
  <2>2. PICK held2 \in Seq(Nat) : held2 = IF h.failed THEN h.held ELSE <<>>
    <3>1. <<>> \in Seq(Nat)
      OBVIOUS
    <3>2. (IF h.failed THEN h.held ELSE <<>>) \in Seq(Nat)
      BY <1>2, <3>1, Zenon
    <3> QED BY <3>2, Zenon
  <2>3. PICK ahead2 \in Seq(Nat) : ahead2 = IF dead THEN h.ahead ELSE rest
    BY <1>2, <1>9
  <2>4. PICK pos2 \in Nat : pos2 = pos + Len(got)
    BY <1>6, <1>8
  <2>5. h2 = [h EXCEPT !.pos = pos2, !.failed = f, !.held = held2, !.ahead = ahead2]
    <3> HIDE DEF h, dead
    <3> QED BY <2>1, <2>2, <2>3, <2>4, Zenon
  <2>6. ASSUME NEW g \in HandleOf, NEW b \in BOOLEAN
        PROVE  [g EXCEPT !.pos = pos2, !.failed = b, !.held = held2, !.ahead = ahead2] \in HandleOf
    <3>1. CASE b = TRUE
      BY <3>1 DEF HandleOf
    <3>2. CASE b = FALSE
      BY <3>2 DEF HandleOf
    <3> QED BY <3>1, <3>2
  <2> QED BY <1>1, <2>5, <2>6
<1>16. Len(h2.held) <= h2.pos
  <2>1. CASE h.failed
    <3>1. pos = h.pos
      BY <2>1 DEF pos
    <3> QED BY <1>1, <1>2, <1>6, <1>8, <1>14, <2>1, <3>1
  <2>2. CASE ~h.failed
    BY <1>6, <1>8, <1>14, <2>2
  <2> QED BY <2>1, <2>2
<1>17. ~h2.failed => h2.pos = from + Len(got)
  BY <1>6, <1>14
<1>18. from + Len(got) \in Nat
  BY <1>6, <1>8
<1>19. h2.node = h.node
  BY <1>14
<1> HIDE DEF h2
<1>20. HandlesFollow'
  BY <1>1, <1>3, <1>15, <1>16, <1>17, <1>18, <1>19, HandleChanged
<1> QED BY <1>12, <1>13, <1>20 DEF FsInv

LEMMA WriteStep ==
    ASSUME FileBounds, FsInv, NEW id \in DOMAIN g_handles, NEW offset \in Nat \cup {H!NoOffset},
           NEW b \in Nat, H!writeFn(id, offset, b)
    PROVE  FsInv'
<1> DEFINE h == g_handles[id]
           moves == offset # H!NoOffset
           pos == IF moves THEN offset ELSE h.pos
           h2 == [h EXCEPT !.pos = pos + 1, !.ahead = <<>>,
                           !.held = IF moves THEN <<b>> ELSE Append(@, b)]
           at == 1 + IF moves THEN offset ELSE cursor[id]
<1>1. /\ FilesTyped /\ HandlesFollow /\ h \in HandleOf /\ h.node = opened[id]
      /\ Len(h.held) <= h.pos /\ cursor[id] \in Nat /\ (~h.failed => h.pos = cursor[id])
      /\ cursor = [cursor EXCEPT ![id] = cursor[id]]
  BY HandleFound DEF FsInv
<1>2. /\ h.node \in H!Node /\ h.pos \in Nat /\ h.held \in Seq(Nat) /\ h.ahead \in Seq(Nat)
      /\ h.failed \in BOOLEAN
  BY <1>1 DEF HandleOf
<1>3. UNCHANGED <<names, g_nextId, opened>>
  BY DEF H!writeFn
<1>4. CASE h.failed \/ ~h.out
  <2> DEFINE h3 == [h EXCEPT !.failed = TRUE]
  <2>1. /\ g_handles' = [g_handles EXCEPT ![id] = h3]
        /\ answer' = H!Refused /\ UNCHANGED <<node, cursor>>
    BY <1>4 DEF H!writeFn
  <2>2. h3 \in HandleOf /\ h3.node = h.node /\ h3.held = h.held /\ h3.pos = h.pos /\ h3.failed
    BY <1>1 DEF HandleOf
  <2> HIDE DEF h3
  <2>3. cursor' = [cursor EXCEPT ![id] = cursor[id]]
    BY <1>1, <2>1
  <2>4. HandlesFollow'
    BY <1>1, <1>3, <2>1, <2>2, <2>3, HandleChanged
  <2>5. FilesTyped'
    BY <1>1, <1>3, <2>1 DEF FilesTyped, NodesTyped
  <2> QED BY <2>1, <2>4, <2>5, Answers DEF FsInv, H!ReadsFollow, H!IsRead
<1>5. CASE ~(h.failed \/ ~h.out)
  <2>1. /\ node' = IF moves THEN H!Flushed(h) ELSE node
        /\ g_handles' = [g_handles EXCEPT ![id] = h2]
        /\ cursor' = [cursor EXCEPT ![id] = at]
        /\ answer' = [written |-> 1]
    BY <1>1, <1>5 DEF H!writeFn
  <2>2. at \in Nat /\ pos \in Nat /\ at = pos + 1
    BY <1>1, <1>2, <1>5 DEF H!NoOffset
  <2>3. Append(h.held, b) \in Seq(Nat) /\ Len(Append(h.held, b)) = Len(h.held) + 1
        /\ <<b>> \in Seq(Nat) /\ Len(<<b>>) = 1
    BY <1>2
  <2>4. h2 \in HandleOf /\ h2.node = h.node /\ h2.pos = pos + 1
        /\ h2.held = IF moves THEN <<b>> ELSE Append(h.held, b)
    <3>1. pos + 1 \in Nat /\ <<>> \in Seq(Nat)
      BY <2>2
    <3>2. PICK held2 \in Seq(Nat) : held2 = IF moves THEN <<b>> ELSE Append(h.held, b)
      BY <2>3
    <3>3. h2 = [h EXCEPT !.pos = pos + 1, !.ahead = <<>>, !.held = held2]
      BY <3>2
    <3> HIDE DEF h2, pos, moves, h
    <3> QED BY <1>1, <3>1, <3>2, <3>3 DEF HandleOf
  <2>5. Len(h2.held) <= h2.pos
    <3>1. CASE moves
      BY <2>2, <2>3, <2>4, <3>1
    <3>2. CASE ~moves
      BY <1>1, <1>2, <2>2, <2>3, <2>4, <3>2
    <3> QED BY <3>1, <3>2
  <2>6. NodesTyped(node')
    BY <1>1, <2>1, FlushTyped DEF FilesTyped
  <2>7. FilesTyped'
    BY <1>1, <1>3, <2>6 DEF FilesTyped, NodesTyped
  <2>8. h2.pos = at
    BY <2>2, <2>4
  <2> HIDE DEF h2, at
  <2>9. HandlesFollow'
    BY <1>1, <1>3, <2>1, <2>2, <2>4, <2>5, <2>8, HandleChanged
  <2>10. "expected" \notin DOMAIN answer'
    BY <2>1
  <2> QED BY <2>7, <2>9, <2>10 DEF FsInv, H!ReadsFollow, H!IsRead
<1> QED BY <1>4, <1>5

LEMMA SizeStep ==
    ASSUME FileBounds, FsInv, NEW id \in DOMAIN g_handles, H!sizeFn(id)
    PROVE  FsInv'
<1> DEFINE h == g_handles[id]
           h2 == [h EXCEPT !.held = <<>>, !.ahead = <<>>]
<1>1. /\ FilesTyped /\ HandlesFollow /\ h \in HandleOf /\ h.node = opened[id]
      /\ cursor[id] \in Nat /\ (~h.failed => h.pos = cursor[id])
      /\ cursor = [cursor EXCEPT ![id] = cursor[id]]
  BY HandleFound DEF FsInv
<1>2. UNCHANGED <<names, g_nextId, opened, cursor>> /\ "expected" \notin DOMAIN answer'
  BY DEF H!sizeFn
<1>3. H!ReadsFollow'
  BY <1>2 DEF H!ReadsFollow, H!IsRead
<1>4. CASE h.failed
  <2>1. UNCHANGED <<node, g_handles>>
    BY <1>4 DEF H!sizeFn
  <2> QED BY <1>1, <1>2, <1>3, <2>1 DEF FsInv, FilesTyped, NodesTyped, HandlesFollow
<1>5. CASE ~h.failed
  <2>1. node' = H!Flushed(h) /\ g_handles' = [g_handles EXCEPT ![id] = h2]
    BY <1>5 DEF H!sizeFn
  <2>2. /\ h2 \in HandleOf /\ h2.node = h.node /\ h2.pos = h.pos /\ h2.held = <<>>
        /\ h.pos \in Nat
    <3>1. <<>> \in Seq(Nat)
      OBVIOUS
    <3>2. ASSUME NEW g \in HandleOf
          PROVE  /\ [g EXCEPT !.held = <<>>, !.ahead = <<>>] \in HandleOf
                 /\ [g EXCEPT !.held = <<>>, !.ahead = <<>>].node = g.node
                 /\ [g EXCEPT !.held = <<>>, !.ahead = <<>>].pos = g.pos
                 /\ [g EXCEPT !.held = <<>>, !.ahead = <<>>].held = <<>>
                 /\ g.pos \in Nat
      BY <3>1 DEF HandleOf
    <3> QED BY <1>1, <3>2
  <2>3. NodesTyped(node')
    BY <1>1, <2>1, FlushTyped
  <2>4. FilesTyped'
    BY <1>1, <1>2, <2>3 DEF FilesTyped, NodesTyped
  <2>5. Len(h2.held) <= h2.pos
    BY <2>2
  <2> HIDE DEF h2
  <2>6. cursor' = [cursor EXCEPT ![id] = cursor[id]] /\ h2.pos = cursor[id]
    BY <1>1, <1>2, <1>5, <2>2
  <2>7. HandlesFollow'
    BY <1>1, <1>2, <2>1, <2>2, <2>5, <2>6, HandleChanged
  <2> QED BY <1>3, <2>4, <2>7 DEF FsInv
<1> QED BY <1>4, <1>5

LEMMA CloseStep ==
    ASSUME FileBounds, FsInv, NEW id \in DOMAIN g_handles, H!closeFn(id)
    PROVE  FsInv'
<1>1. /\ node' = H!Flushed(g_handles[id])
      /\ g_handles' = [k \in DOMAIN g_handles \ {id} |-> g_handles[k]]
      /\ answer' = H!Done /\ UNCHANGED <<names, g_nextId, opened, cursor>>
  BY DEF H!closeFn
<1>2. NodesTyped(node')
  BY <1>1, FlushTyped DEF FsInv
<1>3. FilesTyped'
  BY <1>1, <1>2 DEF FsInv, FilesTyped, NodesTyped
<1>4. HandlesFollow'
  BY <1>1 DEF FsInv, HandlesFollow
<1> QED BY <1>1, <1>3, <1>4, Answers DEF FsInv, H!ReadsFollow, H!IsRead

LEMMA FilesStart == ASSUME FileBounds, H!Init PROVE FsInv
<1>1. /\ names = [p \in Paths |-> IF p = "a" THEN 1 ELSE 0]
      /\ node = [n \in H!Node |-> IF n = 1 THEN H!File(<<1, 2>>) ELSE H!Free]
      /\ g_handles = <<>> /\ g_nextId = 1 /\ answer = H!Done
      /\ opened = <<>> /\ cursor = <<>>
  BY DEF H!Init
<1>2. H!File(<<1, 2>>) \in NodeOf /\ H!File(<<1, 2>>).kind # "link"
  <2>1. <<1, 2>> \in Seq(Nat)
    OBVIOUS
  <2> QED BY <2>1, MadeTyped DEF H!File
<1>3. H!Free \in NodeOf /\ H!Free.kind # "link"
  <2>1. <<>> \in Seq(Nat)
    OBVIOUS
  <2> QED BY <2>1, MadeTyped DEF H!Free
<1>4. NodesTyped(node)
  BY <1>1, <1>2, <1>3 DEF NodesTyped
<1>5. names \in [Paths -> 0 .. MaxFiles]
  BY <1>1 DEF FileBounds
<1>6. HandlesFollow
  <2>1. DOMAIN g_handles = {} /\ g_handles \in [{} -> HandleOf]
    BY <1>1
  <2> QED BY <1>1, <2>1 DEF HandlesFollow
<1> QED BY <1>1, <1>4, <1>5, <1>6, Answers DEF FsInv, FilesTyped, H!ReadsFollow, H!IsRead

LEMMA PathStepKeeps ==
    ASSUME FsInv, PathStep, FilesTyped' PROVE FsInv'
<1>1. HandlesFollow'
  BY DEF FsInv, PathStep, H!handleVars, HandlesFollow
<1>2. H!ReadsFollow'
  BY DEF FsInv, PathStep, H!ReadsFollow, H!IsRead
<1> QED BY <1>1, <1>2 DEF FsInv

LEMMA FilesStep == ASSUME FileBounds, FsInv, [H!Next]_(H!vars) PROVE FsInv'
<1>1. ASSUME NEW p \in Paths, NEW flags \in H!Modes, H!openFn(p, flags) PROVE FsInv'
  BY <1>1, OpenStep
<1>2. ASSUME NEW p \in Paths, H!Ask(p) \/ H!readFileSize(p) \/ H!readFileBytes PROVE FsInv'
  <2>1. UNCHANGED <<names, node>> /\ PathStep
    BY <1>2, PathsAsked
  <2>2. FilesTyped'
    BY <2>1 DEF FsInv, FilesTyped, NodesTyped
  <2> QED BY <2>1, <2>2, PathStepKeeps
<1>3. ASSUME NEW p \in Paths, NEW q \in Paths, NEW bytes \in Seq(Nat), NEW b \in BOOLEAN,
             NEW length \in Nat,
             \/ H!writeFile(p, bytes) \/ H!mkdir(p) \/ H!symlink(q, p) \/ H!remove(p)
             \/ H!copy(q, p, b) \/ H!rename(q, p) \/ H!chmod(p, b) \/ H!truncate(p, length)
             \/ H!Other(p, bytes)
      PROVE  FsInv'
  <2>1. FilesTyped' /\ PathStep
    BY <1>3, PathsChanged DEF FsInv
  <2> QED BY <2>1, PathStepKeeps
<1>4. ASSUME NEW id \in DOMAIN g_handles, NEW at \in {H!NoOffset, 0, 1}, NEW n \in {1, 2},
             H!readFn(id, at, n)
      PROVE  FsInv'
  <2>1. at \in Nat \cup {H!NoOffset} /\ n \in Nat \ {0}
    OBVIOUS
  <2> QED BY <1>4, <2>1, ReadStep
<1>5. ASSUME NEW id \in DOMAIN g_handles, NEW at \in {H!NoOffset, 0, 1}, H!writeFn(id, at, 7)
      PROVE  FsInv'
  <2>1. at \in Nat \cup {H!NoOffset} /\ 7 \in Nat
    OBVIOUS
  <2> QED BY <1>5, <2>1, WriteStep
<1>6. ASSUME NEW id \in DOMAIN g_handles, H!sizeFn(id) \/ H!closeFn(id) PROVE FsInv'
  BY <1>6, SizeStep, CloseStep
<1>7. CASE H!readFileBytes
  <2>1. answer' = H!Refused \/ "expected" \notin DOMAIN answer'
    BY <1>7 DEF H!readFileBytes
  <2>2. PathStep /\ UNCHANGED <<names, node>>
    BY <1>7, <2>1, Answers DEF H!readFileBytes, PathStep
  <2>3. FilesTyped'
    BY <2>2 DEF FsInv, FilesTyped, NodesTyped
  <2> QED BY <2>2, <2>3, PathStepKeeps
<1>8. CASE UNCHANGED H!vars
  BY <1>8 DEF FsInv, FilesTyped, NodesTyped, HandlesFollow, H!ReadsFollow, H!IsRead, H!vars,
             H!handleVars
<1>9. <<>> \in Seq(Nat) /\ <<3, 3, 3>> \in Seq(Nat) /\ TRUE \in BOOLEAN /\ 0 \in Nat
  OBVIOUS
<1>10. ASSUME NEW p \in Paths,
              \/ \E flags \in H!Modes : H!openFn(p, flags)
              \/ H!Ask(p) \/ H!readFileSize(p) \/ H!mkdir(p) \/ H!remove(p)
              \/ \E bytes \in {<<>>, <<3, 3, 3>>} : H!writeFile(p, bytes) \/ H!Other(p, bytes)
              \/ \E q \in Paths : H!symlink(q, p) \/ H!rename(q, p)
              \/ \E q \in Paths, b \in BOOLEAN : H!copy(q, p, b)
              \/ \E b \in BOOLEAN : H!chmod(p, b)
              \/ \E n \in {1, MaxLength} : H!truncate(p, n)
       PROVE  FsInv'
  <2>1. CASE \E flags \in H!Modes : H!openFn(p, flags)
    BY <1>1, <2>1
  <2>2. CASE H!Ask(p) \/ H!readFileSize(p)
    BY <1>2, <2>2
  <2>3. CASE H!mkdir(p) \/ H!remove(p)
    BY <1>3, <1>9, <2>3
  <2>4. CASE \E bytes \in {<<>>, <<3, 3, 3>>} : H!writeFile(p, bytes) \/ H!Other(p, bytes)
    BY <1>3, <1>9, <2>4
  <2>5. CASE \E q \in Paths : H!symlink(q, p) \/ H!rename(q, p)
    BY <1>3, <1>9, <2>5
  <2>6. CASE \E q \in Paths, b \in BOOLEAN : H!copy(q, p, b)
    BY <1>3, <1>9, <2>6
  <2>7. CASE \E b \in BOOLEAN : H!chmod(p, b)
    BY <1>3, <1>9, <2>7
  <2>8. CASE \E n \in {1, MaxLength} : H!truncate(p, n)
    <3>1. PICK n \in {1, MaxLength} : H!truncate(p, n)
      BY <2>8
    <3>2. n \in Nat
      BY DEF FileBounds
    <3> QED BY <1>3, <1>9, <3>1, <3>2
  <2> QED BY <1>10, <2>1, <2>2, <2>3, <2>4, <2>5, <2>6, <2>7, <2>8
<1>11. ASSUME NEW id \in DOMAIN g_handles,
              \/ \E at \in {H!NoOffset, 0, 1} :
                     \/ \E n \in {1, 2} : H!readFn(id, at, n)
                     \/ H!writeFn(id, at, 7)
              \/ H!sizeFn(id) \/ H!closeFn(id)
       PROVE  FsInv'
  BY <1>4, <1>5, <1>6, <1>11
<1> QED BY <1>7, <1>8, <1>10, <1>11 DEF H!Next

-----------------------------------------------------------------------------
(***************************************************************************)
(* For any number of files, handles and calls: a program that reads a      *)
(* handle gets the bytes of the file it opened, each at its place, its own *)
(* writes among them, whatever it asks in between and whatever becomes of  *)
(* the name (readFn, writeFn, sizeFn of api/fs/src/handles.cpp).           *)
(***************************************************************************)
THEOREM HandlesReadWhatIsThere == ASSUME FileBounds PROVE H!Spec => []ReadsFollow
<1>1. H!Init => FsInv
  BY FilesStart
<1>2. FsInv /\ [H!Next]_(H!vars) => FsInv'
  BY FilesStep
<1>3. FsInv => ReadsFollow
  BY DEF FsInv, ReadsFollow
<1> QED BY <1>1, <1>2, <1>3, PTL DEF H!Spec
==============================================================================
