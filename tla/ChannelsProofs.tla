---------------------------- MODULE ChannelsProofs ---------------------------
(***************************************************************************)
(* Proofs about the channels between the kernel and its clients, each for  *)
(* any number of steps and any number of what takes part in it:            *)
(*   - Outbox, for any number of emitting threads and operations;          *)
(*   - IoServer, the pipe of Windows and the socket of macOS, for any      *)
(*     number of clients and lines;                                        *)
(*   - ControlChannel, for any number of calls and any size of socket;     *)
(*   - Bridge, for any number of calls of the first document of a window.  *)
(***************************************************************************)
EXTENDS MCChannels, FiniteSetTheorems, SequenceTheorems, TLAPS

(***************************************************************************)
(* The flag outboxScheduled and the flush it stands for.  A flush on its   *)
(* way (a thread about to post it, or posted) has the flag set and is the  *)
(* only one; while the window lives and has a view the flag is set only    *)
(* for a flush on its way, and an operation in the outbox has the flag set *)
(* or a thread that is about to look at it.                                *)
(***************************************************************************)
FlagInv ==
    /\ flushes \in {0, 1}
    /\ flushes = 1 => outboxScheduled
    /\ \A e \in Emitters : pc[e] = "post" =>
        /\ outboxScheduled
        /\ flushes = 0
        /\ \A f \in Emitters \ {e} : pc[f] # "post"
    /\ alive /\ hasView /\ outboxScheduled =>
        flushes = 1 \/ \E e \in Emitters : pc[e] = "post"
    /\ alive /\ hasView /\ outbox # <<>> =>
        outboxScheduled \/ \E e \in Emitters : pc[e] = "queued"

IInv == TypeOK /\ FlagInv

-----------------------------------------------------------------------------
LEMMA OutboxInit == Init => IInv
<1> SUFFICES ASSUME Init PROVE IInv
    OBVIOUS
<1>1. outbox \in Seq(Op) /\ delivered \in Seq(Op)
  BY DEF Init
<1>2. /\ pc \in [Emitters -> {"idle", "queued", "post"}]
      /\ emitted \in [Emitters -> 0 .. MaxOps]
  BY MaxOpsAssumption DEF Init
<1>3. TypeOK
  BY <1>1, <1>2 DEF Init, TypeOK
<1> QED BY <1>3 DEF Init, IInv, FlagInv

(***************************************************************************)
(* The types, step by step.                                                *)
(***************************************************************************)
LEMMA OutboxTypes == TypeOK /\ [Next]_vars => TypeOK'
<1> SUFFICES ASSUME TypeOK, [Next]_vars
             PROVE  TypeOK'
    OBVIOUS
<1> USE MaxOpsAssumption
<1>0. /\ outbox \in Seq(Op) /\ delivered \in Seq(Op)
      /\ outboxScheduled \in BOOLEAN
      /\ flushes \in Nat /\ evals \in Nat
  BY DEF TypeOK
<1>1. ASSUME NEW e \in Emitters, EnqueueOp(e)
      PROVE  TypeOK'
  <2>1. emitted[e] + 1 \in 1 .. MaxOps /\ emitted' = [emitted EXCEPT ![e] = emitted[e] + 1]
    <3>1. emitted[e] \in Nat /\ emitted[e] < MaxOps
      BY <1>1 DEF EnqueueOp, TypeOK
    <3>2. emitted' = [emitted EXCEPT ![e] = emitted[e] + 1]
      BY <1>1 DEF EnqueueOp
    <3> QED BY <3>1, <3>2
  <2>2. emitted'[e] = emitted[e] + 1
    BY <2>1 DEF TypeOK
  <2>3. <<e, emitted'[e]>> \in Op
    BY <2>1, <2>2 DEF Op
  <2>4. outbox' \in Seq(Op)
    BY <1>1, <2>3 DEF EnqueueOp, TypeOK
  <2>5. emitted' \in [Emitters -> 0 .. MaxOps]
    BY <2>1 DEF TypeOK
  <2>6. pc' \in [Emitters -> {"idle", "queued", "post"}]
    BY <1>1 DEF EnqueueOp, TypeOK
  <2> QED BY <1>1, <2>4, <2>5, <2>6 DEF EnqueueOp, TypeOK
<1>2. ASSUME NEW e \in Emitters, ScheduleFlush(e) \/ PostFlush(e)
      PROVE  TypeOK'
  <2>1. pc' \in [Emitters -> {"idle", "queued", "post"}]
    BY <1>2 DEF ScheduleFlush, PostFlush, TypeOK
  <2>2. outboxScheduled' \in BOOLEAN /\ flushes' \in Nat
    <3>1. CASE ScheduleFlush(e)
      BY <1>0, <3>1 DEF ScheduleFlush
    <3>2. CASE PostFlush(e)
      BY <1>0, <3>2 DEF PostFlush
    <3> QED BY <1>2, <3>1, <3>2
  <2>3. UNCHANGED <<outbox, alive, hasView, emitted, delivered, evals>>
    BY <1>2 DEF ScheduleFlush, PostFlush
  <2> QED BY <2>1, <2>2, <2>3 DEF TypeOK
<1>3. CASE FlushOutbox
  <2>1. outbox' \in Seq(Op) /\ flushes' \in Nat
    <3>1. outbox' = outbox \/ outbox' = <<>>
      BY <1>3 DEF FlushOutbox
    <3>2. flushes > 0 /\ flushes' = flushes - 1
      BY <1>3 DEF FlushOutbox
    <3>3. <<>> \in Seq(Op)
      OBVIOUS
    <3>4. outbox' \in Seq(Op)
      BY <1>0, <3>1, <3>3
    <3>5. flushes' \in Nat
      BY <1>0, <3>2
    <3> QED BY <3>4, <3>5
  <2>2. delivered' \in Seq(Op) /\ evals' \in Nat
    <3>1. CASE alive /\ hasView
      <4>1. delivered \o outbox \in Seq(Op)
        BY <1>0
      <4>2. EvalBatch
        BY <1>3, <3>1 DEF FlushOutbox
      <4>3. evals' = evals \/ evals' = evals + 1
        BY <4>2 DEF EvalBatch
      <4>4. delivered' \in Seq(Op)
        BY <4>1, <4>2 DEF EvalBatch
      <4> QED BY <1>0, <4>3, <4>4
    <3>2. CASE ~(alive /\ hasView)
      BY <1>0, <1>3, <3>2 DEF FlushOutbox
    <3> QED BY <3>1, <3>2
  <2>3. outboxScheduled' \in BOOLEAN
    BY <1>0, <1>3 DEF FlushOutbox
  <2> QED BY <1>3, <2>1, <2>2, <2>3 DEF FlushOutbox, TypeOK
<1>4. CASE DeleteWindow
  BY <1>4 DEF DeleteWindow, TypeOK
<1>5. CASE UNCHANGED vars
  BY <1>5 DEF vars, TypeOK
<1> QED BY <1>1, <1>2, <1>3, <1>4, <1>5 DEF Next

(***************************************************************************)
(* The flag, step by step.                                                 *)
(***************************************************************************)
LEMMA OutboxFlag == IInv /\ [Next]_vars => FlagInv'
<1> SUFFICES ASSUME IInv, [Next]_vars
             PROVE  FlagInv'
    OBVIOUS
<1>0. pc \in [Emitters -> {"idle", "queued", "post"}] /\ FlagInv
  BY DEF IInv, TypeOK
<1>1. ASSUME NEW e \in Emitters, EnqueueOp(e)
      PROVE  FlagInv'
  BY <1>0, <1>1 DEF EnqueueOp, FlagInv
<1>2. ASSUME NEW e \in Emitters, ScheduleFlush(e)
      PROVE  FlagInv'
  BY <1>0, <1>2 DEF ScheduleFlush, FlagInv
<1>3. ASSUME NEW e \in Emitters, PostFlush(e)
      PROVE  FlagInv'
  BY <1>0, <1>3 DEF PostFlush, FlagInv
<1>4. CASE FlushOutbox
  BY <1>0, <1>4 DEF FlushOutbox, FlagInv
<1>5. CASE DeleteWindow
  BY <1>0, <1>5 DEF DeleteWindow, FlagInv
<1>6. CASE UNCHANGED vars
  BY <1>0, <1>6 DEF vars, FlagInv
<1> QED BY <1>1, <1>2, <1>3, <1>4, <1>5, <1>6 DEF Next

LEMMA OutboxAlways == Spec => []IInv
<1>1. IInv /\ [Next]_vars => IInv'
  BY OutboxTypes, OutboxFlag DEF IInv
<1> QED BY <1>1, OutboxInit, PTL DEF Spec

(***************************************************************************)
(* The variables of the outbox keep their types.                           *)
(***************************************************************************)
THEOREM OutboxTypeCorrect == Spec => []TypeOK
<1>1. IInv => TypeOK
  BY DEF IInv
<1> QED BY <1>1, OutboxAlways, PTL

(***************************************************************************)
(* However many threads emit, the flag never silences the last emission.   *)
(***************************************************************************)
THEOREM FlushNeverLost == Spec => []NoLostFlush
<1>1. IInv => NoLostFlush
  BY DEF IInv, FlagInv, NoLostFlush
<1> QED BY <1>1, OutboxAlways, PTL

(***************************************************************************)
(* However many threads emit, one flush at most is on its way: one         *)
(* evaluation per tick.                                                    *)
(***************************************************************************)
THEOREM OneFlushAtATime == Spec => []OneFlushPerTick
<1>1. IInv => OneFlushPerTick
  BY DEF IInv, FlagInv, OneFlushPerTick
<1> QED BY <1>1, OutboxAlways, PTL

-----------------------------------------------------------------------------
(***************************************************************************)
(* The outbox implements the FIFO channel: an emission is Emit, a flush    *)
(* that finds operations is DeliverAll, everything else changes nothing    *)
(* the channel speaks of.                                                  *)
(***************************************************************************)
LEMMA ChannelStep ==
    ASSUME TypeOK, [Next]_vars
    PROVE  [Channel!Next]_(Channel!vars)
<1> USE DEF Channel!Next, Channel!vars, Channel!Emit, Channel!DeliverAll
<1>1. ASSUME NEW e \in Emitters, EnqueueOp(e)
      PROVE  Channel!Next
  <2>1. emitted'[e] \in 1 .. MaxOps
    BY <1>1, MaxOpsAssumption DEF EnqueueOp, TypeOK
  <2>2. <<e, emitted'[e]>> \in Op
    BY <2>1 DEF Op
  <2>3. outbox' = Append(outbox, <<e, emitted'[e]>>) /\ UNCHANGED delivered
    BY <1>1 DEF EnqueueOp
  <2> QED BY <2>2, <2>3
<1>2. ASSUME NEW e \in Emitters, ScheduleFlush(e) \/ PostFlush(e)
      PROVE  UNCHANGED <<outbox, delivered>>
  BY <1>2 DEF ScheduleFlush, PostFlush
<1>3. CASE FlushOutbox
  <2>1. CASE alive /\ hasView /\ outbox # <<>>
    BY <1>3, <2>1 DEF FlushOutbox, EvalBatch
  <2>2. CASE alive /\ hasView /\ outbox = <<>>
    <3>1. delivered' = delivered /\ outbox' = outbox
      <4>1. delivered \o <<>> = delivered
        BY DEF TypeOK
      <4> QED BY <1>3, <2>2, <4>1 DEF FlushOutbox, EvalBatch
    <3> QED BY <3>1
  <2>3. CASE ~(alive /\ hasView)
    BY <1>3, <2>3 DEF FlushOutbox
  <2> QED BY <2>1, <2>2, <2>3
<1>4. CASE DeleteWindow
  BY <1>4 DEF DeleteWindow
<1>5. CASE UNCHANGED vars
  BY <1>5 DEF vars
<1> QED BY <1>1, <1>2, <1>3, <1>4, <1>5 DEF Next

(***************************************************************************)
(* What is emitted is delivered in order, each operation at most once and  *)
(* none skipped.                                                           *)
(***************************************************************************)
THEOREM OutboxImplementsChannel == Spec => ImplementsChannel
<1>1. Init => Channel!Init
  BY DEF Init, Channel!Init
<1>2. IInv /\ [Next]_vars => [Channel!Next]_(Channel!vars)
  BY ChannelStep DEF IInv
<1> QED BY <1>1, <1>2, OutboxAlways, PTL DEF Spec, ImplementsChannel, Channel!Spec
-----------------------------------------------------------------------------
(***************************************************************************)
(* IoServer.  The lines that were posted, handled or not, come in order;   *)
(* the lines of a served client go up to the number p that what is left of *)
(* its stream leaves: 2 * (written - p) units are not posted, the one in   *)
(* its buffer among them.  An id is used for one client, so a line in the  *)
(* queue carries the id of its own client or of nobody.                    *)
(***************************************************************************)
\* What was handled, followed by what is in the queue.
Join(h, q) == h \o [k \in 1 .. Len(q) |-> <<q[k][3], q[k][2]>>]
Posted == Join(handled, queue)

Covers(list, c, p) ==
    /\ \A k \in 1 .. Len(list) : list[k][1] = c => list[k][2] <= p
    /\ p = 0 \/ \E k \in 1 .. Len(list) : list[k] = <<c, p>>

Had(id) == IF half[id] THEN 1 ELSE 0

IoTyped ==
    /\ conn \in [Clients -> {"away", "waiting", "open", "refused", "left"}]
    /\ stream \in [Clients -> Nat] /\ written \in [Clients -> Nat]
    /\ clientOf \in [DOMAIN clientOf -> Clients \cup {NoClient}]
    /\ DOMAIN clientOf = Win!ClientIds /\ nextClientId \in Nat
    /\ half \in [DOMAIN clientOf -> BOOLEAN]
    /\ queue \in Seq(Nat \X Nat \X Clients)
    /\ handled \in Seq(Clients \X Nat)
    /\ answersTo \in [Clients -> SUBSET Clients]

IdsUsedOnce ==
    /\ \A i \in DOMAIN clientOf : clientOf[i] # NoClient => i < nextClientId
    /\ \A i, j \in DOMAIN clientOf :
           clientOf[i] = clientOf[j] /\ clientOf[i] # NoClient => i = j
    /\ \A k \in 1 .. Len(queue) :
           /\ queue[k][1] \in DOMAIN clientOf /\ queue[k][1] < nextClientId
           /\ clientOf[queue[k][1]] \in {queue[k][3], NoClient}

StreamsFollow ==
    \A id \in DOMAIN clientOf : clientOf[id] # NoClient =>
        \E p \in Nat : /\ 2 * (written[clientOf[id]] - p) = stream[clientOf[id]] + Had(id)
                       /\ Covers(Posted, clientOf[id], p)

IoInv ==
    /\ IoTyped /\ IdsUsedOnce /\ StreamsFollow
    /\ Win!InOrder(Posted)
    /\ \A c \in Clients : answersTo[c] \subseteq {c}

\* A client of which nothing was posted and that nobody serves.
Unserved(c) == \A i \in DOMAIN clientOf : clientOf[i] # c
Fresh(c) ==
    /\ stream[c] = 2 * written[c]
    /\ \A k \in 1 .. Len(Posted) : Posted[k][1] # c

WinFresh ==
    \A c \in Clients : conn[c] \in {"away", "waiting"} => Fresh(c) /\ Unserved(c)

MacFresh ==
    \A c \in Clients :
        /\ running /\ Unserved(c) /\ conn[c] # "refused"
        /\ conn[c] = "left" => stream[c] # 0
        => Fresh(c)

-----------------------------------------------------------------------------
LEMMA SameIds == Win!ClientIds = Mac!ClientIds /\ Win!ClientIds \subseteq Nat
<1>1. \A S : Win!Cardinality(S) = Mac!Cardinality(S)
  BY Zenon DEF Win!Cardinality, Mac!Cardinality
<1>2. Win!ClientIds = Mac!ClientIds
  BY <1>1 DEF Win!ClientIds, Mac!ClientIds
<1>3. Win!ClientIds \subseteq Nat
  BY DEF Win!ClientIds
<1> QED BY <1>2, <1>3

LEMMA Joined ==
    ASSUME NEW h \in Seq(Clients \X Nat), NEW q \in Seq(Nat \X Nat \X Clients)
    PROVE  /\ Join(h, q) \in Seq(Clients \X Nat)
           /\ Len(Join(h, q)) = Len(h) + Len(q)
           /\ \A k \in 1 .. Len(h) : Join(h, q)[k] = h[k]
           /\ \A k \in 1 .. Len(q) : Join(h, q)[Len(h) + k] = <<q[k][3], q[k][2]>>
<1> DEFINE P == Join(h, q)
           rest == [k \in 1 .. Len(q) |-> <<q[k][3], q[k][2]>>]
<1>1. rest \in Seq(Clients \X Nat) /\ Len(rest) = Len(q)
  <2>1. \A k \in 1 .. Len(q) : <<q[k][3], q[k][2]>> \in Clients \X Nat
    <3> SUFFICES ASSUME NEW k \in 1 .. Len(q)
                 PROVE  <<q[k][3], q[k][2]>> \in Clients \X Nat
      OBVIOUS
    <3>1. q[k] \in Nat \X Nat \X Clients
      OBVIOUS
    <3> QED BY <3>1
  <2>2. Len(q) \in Nat
    OBVIOUS
  <2> QED BY <2>1, <2>2
<1>2. P = h \o rest
  BY DEF Join
<1>3. \A k \in 1 .. Len(q) : rest[k] = <<q[k][3], q[k][2]>>
  OBVIOUS
<1> HIDE DEF rest, P
<1>4. Len(h) \in Nat /\ Len(rest) \in Nat
  BY <1>1
<1>5. /\ P \in Seq(Clients \X Nat)
      /\ Len(P) = Len(h) + Len(rest)
      /\ \A k \in 1 .. Len(h) + Len(rest) :
             P[k] = IF k <= Len(h) THEN h[k] ELSE rest[k - Len(h)]
  BY <1>1, <1>2, ConcatProperties
<1>6. \A k \in 1 .. Len(h) : P[k] = h[k]
  BY <1>4, <1>5
<1>7. ASSUME NEW k \in 1 .. Len(q)
      PROVE  P[Len(h) + k] = <<q[k][3], q[k][2]>>
  <2>1. /\ Len(h) + k \in 1 .. Len(h) + Len(rest)
        /\ ~(Len(h) + k <= Len(h))
        /\ (Len(h) + k) - Len(h) = k
    BY <1>1, <1>4
  <2> QED BY <1>3, <1>5, <2>1
<1> QED BY <1>1, <1>5, <1>6, <1>7 DEF P

\* M is L with m more lines of one client, from the one after its line p.
GoesOn(L, M, c, p, m) ==
    /\ L \in Seq(Clients \X Nat) /\ M \in Seq(Clients \X Nat)
    /\ c \in Clients /\ p \in Nat /\ m \in Nat
    /\ Len(M) = Len(L) + m
    /\ \A k \in 1 .. Len(L) : M[k] = L[k]
    /\ \A k \in 1 .. m : M[Len(L) + k] = <<c, p + k>>

LEMMA MoreLines ==
    ASSUME NEW L, NEW M, NEW c, NEW p, NEW m, GoesOn(L, M, c, p, m),
           Win!InOrder(L), Covers(L, c, p)
    PROVE  /\ Win!InOrder(M)
           /\ Covers(M, c, p + m)
           /\ \A d \in Clients : d # c =>
                  /\ \A q \in Nat : Covers(L, d, q) => Covers(M, d, q)
                  /\ (\A k \in 1 .. Len(L) : L[k][1] # d) =>
                         (\A k \in 1 .. Len(M) : M[k][1] # d)
<1> USE DEF GoesOn
<1>0. Len(L) \in Nat /\ Len(M) \in Nat /\ Len(M) = Len(L) + m
  OBVIOUS
<1>1. /\ \A k \in 1 .. Len(L) : L[k] \in Clients \X Nat /\ k \in 1 .. Len(M)
      /\ \A k \in 1 .. m : Len(L) + k \in 1 .. Len(M)
  BY <1>0
<1>2. \A k \in 1 .. Len(M) : k \in 1 .. Len(L) \/ \E i \in 1 .. m : k = Len(L) + i
  <2> SUFFICES ASSUME NEW k \in 1 .. Len(M), k \notin 1 .. Len(L)
               PROVE  k - Len(L) \in 1 .. m /\ k = Len(L) + (k - Len(L))
    OBVIOUS
  <2> QED BY <1>0
<1>3. ASSUME NEW i \in 1 .. m
      PROVE  M[Len(L) + i][1] = c /\ M[Len(L) + i][2] = p + i
  <2>1. M[Len(L) + i] = <<c, p + i>>
    OBVIOUS
  <2> QED BY <2>1
<1>4. ASSUME NEW k \in 1 .. Len(M)
      PROVE  /\ \A j \in 1 .. k - 1 : M[j][1] = M[k][1] => M[j][2] < M[k][2]
             /\ M[k][2] = 1 \/ \E j \in 1 .. k - 1 : M[j] = <<M[k][1], M[k][2] - 1>>
  <2>1. CASE k \in 1 .. Len(L)
    <3>1. \A j \in 1 .. k - 1 : M[j] = L[j]
      <4>1. \A j \in 1 .. k - 1 : j \in 1 .. Len(L)
        BY <1>0, <2>1
      <4> QED BY <4>1
    <3>2. M[k] = L[k]
      BY <2>1
    <3>3. /\ \A j \in 1 .. k - 1 : L[j][1] = L[k][1] => L[j][2] < L[k][2]
          /\ L[k][2] = 1 \/ \E j \in 1 .. k - 1 : L[j] = <<L[k][1], L[k][2] - 1>>
      BY <2>1, Zenon DEF Win!InOrder
    <3> QED BY <3>1, <3>2, <3>3, Zenon
  <2>2. ASSUME NEW i \in 1 .. m, k = Len(L) + i
        PROVE  /\ \A j \in 1 .. k - 1 : M[j][1] = M[k][1] => M[j][2] < M[k][2]
               /\ M[k][2] = 1 \/ \E j \in 1 .. k - 1 : M[j] = <<M[k][1], M[k][2] - 1>>
    <3>1. M[k][1] = c /\ M[k][2] = p + i /\ i \in Nat /\ i >= 1
      BY <1>3, <2>2
    <3>2. ASSUME NEW j \in 1 .. k - 1, M[j][1] = c PROVE M[j][2] < p + i
      <4>1. j \in 1 .. Len(M) /\ j < Len(L) + i
        <5>1. i \in Nat /\ i <= m
          BY <3>1
        <5> HIDE DEF GoesOn
        <5> QED BY <1>0, <2>2, <5>1
      <4>2. CASE j \in 1 .. Len(L)
        <5>1. M[j] = L[j] /\ L[j] \in Clients \X Nat
          BY <1>1, <4>2
        <5>2. L[j][2] <= p /\ L[j][2] \in Nat
          BY <3>2, <4>2, <5>1 DEF Covers
        <5> QED BY <3>1, <5>1, <5>2
      <4>3. ASSUME NEW e \in 1 .. m, j = Len(L) + e PROVE M[j][2] < p + i
        <5>1. M[j][2] = p + e
          BY <1>3, <4>3
        <5>2. e < i
          BY <1>0, <3>1, <4>1, <4>3
        <5> QED BY <3>1, <5>1, <5>2
      <4> QED BY <1>2, <4>1, <4>2, <4>3
    <3>3. p + i = 1 \/ \E j \in 1 .. k - 1 : M[j] = <<c, p + i - 1>>
      <4>1. CASE i = 1 /\ p = 0
        BY <4>1
      <4>2. CASE i = 1 /\ p # 0
        <5>1. PICK j \in 1 .. Len(L) : L[j] = <<c, p>>
          BY <4>2 DEF Covers
        <5>2. j \in 1 .. k - 1 /\ p + i - 1 = p
          BY <1>0, <2>2, <4>2
        <5>3. M[j] = <<c, p>>
          BY <5>1
        <5> QED BY <5>2, <5>3
      <4>3. CASE i # 1
        <5>1. i - 1 \in 1 .. m /\ Len(L) + (i - 1) \in 1 .. k - 1
          BY <1>0, <2>2, <4>3
        <5>2. M[Len(L) + (i - 1)] = <<c, p + (i - 1)>>
          BY <5>1
        <5>3. p + (i - 1) = p + i - 1
          OBVIOUS
        <5> QED BY <5>1, <5>2, <5>3
      <4> QED BY <4>1, <4>2, <4>3
    <3> QED BY <3>1, <3>2, <3>3
  <2> QED BY <1>2, <2>1, <2>2
<1>5. Win!InOrder(M)
  BY <1>4, Zenon DEF Win!InOrder
<1>6. Covers(M, c, p + m)
  <2>1. ASSUME NEW k \in 1 .. Len(M), M[k][1] = c PROVE M[k][2] <= p + m
    <3>1. CASE k \in 1 .. Len(L)
      <4>1. M[k] = L[k] /\ L[k][2] \in Nat /\ L[k][2] <= p
        BY <1>1, <2>1, <3>1 DEF Covers
      <4> QED BY <4>1
    <3>2. ASSUME NEW e \in 1 .. m, k = Len(L) + e PROVE M[k][2] <= p + m
      <4>1. M[k][2] = p + e
        BY <1>3, <3>2
      <4> QED BY <4>1
    <3> QED BY <1>2, <3>1, <3>2
  <2>2. p + m = 0 \/ \E k \in 1 .. Len(M) : M[k] = <<c, p + m>>
    <3>1. CASE m = 0
      <4>1. p + m = p
        BY <3>1
      <4>2. CASE p = 0
        BY <4>1, <4>2
      <4>3. CASE p # 0
        <5>1. PICK k \in 1 .. Len(L) : L[k] = <<c, p>>
          BY <4>3 DEF Covers
        <5>2. k \in 1 .. Len(M) /\ M[k] = <<c, p>>
          BY <1>1, <5>1
        <5> QED BY <4>1, <5>2
      <4> QED BY <4>2, <4>3
    <3>2. CASE m # 0
      <4>1. m \in 1 .. m /\ Len(L) + m \in 1 .. Len(M)
        BY <1>0, <3>2
      <4> QED BY <4>1
    <3> QED BY <3>1, <3>2
  <2> QED BY <2>1, <2>2 DEF Covers
<1>7. ASSUME NEW d \in Clients, d # c
      PROVE  /\ \A q \in Nat : Covers(L, d, q) => Covers(M, d, q)
             /\ (\A k \in 1 .. Len(L) : L[k][1] # d) => (\A k \in 1 .. Len(M) : M[k][1] # d)
  <2>1. ASSUME NEW k \in 1 .. Len(M), M[k][1] = d PROVE k \in 1 .. Len(L) /\ M[k] = L[k]
    BY <1>2, <1>3, <1>7, <2>1
  <2>2. ASSUME NEW q \in Nat, Covers(L, d, q) PROVE Covers(M, d, q)
    <3>1. \A k \in 1 .. Len(M) : M[k][1] = d => M[k][2] <= q
      BY <2>1, <2>2 DEF Covers
    <3>2. q = 0 \/ \E k \in 1 .. Len(M) : M[k] = <<d, q>>
      BY <1>1, <2>2 DEF Covers
    <3> QED BY <3>1, <3>2 DEF Covers
  <2>3. (\A k \in 1 .. Len(L) : L[k][1] # d) => (\A k \in 1 .. Len(M) : M[k][1] # d)
    BY <2>1
  <2> QED BY <2>2, <2>3
<1> QED BY <1>5, <1>6, <1>7

\* What a client sent and what was posted of it are as they were.
LEMMA NothingPosted ==
    ASSUME UNCHANGED <<queue, handled>>
    PROVE  /\ Posted' = Posted
           /\ \A c \in Clients, p \in Nat : Covers(Posted, c, p)' <=> Covers(Posted, c, p)
           /\ Win!InOrder(Posted)' <=> Win!InOrder(Posted)
<1>1. Posted' = Posted
  BY DEF Posted
<1>2. \A c \in Clients, p \in Nat : Covers(Posted, c, p)' <=> Covers(Posted, c, p)
  BY <1>1 DEF Covers
<1>3. Win!InOrder(Posted)' <=> Win!InOrder(Posted)
  BY <1>1 DEF Win!InOrder
<1> QED BY <1>1, <1>2, <1>3

\* Steps of the connections only.
LEMMA ConnectionsOnly ==
    ASSUME IoInv, conn' \in [Clients -> {"away", "waiting", "open", "refused", "left"}],
           UNCHANGED <<stream, written, clientOf, half, nextClientId, queue, handled,
                       answersTo>>
    PROVE  IoInv' /\ \A c \in Clients : (Fresh(c)' <=> Fresh(c)) /\ (Unserved(c)' <=> Unserved(c))
<1>1. Posted' = Posted /\ Win!InOrder(Posted)'
  BY NothingPosted DEF IoInv
<1>2. IoTyped' /\ IdsUsedOnce'
  BY DEF IoInv, IoTyped, IdsUsedOnce
<1>3. StreamsFollow'
  BY <1>1 DEF IoInv, StreamsFollow, Had, Covers
<1>4. \A c \in Clients : (Fresh(c)' <=> Fresh(c)) /\ (Unserved(c)' <=> Unserved(c))
  BY <1>1 DEF Fresh, Unserved
<1> QED BY <1>1, <1>2, <1>3, <1>4 DEF IoInv

LEMMA LineSent ==
    ASSUME IoInv, NEW c \in Clients,
           written' = [written EXCEPT ![c] = @ + 1],
           stream' = [stream EXCEPT ![c] = @ + 2],
           UNCHANGED <<conn, clientOf, half, nextClientId, queue, handled, answersTo>>
    PROVE  /\ IoInv'
           /\ \A d \in Clients : (Fresh(d) => Fresh(d)') /\ (Unserved(d)' <=> Unserved(d))
<1>1. Posted' = Posted /\ Win!InOrder(Posted)'
  BY NothingPosted DEF IoInv
<1>2. IoTyped' /\ IdsUsedOnce'
  BY DEF IoInv, IoTyped, IdsUsedOnce
<1>3. ASSUME NEW d \in Clients
      PROVE  /\ stream[d] \in Nat /\ written[d] \in Nat
             /\ d = c => written'[d] = written[d] + 1 /\ stream'[d] = stream[d] + 2
             /\ d # c => written'[d] = written[d] /\ stream'[d] = stream[d]
  BY DEF IoInv, IoTyped
<1>4. StreamsFollow'
  <2> SUFFICES ASSUME NEW id \in DOMAIN clientOf, clientOf[id] # NoClient
               PROVE  \E p \in Nat :
                          /\ 2 * (written'[clientOf[id]] - p) = stream'[clientOf[id]] + Had(id)'
                          /\ Covers(Posted', clientOf[id], p)
    BY DEF StreamsFollow
  <2>1. PICK p \in Nat : /\ 2 * (written[clientOf[id]] - p) = stream[clientOf[id]] + Had(id)
                         /\ Covers(Posted, clientOf[id], p)
    BY DEF IoInv, StreamsFollow
  <2>2. Had(id)' = Had(id) /\ Had(id) \in Nat /\ clientOf[id] \in Clients
    BY DEF Had, IoInv, IoTyped
  <2>3. 2 * (written'[clientOf[id]] - p) = stream'[clientOf[id]] + Had(id)'
    <3> DEFINE d == clientOf[id]
    <3>1. /\ stream[d] \in Nat /\ written[d] \in Nat
          /\ d = c => written'[d] = written[d] + 1 /\ stream'[d] = stream[d] + 2
          /\ d # c => written'[d] = written[d] /\ stream'[d] = stream[d]
      BY <1>3, <2>2
    <3>2. 2 * (written[d] - p) = stream[d] + Had(id)
      BY <2>1
    <3> HIDE DEF d
    <3>3. 2 * (written'[d] - p) = stream'[d] + Had(id)
      <4>1. CASE d = c
        BY <2>2, <3>1, <3>2, <4>1
      <4>2. CASE d # c
        BY <2>2, <3>1, <3>2, <4>2
      <4> QED BY <4>1, <4>2
    <3> QED BY <2>2, <3>3 DEF d
  <2> QED BY <1>1, <2>1, <2>3
<1>5. ASSUME NEW d \in Clients PROVE (Fresh(d) => Fresh(d)') /\ (Unserved(d)' <=> Unserved(d))
  <2>1. Fresh(d) => Fresh(d)'
    <3> SUFFICES ASSUME Fresh(d) PROVE Fresh(d)'
      OBVIOUS
    <3>1. stream[d] = 2 * written[d]
      BY DEF Fresh
    <3>2. stream'[d] = 2 * written'[d]
      BY <1>3, <3>1
    <3> QED BY <1>1, <3>2 DEF Fresh
  <2> QED BY <2>1 DEF Unserved
<1> QED BY <1>1, <1>2, <1>4, <1>5 DEF IoInv

\* A client that was refused has what it sent thrown away.
LEMMA ClientRefused ==
    ASSUME IoInv, NEW c \in Clients, Unserved(c),
           stream' = [stream EXCEPT ![c] = 0],
           conn' = [conn EXCEPT ![c] = "refused"],
           UNCHANGED <<written, clientOf, half, nextClientId, queue, handled, answersTo>>
    PROVE  /\ IoInv'
           /\ \A d \in Clients : (d # c => (Fresh(d)' <=> Fresh(d))) /\ (Unserved(d)' <=> Unserved(d))
<1>1. Posted' = Posted /\ Win!InOrder(Posted)'
  BY NothingPosted DEF IoInv
<1>2. IoTyped' /\ IdsUsedOnce'
  BY DEF IoInv, IoTyped, IdsUsedOnce
<1>3. \A d \in Clients : d # c => stream'[d] = stream[d]
  BY DEF IoInv, IoTyped
<1>4. StreamsFollow'
  <2>1. ASSUME NEW id \in DOMAIN clientOf, clientOf[id] # NoClient
        PROVE  stream'[clientOf[id]] = stream[clientOf[id]] /\ Had(id)' = Had(id)
    BY <1>3, <2>1 DEF Unserved, IoInv, IoTyped, Had
  <2> QED BY <1>1, <2>1 DEF IoInv, StreamsFollow
<1>5. \A d \in Clients : (d # c => (Fresh(d)' <=> Fresh(d))) /\ (Unserved(d)' <=> Unserved(d))
  BY <1>1, <1>3 DEF Fresh, Unserved
<1> QED BY <1>1, <1>2, <1>4, <1>5 DEF IoInv

LEMMA ClientRegistered ==
    ASSUME IoInv, NoClient \notin Clients, NEW c \in Clients, Fresh(c), Unserved(c),
           clientOf' = [clientOf EXCEPT ![nextClientId] = c],
           half' = [half EXCEPT ![nextClientId] = FALSE],
           nextClientId' = nextClientId + 1,
           conn' \in [Clients -> {"away", "waiting", "open", "refused", "left"}],
           UNCHANGED <<stream, written, queue, handled, answersTo>>
    PROVE  /\ IoInv'
           /\ \A d \in Clients : (Fresh(d)' <=> Fresh(d)) /\ (d # c => (Unserved(d)' <=> Unserved(d)))
<1>1. Posted' = Posted /\ Win!InOrder(Posted)'
  BY NothingPosted DEF IoInv
<1>2. /\ DOMAIN clientOf' = DOMAIN clientOf
      /\ \A i \in DOMAIN clientOf :
             /\ i = nextClientId => clientOf'[i] = c /\ half'[i] = FALSE
             /\ i # nextClientId => clientOf'[i] = clientOf[i] /\ half'[i] = half[i]
  BY DEF IoInv, IoTyped
<1>3. \A i \in DOMAIN clientOf : i = nextClientId => clientOf[i] = NoClient
  <2>1. nextClientId \in Nat /\ ~(nextClientId < nextClientId)
    BY DEF IoInv, IoTyped
  <2>2. \A i \in DOMAIN clientOf : clientOf[i] # NoClient => i < nextClientId
    BY DEF IoInv, IdsUsedOnce
  <2> SUFFICES ASSUME nextClientId \in DOMAIN clientOf, clientOf[nextClientId] # NoClient
               PROVE  FALSE
    OBVIOUS
  <2>3. nextClientId < nextClientId
    BY <2>2
  <2> QED BY <2>1, <2>3
<1>4. IoTyped'
  <2>1. nextClientId + 1 \in Nat
    BY DEF IoInv, IoTyped
  <2>2. clientOf' \in [DOMAIN clientOf -> Clients \cup {NoClient}]
    BY DEF IoInv, IoTyped
  <2>3. half' \in [DOMAIN clientOf -> BOOLEAN]
    BY DEF IoInv, IoTyped
  <2> QED BY <1>2, <2>1, <2>2, <2>3 DEF IoInv, IoTyped
<1>5. IdsUsedOnce'
  <2>1. \A i \in DOMAIN clientOf : i \in Nat /\ nextClientId \in Nat
    BY SameIds DEF IoInv, IoTyped
  <2>2. \A i \in DOMAIN clientOf' : clientOf'[i] # NoClient => i < nextClientId'
    BY <1>2, <2>1 DEF IoInv, IdsUsedOnce
  <2>3. \A i, j \in DOMAIN clientOf' :
            clientOf'[i] = clientOf'[j] /\ clientOf'[i] # NoClient => i = j
    BY <1>2 DEF IoInv, IdsUsedOnce, Unserved
  <2>4. ASSUME NEW k \in 1 .. Len(queue')
        PROVE  /\ queue'[k][1] \in DOMAIN clientOf' /\ queue'[k][1] < nextClientId'
               /\ clientOf'[queue'[k][1]] \in {queue'[k][3], NoClient}
    <3>2. /\ queue[k][1] \in DOMAIN clientOf /\ queue[k][1] < nextClientId
          /\ clientOf[queue[k][1]] \in {queue[k][3], NoClient}
      BY DEF IoInv, IdsUsedOnce
    <3>3. queue[k][1] # nextClientId /\ queue[k][1] < nextClientId'
      BY <2>1, <3>2
    <3> QED BY <1>2, <3>2, <3>3
  <2> QED BY <2>2, <2>3, <2>4 DEF IdsUsedOnce
<1>6. StreamsFollow'
  <2> SUFFICES ASSUME NEW id \in DOMAIN clientOf', clientOf'[id] # NoClient
               PROVE  \E p \in Nat :
                          /\ 2 * (written[clientOf'[id]] - p) = stream[clientOf'[id]] + Had(id)'
                          /\ Covers(Posted, clientOf'[id], p)
    BY <1>1 DEF StreamsFollow
  <2>1. CASE id = nextClientId
    <3>1. clientOf'[id] = c /\ Had(id)' = 0
      BY <1>2, <2>1 DEF Had
    <3>2. /\ 2 * (written[c] - 0) = stream[c] + 0
          /\ Covers(Posted, c, 0)
      <4>1. stream[c] = 2 * written[c] /\ written[c] \in Nat
        BY DEF Fresh, IoInv, IoTyped
      <4> QED BY <4>1 DEF Fresh, Covers
    <3> QED BY <3>1, <3>2
  <2>2. CASE id # nextClientId
    <3>1. clientOf'[id] = clientOf[id] /\ Had(id)' = Had(id) /\ id \in DOMAIN clientOf
      BY <1>2, <2>2 DEF Had
    <3> QED BY <3>1 DEF IoInv, StreamsFollow
  <2> QED BY <2>1, <2>2
<1>7. \A d \in Clients : (Fresh(d)' <=> Fresh(d)) /\ (d # c => (Unserved(d)' <=> Unserved(d)))
  <2>1. \A d \in Clients : Fresh(d)' <=> Fresh(d)
    BY <1>1 DEF Fresh
  <2>2. \A d \in Clients : d # c => (Unserved(d)' <=> Unserved(d))
    BY <1>2, <1>3 DEF Unserved
  <2> QED BY <2>1, <2>2
<1> QED BY <1>1, <1>4, <1>5, <1>6, <1>7 DEF IoInv

\* Clients leave their ids.
LEMMA ClientsGone ==
    ASSUME IoInv, NoClient \notin Clients,
           clientOf' \in [DOMAIN clientOf -> Clients \cup {NoClient}],
           \A i \in DOMAIN clientOf : clientOf'[i] \in {clientOf[i], NoClient},
           UNCHANGED <<conn, stream, written, half, nextClientId, queue, handled, answersTo>>
    PROVE  IoInv' /\ \A d \in Clients : (Fresh(d)' <=> Fresh(d)) /\ (Unserved(d) => Unserved(d)')
<1>1. Posted' = Posted /\ Win!InOrder(Posted)'
  BY NothingPosted DEF IoInv
<1>2. DOMAIN clientOf' = DOMAIN clientOf
  OBVIOUS
<1>3. IoTyped'
  BY <1>2 DEF IoInv, IoTyped
<1>4. IdsUsedOnce'
  <2>1. /\ \A i \in DOMAIN clientOf' : clientOf'[i] # NoClient => i < nextClientId'
        /\ \A i, j \in DOMAIN clientOf' :
               clientOf'[i] = clientOf'[j] /\ clientOf'[i] # NoClient => i = j
    BY <1>2 DEF IoInv, IdsUsedOnce
  <2>2. ASSUME NEW k \in 1 .. Len(queue')
        PROVE  /\ queue'[k][1] \in DOMAIN clientOf' /\ queue'[k][1] < nextClientId'
               /\ clientOf'[queue'[k][1]] \in {queue'[k][3], NoClient}
    <3>2. /\ queue[k][1] \in DOMAIN clientOf /\ queue[k][1] < nextClientId
          /\ clientOf[queue[k][1]] \in {queue[k][3], NoClient}
      BY DEF IoInv, IdsUsedOnce
    <3> QED BY <3>2
  <2> QED BY <2>1, <2>2 DEF IdsUsedOnce
<1>5. StreamsFollow'
  <2>1. ASSUME NEW id \in DOMAIN clientOf', clientOf'[id] # NoClient
        PROVE  clientOf'[id] = clientOf[id] /\ Had(id)' = Had(id) /\ id \in DOMAIN clientOf
    BY <1>2, <2>1 DEF Had
  <2> QED BY <1>1, <2>1 DEF IoInv, StreamsFollow
<1>6. \A d \in Clients : (Fresh(d)' <=> Fresh(d)) /\ (Unserved(d) => Unserved(d)')
  BY <1>1, <1>2 DEF Fresh, Unserved
<1> QED BY <1>1, <1>3, <1>4, <1>5, <1>6 DEF IoInv

LEMMA Halves ==
    ASSUME NEW n \in Nat
    PROVE  /\ n \div 2 \in Nat /\ (n % 2) \in {0, 1}
           /\ n = 2 * (n \div 2) + (n % 2)
  OBVIOUS

\* A read of n units posts the lines that follow those posted before.
LEMMA LinesRead ==
    ASSUME IoInv, NoClient \notin Clients, NEW id \in DOMAIN clientOf, NEW n \in Nat,
           Win!Read(id, n)
    PROVE  /\ IoInv' /\ clientOf[id] \in Clients
           /\ \A d \in Clients : d # clientOf[id] => (Fresh(d) => Fresh(d)')
<1> DEFINE c == clientOf[id]
           m == (Had(id) + n) \div 2
           odd == (Had(id) + n) % 2
           Item == Nat \X Nat \X Clients
<1>1. /\ c \in Clients /\ c # NoClient /\ n \in 1 .. stream[c]
      /\ stream[c] \in Nat /\ written[c] \in Nat /\ Had(id) \in {0, 1}
  BY DEF IoInv, IoTyped, Had, Win!Read
<1>2. PICK p \in Nat : 2 * (written[c] - p) = stream[c] + Had(id) /\ Covers(Posted, c, p)
  BY <1>1 DEF IoInv, StreamsFollow
<1>3. m \in Nat /\ odd \in {0, 1} /\ Had(id) + n = 2 * m + odd
  <2>1. Had(id) + n \in Nat
    BY <1>1
  <2> QED BY <2>1, Halves
<1>4. written[c] - (stream[c] + Had(id)) \div 2 + 1 = p + 1
  <2>1. stream[c] + Had(id) = 2 * (written[c] - p) /\ written[c] - p \in Int
    BY <1>1, <1>2
  <2>2. \A a \in Int : (2 * a) \div 2 = a
    OBVIOUS
  <2>3. (stream[c] + Had(id)) \div 2 = written[c] - p
    BY <2>1, <2>2
  <2> HIDE DEF c
  <2> QED BY <1>1, <2>3
<1>5. /\ stream' = [stream EXCEPT ![c] = @ - n]
      /\ half' = [half EXCEPT ![id] = (odd = 1)]
      /\ queue' = queue \o [k \in 1 .. m |->
             <<id, (written[c] - (stream[c] + Had(id)) \div 2 + 1) + k - 1, c>>]
      /\ UNCHANGED <<conn, written, clientOf, nextClientId, running, handled, answersTo>>
  BY DEF Win!Read, Had
<1>6. queue' = queue \o [k \in 1 .. m |-> <<id, (p + 1) + k - 1, c>>]
  BY <1>4, <1>5
<1> HIDE DEF m, odd
<1> DEFINE more == [k \in 1 .. m |-> <<id, (p + 1) + k - 1, c>>]
<1>7. /\ more \in Seq(Item) /\ Len(more) = m
      /\ \A k \in 1 .. m : more[k] = <<id, p + k, c>>
  <2>1. \A k \in 1 .. m : (p + 1) + k - 1 = p + k /\ p + k \in Nat
    BY <1>3
  <2>2. \A k \in 1 .. m : more[k] = <<id, p + k, c>>
    BY <2>1
  <2>3. \A k \in 1 .. m : <<id, (p + 1) + k - 1, c>> \in Item
    <3>1. \A k \in 1 .. m : <<id, p + k, c>> \in Item
      <4>1. id \in Nat
        BY SameIds DEF IoInv, IoTyped
      <4> QED BY <1>1, <2>1, <4>1
    <3> QED BY <2>2, <3>1
  <2> HIDE DEF Item
  <2>4. more \in Seq(Item) /\ Len(more) = m
    BY <1>3, <2>3
  <2> QED BY <2>2, <2>4
<1>8. queue \in Seq(Item) /\ queue' = queue \o more
  BY <1>6 DEF IoInv, IoTyped
<1> HIDE DEF more, Item
<1>9. /\ queue' \in Seq(Item)
      /\ Len(queue') = Len(queue) + m /\ Len(queue) \in Nat
      /\ \A k \in 1 .. Len(queue) : queue'[k] = queue[k]
      /\ \A k \in 1 .. m : queue'[Len(queue) + k] = <<id, p + k, c>>
  <2>1. /\ queue' \in Seq(Item)
        /\ Len(queue') = Len(queue) + m /\ Len(queue) \in Nat
        /\ \A k \in 1 .. Len(queue) + m :
               queue'[k] = IF k <= Len(queue) THEN queue[k] ELSE more[k - Len(queue)]
    <3>1. Len(queue) \in Nat /\ Len(more) = m
      BY <1>7, <1>8
    <3> QED BY <1>7, <1>8, <3>1, ConcatProperties
  <2>2. \A k \in 1 .. Len(queue) : queue'[k] = queue[k]
    BY <1>3, <2>1
  <2>3. ASSUME NEW k \in 1 .. m PROVE queue'[Len(queue) + k] = <<id, p + k, c>>
    <3>1. /\ Len(queue) + k \in 1 .. Len(queue) + m /\ ~(Len(queue) + k <= Len(queue))
          /\ (Len(queue) + k) - Len(queue) = k
      BY <1>3, <2>1
    <3> QED BY <1>7, <2>1, <3>1
  <2> QED BY <2>1, <2>2, <2>3
<1>10. IoTyped'
  <2>1. stream' \in [Clients -> Nat]
    <3>1. stream[c] - n \in Nat
      BY <1>1
    <3> QED BY <1>1, <1>5, <3>1 DEF IoInv, IoTyped
  <2>2. half' \in [DOMAIN clientOf -> BOOLEAN]
    <3>1. (odd = 1) \in BOOLEAN
      OBVIOUS
    <3> QED BY <1>5, <3>1 DEF IoInv, IoTyped
  <2> QED BY <1>5, <1>9, <2>1, <2>2 DEF IoInv, IoTyped, Item
<1>11. /\ Win!InOrder(Posted') /\ Covers(Posted', c, p + m)
       /\ \A d \in Clients : d # c =>
              /\ \A q \in Nat : Covers(Posted, d, q) => Covers(Posted', d, q)
              /\ (\A k \in 1 .. Len(Posted) : Posted[k][1] # d) =>
                     (\A k \in 1 .. Len(Posted') : Posted'[k][1] # d)
  <2>1. /\ Posted \in Seq(Clients \X Nat) /\ Len(Posted) = Len(handled) + Len(queue)
        /\ \A k \in 1 .. Len(handled) : Posted[k] = handled[k]
        /\ \A k \in 1 .. Len(queue) :
               Posted[Len(handled) + k] = <<queue[k][3], queue[k][2]>>
    <3>1. /\ handled \in Seq(Clients \X Nat)
          /\ queue \in Seq(Nat \X Nat \X Clients)
      BY DEF IoInv, IoTyped
    <3> QED BY <3>1, Joined, Zenon DEF Posted
  <2>2. /\ Posted' \in Seq(Clients \X Nat) /\ Len(Posted') = Len(handled) + Len(queue')
        /\ \A k \in 1 .. Len(handled) : Posted'[k] = handled[k]
        /\ \A k \in 1 .. Len(queue') :
               Posted'[Len(handled) + k] = <<queue'[k][3], queue'[k][2]>>
    <3>1. handled' = handled /\ handled \in Seq(Clients \X Nat)
      BY <1>5 DEF IoInv, IoTyped
    <3> QED BY <1>9, <3>1, Joined, Zenon DEF Posted, Item
  <2>3. /\ Len(handled) \in Nat /\ Len(queue) \in Nat /\ m \in Nat
        /\ Len(queue') = Len(queue) + m
        /\ Len(Posted) = Len(handled) + Len(queue)
        /\ Len(Posted') = Len(handled) + Len(queue')
    BY <1>3, <1>9, <2>1, <2>2 DEF IoInv, IoTyped
  <2>4. Len(Posted') = Len(Posted) + m
    BY <2>3
  <2>5. ASSUME NEW k \in 1 .. Len(Posted) PROVE Posted'[k] = Posted[k]
    <3>1. CASE k \in 1 .. Len(handled)
      BY <2>1, <2>2, <3>1
    <3>2. CASE k \notin 1 .. Len(handled)
      <4>1. /\ k - Len(handled) \in 1 .. Len(queue) /\ k = Len(handled) + (k - Len(handled))
            /\ k - Len(handled) \in 1 .. Len(queue')
        BY <2>3, <3>2
      <4>2. queue'[k - Len(handled)] = queue[k - Len(handled)]
        BY <1>9, <4>1
      <4>3. Posted'[k] = <<queue'[k - Len(handled)][3], queue'[k - Len(handled)][2]>>
        BY <2>2, <4>1
      <4>4. Posted[k] = <<queue[k - Len(handled)][3], queue[k - Len(handled)][2]>>
        BY <2>1, <4>1
      <4> QED BY <4>2, <4>3, <4>4
    <3> QED BY <3>1, <3>2
  <2>6. ASSUME NEW k \in 1 .. m PROVE Posted'[Len(Posted) + k] = <<c, p + k>>
    <3>1. /\ Len(queue) + k \in 1 .. Len(queue')
          /\ Len(Posted) + k = Len(handled) + (Len(queue) + k)
      BY <2>3
    <3>2. queue'[Len(queue) + k] = <<id, p + k, c>>
      BY <1>9
    <3>3. Posted'[Len(Posted) + k] = <<queue'[Len(queue) + k][3], queue'[Len(queue) + k][2]>>
      BY <2>2, <3>1
    <3> QED BY <3>2, <3>3
  <2>7. Win!InOrder(Posted) /\ Covers(Posted, c, p)
    BY <1>2 DEF IoInv
  <2> HIDE DEF c
  <2>8. GoesOn(Posted, Posted', c, p, m)
    BY <1>1, <1>3, <2>1, <2>2, <2>4, <2>5, <2>6 DEF GoesOn
  <2> QED BY <2>7, <2>8, MoreLines, SMT
<1>12. IdsUsedOnce'
  <2>1. ASSUME NEW k \in 1 .. Len(queue')
        PROVE  /\ queue'[k][1] \in DOMAIN clientOf /\ queue'[k][1] < nextClientId
               /\ clientOf[queue'[k][1]] \in {queue'[k][3], NoClient}
    <3>1. CASE k \in 1 .. Len(queue)
      BY <1>9, <3>1 DEF IoInv, IdsUsedOnce
    <3>2. CASE k \notin 1 .. Len(queue)
      <4>1. k - Len(queue) \in 1 .. m /\ k = Len(queue) + (k - Len(queue))
        <5>1. Len(queue) \in Nat /\ Len(queue') = Len(queue) + m
          BY <1>9
        <5> QED BY <1>3, <3>2, <5>1
      <4>2. queue'[k][1] = id /\ queue'[k][3] = c
        BY <1>9, <4>1
      <4> QED BY <1>1, <4>2 DEF IoInv, IdsUsedOnce
    <3> QED BY <3>1, <3>2
  <2> QED BY <1>5, <2>1 DEF IoInv, IdsUsedOnce
<1>13. StreamsFollow'
  <2> SUFFICES ASSUME NEW i \in DOMAIN clientOf, clientOf[i] # NoClient
               PROVE  \E q \in Nat :
                          /\ 2 * (written[clientOf[i]] - q) = stream'[clientOf[i]] + Had(i)'
                          /\ Covers(Posted', clientOf[i], q)
    BY <1>5 DEF StreamsFollow
  <2>1. CASE i = id
    <3>1. stream'[c] = stream[c] - n
      BY <1>1, <1>5 DEF IoInv, IoTyped
    <3>2. Had(id)' = odd
      <4>1. half'[id] = (odd = 1)
        BY <1>5 DEF IoInv, IoTyped
      <4> QED BY <1>3, <4>1 DEF Had
    <3>3. 2 * (written[c] - (p + m)) = stream'[c] + Had(id)'
      <4>1. 2 * (written[c] - p) = stream[c] + Had(id)
        BY <1>2
      <4> HIDE DEF c
      <4> QED BY <1>1, <1>3, <3>1, <3>2, <4>1
    <3> QED BY <1>3, <1>11, <2>1, <3>3
  <2>2. CASE i # id
    <3>1. clientOf[i] # c /\ clientOf[i] \in Clients
      BY <1>1, <2>2 DEF IoInv, IdsUsedOnce, IoTyped
    <3>2. stream'[clientOf[i]] = stream[clientOf[i]] /\ Had(i)' = Had(i)
      BY <1>5, <2>2, <3>1 DEF Had, IoInv, IoTyped
    <3>3. PICK q \in Nat : /\ 2 * (written[clientOf[i]] - q) = stream[clientOf[i]] + Had(i)
                           /\ Covers(Posted, clientOf[i], q)
      BY DEF IoInv, StreamsFollow
    <3> QED BY <1>11, <3>1, <3>2, <3>3
  <2> QED BY <2>1, <2>2
<1>14. \A d \in Clients : d # c => (Fresh(d) => Fresh(d)')
  <2>1. \A d \in Clients : d # c => stream'[d] = stream[d]
    BY <1>1, <1>5 DEF IoInv, IoTyped
  <2> QED BY <1>5, <1>11, <2>1 DEF Fresh
<1>15. Win!InOrder(Posted)' /\ \A d \in Clients : answersTo'[d] \subseteq {d}
  <2>1. Win!InOrder(Posted)'
    BY <1>11 DEF Win!InOrder
  <2> QED BY <1>5, <2>1 DEF IoInv
<1> QED BY <1>1, <1>10, <1>12, <1>13, <1>14, <1>15 DEF IoInv

\* Handling a line posts nothing, and answers its own client or nobody.
LEMMA LineHandled ==
    ASSUME IoInv, NoClient \notin Clients, Win!HandleLine
    PROVE  IoInv' /\ \A d \in Clients : Fresh(d)' <=> Fresh(d)
<1> DEFINE head == Head(queue)
           to == clientOf[head[1]]
<1>1. /\ queue # <<>> /\ queue' = Tail(queue)
      /\ handled' = Append(handled, <<head[3], head[2]>>)
      /\ answersTo' = IF to = NoClient THEN answersTo
                      ELSE [answersTo EXCEPT ![to] = @ \cup {head[3]}]
      /\ UNCHANGED <<conn, stream, written, clientOf, half, nextClientId>>
  BY DEF Win!HandleLine
<1>2. /\ queue \in Seq(Nat \X Nat \X Clients) /\ handled \in Seq(Clients \X Nat)
      /\ answersTo \in [Clients -> SUBSET Clients]
  BY DEF IoInv, IoTyped
<1>3. /\ head \in Nat \X Nat \X Clients /\ head = queue[1]
      /\ 1 \in 1 .. Len(queue)
  BY <1>1, <1>2
<1>4. to \in {head[3], NoClient} /\ head[3] \in Clients /\ head[2] \in Nat
  BY <1>3 DEF IoInv, IdsUsedOnce
<1> HIDE DEF head, to
<1>5. /\ queue' \in Seq(Nat \X Nat \X Clients)
      /\ Len(queue) \in Nat /\ Len(queue') = Len(queue) - 1
      /\ \A k \in 1 .. Len(queue') : queue'[k] = queue[k + 1]
  BY <1>1, <1>2
<1>6. /\ handled' \in Seq(Clients \X Nat)
      /\ Len(handled) \in Nat /\ Len(handled') = Len(handled) + 1
      /\ \A k \in 1 .. Len(handled) : handled'[k] = handled[k]
      /\ handled'[Len(handled) + 1] = <<head[3], head[2]>>
  <2>1. <<head[3], head[2]>> \in Clients \X Nat
    BY <1>4
  <2> QED BY <1>1, <1>2, <2>1, AppendProperties
<1>7. answersTo' \in [Clients -> SUBSET Clients] /\ \A d \in Clients : answersTo'[d] \subseteq {d}
  BY <1>1, <1>2, <1>4 DEF IoInv
<1>8. IoTyped'
  BY <1>1, <1>5, <1>6, <1>7 DEF IoInv, IoTyped
<1>9. Posted' = Posted
  <2>1. /\ Posted \in Seq(Clients \X Nat) /\ Len(Posted) = Len(handled) + Len(queue)
        /\ \A k \in 1 .. Len(handled) : Posted[k] = handled[k]
        /\ \A k \in 1 .. Len(queue) :
               Posted[Len(handled) + k] = <<queue[k][3], queue[k][2]>>
    <3>1. /\ handled \in Seq(Clients \X Nat)
          /\ queue \in Seq(Nat \X Nat \X Clients)
      BY DEF IoInv, IoTyped
    <3> QED BY <3>1, Joined, Zenon DEF Posted
  <2>2. /\ Posted' \in Seq(Clients \X Nat) /\ Len(Posted') = Len(handled') + Len(queue')
        /\ \A k \in 1 .. Len(handled') : Posted'[k] = handled'[k]
        /\ \A k \in 1 .. Len(queue') :
               Posted'[Len(handled') + k] = <<queue'[k][3], queue'[k][2]>>
    BY <1>5, <1>6, Joined, Zenon DEF Posted
  <2>3. Len(Posted') = Len(Posted)
    BY <1>5, <1>6, <2>1, <2>2
  <2>4. ASSUME NEW k \in 1 .. Len(Posted) PROVE Posted'[k] = Posted[k]
    <3>1. CASE k \in 1 .. Len(handled)
      <4>1. k \in 1 .. Len(handled')
        BY <1>6, <3>1
      <4> QED BY <1>6, <2>1, <2>2, <3>1, <4>1
    <3>2. CASE k = Len(handled) + 1
      <4>1. k \in 1 .. Len(handled')
        BY <1>6, <3>2
      <4>2. Posted'[k] = <<head[3], head[2]>>
        BY <1>6, <2>2, <3>2, <4>1
      <4>3. Posted[k] = <<queue[1][3], queue[1][2]>>
        BY <1>3, <2>1, <3>2
      <4> QED BY <1>3, <4>2, <4>3
    <3>3. CASE k \notin 1 .. Len(handled) /\ k # Len(handled) + 1
      <4> DEFINE j == k - Len(handled) - 1
      <4>1. /\ j \in 1 .. Len(queue') /\ j + 1 \in 1 .. Len(queue)
            /\ k = Len(handled') + j /\ k = Len(handled) + (j + 1)
        <5>1. /\ Len(handled) \in Nat /\ Len(handled') = Len(handled) + 1
              /\ Len(queue) \in Nat /\ Len(queue') = Len(queue) - 1
              /\ k \in 1 .. Len(handled) + Len(queue)
          BY <1>5, <1>6, <2>1
        <5> QED BY <3>3, <5>1
      <4> HIDE DEF j
      <4>2. Posted'[k] = <<queue'[j][3], queue'[j][2]>> /\ queue'[j] = queue[j + 1]
        BY <1>5, <2>2, <4>1
      <4>3. Posted[k] = <<queue[j + 1][3], queue[j + 1][2]>>
        BY <2>1, <4>1
      <4> QED BY <4>2, <4>3
    <3> QED BY <3>1, <3>2, <3>3
  <2> QED BY <2>1, <2>2, <2>3, <2>4, SeqEqual
<1>10. IdsUsedOnce'
  <2>1. ASSUME NEW k \in 1 .. Len(queue')
        PROVE  /\ queue'[k][1] \in DOMAIN clientOf /\ queue'[k][1] < nextClientId
               /\ clientOf[queue'[k][1]] \in {queue'[k][3], NoClient}
    <3>1. queue'[k] = queue[k + 1] /\ k + 1 \in 1 .. Len(queue)
      BY <1>5
    <3> QED BY <3>1 DEF IoInv, IdsUsedOnce
  <2> QED BY <1>1, <2>1 DEF IoInv, IdsUsedOnce
<1>11. StreamsFollow'
  BY <1>1, <1>9 DEF IoInv, StreamsFollow, Had, Covers
<1>12. Win!InOrder(Posted)' /\ \A d \in Clients : Fresh(d)' <=> Fresh(d)
  BY <1>1, <1>9 DEF IoInv, Win!InOrder, Fresh
<1> QED BY <1>7, <1>8, <1>10, <1>11, <1>12 DEF IoInv

LEMMA IoInit ==
    ASSUME NoClient \notin Clients, Win!Init \/ Mac!Init
    PROVE  IoInv /\ WinFresh /\ MacFresh
<1>1. /\ clientOf = [i \in Win!ClientIds |-> NoClient]
      /\ half = [i \in Win!ClientIds |-> FALSE]
  BY SameIds DEF Win!Init, Mac!Init
<1>2. /\ conn = [c \in Clients |-> "away"]
      /\ stream = [c \in Clients |-> 0] /\ written = [c \in Clients |-> 0]
      /\ nextClientId = 1 /\ queue = <<>> /\ handled = <<>>
      /\ answersTo = [c \in Clients |-> {}]
  BY DEF Win!Init, Mac!Init
<1>3. queue \in Seq(Nat \X Nat \X Clients) /\ handled \in Seq(Clients \X Nat)
  BY <1>2
<1>4. IoTyped
  BY <1>1, <1>2, <1>3 DEF IoTyped
<1>5. IdsUsedOnce /\ StreamsFollow
  BY <1>1, <1>2 DEF IdsUsedOnce, StreamsFollow
<1>6. \A k \in 1 .. Len(Posted) : FALSE
  <2>1. Len(Posted) = Len(handled) + Len(queue)
    BY <1>3, Joined, Zenon DEF Posted
  <2> QED BY <1>2, <2>1
<1>7. Win!InOrder(Posted) /\ \A c \in Clients : Fresh(c) /\ answersTo[c] \subseteq {c}
  BY <1>2, <1>6 DEF Win!InOrder, Fresh
<1>8. \A c \in Clients : Unserved(c)
  BY <1>1 DEF Unserved
<1> QED BY <1>4, <1>5, <1>7, <1>8 DEF IoInv, WinFresh, MacFresh

LEMMA IoImplies == IoInv => Win!OwnLinesOwnAnswers
<1> SUFFICES ASSUME IoInv PROVE Win!InOrder(handled)
  BY DEF IoInv, Win!OwnLinesOwnAnswers
<1>1. handled \in Seq(Clients \X Nat) /\ queue \in Seq(Nat \X Nat \X Clients)
  BY DEF IoInv, IoTyped
<1>2. /\ Len(Posted) = Len(handled) + Len(queue)
      /\ \A k \in 1 .. Len(handled) : Posted[k] = handled[k]
  BY <1>1, Joined, Zenon DEF Posted
<1>3. \A k \in 1 .. Len(handled) : k \in 1 .. Len(Posted) /\ \A j \in 1 .. k - 1 : j \in 1 .. Len(handled)
  <2>1. Len(handled) \in Nat /\ Len(queue) \in Nat
    BY <1>1
  <2>2. Len(Posted) = Len(handled) + Len(queue)
    BY <1>2
  <2> QED BY <2>1, <2>2
<1>4. ASSUME NEW k \in 1 .. Len(handled)
      PROVE  /\ \A j \in 1 .. k - 1 : handled[j][1] = handled[k][1] => handled[j][2] < handled[k][2]
             /\ \/ handled[k][2] = 1
                \/ \E j \in 1 .. k - 1 : handled[j] = <<handled[k][1], handled[k][2] - 1>>
  <2>1. /\ \A j \in 1 .. k - 1 : Posted[j][1] = Posted[k][1] => Posted[j][2] < Posted[k][2]
        /\ \/ Posted[k][2] = 1
           \/ \E j \in 1 .. k - 1 : Posted[j] = <<Posted[k][1], Posted[k][2] - 1>>
    BY <1>3, Zenon DEF IoInv, Win!InOrder
  <2>2. Posted[k] = handled[k] /\ \A j \in 1 .. k - 1 : Posted[j] = handled[j]
    BY <1>2, <1>3
  <2> QED BY <2>1, <2>2, Zenon
<1> QED BY <1>4, Zenon DEF Win!InOrder

\* The named pipe: one reader, and a client is accepted from "waiting" only.
LEMMA WinNext ==
    ASSUME NoClient \notin Clients, IoInv, WinFresh, [Win!Next]_(Win!serverVars)
    PROVE  IoInv' /\ WinFresh'
<1>1. ASSUME UNCHANGED <<conn, stream, written, clientOf, half, nextClientId, queue,
                         handled, answersTo>>
      PROVE  IoInv' /\ WinFresh'
  <2>1. IoInv' /\ \A c \in Clients : (Fresh(c)' <=> Fresh(c)) /\ (Unserved(c)' <=> Unserved(c))
    <3>1. conn' \in [Clients -> {"away", "waiting", "open", "refused", "left"}]
      BY <1>1 DEF IoInv, IoTyped
    <3> QED BY <1>1, <3>1, ConnectionsOnly
  <2> QED BY <1>1, <2>1 DEF WinFresh
<1>2. CASE \/ UNCHANGED Win!serverVars \/ Win!ReaderEnds \/ Win!PlatformStop \/ Win!Join
           \/ Win!PlatformStopMac
  BY <1>1, <1>2 DEF Win!serverVars, Win!ReaderEnds, Win!PlatformStop, Win!Join,
     Win!PlatformStopMac
<1>3. ASSUME NEW c \in Clients, Win!Connect(c) \/ Win!Leave(c)
      PROVE  IoInv' /\ WinFresh'
  <2>1. /\ conn' \in [Clients -> {"away", "waiting", "open", "refused", "left"}]
        /\ \A d \in Clients : conn'[d] \in {"away", "waiting"} => conn[d] \in {"away", "waiting"}
        /\ UNCHANGED <<stream, written, clientOf, half, nextClientId, queue, handled, answersTo>>
    BY <1>3 DEF Win!Connect, Win!Leave, IoInv, IoTyped
  <2>2. IoInv' /\ \A d \in Clients : (Fresh(d)' <=> Fresh(d)) /\ (Unserved(d)' <=> Unserved(d))
    BY <2>1, ConnectionsOnly
  <2> QED BY <2>1, <2>2 DEF WinFresh
<1>4. ASSUME NEW c \in Clients, Win!SendLine(c) PROVE IoInv' /\ WinFresh'
  <2>1. /\ UNCHANGED conn
        /\ IoInv' /\ \A d \in Clients : (Fresh(d) => Fresh(d)') /\ (Unserved(d)' <=> Unserved(d))
    BY <1>4, LineSent DEF Win!SendLine
  <2> QED BY <2>1 DEF WinFresh
<1>5. ASSUME NEW c \in Clients, Win!Io(c) PROVE IoInv' /\ WinFresh'
  <2>1. Win!AcceptOne(c) /\ conn[c] = "waiting" /\ Fresh(c) /\ Unserved(c)
    BY <1>5 DEF Win!Io, Win!OnAccept, Win!AcceptOne, WinFresh
  <2>2. CASE conn' = [conn EXCEPT ![c] = "open"]
    <3>1. /\ conn'[c] = "open" /\ \A d \in Clients : d # c => conn'[d] = conn[d]
          /\ conn' \in [Clients -> {"away", "waiting", "open", "refused", "left"}]
      BY <2>2 DEF IoInv, IoTyped
    <3>2. /\ clientOf' = [clientOf EXCEPT ![nextClientId] = c]
          /\ half' = [half EXCEPT ![nextClientId] = FALSE]
          /\ nextClientId' = nextClientId + 1
          /\ UNCHANGED <<stream, written, queue, handled, answersTo>>
      BY <2>1, <2>2, <3>1 DEF Win!AcceptOne, Win!Register, IoInv, IoTyped
    <3>3. /\ IoInv'
          /\ \A d \in Clients : (Fresh(d)' <=> Fresh(d)) /\ (d # c => (Unserved(d)' <=> Unserved(d)))
      BY <2>1, <3>1, <3>2, ClientRegistered
    <3> QED BY <3>1, <3>3 DEF WinFresh
  <2>3. CASE conn' = [conn EXCEPT ![c] = "refused"]
    <3>1. conn'[c] = "refused" /\ \A d \in Clients : d # c => conn'[d] = conn[d]
      BY <2>3 DEF IoInv, IoTyped
    <3>2. /\ stream' = [stream EXCEPT ![c] = 0]
          /\ UNCHANGED <<written, clientOf, half, nextClientId, queue, handled, answersTo>>
      BY <2>1, <2>3, <3>1 DEF Win!AcceptOne, IoInv, IoTyped
    <3>3. /\ IoInv'
          /\ \A d \in Clients : (d # c => (Fresh(d)' <=> Fresh(d))) /\ (Unserved(d)' <=> Unserved(d))
      BY <2>1, <2>3, <3>2, ClientRefused
    <3> QED BY <3>1, <3>3 DEF WinFresh
  <2> QED BY <2>1, <2>2, <2>3 DEF Win!AcceptOne
<1>6. ASSUME NEW id \in Win!ClientIds, Win!IoOf(id) PROVE IoInv' /\ WinFresh'
  <2>1. CASE Win!ReadPipe(id)
    <3>1. PICK n \in 1 .. 2 * MaxLines : Win!Read(id, n)
      BY <2>1 DEF Win!ReadPipe
    <3>2. UNCHANGED <<conn, clientOf>> /\ clientOf[id] # NoClient
      BY <3>1 DEF Win!Read
    <3>3. id \in DOMAIN clientOf /\ clientOf[id] \in Clients
      BY <3>2 DEF IoInv, IoTyped
    <3>4. n \in Nat
      BY <3>1, <3>3 DEF Win!Read, IoInv, IoTyped
    <3>5. IoInv' /\ \A d \in Clients : d # clientOf[id] => (Fresh(d) => Fresh(d)')
      BY <3>1, <3>3, <3>4, LinesRead
    <3>6. \A d \in Clients : conn'[d] \in {"away", "waiting"} =>
              Fresh(d) /\ Unserved(d) /\ Unserved(d)' /\ d # clientOf[id]
      BY <3>2, <3>3 DEF WinFresh, Unserved
    <3> QED BY <3>5, <3>6 DEF WinFresh
  <2>2. CASE Win!EndOfPipe(id)
    <3>1. /\ clientOf' = [clientOf EXCEPT ![id] = NoClient]
          /\ UNCHANGED <<conn, stream, written, half, nextClientId, queue, handled, answersTo>>
      BY <2>2 DEF Win!EndOfPipe
    <3>2. /\ clientOf' \in [DOMAIN clientOf -> Clients \cup {NoClient}]
          /\ \A i \in DOMAIN clientOf : clientOf'[i] \in {clientOf[i], NoClient}
      BY <3>1 DEF IoInv, IoTyped
    <3>3. IoInv' /\ \A d \in Clients : (Fresh(d)' <=> Fresh(d)) /\ (Unserved(d) => Unserved(d)')
      BY <3>1, <3>2, ClientsGone
    <3> QED BY <3>1, <3>3 DEF WinFresh
  <2> QED BY <1>6, <2>1, <2>2 DEF Win!IoOf, Win!OnReadable, Win!Cleanup
<1>7. CASE Win!HandleLine
  <2>1. UNCHANGED <<conn, clientOf>> /\ IoInv' /\ \A d \in Clients : Fresh(d)' <=> Fresh(d)
    BY <1>7, LineHandled DEF Win!HandleLine
  <2> QED BY <2>1 DEF WinFresh, Unserved
<1> QED BY <1>2, <1>3, <1>4, <1>5, <1>6, <1>7 DEF Win!Next

\* The socket: a client that has left is accepted if it left its data.
LEMMA MacNext ==
    ASSUME NoClient \notin Clients, IoInv, MacFresh, [Mac!Next]_(Mac!serverVars)
    PROVE  IoInv' /\ MacFresh'
<1>1. ASSUME UNCHANGED <<conn, stream, written, clientOf, half, nextClientId, queue,
                         handled, answersTo, running>>
      PROVE  IoInv' /\ MacFresh'
  <2>1. IoInv' /\ \A c \in Clients : (Fresh(c)' <=> Fresh(c)) /\ (Unserved(c)' <=> Unserved(c))
    <3>1. conn' \in [Clients -> {"away", "waiting", "open", "refused", "left"}]
      BY <1>1 DEF IoInv, IoTyped
    <3> QED BY <1>1, <3>1, ConnectionsOnly
  <2> QED BY <1>1, <2>1 DEF MacFresh
<1>2. CASE UNCHANGED Mac!serverVars \/ Mac!ReaderEnds \/ Mac!PlatformStop \/ Mac!Join
  BY <1>1, <1>2 DEF Mac!serverVars, Mac!ReaderEnds, Mac!PlatformStop, Mac!Join
<1>3. ASSUME NEW c \in Clients, Mac!Connect(c) \/ Mac!Leave(c)
      PROVE  IoInv' /\ MacFresh'
  <2>1. /\ conn' \in [Clients -> {"away", "waiting", "open", "refused", "left"}]
        /\ \A d \in Clients :
               /\ conn'[d] # "refused" => conn[d] # "refused"
               /\ conn[d] = "left" => conn'[d] = "left"
        /\ UNCHANGED <<stream, written, clientOf, half, nextClientId, queue, handled, answersTo>>
        /\ UNCHANGED running
    BY <1>3 DEF Mac!Connect, Mac!Leave, IoInv, IoTyped
  <2>2. IoInv' /\ \A d \in Clients : (Fresh(d)' <=> Fresh(d)) /\ (Unserved(d)' <=> Unserved(d))
    BY <2>1, ConnectionsOnly
  <2> QED BY <2>1, <2>2 DEF MacFresh
<1>4. ASSUME NEW c \in Clients, Mac!SendLine(c) PROVE IoInv' /\ MacFresh'
  <2>1. /\ UNCHANGED <<conn, running>> /\ conn[c] # "left"
        /\ IoInv' /\ \A d \in Clients : (Fresh(d) => Fresh(d)') /\ (Unserved(d)' <=> Unserved(d))
    BY <1>4, LineSent DEF Mac!SendLine
  <2>2. \A d \in Clients : d # c => stream'[d] = stream[d]
    BY <1>4 DEF Mac!SendLine, IoInv, IoTyped
  <2> QED BY <2>1, <2>2 DEF MacFresh
<1>5. ASSUME NEW c \in Clients, Mac!Io(c) PROVE IoInv' /\ MacFresh'
  <2>1. /\ Mac!OnAccept(c) /\ running /\ UNCHANGED running
        /\ conn[c] \in {"waiting", "left"} /\ (conn[c] = "left" => stream[c] > 0)
    BY <1>5 DEF Mac!Io, Mac!OnAccept, Mac!AcceptOne
  <2>2. Unserved(c)
    <3>1. \A i \in Mac!ClientIds : clientOf[i] # c
      BY <2>1 DEF Mac!OnAccept, Mac!Served
    <3> QED BY <3>1, SameIds DEF IoInv, IoTyped, Unserved
  <2>3. Fresh(c)
    <3>1. conn[c] # "refused" /\ (conn[c] = "left" => stream[c] # 0)
      BY <2>1 DEF IoInv, IoTyped
    <3> QED BY <2>1, <2>2, <3>1 DEF MacFresh
  <2>4. CASE Mac!Register(c) /\ conn' = [conn EXCEPT ![c] = IF @ = "waiting" THEN "open" ELSE @]
             /\ UNCHANGED stream
    <3>1. /\ \A d \in Clients : d # c => conn'[d] = conn[d]
          /\ conn' \in [Clients -> {"away", "waiting", "open", "refused", "left"}]
      BY <2>4 DEF IoInv, IoTyped
    <3>2. /\ clientOf' = [clientOf EXCEPT ![nextClientId] = c]
          /\ half' = [half EXCEPT ![nextClientId] = FALSE]
          /\ nextClientId' = nextClientId + 1
          /\ UNCHANGED <<stream, written, queue, handled, answersTo>>
      BY <2>1, <2>4 DEF Mac!OnAccept, Mac!Register
    <3>3. /\ IoInv'
          /\ \A d \in Clients : (Fresh(d)' <=> Fresh(d)) /\ (d # c => (Unserved(d)' <=> Unserved(d)))
      BY <2>2, <2>3, <3>1, <3>2, ClientRegistered
    <3>4. ASSUME NEW d \in Clients, running', Unserved(d)', conn'[d] # "refused",
                 conn'[d] = "left" => stream'[d] # 0
          PROVE  Fresh(d)'
      BY <2>1, <2>3, <3>1, <3>2, <3>3, <3>4 DEF MacFresh
    <3> QED BY <3>3, <3>4 DEF MacFresh
  <2>5. CASE /\ conn' = [conn EXCEPT ![c] = "refused"]
             /\ stream' = [stream EXCEPT ![c] = 0]
             /\ UNCHANGED <<clientOf, half, nextClientId>>
    <3>1. /\ conn'[c] = "refused"
          /\ \A d \in Clients : d # c => conn'[d] = conn[d] /\ stream'[d] = stream[d]
      BY <2>5 DEF IoInv, IoTyped
    <3>2. UNCHANGED <<written, queue, handled, answersTo>>
      BY <2>1 DEF Mac!OnAccept
    <3>3. /\ IoInv'
          /\ \A d \in Clients : (d # c => (Fresh(d)' <=> Fresh(d))) /\ (Unserved(d)' <=> Unserved(d))
      BY <2>2, <2>5, <3>2, ClientRefused
    <3>4. ASSUME NEW d \in Clients, running', Unserved(d)', conn'[d] # "refused",
                 conn'[d] = "left" => stream'[d] # 0
          PROVE  Fresh(d)'
      BY <2>1, <3>1, <3>3, <3>4 DEF MacFresh
    <3> QED BY <3>3, <3>4 DEF MacFresh
  <2> QED BY <2>1, <2>4, <2>5 DEF Mac!OnAccept
<1>6. ASSUME NEW id \in Mac!ClientIds, Mac!IoOf(id) PROVE IoInv' /\ MacFresh'
  <2>1. CASE Mac!OnReadable(id)
    <3>1. PICK n \in 1 .. 2 * MaxLines : Mac!Read(id, n)
      BY <2>1 DEF Mac!OnReadable
    <3>2. UNCHANGED <<conn, clientOf, running>> /\ clientOf[id] # NoClient
      BY <3>1 DEF Mac!Read
    <3>3. id \in DOMAIN clientOf /\ clientOf[id] \in Clients
      BY <3>2, SameIds DEF IoInv, IoTyped
    <3>4. n \in Nat /\ Win!Read(id, n)
      <4>1. n \in Nat
        BY <3>1, <3>3 DEF Mac!Read, IoInv, IoTyped
      <4> QED BY <3>1, <4>1 DEF Mac!Read, Win!Read
    <3>5. IoInv' /\ \A d \in Clients : d # clientOf[id] => (Fresh(d) => Fresh(d)')
      BY <3>3, <3>4, LinesRead
    <3>6. \A d \in Clients : d # clientOf[id] => stream'[d] = stream[d]
      BY <3>1, <3>3 DEF Mac!Read, IoInv, IoTyped
    <3>7. ASSUME NEW d \in Clients, running', Unserved(d)', conn'[d] # "refused",
                 conn'[d] = "left" => stream'[d] # 0
          PROVE  Fresh(d)'
      <4>1. d # clientOf[id] /\ Unserved(d)
        BY <3>2, <3>3, <3>7 DEF Unserved
      <4> QED BY <3>2, <3>5, <3>6, <3>7, <4>1 DEF MacFresh
    <3> QED BY <3>5, <3>7 DEF MacFresh
  <2>2. CASE Mac!Cleanup(id)
    <3>1. /\ clientOf' = [clientOf EXCEPT ![id] = NoClient]
          /\ clientOf[id] # NoClient
          /\ conn[clientOf[id]] = "left" /\ stream[clientOf[id]] = 0
          /\ UNCHANGED <<conn, stream, written, half, nextClientId, queue, handled,
                         answersTo, running>>
      BY <2>2 DEF Mac!Cleanup
    <3>2. /\ clientOf' \in [DOMAIN clientOf -> Clients \cup {NoClient}]
          /\ \A i \in DOMAIN clientOf : clientOf'[i] \in {clientOf[i], NoClient}
          /\ \A i \in DOMAIN clientOf : i # id => clientOf'[i] = clientOf[i]
          /\ id \in DOMAIN clientOf
      BY <3>1, SameIds DEF IoInv, IoTyped
    <3>3. IoInv' /\ \A d \in Clients : (Fresh(d)' <=> Fresh(d)) /\ (Unserved(d) => Unserved(d)')
      BY <3>1, <3>2, ClientsGone
    <3>4. ASSUME NEW d \in Clients, running', Unserved(d)', conn'[d] # "refused",
                 conn'[d] = "left" => stream'[d] # 0
          PROVE  Fresh(d)'
      <4>1. d # clientOf[id]
        BY <3>1, <3>4
      <4>2. Unserved(d)
        BY <3>2, <3>4, <4>1 DEF Unserved
      <4> QED BY <3>1, <3>3, <3>4, <4>2 DEF MacFresh
    <3> QED BY <3>3, <3>4 DEF MacFresh
  <2> QED BY <1>6, <2>1, <2>2 DEF Mac!IoOf, Mac!ReadPipe, Mac!EndOfPipe
<1>7. CASE Mac!HandleLine
  <2>1. Win!HandleLine
    BY <1>7 DEF Mac!HandleLine, Win!HandleLine
  <2>2. UNCHANGED <<conn, clientOf, stream, running>> /\ IoInv' /\ \A d \in Clients : Fresh(d)' <=> Fresh(d)
    BY <2>1, LineHandled DEF Win!HandleLine
  <2> QED BY <2>2 DEF MacFresh, Unserved
<1>8. CASE Mac!PlatformStopMac
  <2>1. /\ ~running' /\ clientOf' = [i \in DOMAIN clientOf |-> NoClient]
        /\ UNCHANGED <<conn, stream, written, half, nextClientId, queue, handled, answersTo>>
    BY <1>8, SameIds DEF Mac!PlatformStopMac, IoInv, IoTyped
  <2>2. IoInv'
    BY <2>1, ClientsGone
  <2> QED BY <2>1, <2>2 DEF MacFresh
<1> QED BY <1>2, <1>3, <1>4, <1>5, <1>6, <1>7, <1>8 DEF Mac!Next

(***************************************************************************)
(* The server of the named pipe, with any number of clients and lines: the *)
(* lines of a client are handled once each and in order, and nobody gets   *)
(* the answer to another's line.                                           *)
(***************************************************************************)
THEOREM PipeAnswersItsClients ==
    ASSUME NoClient \notin Clients
    PROVE  Win!Init /\ [][Win!Next]_(Win!serverVars) => []OwnLinesOwnAnswers
<1>1. Win!Init => IoInv /\ WinFresh
  BY IoInit
<1>2. IoInv /\ WinFresh /\ [Win!Next]_(Win!serverVars) => (IoInv /\ WinFresh)'
  BY WinNext
<1>3. Win!OwnLinesOwnAnswers => OwnLinesOwnAnswers
  BY DEF OwnLinesOwnAnswers
<1> QED BY <1>1, <1>2, <1>3, IoImplies, PTL

(***************************************************************************)
(* The same of the server of macOS, where several clients are served at    *)
(* once and a client may be accepted after it has left.                    *)
(***************************************************************************)
THEOREM SocketAnswersItsClients ==
    ASSUME NoClient \notin Clients
    PROVE  Mac!Init /\ [][Mac!Next]_(Mac!serverVars) => []OwnLinesOwnAnswers
<1>1. Mac!Init => IoInv /\ MacFresh
  BY IoInit
<1>2. IoInv /\ MacFresh /\ [Mac!Next]_(Mac!serverVars) => (IoInv /\ MacFresh)'
  BY MacNext
<1>3. Win!OwnLinesOwnAnswers => OwnLinesOwnAnswers
  BY DEF OwnLinesOwnAnswers
<1> QED BY <1>1, <1>2, <1>3, IoImplies, PTL

-----------------------------------------------------------------------------
(***************************************************************************)
(* ControlChannel.  A call that waits is pending in the SDK and nowhere    *)
(* else; a command is on its way once, and was not executed before; and    *)
(* an answer on its way, whole or in part, is of a call that was.          *)
(***************************************************************************)
CallsKept ==
    /\ nextId \in Nat \ {0} /\ pending \subseteq C!Call
    /\ promise \in [C!Call -> {"none", "waiting", "settled", "dropped"}]
    /\ \A c \in pending : promise[c] = "waiting"
    /\ \A c \in C!Call : promise[c] = "none" <=> c >= nextId
    /\ \A c \in executed : c < nextId

Commands == [id : C!Call, cmd : C!Command]

CommandsOnce ==
    /\ toKernel \in Seq(Commands) /\ lines \in Seq(Commands)
    /\ \A i \in 1 .. Len(toKernel) :
           /\ toKernel[i].id < nextId /\ toKernel[i].id \notin executed
           /\ \A j \in 1 .. Len(toKernel) : toKernel[i].id = toKernel[j].id => i = j
           /\ \A j \in 1 .. Len(lines) : toKernel[i].id # lines[j].id
    /\ \A i \in 1 .. Len(lines) :
           /\ lines[i].id < nextId /\ lines[i].id \notin executed
           /\ \A j \in 1 .. Len(lines) : lines[i].id = lines[j].id => i = j

AnswersFollow ==
    /\ toSdk \in Seq(C!Unit)
    /\ evalsC \subseteq executed /\ executed \subseteq C!Call
    /\ \A i \in 1 .. Len(toSdk) : toSdk[i].line.type = "answer" => toSdk[i].line.id \in executed

ChannelInv == CallsKept /\ CommandsOnce /\ AnswersFollow

LEMMA ChannelInit == C!Init => ChannelInv /\ C!Contract!Init
<1> SUFFICES ASSUME C!Init PROVE ChannelInv /\ C!Contract!Init
  OBVIOUS
<1>1. /\ nextId = 1 /\ pending = {} /\ promise = [c \in C!Call |-> "none"]
      /\ toKernel = <<>> /\ lines = <<>> /\ toSdk = <<>> /\ evalsC = {} /\ executed = {}
  BY DEF C!Init
<1>2. CallsKept
  BY <1>1 DEF CallsKept, C!Call
<1>3. CommandsOnce /\ AnswersFollow
  BY <1>1 DEF CommandsOnce, AnswersFollow
<1> QED BY <1>1, <1>2, <1>3 DEF ChannelInv, C!Contract!Init

\* What is written is what was there and the new units, cut where the socket
\* is full.
LEMMA Written ==
    ASSUME Capacity \in Nat, AnswersFollow, NEW units \in Seq(C!Unit), C!Write(units)
    PROVE  /\ toSdk' \in Seq(C!Unit)
           /\ \A i \in 1 .. Len(toSdk') :
                  \/ \E j \in 1 .. Len(toSdk) : toSdk'[i] = toSdk[j]
                  \/ \E j \in 1 .. Len(units) : toSdk'[i] = units[j]
<1>1. toSdk \in Seq(C!Unit)
  BY DEF AnswersFollow
<1>2. CASE toSdk' = toSdk
  BY <1>1, <1>2
<1>3. CASE toSdk' = C!WhatFits(toSdk \o units)
  <2> DEFINE all == toSdk \o units
  <2>1. /\ all \in Seq(C!Unit) /\ Len(all) = Len(toSdk) + Len(units)
        /\ Len(toSdk) \in Nat /\ Len(units) \in Nat
        /\ \A i \in 1 .. Len(toSdk) + Len(units) :
               all[i] = IF i <= Len(toSdk) THEN toSdk[i] ELSE units[i - Len(toSdk)]
    BY <1>1, ConcatProperties
  <2>2. ASSUME NEW i \in 1 .. Len(all)
        PROVE  \/ \E j \in 1 .. Len(toSdk) : all[i] = toSdk[j]
               \/ \E j \in 1 .. Len(units) : all[i] = units[j]
    <3>1. CASE i <= Len(toSdk)
      <4>1. i \in 1 .. Len(toSdk) /\ i \in 1 .. Len(toSdk) + Len(units)
        BY <2>1, <3>1
      <4> QED BY <2>1, <3>1, <4>1
    <3>2. CASE ~(i <= Len(toSdk))
      <4>1. i - Len(toSdk) \in 1 .. Len(units) /\ i \in 1 .. Len(toSdk) + Len(units)
        BY <2>1, <3>2
      <4> QED BY <2>1, <3>2, <4>1
    <3> QED BY <3>1, <3>2
  <2> HIDE DEF all
  <2>3. CASE toSdk' = all
    BY <2>1, <2>2, <2>3
  <2>4. CASE toSdk' # all
    <3>1. toSdk' = SubSeq(all, 1, Capacity) /\ ~(Len(all) <= Capacity)
      BY <1>3, <2>4 DEF C!WhatFits, all
    <3>2. Capacity \in Nat
      OBVIOUS
    <3>5. \A i \in 1 .. Capacity : all[i] \in C!Unit
      BY <2>1, <3>1, <3>2
    <3>3. /\ toSdk' \in Seq(C!Unit) /\ Len(toSdk') = Capacity
          /\ \A i \in 1 .. Capacity : toSdk'[i] = all[i]
      BY <3>1, <3>2, <3>5, SubSeqProperties
    <3>4. \A i \in 1 .. Len(toSdk') : i \in 1 .. Len(all) /\ toSdk'[i] = all[i]
      BY <2>1, <3>1, <3>2, <3>3
    <3> QED BY <2>2, <3>3, <3>4
  <2> QED BY <2>3, <2>4
<1> QED BY <1>2, <1>3 DEF C!Write

\* The units of an answer and of an event.
LEMMA UnitsOfAnswer ==
    ASSUME NEW id \in C!Call
    PROVE  /\ C!Units(C!Answer(id)) \in Seq(C!Unit)
           /\ \A i \in 1 .. Len(C!Units(C!Answer(id))) :
                  C!Units(C!Answer(id))[i].line.id = id
<1>1. C!Answer(id) \in C!Line /\ C!Answer(id).id = id
  BY DEF C!Answer, C!Line
<1> DEFINE text == [line |-> C!Answer(id), part |-> "text"]
           end == [line |-> C!Answer(id), part |-> "end"]
<1>2. text \in C!Unit /\ end \in C!Unit /\ text.line.id = id /\ end.line.id = id
  BY <1>1 DEF C!Unit
<1>3. C!Units(C!Answer(id)) = <<text, end>>
  BY DEF C!Units
<1> HIDE DEF text, end
<1> QED BY <1>2, <1>3

LEMMA UnitsOfEvent ==
    ASSUME NEW type \in {"event", "closed"}
    PROVE  /\ C!Units(C!Event(type)) \in Seq(C!Unit)
           /\ \A i \in 1 .. Len(C!Units(C!Event(type))) :
                  C!Units(C!Event(type))[i].line.type # "answer"
<1>1. C!Event(type) \in C!Line /\ C!Event(type).type # "answer"
  BY DEF C!Event, C!Line
<1> DEFINE text == [line |-> C!Event(type), part |-> "text"]
           end == [line |-> C!Event(type), part |-> "end"]
<1>2. /\ text \in C!Unit /\ end \in C!Unit
      /\ text.line.type # "answer" /\ end.line.type # "answer"
  BY <1>1 DEF C!Unit
<1>3. C!Units(C!Event(type)) = <<text, end>>
  BY DEF C!Units
<1> HIDE DEF text, end
<1> QED BY <1>2, <1>3

\* Units of events and of answers to executed calls may be written.
Writable(units, ran) ==
    /\ units \in Seq(C!Unit)
    /\ \A i \in 1 .. Len(units) : units[i].line.type = "answer" => units[i].line.id \in ran

LEMMA WritableBoth ==
    ASSUME NEW ran, NEW first, NEW second, Writable(first, ran), Writable(second, ran)
    PROVE  Writable(first \o second, ran)
<1>1. first \in Seq(C!Unit) /\ second \in Seq(C!Unit)
  BY DEF Writable
<1>2. /\ first \o second \in Seq(C!Unit)
      /\ Len(first \o second) = Len(first) + Len(second)
      /\ \A i \in 1 .. Len(first) + Len(second) : (first \o second)[i] =
             IF i <= Len(first) THEN first[i] ELSE second[i - Len(first)]
      /\ Len(first) \in Nat /\ Len(second) \in Nat
  BY <1>1, ConcatProperties
<1>3. ASSUME NEW i \in 1 .. Len(first) + Len(second)
      PROVE  \/ \E j \in 1 .. Len(first) : (first \o second)[i] = first[j]
             \/ \E j \in 1 .. Len(second) : (first \o second)[i] = second[j]
  <2>1. CASE i <= Len(first)
    <3>1. i \in 1 .. Len(first)
      BY <1>2, <2>1
    <3> QED BY <1>2, <2>1, <3>1
  <2>2. CASE ~(i <= Len(first))
    <3>1. i - Len(first) \in 1 .. Len(second)
      BY <1>2, <2>2
    <3> QED BY <1>2, <2>2, <3>1
  <2> QED BY <2>1, <2>2
<1> QED BY <1>2, <1>3 DEF Writable

LEMMA AnswersWritten ==
    ASSUME Capacity \in Nat, AnswersFollow,
           NEW units, Writable(units, executed'), C!Write(units),
           executed \subseteq executed', executed' \subseteq C!Call, evalsC' \subseteq executed'
    PROVE  AnswersFollow'
<1>1. units \in Seq(C!Unit)
  BY DEF Writable
<1>2. /\ toSdk' \in Seq(C!Unit)
      /\ \A i \in 1 .. Len(toSdk') :
             \/ \E j \in 1 .. Len(toSdk) : toSdk'[i] = toSdk[j]
             \/ \E j \in 1 .. Len(units) : toSdk'[i] = units[j]
  BY <1>1, Written
<1>3. \A i \in 1 .. Len(toSdk') :
          toSdk'[i].line.type = "answer" => toSdk'[i].line.id \in executed'
  BY <1>2 DEF AnswersFollow, Writable
<1> QED BY <1>2, <1>3 DEF AnswersFollow

LEMMA AnswerWritable ==
    ASSUME NEW ran, NEW id \in C!Call, id \in ran
    PROVE  Writable(C!Units(C!Answer(id)), ran)
BY UnitsOfAnswer DEF Writable

LEMMA EventWritable ==
    ASSUME NEW ran, NEW type \in {"event", "closed"}
    PROVE  Writable(C!Units(C!Event(type)), ran)
BY UnitsOfEvent DEF Writable

\* ControlChannel.call: a new call waits, and its command is on its way.
LEMMA ChannelCalled ==
    ASSUME SdkCalls \in Nat, ChannelInv, NEW cmd \in C!Command, C!SdkCall(cmd)
    PROVE  ChannelInv' /\ nextId \in C!Call /\ C!Contract!Invoke(nextId)
<1> DEFINE command == [id |-> nextId, cmd |-> cmd]
<1>1. /\ nextId <= SdkCalls /\ nextId' = nextId + 1
      /\ pending' = pending \cup {nextId}
      /\ promise' = [promise EXCEPT ![nextId] = "waiting"]
      /\ toKernel' = Append(toKernel, command)
      /\ UNCHANGED <<toSdk, lines, evalsC, executed>>
  BY DEF C!SdkCall, C!kernelVars
<1>2. nextId \in C!Call
  BY <1>1 DEF ChannelInv, CallsKept, C!Call
<1>3. promise[nextId] = "none" /\ nextId \notin pending
  BY <1>2 DEF ChannelInv, CallsKept, C!Call
<1>4. CallsKept'
  <2>1. /\ nextId \in Nat \ {0} /\ pending \subseteq C!Call
        /\ promise \in [C!Call -> {"none", "waiting", "settled", "dropped"}]
        /\ \A c \in pending : promise[c] = "waiting"
        /\ \A c \in C!Call : promise[c] = "none" <=> c >= nextId
        /\ \A c \in executed : c < nextId /\ c \in C!Call
    BY DEF ChannelInv, CallsKept, AnswersFollow
  <2>2. /\ nextId' \in Nat \ {0} /\ pending' \subseteq C!Call
        /\ promise' \in [C!Call -> {"none", "waiting", "settled", "dropped"}]
    BY <1>1, <1>2, <2>1
  <2>3. \A c \in C!Call :
            promise'[c] = IF c = nextId THEN "waiting" ELSE promise[c]
    BY <1>1, <2>1
  <2>4. \A c \in pending' : promise'[c] = "waiting"
    BY <1>1, <1>2, <2>1, <2>3
  <2>5. \A c \in C!Call : promise'[c] = "none" <=> c >= nextId'
    BY <1>1, <1>3, <2>1, <2>3 DEF C!Call
  <2>6. \A c \in executed' : c < nextId'
    BY <1>1, <2>1 DEF C!Call
  <2> QED BY <2>2, <2>4, <2>5, <2>6 DEF CallsKept
<1>5. command \in Commands /\ command.id = nextId
  BY <1>2 DEF Commands
<1> HIDE DEF command
<1>6. toKernel \in Seq(Commands) /\ lines \in Seq(Commands)
  BY DEF ChannelInv, CommandsOnce
<1>7. /\ toKernel' \in Seq(Commands)
      /\ Len(toKernel') = Len(toKernel) + 1 /\ Len(toKernel) \in Nat
      /\ \A i \in 1 .. Len(toKernel) : toKernel'[i] = toKernel[i]
      /\ toKernel'[Len(toKernel) + 1] = command
  BY <1>1, <1>5, <1>6, AppendProperties
<1>8. /\ nextId \notin executed /\ nextId \in Nat
      /\ \A i \in 1 .. Len(toKernel) : toKernel[i].id < nextId /\ toKernel[i].id # nextId
      /\ \A i \in 1 .. Len(lines) : lines[i].id < nextId /\ lines[i].id # nextId
  <2>1. \A i \in 1 .. Len(toKernel) : toKernel[i] \in Commands
    BY <1>6
  <2>2. \A i \in 1 .. Len(lines) : lines[i] \in Commands
    BY <1>6
  <2>3. \A k \in Commands : k.id \in Nat
    BY DEF Commands, C!Call
  <2> QED BY <2>1, <2>2, <2>3 DEF ChannelInv, CallsKept, CommandsOnce
<1>9. ASSUME NEW i \in 1 .. Len(toKernel')
      PROVE  \/ i \in 1 .. Len(toKernel) /\ toKernel'[i] = toKernel[i]
             \/ i = Len(toKernel) + 1 /\ toKernel'[i].id = nextId
  BY <1>5, <1>7
<1>10. \A i \in 1 .. Len(toKernel') :
           /\ toKernel'[i].id < nextId' /\ toKernel'[i].id \notin executed'
           /\ \A j \in 1 .. Len(toKernel') : toKernel'[i].id = toKernel'[j].id => i = j
           /\ \A j \in 1 .. Len(lines') : toKernel'[i].id # lines'[j].id
  <2> SUFFICES ASSUME NEW i \in 1 .. Len(toKernel')
               PROVE  /\ toKernel'[i].id < nextId' /\ toKernel'[i].id \notin executed'
                      /\ \A j \in 1 .. Len(toKernel') :
                             toKernel'[i].id = toKernel'[j].id => i = j
                      /\ \A j \in 1 .. Len(lines') : toKernel'[i].id # lines'[j].id
    OBVIOUS
  <2>1. CASE i \in 1 .. Len(toKernel) /\ toKernel'[i] = toKernel[i]
    <3>1. /\ toKernel[i].id < nextId /\ toKernel[i].id \notin executed
          /\ \A j \in 1 .. Len(toKernel) : toKernel[i].id = toKernel[j].id => i = j
          /\ \A j \in 1 .. Len(lines) : toKernel[i].id # lines[j].id
      BY <2>1 DEF ChannelInv, CommandsOnce
    <3>3. toKernel[i] \in Commands
      BY <1>6, <2>1
    <3>2. toKernel[i].id \in Nat
      BY <3>3 DEF Commands, C!Call
    <3> QED BY <1>1, <1>8, <1>9, <2>1, <3>1, <3>2
  <2>2. CASE i = Len(toKernel) + 1 /\ toKernel'[i].id = nextId
    BY <1>1, <1>8, <1>9, <2>2
  <2> QED BY <1>9, <2>1, <2>2
<1>11. \A i \in 1 .. Len(lines') :
           /\ lines'[i].id < nextId' /\ lines'[i].id \notin executed'
           /\ \A j \in 1 .. Len(lines') : lines'[i].id = lines'[j].id => i = j
  <2>2. \A i \in 1 .. Len(lines) : lines[i] \in Commands
    BY <1>6
  <2>1. \A i \in 1 .. Len(lines) : lines[i].id \in Nat
    BY <2>2 DEF Commands, C!Call
  <2> QED BY <1>1, <1>8, <2>1 DEF ChannelInv, CommandsOnce
<1>12. CommandsOnce'
  BY <1>1, <1>6, <1>7, <1>10, <1>11 DEF CommandsOnce
<1>13. AnswersFollow'
  BY <1>1 DEF ChannelInv, AnswersFollow
<1>14. C!Contract!Invoke(nextId)
  <2>1. /\ {nextId} # {} /\ \A c \in {nextId} : promise[c] = "none"
        /\ executed' = executed
    BY <1>1, <1>3
  <2>2. promise' = [c \in C!Call |-> IF c \in {nextId} THEN "waiting" ELSE promise[c]]
    BY <1>1, <1>2 DEF ChannelInv, CallsKept
  <2> QED BY <2>1, <2>2 DEF C!Contract!Invoke, C!Contract!Move
<1> QED BY <1>2, <1>4, <1>12, <1>13, <1>14 DEF ChannelInv

\* OnReadable: what is on its way becomes what the loop handles.
LEMMA CommandsRead ==
    ASSUME ChannelInv, C!OnReadable
    PROVE  ChannelInv' /\ UNCHANGED <<promise, executed>>
<1>1. UNCHANGED <<nextId, pending, promise, executed, toSdk, evalsC>>
  BY DEF C!OnReadable, C!sdkVars
<1>2. CallsKept'
  BY <1>1 DEF ChannelInv, CallsKept
<1>3. AnswersFollow'
  BY <1>1 DEF ChannelInv, AnswersFollow
<1>4. CASE UNCHANGED <<lines, toKernel>>
  BY <1>1, <1>2, <1>3, <1>4 DEF ChannelInv, CommandsOnce
<1>5. CASE lines' = toKernel /\ toKernel' = <<>>
  <2>1. CommandsOnce'
    BY <1>1, <1>5 DEF ChannelInv, CommandsOnce
  <2> QED BY <1>1, <1>2, <1>3, <2>1 DEF ChannelInv
<1> QED BY <1>1, <1>4, <1>5 DEF C!OnReadable

\* HandleLine: the command at the head is executed, for the first time.
LEMMA CommandHandled ==
    ASSUME Capacity \in Nat, ChannelInv, C!HandleLine
    PROVE  /\ ChannelInv'
           /\ Head(lines).id \in C!Call /\ C!Contract!Execute(Head(lines).id)
<1> DEFINE id == Head(lines).id
           destroys == Head(lines).cmd = "destroy" /\ window = "up"
           evaluates == Head(lines).cmd = "eval" /\ window = "up"
<1>1. /\ lines # <<>> /\ lines' = Tail(lines)
      /\ executed' = executed \cup {id}
      /\ evalsC' = IF evaluates THEN evalsC \cup {id} ELSE evalsC
      /\ \/ C!Write(C!Units(C!Event("closed")) \o C!Units(C!Answer(id)))
         \/ toSdk' = toSdk
         \/ C!Write(C!Units(C!Answer(id)))
      /\ UNCHANGED <<nextId, pending, promise, toKernel>>
  BY DEF C!HandleLine, C!sdkVars
<1>2. toKernel \in Seq(Commands) /\ lines \in Seq(Commands)
  BY DEF ChannelInv, CommandsOnce
<1>3. /\ lines' \in Seq(Commands) /\ Len(lines') = Len(lines) - 1
      /\ \A i \in 1 .. Len(lines') : lines'[i] = lines[i + 1]
      /\ Head(lines) \in Commands /\ Head(lines) = lines[1]
      /\ Len(lines) \in Nat \ {0}
  BY <1>1, <1>2, HeadTailProperties
<1>4. id \in C!Call
  BY <1>3 DEF Commands
<1>5. /\ id < nextId /\ id \notin executed
      /\ \A i \in 1 .. Len(toKernel) : toKernel[i].id # id
      /\ \A i \in 1 .. Len(lines) : lines[i].id = id => i = 1
  <2>1. 1 \in 1 .. Len(lines) /\ lines[1].id = id
    BY <1>3
  <2> QED BY <2>1 DEF ChannelInv, CommandsOnce
<1> HIDE DEF id, destroys, evaluates
<1>6. CallsKept'
  BY <1>1, <1>4, <1>5 DEF ChannelInv, CallsKept, AnswersFollow
<1>7. CommandsOnce'
  <2>1. \A i \in 1 .. Len(lines') :
            /\ i + 1 \in 1 .. Len(lines) /\ lines'[i] = lines[i + 1] /\ i + 1 # 1
    BY <1>3
  <2>2. \A i \in 1 .. Len(toKernel') :
            /\ toKernel'[i].id < nextId' /\ toKernel'[i].id \notin executed'
            /\ \A j \in 1 .. Len(toKernel') : toKernel'[i].id = toKernel'[j].id => i = j
            /\ \A j \in 1 .. Len(lines') : toKernel'[i].id # lines'[j].id
    BY <1>1, <1>5, <2>1 DEF ChannelInv, CommandsOnce
  <2>3. ASSUME NEW i \in 1 .. Len(lines')
        PROVE  /\ lines'[i].id < nextId' /\ lines'[i].id \notin executed'
               /\ \A j \in 1 .. Len(lines') : lines'[i].id = lines'[j].id => i = j
    <3>1. lines'[i].id < nextId' /\ lines'[i].id \notin executed /\ lines'[i].id # id
      BY <1>1, <1>5, <2>1 DEF ChannelInv, CommandsOnce
    <3>2. ASSUME NEW j \in 1 .. Len(lines'), lines'[i].id = lines'[j].id PROVE i = j
      <4>1. i + 1 = j + 1
        BY <2>1, <3>2 DEF ChannelInv, CommandsOnce
      <4> QED BY <4>1
    <3> QED BY <1>1, <3>1, <3>2
  <2> QED BY <1>1, <1>2, <1>3, <2>2, <2>3 DEF CommandsOnce
<1>8. AnswersFollow'
  <2>1. /\ executed \subseteq executed' /\ executed' \subseteq C!Call
        /\ evalsC' \subseteq executed' /\ id \in executed'
    BY <1>1, <1>4 DEF ChannelInv, AnswersFollow
  <2>2. Writable(C!Units(C!Answer(id)), executed')
    BY <1>4, <2>1, AnswerWritable
  <2>3. CASE C!Write(C!Units(C!Event("closed")) \o C!Units(C!Answer(id)))
    <3>1. Writable(C!Units(C!Event("closed")), executed')
      BY EventWritable
    <3>2. Writable(C!Units(C!Event("closed")) \o C!Units(C!Answer(id)), executed')
      BY <2>2, <3>1, WritableBoth
    <3> QED BY <2>1, <2>3, <3>2, AnswersWritten DEF ChannelInv
  <2>4. CASE toSdk' = toSdk
    BY <2>1, <2>4 DEF ChannelInv, AnswersFollow
  <2>5. CASE C!Write(C!Units(C!Answer(id)))
    BY <2>1, <2>2, <2>5, AnswersWritten DEF ChannelInv
  <2> QED BY <1>1, <2>3, <2>4, <2>5
<1>9. C!Contract!Execute(id)
  <2>1. promise[id] # "none"
    BY <1>4, <1>5 DEF ChannelInv, CallsKept, C!Call
  <2> QED BY <1>1, <1>5, <2>1 DEF C!Contract!Execute
<1> QED BY <1>4, <1>6, <1>7, <1>8, <1>9 DEF ChannelInv, id

\* What the kernel writes apart from commands, and its end.
LEMMA KernelWrites ==
    ASSUME Capacity \in Nat, ChannelInv,
           C!WindowEvent \/ C!Stop \/ \E c \in C!Call : C!EvalDone(c)
    PROVE  ChannelInv' /\ UNCHANGED <<promise, executed>>
<1>1. UNCHANGED <<nextId, pending, promise, executed, toKernel, lines>>
  BY DEF C!WindowEvent, C!Stop, C!EvalDone, C!sdkVars
<1>2. CallsKept' /\ CommandsOnce'
  BY <1>1 DEF ChannelInv, CallsKept, CommandsOnce
<1>3. evalsC' \subseteq evalsC
  BY DEF C!WindowEvent, C!Stop, C!EvalDone
<1>4. /\ executed \subseteq executed' /\ executed' \subseteq C!Call
      /\ evalsC' \subseteq executed'
  BY <1>1, <1>3 DEF ChannelInv, AnswersFollow
<1>5. CASE C!WindowEvent
  <2>1. C!Write(C!Units(C!Event("event"))) \/ C!Write(C!Units(C!Event("closed")))
    BY <1>5 DEF C!WindowEvent
  <2>2. /\ Writable(C!Units(C!Event("event")), executed')
        /\ Writable(C!Units(C!Event("closed")), executed')
    BY EventWritable
  <2>3. AnswersFollow'
    BY <1>4, <2>1, <2>2, AnswersWritten DEF ChannelInv
  <2> QED BY <1>1, <1>2, <2>3 DEF ChannelInv
<1>6. CASE C!Stop
  <2>1. toSdk' = toSdk
    BY <1>6 DEF C!Stop
  <2>2. AnswersFollow'
    BY <1>1, <1>4, <2>1 DEF ChannelInv, AnswersFollow
  <2> QED BY <1>1, <1>2, <2>2 DEF ChannelInv
<1>7. ASSUME NEW c \in C!Call, C!EvalDone(c) PROVE ChannelInv'
  <2>1. c \in executed' /\ C!Write(C!Units(C!Answer(c)))
    BY <1>1, <1>7 DEF C!EvalDone, ChannelInv, AnswersFollow
  <2>2. Writable(C!Units(C!Answer(c)), executed')
    BY <1>7, <2>1, AnswerWritable
  <2>3. AnswersFollow'
    BY <1>4, <2>1, <2>2, AnswersWritten DEF ChannelInv
  <2> QED BY <1>2, <2>3 DEF ChannelInv
<1> QED BY <1>1, <1>5, <1>6, <1>7

\* The data handler: an answer settles the call it names, if that waits.
LEMMA DataHandled ==
    ASSUME ChannelInv, NEW last \in BOOLEAN, C!OnData(last)
    PROVE  /\ ChannelInv'
           /\ \/ UNCHANGED <<promise, executed>>
              \/ \E S \in SUBSET C!Call : C!Contract!Settle(S)
<1> DEFINE line == Head(toSdk).line
           whole == Head(toSdk).part = "end" /\ buffer = <<C!Units(line)[1]>>
           answers == whole /\ line.type = "answer" /\ line.id \in pending
<1>1. /\ toSdk # <<>> /\ toSdk' = Tail(toSdk)
      /\ pending' = IF answers THEN pending \ {line.id} ELSE pending
      /\ promise' = IF answers THEN [promise EXCEPT ![line.id] = "settled"] ELSE promise
      /\ UNCHANGED <<nextId, executed, toKernel, lines, evalsC>>
  BY DEF C!OnData, C!kernelVars
<1>2. /\ toSdk \in Seq(C!Unit) /\ toSdk' \in Seq(C!Unit) /\ Len(toSdk) \in Nat \ {0}
      /\ Len(toSdk') = Len(toSdk) - 1 /\ Head(toSdk) = toSdk[1]
      /\ \A i \in 1 .. Len(toSdk') : toSdk'[i] = toSdk[i + 1]
  <2>1. toSdk \in Seq(C!Unit)
    BY DEF ChannelInv, AnswersFollow
  <2> QED BY <1>1, <2>1, HeadTailProperties
<1>3. AnswersFollow'
  <2>1. \A i \in 1 .. Len(toSdk') : i + 1 \in 1 .. Len(toSdk)
    BY <1>2
  <2> QED BY <1>1, <1>2, <2>1 DEF ChannelInv, AnswersFollow
<1>4. CommandsOnce'
  BY <1>1 DEF ChannelInv, CommandsOnce
<1>5. answers => line.id \in executed /\ line.id \in pending
  <2>1. 1 \in 1 .. Len(toSdk)
    BY <1>2
  <2> QED BY <1>2, <2>1 DEF ChannelInv, AnswersFollow
<1> HIDE DEF line, answers
<1>6. CASE answers
  <2>1. /\ pending' = pending \ {line.id}
        /\ promise' = [promise EXCEPT ![line.id] = "settled"]
        /\ line.id \in C!Call /\ promise[line.id] = "waiting"
    BY <1>1, <1>5, <1>6 DEF ChannelInv, CallsKept
  <2>2. CallsKept'
    <3>1. \A c \in C!Call :
              promise'[c] = IF c = line.id THEN "settled" ELSE promise[c]
      BY <2>1 DEF ChannelInv, CallsKept
    <3>2. promise' \in [C!Call -> {"none", "waiting", "settled", "dropped"}]
      BY <2>1 DEF ChannelInv, CallsKept
    <3> QED BY <1>1, <2>1, <3>1, <3>2 DEF ChannelInv, CallsKept
  <2>3. C!Contract!Settle({line.id})
    <3>1. /\ {line.id} \subseteq executed /\ {line.id} # {}
          /\ \A c \in {line.id} : promise[c] = "waiting"
          /\ executed' = executed
      BY <1>1, <1>5, <1>6, <2>1
    <3>2. promise' = [c \in C!Call |-> IF c \in {line.id} THEN "settled" ELSE promise[c]]
      BY <2>1 DEF ChannelInv, CallsKept
    <3> QED BY <3>1, <3>2 DEF C!Contract!Settle, C!Contract!Move
  <2>4. {line.id} \in SUBSET C!Call
    BY <2>1
  <2> QED BY <1>3, <1>4, <2>2, <2>3, <2>4 DEF ChannelInv
<1>7. CASE ~answers
  <2>1. CallsKept'
    BY <1>1, <1>7 DEF ChannelInv, CallsKept
  <2> QED BY <1>1, <1>3, <1>4, <1>7, <2>1 DEF ChannelInv
<1> QED BY <1>6, <1>7

\* rejectAllPending: every call that waits is rejected.
LEMMA ChannelClosed ==
    ASSUME ChannelInv, C!Disconnect
    PROVE  /\ ChannelInv'
           /\ \/ UNCHANGED <<promise, executed>>
              \/ \E S \in SUBSET C!Call : C!Contract!Unload(S)
<1>1. /\ pending' = {}
      /\ promise' = [c \in C!Call |-> IF c \in pending THEN "dropped" ELSE promise[c]]
      /\ UNCHANGED <<nextId, executed, toKernel, toSdk, lines, evalsC>>
  BY DEF C!Disconnect, C!kernelVars
<1>2. CommandsOnce' /\ AnswersFollow'
  BY <1>1 DEF ChannelInv, CommandsOnce, AnswersFollow
<1>3. CallsKept'
  BY <1>1 DEF ChannelInv, CallsKept
<1>4. CASE pending = {}
  <2>1. promise' = promise
    BY <1>1, <1>4 DEF ChannelInv, CallsKept
  <2> QED BY <1>1, <1>2, <1>3, <2>1 DEF ChannelInv
<1>5. CASE pending # {}
  <2>1. C!Contract!Unload(pending) /\ pending \in SUBSET C!Call
    BY <1>1, <1>5 DEF C!Contract!Unload, C!Contract!Move, ChannelInv, CallsKept
  <2> QED BY <1>2, <1>3, <2>1 DEF ChannelInv
<1> QED BY <1>4, <1>5

LEMMA SdkStep ==
    ASSUME Capacity \in Nat, SdkCalls \in Nat, ChannelInv, [C!Next]_C!vars
    PROVE  ChannelInv' /\ [C!Contract!Next]_(C!Contract!vars)
<1> USE DEF C!Contract!vars
<1>1. ASSUME NEW cmd \in C!Command, C!SdkCall(cmd)
      PROVE  ChannelInv' /\ [C!Contract!Next]_(C!Contract!vars)
  BY <1>1, ChannelCalled DEF C!Contract!Next
<1>2. CASE C!OnReadable
  BY <1>2, CommandsRead
<1>3. CASE C!HandleLine
  BY <1>3, CommandHandled DEF C!Contract!Next
<1>4. CASE C!WindowEvent \/ C!Stop \/ \E c \in C!Call : C!EvalDone(c)
  BY <1>4, KernelWrites
<1>5. ASSUME NEW last \in BOOLEAN, C!OnData(last)
      PROVE  ChannelInv' /\ [C!Contract!Next]_(C!Contract!vars)
  BY <1>5, DataHandled DEF C!Contract!Next
<1>6. CASE C!Disconnect \/ C!OnClose
  BY <1>6, ChannelClosed DEF C!OnClose, C!Contract!Next
<1>7. CASE UNCHANGED C!vars
  BY <1>7 DEF C!vars, C!sdkVars, C!kernelVars, ChannelInv, CallsKept, CommandsOnce,
              AnswersFollow
<1> QED BY <1>1, <1>2, <1>3, <1>4, <1>5, <1>6, <1>7 DEF C!Next

(***************************************************************************)
(* A call of the SDK is executed at most once and settles at most once,    *)
(* after it ran or with the end of the channel (packages/core, call and    *)
(* rejectAllPending; ControlServer_linux.cpp), whatever the socket cuts.   *)
(***************************************************************************)
THEOREM SdkCallsKeepContract ==
    ASSUME Capacity \in Nat, SdkCalls \in Nat
    PROVE  C!Spec => ImplementsContract
<1>1. C!Init => ChannelInv /\ C!Contract!Init
  BY ChannelInit
<1>2. ChannelInv /\ [C!Next]_C!vars => ChannelInv' /\ [C!Contract!Next]_(C!Contract!vars)
  BY SdkStep
<1> QED BY <1>1, <1>2, PTL DEF C!Spec, ImplementsContract, C!ImplementsContract, C!Contract!Spec

-----------------------------------------------------------------------------
(***************************************************************************)
(* Bridge, as long as the window has its first document, in one frame.  A  *)
(* call is numbered once; it is on its way to the kernel once, before it   *)
(* is executed; and whatever is on its way back, through a nested loop,    *)
(* the outbox or the page's queue, is the result of an executed call.      *)
(***************************************************************************)
OneFrame ==
    /\ Frames = {Main} /\ Kinds \subseteq {"plain", "modal", "internal"}
    /\ MaxLoads \in Nat \ {0} /\ BridgeCalls \in Nat

Numbered(id) == [frame |-> Main, load |-> 1, id |-> id]
Started == {c \in B!Call : promiseB[c] # "none"}
Settlings == {"none", "waiting", "settled", "timeout", "dropped"}

PageCalls ==
    /\ nextIdB \in [Frames -> Nat \ {0}]
    /\ pendingB \in [Frames -> SUBSET (1 .. BridgeCalls)]
    /\ promiseB \in [B!Call -> Settlings]
    /\ \A id \in pendingB[Main] : promiseB[Numbered(id)] = "waiting"
    /\ \A c \in B!Call : promiseB[c] # "none" <=> c.load = 1 /\ c.id < nextIdB[Main]

MessagesOnce ==
    /\ executedB \subseteq Started
    /\ toKernelB \in Seq([call : Started, kind : Kinds])
    /\ \A i \in 1 .. Len(toKernelB) :
           /\ toKernelB[i].call \notin executedB
           /\ \A j \in 1 .. Len(toKernelB) : toKernelB[i].call = toKernelB[j].call => i = j

ResultsOfExecuted ==
    /\ stack \in Seq(executedB) /\ outboxB \in Seq(executedB)
    /\ toPage \in Seq(Seq(executedB))
    /\ resultOf \in [B!Call -> SUBSET B!Call]
    /\ \A c \in B!Call : resultOf[c] \subseteq {c}

FirstDocument == PageCalls /\ MessagesOnce /\ ResultsOfExecuted

BridgeInv == load \in Nat \ {0} /\ (load = 1 => FirstDocument)

ContractStep == [B!Contract!Next]_(B!Contract!vars)

LEMMA CallsOfFirst ==
    ASSUME OneFrame
    PROVE  /\ \A id \in 1 .. BridgeCalls :
                  /\ Numbered(id) \in B!Call /\ Numbered(id).id = id
                  /\ Numbered(id).load = 1
           /\ \A c \in B!Call : c.load = 1 => c = Numbered(c.id)
           /\ \A c \in B!Call : c.id \in 1 .. BridgeCalls
           /\ load = 1 => \A id : B!CallOf(Main, id) = Numbered(id)
<1>1. \A id \in 1 .. BridgeCalls : Numbered(id) \in B!Call /\ Numbered(id).id = id
                                   /\ Numbered(id).load = 1
  BY DEF OneFrame, Numbered, B!Call
<1>2. \A c \in B!Call : c.load = 1 => c = Numbered(c.id)
  BY DEF OneFrame, Numbered, B!Call
<1>3. \A c \in B!Call : c.id \in 1 .. BridgeCalls
  BY DEF B!Call
<1>4. load = 1 => \A id : B!CallOf(Main, id) = Numbered(id)
  BY DEF B!CallOf, Numbered
<1> QED BY <1>1, <1>2, <1>3, <1>4

LEMMA BridgeInit ==
    ASSUME OneFrame, B!Init PROVE BridgeInv /\ B!Contract!Init
<1>1. /\ load = 1 /\ nextIdB = [f \in Frames |-> 1] /\ pendingB = [f \in Frames |-> {}]
      /\ toKernelB = <<>> /\ stack = <<>> /\ outboxB = <<>> /\ toPage = <<>>
      /\ promiseB = [c \in B!Call |-> "none"] /\ executedB = {}
      /\ resultOf = [c \in B!Call |-> {}]
  BY DEF B!Init
<1>2. PageCalls
  BY <1>1 DEF PageCalls, OneFrame, Settlings, B!Call
<1>3. MessagesOnce /\ ResultsOfExecuted
  BY <1>1 DEF MessagesOnce, ResultsOfExecuted
<1> QED BY <1>1, <1>2, <1>3 DEF BridgeInv, FirstDocument, B!Contract!Init

\* ow.invoke: the next number of the document, and its message.
LEMMA PageInvokes ==
    ASSUME OneFrame, load = 1, FirstDocument, NEW f \in Frames, NEW kind \in Kinds,
           B!Invoke(f, kind)
    PROVE  FirstDocument' /\ load' = load /\ ContractStep
<1> DEFINE id == nextIdB[Main]
           c == Numbered(id)
           message == [call |-> c, kind |-> kind]
<1>1. /\ id <= BridgeCalls
      /\ nextIdB' = [nextIdB EXCEPT ![Main] = @ + 1]
      /\ pendingB' = [pendingB EXCEPT ![Main] = @ \cup {id}]
      /\ toKernelB' = Append(toKernelB, message)
      /\ promiseB' = [promiseB EXCEPT ![c] = "waiting"]
      /\ UNCHANGED <<load, stack, outboxB, toPage, executedB, resultOf>>
  <2>1. f = Main
    BY DEF OneFrame
  <2>2. B!CallOf(f, nextIdB[f]) = c
    BY <2>1, CallsOfFirst
  <2> QED BY <2>1, <2>2 DEF B!Invoke, B!sendVars
<1>2. Main \in Frames /\ id \in Nat \ {0} /\ id \in 1 .. BridgeCalls
  BY <1>1 DEF OneFrame, FirstDocument, PageCalls
<1>3. c \in B!Call /\ c.id = id /\ c.load = 1
  BY <1>2, CallsOfFirst
<1>4. promiseB[c] = "none" /\ c \notin Started /\ id \notin pendingB[Main]
  <2>1. promiseB[c] = "none"
    BY <1>2, <1>3 DEF FirstDocument, PageCalls
  <2>2. id \notin pendingB[Main]
    BY <2>1 DEF FirstDocument, PageCalls
  <2> QED BY <2>1, <2>2 DEF Started
<1> HIDE DEF id, c
<1>5. \A x \in B!Call : promiseB'[x] = IF x = c THEN "waiting" ELSE promiseB[x]
  BY <1>1, <1>3 DEF FirstDocument, PageCalls
<1>6. PageCalls'
  <2>1. /\ nextIdB' \in [Frames -> Nat \ {0}] /\ nextIdB'[Main] = id + 1
    BY <1>1, <1>2 DEF FirstDocument, PageCalls, id
  <2>2. /\ pendingB' \in [Frames -> SUBSET (1 .. BridgeCalls)]
        /\ pendingB'[Main] = pendingB[Main] \cup {id}
    BY <1>1, <1>2 DEF FirstDocument, PageCalls
  <2>3. promiseB' \in [B!Call -> Settlings]
    BY <1>1, <1>3 DEF FirstDocument, PageCalls, Settlings
  <2>4. ASSUME NEW i \in pendingB'[Main] PROVE promiseB'[Numbered(i)] = "waiting"
    <3>1. CASE i = id
      BY <1>3, <1>5, <3>1 DEF c
    <3>2. CASE i \in pendingB[Main]
      <4>1. Numbered(i) \in B!Call
        BY <3>2, CallsOfFirst DEF OneFrame, FirstDocument, PageCalls
      <4> QED BY <1>5, <3>2, <4>1 DEF FirstDocument, PageCalls
    <3> QED BY <2>2, <3>1, <3>2
  <2>5. ASSUME NEW x \in B!Call
        PROVE  promiseB'[x] # "none" <=> x.load = 1 /\ x.id < nextIdB'[Main]
    <3>1. x.id \in Nat
      BY CallsOfFirst
    <3>2. CASE x = c
      BY <1>2, <1>3, <1>5, <2>1, <3>2
    <3>3. CASE x # c
      <4>1. x.load = 1 => x.id # id
        BY <3>3, CallsOfFirst DEF c
      <4>2. promiseB[x] # "none" <=> x.load = 1 /\ x.id < id
        BY DEF FirstDocument, PageCalls, id
      <4> QED BY <1>2, <1>5, <2>1, <3>1, <3>3, <4>1, <4>2
    <3> QED BY <3>2, <3>3
  <2> QED BY <2>1, <2>2, <2>3, <2>4, <2>5 DEF PageCalls
<1>7. c \in Started' /\ Started \subseteq Started'
  BY <1>3, <1>5 DEF Started
<1>8. MessagesOnce'
  <2> DEFINE Messages == [call : Started', kind : Kinds]
  <2>1. message \in Messages /\ message.call = c
    BY <1>7
  <2>2. [call : Started, kind : Kinds] \subseteq Messages
    BY <1>7
  <2> HIDE DEF message
  <2>3. toKernelB \in Seq(Messages)
    <3>1. toKernelB \in Seq([call : Started, kind : Kinds])
      BY DEF FirstDocument, MessagesOnce
    <3> HIDE DEF Messages
    <3> QED BY <2>2, <3>1, SeqMonotonic
  <2>4. \A i \in 1 .. Len(toKernelB) : toKernelB[i].call \in Started
    <3> DEFINE Sent == [call : Started, kind : Kinds]
    <3>1. toKernelB \in Seq(Sent)
      BY DEF FirstDocument, MessagesOnce
    <3>2. \A m \in Sent : m.call \in Started
      OBVIOUS
    <3> HIDE DEF Sent
    <3>3. \A i \in 1 .. Len(toKernelB) : toKernelB[i] \in Sent
      BY <3>1, ElementOfSeq
    <3> QED BY <3>2, <3>3
  <2> HIDE DEF Messages
  <2>5. /\ toKernelB' \in Seq(Messages) /\ Len(toKernelB) \in Nat
        /\ Len(toKernelB') = Len(toKernelB) + 1
        /\ \A i \in 1 .. Len(toKernelB) : toKernelB'[i] = toKernelB[i]
        /\ toKernelB'[Len(toKernelB) + 1] = message
    BY <1>1, <2>1, <2>3, AppendProperties
  <2>6. c \notin executedB
    BY <1>4 DEF FirstDocument, MessagesOnce
  <2>7. ASSUME NEW i \in 1 .. Len(toKernelB')
        PROVE  \/ i \in 1 .. Len(toKernelB) /\ toKernelB'[i] = toKernelB[i]
               \/ i = Len(toKernelB) + 1 /\ toKernelB'[i].call = c
    BY <2>1, <2>5
  <2>8. ASSUME NEW i \in 1 .. Len(toKernelB')
        PROVE  /\ toKernelB'[i].call \notin executedB
               /\ \A j \in 1 .. Len(toKernelB') :
                      toKernelB'[i].call = toKernelB'[j].call => i = j
    <3>1. CASE i \in 1 .. Len(toKernelB) /\ toKernelB'[i] = toKernelB[i]
      BY <1>4, <2>4, <2>7, <3>1 DEF FirstDocument, MessagesOnce
    <3>2. CASE i = Len(toKernelB) + 1 /\ toKernelB'[i].call = c
      BY <1>4, <2>4, <2>6, <2>7, <3>2
    <3> QED BY <2>7, <3>1, <3>2
  <2> QED BY <1>1, <1>7, <2>5, <2>8 DEF MessagesOnce, FirstDocument, Messages
<1>9. ResultsOfExecuted'
  BY <1>1 DEF FirstDocument, ResultsOfExecuted
<1>10. B!Contract!Invoke(c)
  <2>1. promiseB' = [x \in B!Call |-> IF x \in {c} THEN "waiting" ELSE promiseB[x]]
    BY <1>1, <1>3 DEF FirstDocument, PageCalls
  <2> QED BY <1>1, <1>4, <2>1 DEF B!Contract!Invoke, B!Contract!Move
<1> QED BY <1>1, <1>3, <1>6, <1>8, <1>9, <1>10 DEF FirstDocument, ContractStep, B!Contract!Next

\* What leaves the calls and the messages alone keeps what is said of them.
LEMMA CallsUntouched ==
    ASSUME FirstDocument, UNCHANGED <<nextIdB, pendingB, promiseB, executedB, toKernelB>>
    PROVE  PageCalls' /\ MessagesOnce'
<1>1. PageCalls'
  BY DEF FirstDocument, PageCalls
<1>2. Started' = Started
  BY DEF Started
<1>3. MessagesOnce'
  BY <1>2 DEF FirstDocument, MessagesOnce
<1> QED BY <1>1, <1>3

\* Calls that wait stop waiting, and leave the map of the page.
LEMMA CallsMoved ==
    ASSUME OneFrame, load = 1, FirstDocument,
           NEW S, S \subseteq {c \in B!Call : promiseB[c] = "waiting"},
           NEW to \in Settlings, to \notin {"none", "waiting"},
           promiseB' = [c \in B!Call |-> IF c \in S THEN to ELSE promiseB[c]],
           pendingB' \in [Frames -> SUBSET (1 .. BridgeCalls)],
           pendingB'[Main] \subseteq pendingB[Main],
           \A id \in pendingB'[Main] : Numbered(id) \notin S,
           UNCHANGED <<nextIdB, executedB>>,
           toKernelB' \in {toKernelB, <<>>}
    PROVE  /\ PageCalls' /\ MessagesOnce'
           /\ S = {} => promiseB' = promiseB
<1>1. \A c \in B!Call : promiseB'[c] = IF c \in S THEN to ELSE promiseB[c]
  OBVIOUS
<1>2. promiseB' \in [B!Call -> Settlings]
  BY DEF FirstDocument, PageCalls
<1>3. \A c \in B!Call : promiseB'[c] = "none" <=> promiseB[c] = "none"
  BY <1>1
<1>4. \A id \in pendingB'[Main] : promiseB'[Numbered(id)] = "waiting"
  <2> SUFFICES ASSUME NEW id \in pendingB'[Main] PROVE promiseB'[Numbered(id)] = "waiting"
    OBVIOUS
  <2>1. id \in 1 .. BridgeCalls /\ id \in pendingB[Main]
    BY DEF OneFrame, FirstDocument, PageCalls
  <2>2. Numbered(id) \in B!Call
    BY <2>1, CallsOfFirst
  <2> QED BY <1>1, <2>1, <2>2 DEF FirstDocument, PageCalls
<1>5. PageCalls'
  BY <1>2, <1>3, <1>4 DEF FirstDocument, PageCalls
<1>6. Started' = Started
  BY <1>3 DEF Started
<1>7. MessagesOnce'
  <2>1. CASE toKernelB' = toKernelB
    BY <1>6, <2>1 DEF FirstDocument, MessagesOnce
  <2>2. CASE toKernelB' = <<>>
    BY <1>6, <2>2 DEF FirstDocument, MessagesOnce
  <2> QED BY <2>1, <2>2
<1>8. S = {} => promiseB' = promiseB
  BY DEF FirstDocument, PageCalls
<1> QED BY <1>5, <1>7, <1>8

\* The timer of 30 s.
LEMMA PageTimesOut ==
    ASSUME OneFrame, load = 1, FirstDocument, NEW f \in Frames, NEW id \in 1 .. BridgeCalls,
           B!TimeOut(f, id)
    PROVE  FirstDocument' /\ load' = load /\ ContractStep
<1> DEFINE c == Numbered(id)
<1>1. /\ id \in pendingB[Main]
      /\ pendingB' = [pendingB EXCEPT ![Main] = @ \ {id}]
      /\ promiseB' = [promiseB EXCEPT ![c] = "timeout"]
      /\ UNCHANGED <<load, nextIdB, toKernelB, stack, outboxB, toPage, executedB, resultOf>>
  <2>1. f = Main /\ B!CallOf(f, id) = c
    BY CallsOfFirst DEF OneFrame
  <2> QED BY <2>1 DEF B!TimeOut, B!sendVars
<1>2. c \in B!Call /\ promiseB[c] = "waiting"
  BY <1>1, CallsOfFirst DEF FirstDocument, PageCalls
<1>3. promiseB' = [x \in B!Call |-> IF x \in {c} THEN "timeout" ELSE promiseB[x]]
  BY <1>1, <1>2 DEF FirstDocument, PageCalls
<1>4. /\ pendingB' \in [Frames -> SUBSET (1 .. BridgeCalls)]
      /\ pendingB'[Main] = pendingB[Main] \ {id}
  BY <1>1 DEF OneFrame, FirstDocument, PageCalls
<1>5. \A i \in pendingB'[Main] : Numbered(i) \notin {c}
  BY <1>4 DEF Numbered
<1> HIDE DEF c
<1>6. PageCalls' /\ MessagesOnce'
  <2>1. {c} \subseteq {x \in B!Call : promiseB[x] = "waiting"}
    BY <1>2
  <2>2. "timeout" \in Settlings
    BY DEF Settlings
  <2> QED BY <1>1, <1>3, <1>4, <1>5, <2>1, <2>2, CallsMoved
<1>7. ResultsOfExecuted'
  BY <1>1 DEF FirstDocument, ResultsOfExecuted
<1>8. B!Contract!TimeOut(c)
  BY <1>1, <1>2, <1>3 DEF B!Contract!TimeOut, B!Contract!Move
<1> QED BY <1>1, <1>2, <1>6, <1>7, <1>8 DEF FirstDocument, ContractStep, B!Contract!Next

\* A page that goes away drops its promises.
LEMMA PageGoes ==
    ASSUME OneFrame, load = 1, FirstDocument, B!Reload \/ B!DeleteWindow
    PROVE  /\ load' = 1 => FirstDocument'
           /\ load' \in Nat \ {0} /\ ContractStep
<1> DEFINE S == B!Waiting
<1>1. /\ promiseB' = [c \in B!Call |-> IF c \in S THEN "dropped" ELSE promiseB[c]]
      /\ executedB' = executedB /\ load' \in {load, load + 1}
  BY DEF B!Reload, B!DeleteWindow, B!Dropped
<1>2. S \subseteq {c \in B!Call : promiseB[c] = "waiting"}
  BY DEF B!Waiting
<1> HIDE DEF S
<1>3. S = {} => promiseB' = promiseB
  BY <1>1 DEF FirstDocument, PageCalls
<1>4. S # {} => B!Contract!Unload(S) /\ S \in SUBSET B!Call
  BY <1>1, <1>2 DEF B!Contract!Unload, B!Contract!Move
<1>5. ContractStep
  BY <1>1, <1>3, <1>4 DEF ContractStep, B!Contract!Next, B!Contract!vars
<1>6. ASSUME load' = 1 PROVE FirstDocument'
  <2>1. B!DeleteWindow
    <3>1. B!Reload => load' = 2
      BY DEF B!Reload
    <3> QED BY <1>6, <3>1
  <2>2. /\ pendingB' = [f \in Frames |-> {}] /\ toKernelB' = <<>> /\ toPage' = <<>>
        /\ UNCHANGED <<nextIdB, stack, outboxB, executedB, resultOf>>
    BY <2>1 DEF B!DeleteWindow
  <2>3. PageCalls' /\ MessagesOnce'
    <3>1. pendingB' \in [Frames -> SUBSET (1 .. BridgeCalls)] /\ pendingB'[Main] = {}
      BY <2>2 DEF OneFrame
    <3>2. "dropped" \in Settlings
      BY DEF Settlings
    <3> QED BY <1>1, <1>2, <2>2, <3>1, <3>2, CallsMoved
  <2>4. ResultsOfExecuted'
    BY <2>2 DEF FirstDocument, ResultsOfExecuted
  <2> QED BY <2>3, <2>4 DEF FirstDocument
<1> QED BY <1>1, <1>5, <1>6

\* More calls are executed: results of executed calls stay such.
LEMMA ResultsStay ==
    ASSUME NEW S, NEW T, S \subseteq T
    PROVE  Seq(S) \subseteq Seq(T) /\ Seq(Seq(S)) \subseteq Seq(Seq(T))
<1>1. ASSUME NEW A, NEW Z, A \subseteq Z PROVE Seq(A) \subseteq Seq(Z)
  BY <1>1, SeqMonotonic
<1>2. Seq(S) \subseteq Seq(T)
  BY <1>1
<1> QED BY <1>1, <1>2

\* HandleWebViewMessage: the call is executed, for the first time; its result
\* goes to the page, into the outbox, or waits for a nested loop to end.
LEMMA MessageHandled ==
    ASSUME OneFrame, load = 1, FirstDocument, B!HandleWebViewMessage
    PROVE  FirstDocument' /\ load' = load /\ ContractStep
<1> DEFINE call == Head(toKernelB).call
           Messages == [call : Started, kind : Kinds]
<1>1. /\ toKernelB # <<>> /\ toKernelB' = Tail(toKernelB)
      /\ executedB' = executedB \cup {call}
      /\ UNCHANGED <<load, nextIdB, pendingB, promiseB, resultOf>>
  BY DEF B!HandleWebViewMessage, B!pageVars
<1>2. /\ toKernelB \in Seq(Messages) /\ toKernelB' \in Seq(Messages)
      /\ Len(toKernelB) \in Nat \ {0} /\ Len(toKernelB') = Len(toKernelB) - 1
      /\ \A i \in 1 .. Len(toKernelB') : toKernelB'[i] = toKernelB[i + 1]
      /\ Head(toKernelB) = toKernelB[1] /\ Head(toKernelB) \in Messages
  <2>1. toKernelB \in Seq(Messages)
    BY DEF FirstDocument, MessagesOnce
  <2> HIDE DEF Messages
  <2> QED BY <1>1, <2>1, HeadTailProperties
<1>3. call \in Started /\ call \in B!Call /\ Head(toKernelB).kind \in Kinds
  BY <1>2 DEF Started
<1>4. /\ call \notin executedB
      /\ \A i \in 1 .. Len(toKernelB) : toKernelB[i].call = call => i = 1
  <2>1. 1 \in 1 .. Len(toKernelB) /\ toKernelB[1].call = call
    BY <1>2
  <2> QED BY <2>1 DEF FirstDocument, MessagesOnce
<1>5. \/ toPage' = Append(toPage, <<call>>) /\ UNCHANGED <<outboxB, stack>>
      \/ stack' = Append(stack, call) /\ UNCHANGED <<outboxB, toPage>>
      \/ outboxB' = Append(outboxB, call) /\ UNCHANGED <<toPage, stack>>
  <2>1. Head(toKernelB).kind \in {"plain", "modal", "internal"}
    BY <1>3 DEF OneFrame
  <2>2. CASE Head(toKernelB).kind = "plain"
    BY <2>2 DEF B!HandleWebViewMessage, B!EvalJS
  <2>3. CASE Head(toKernelB).kind = "modal"
    BY <2>3 DEF B!HandleWebViewMessage, B!sendVars
  <2>4. CASE Head(toKernelB).kind = "internal"
    BY <2>4 DEF B!HandleWebViewMessage, B!Respond
  <2> QED BY <2>1, <2>2, <2>3, <2>4
<1> HIDE DEF call
<1>6. PageCalls'
  BY <1>1 DEF FirstDocument, PageCalls
<1>7. Started' = Started
  BY <1>1 DEF Started
<1>8. MessagesOnce'
  <2>1. \A i \in 1 .. Len(toKernelB') :
            /\ i + 1 \in 1 .. Len(toKernelB) /\ toKernelB'[i] = toKernelB[i + 1]
            /\ i + 1 # 1
    BY <1>2
  <2>2. ASSUME NEW i \in 1 .. Len(toKernelB')
        PROVE  /\ toKernelB'[i].call \notin executedB'
               /\ \A j \in 1 .. Len(toKernelB') :
                      toKernelB'[i].call = toKernelB'[j].call => i = j
    <3>1. toKernelB'[i].call \notin executedB'
      BY <1>1, <1>4, <2>1 DEF FirstDocument, MessagesOnce
    <3>2. ASSUME NEW j \in 1 .. Len(toKernelB'), toKernelB'[i].call = toKernelB'[j].call
          PROVE  i = j
      <4>1. i + 1 = j + 1
        BY <2>1, <3>2 DEF FirstDocument, MessagesOnce
      <4> QED BY <4>1
    <3> QED BY <3>1, <3>2
  <2>3. executedB' \subseteq Started'
    BY <1>1, <1>3, <1>7 DEF FirstDocument, MessagesOnce
  <2>4. toKernelB' \in Seq([call : Started', kind : Kinds'])
    BY <1>2, <1>7
  <2> QED BY <2>2, <2>3, <2>4 DEF MessagesOnce
<1>9. ResultsOfExecuted'
  <2>1. /\ stack \in Seq(executedB) /\ outboxB \in Seq(executedB)
        /\ toPage \in Seq(Seq(executedB))
    BY DEF FirstDocument, ResultsOfExecuted
  <2>2. /\ stack \in Seq(executedB') /\ outboxB \in Seq(executedB')
        /\ toPage \in Seq(Seq(executedB')) /\ call \in executedB'
    <3>1. executedB \subseteq executedB'
      BY <1>1
    <3> QED BY <1>1, <2>1, <3>1, ResultsStay
  <2>3. <<call>> \in Seq(executedB')
    BY <2>2
  <2>4. /\ Append(stack, call) \in Seq(executedB')
        /\ Append(outboxB, call) \in Seq(executedB')
    BY <2>2, AppendProperties
  <2>5. Append(toPage, <<call>>) \in Seq(Seq(executedB'))
    BY <2>2, <2>3, AppendProperties
  <2>6. /\ stack' \in Seq(executedB') /\ outboxB' \in Seq(executedB')
        /\ toPage' \in Seq(Seq(executedB'))
    BY <1>5, <2>2, <2>4, <2>5
  <2> QED BY <1>1, <2>6 DEF FirstDocument, ResultsOfExecuted
<1>10. B!Contract!Execute(call)
  BY <1>1, <1>3, <1>4 DEF B!Contract!Execute, Started
<1> QED BY <1>1, <1>3, <1>6, <1>8, <1>9, <1>10 DEF FirstDocument, ContractStep, B!Contract!Next

\* A nested loop ends, or the outbox is flushed: results move towards the page.
LEMMA ResultsMove ==
    ASSUME load = 1, FirstDocument, B!ModalReturns \/ B!FlushOutbox
    PROVE  FirstDocument' /\ load' = load /\ ContractStep
<1>1. UNCHANGED <<load, nextIdB, pendingB, promiseB, executedB, toKernelB, resultOf>>
  BY DEF B!ModalReturns, B!FlushOutbox, B!pageVars
<1>2. PageCalls' /\ MessagesOnce'
  BY <1>1, CallsUntouched
<1>3. ContractStep
  BY <1>1 DEF ContractStep, B!Contract!vars
<1>4. /\ stack \in Seq(executedB) /\ outboxB \in Seq(executedB)
      /\ toPage \in Seq(Seq(executedB))
  BY DEF FirstDocument, ResultsOfExecuted
<1>5. CASE B!ModalReturns
  <2>1. /\ stack # <<>> /\ stack' = B!Front(stack) /\ outboxB' = outboxB
        /\ toPage' = toPage \/ toPage' = Append(toPage, <<B!Last(stack)>>)
    BY <1>5 DEF B!ModalReturns, B!EvalJS, B!sendVars
  <2>2. Len(stack) \in Nat \ {0}
    BY <1>4, <2>1
  <2>3. stack' \in Seq(executedB)
    <3>1. \A i \in 1 .. Len(stack) - 1 : stack[i] \in executedB
      BY <1>4, <2>2
    <3> QED BY <2>1, <2>2, <3>1, SubSeqProperties DEF B!Front
  <2>4. <<B!Last(stack)>> \in Seq(executedB)
    <3>1. stack[Len(stack)] \in executedB
      BY <1>4, <2>2, ElementOfSeq
    <3> QED BY <3>1 DEF B!Last
  <2>5. toPage' \in Seq(Seq(executedB))
    <3> DEFINE one == <<B!Last(stack)>>
    <3>1. one \in Seq(executedB) /\ (toPage' = toPage \/ toPage' = Append(toPage, one))
      BY <2>1, <2>4
    <3> HIDE DEF one
    <3>2. Append(toPage, one) \in Seq(Seq(executedB))
      BY <1>4, <3>1, AppendProperties
    <3> QED BY <1>4, <3>1, <3>2
  <2> QED BY <1>1, <1>2, <1>3, <1>4, <2>1, <2>3, <2>5 DEF FirstDocument, ResultsOfExecuted
<1>6. CASE B!FlushOutbox
  <2>1. /\ stack' = stack
        /\ \/ toPage' = Append(toPage, outboxB) /\ outboxB' = <<>>
           \/ UNCHANGED <<toPage, outboxB>>
    BY <1>6 DEF B!FlushOutbox
  <2>2. Append(toPage, outboxB) \in Seq(Seq(executedB)) /\ <<>> \in Seq(executedB)
    BY <1>4, AppendProperties
  <2>3. outboxB' \in Seq(executedB) /\ toPage' \in Seq(Seq(executedB))
    BY <1>4, <2>1, <2>2
  <2> QED BY <1>1, <1>2, <1>3, <1>4, <2>1, <2>3 DEF FirstDocument, ResultsOfExecuted
<1> QED BY <1>5, <1>6

\* The page runs a script: a pending call gets the result with its number,
\* which is its own, the only one of that number.
LEMMA ScriptRuns ==
    ASSUME OneFrame, load = 1, FirstDocument, B!EvalScript
    PROVE  FirstDocument' /\ load' = load /\ ContractStep
<1> DEFINE script == Head(toPage)
           S == B!Settled(script)
           ids == {c.id : c \in B!ToSet(script)}
<1>1. /\ toPage # <<>> /\ toPage' = Tail(toPage)
      /\ pendingB' = [pendingB EXCEPT ![Main] = @ \ ids]
      /\ resultOf' = [c \in B!Call |->
             IF c \in S THEN resultOf[c] \cup {r \in B!ToSet(script) : r.id = c.id}
             ELSE resultOf[c]]
      /\ promiseB' = [c \in B!Call |-> IF c \in S THEN "settled" ELSE promiseB[c]]
      /\ UNCHANGED <<load, nextIdB, toKernelB, stack, outboxB, executedB>>
  BY DEF B!EvalScript, B!Received
<1>2. toPage \in Seq(Seq(executedB)) /\ executedB \subseteq Started
  BY DEF FirstDocument, ResultsOfExecuted, MessagesOnce
<1>3. script \in Seq(executedB) /\ toPage' \in Seq(Seq(executedB))
  BY <1>1, <1>2, HeadTailProperties
<1>4. B!ToSet(script) \subseteq executedB
  BY <1>3 DEF B!ToSet
<1>5. \A c \in executedB : c \in B!Call /\ c = Numbered(c.id)
  BY <1>2, CallsOfFirst DEF Started, FirstDocument, PageCalls
<1>6. S = {Numbered(id) : id \in pendingB[Main] \cap ids}
  BY CallsOfFirst DEF B!Settled
<1> HIDE DEF script, S
<1>7. S \subseteq executedB /\ S \subseteq B!Call
  BY <1>4, <1>5, <1>6
<1>8. S \subseteq {c \in B!Call : promiseB[c] = "waiting"}
  BY <1>6, <1>7 DEF FirstDocument, PageCalls
<1>9. /\ pendingB' \in [Frames -> SUBSET (1 .. BridgeCalls)]
      /\ pendingB'[Main] = pendingB[Main] \ ids
  <2> HIDE DEF ids
  <2> QED BY <1>1 DEF OneFrame, FirstDocument, PageCalls
<1>10. \A id \in pendingB'[Main] : Numbered(id) \notin S
  <2>1. \A i, j : Numbered(i) = Numbered(j) => i = j
    BY DEF Numbered
  <2> QED BY <1>6, <1>9, <2>1
<1> HIDE DEF ids
<1>11. /\ PageCalls' /\ MessagesOnce'
       /\ S = {} => promiseB' = promiseB
  <2>1. "settled" \in Settlings
    BY DEF Settlings
  <2> QED BY <1>1, <1>8, <1>9, <1>10, <2>1, CallsMoved
<1>12. ResultsOfExecuted'
  <2>1. \A c \in S : {r \in B!ToSet(script) : r.id = c.id} \subseteq {c}
    BY <1>4, <1>5, <1>7
  <2>2. \A c \in B!Call : resultOf[c] \subseteq {c}
    BY DEF FirstDocument, ResultsOfExecuted
  <2>3. \A c \in B!Call : resultOf'[c] \subseteq {c}
    BY <1>1, <2>1, <2>2
  <2>4. resultOf' \in [B!Call -> SUBSET B!Call]
    <3>1. DOMAIN resultOf' = B!Call /\ resultOf' = [c \in B!Call |-> resultOf'[c]]
      BY <1>1
    <3> QED BY <2>3, <3>1
  <2> QED BY <1>1, <1>3, <2>3, <2>4 DEF FirstDocument, ResultsOfExecuted
<1>13. ContractStep
  <2>1. CASE S = {}
    BY <1>1, <1>11, <2>1 DEF ContractStep, B!Contract!vars
  <2>2. CASE S # {}
    <3>1. B!Contract!Settle(S) /\ S \in SUBSET B!Call
      BY <1>1, <1>7, <1>8, <2>2 DEF B!Contract!Settle, B!Contract!Move
    <3> QED BY <3>1 DEF ContractStep, B!Contract!Next
  <2> QED BY <2>1, <2>2
<1> QED BY <1>1, <1>11, <1>12, <1>13 DEF FirstDocument

LEMMA BridgeStep ==
    ASSUME OneFrame, BridgeInv, [B!Next]_B!vars
    PROVE  BridgeInv' /\ (load = 1 => ContractStep)
<1>1. CASE load # 1
  <2>1. load' = load \/ load' = load + 1
    BY DEF B!Next, B!Invoke, B!TimeOut, B!Reload, B!HandleWebViewMessage, B!ModalReturns,
           B!FlushOutbox, B!EvalScript, B!DeleteWindow, B!vars, B!pageVars
  <2> QED BY <1>1, <2>1 DEF BridgeInv
<1>2. CASE load = 1
  <2> USE DEF BridgeInv
  <2>1. ASSUME NEW f \in Frames, NEW kind \in Kinds, B!Invoke(f, kind)
        PROVE  BridgeInv' /\ ContractStep
    BY <1>2, <2>1, PageInvokes
  <2>2. ASSUME NEW f \in Frames, NEW id \in 1 .. BridgeCalls, B!TimeOut(f, id)
        PROVE  BridgeInv' /\ ContractStep
    BY <1>2, <2>2, PageTimesOut
  <2>3. CASE B!Reload \/ B!DeleteWindow
    BY <1>2, <2>3, PageGoes
  <2>4. CASE B!HandleWebViewMessage
    BY <1>2, <2>4, MessageHandled
  <2>5. CASE B!ModalReturns \/ B!FlushOutbox
    BY <1>2, <2>5, ResultsMove
  <2>6. CASE B!EvalScript
    BY <1>2, <2>6, ScriptRuns
  <2>7. CASE UNCHANGED B!vars
    <3>1. UNCHANGED <<load, nextIdB, pendingB, promiseB, executedB, toKernelB, stack,
                      outboxB, toPage, resultOf>>
      BY <2>7 DEF B!vars, B!pageVars, B!sendVars
    <3>2. PageCalls' /\ MessagesOnce'
      BY <1>2, <3>1, CallsUntouched
    <3>3. ResultsOfExecuted'
      BY <1>2, <3>1 DEF FirstDocument, ResultsOfExecuted
    <3> QED BY <1>2, <3>1, <3>2, <3>3 DEF FirstDocument, ContractStep, B!Contract!vars
  <2> QED BY <1>2, <2>1, <2>2, <2>3, <2>4, <2>5, <2>6, <2>7 DEF B!Next
<1> QED BY <1>1, <1>2

LEMMA BridgeAlways == ASSUME OneFrame PROVE B!Spec => []BridgeInv
<1>1. B!Init => BridgeInv
  BY BridgeInit
<1>2. BridgeInv /\ [B!Next]_B!vars => BridgeInv'
  BY BridgeStep
<1> QED BY <1>1, <1>2, PTL DEF B!Spec

(***************************************************************************)
(* As long as the window has its first document, a call of ow.invoke is    *)
(* executed at most once and settles at most once, after it ran, with its  *)
(* timer or with its page (_apply, _batch, HandleWebViewMessage), in any   *)
(* order in which nested loops, the outbox and timers let results through. *)
(***************************************************************************)
THEOREM PageCallsKeepContract ==
    ASSUME OneFrame PROVE B!Spec => KeepsContractWithoutReload
<1>1. B!Init => B!Contract!Init
  BY BridgeInit
<1>2. BridgeInv /\ [B!Next]_B!vars =>
          [load = 1 => B!Contract!Next \/ UNCHANGED B!Contract!vars]_B!vars
  BY BridgeStep DEF ContractStep
<1> QED BY <1>1, <1>2, BridgeAlways, PTL
       DEF B!Spec, KeepsContractWithoutReload, B!KeepsContractWithoutReload

(***************************************************************************)
(* As long as the window has its first document, a promise is resolved     *)
(* with the result of its own call (_apply and _batch find it by its       *)
(* number alone).                                                          *)
(***************************************************************************)
THEOREM ResultsFindTheirCall ==
    ASSUME OneFrame PROVE B!Spec => []B!OwnResultWithoutReload
<1>1. BridgeInv => B!OwnResultWithoutReload
  BY DEF BridgeInv, FirstDocument, ResultsOfExecuted, B!OwnResultWithoutReload, B!OwnResult
<1> QED BY <1>1, BridgeAlways, PTL
=============================================================================
