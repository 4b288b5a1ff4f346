--------------------------- MODULE MainLoopProofs ---------------------------
(***************************************************************************)
(* Proofs about the main loops, for any number of threads and callbacks:   *)
(* MainLoopGtk, whose variables these are; W, the loop of Win32; and M,    *)
(* the loop of macOS, which use the same queue, batch and histories.       *)
(***************************************************************************)
EXTENDS MainLoopGtk, TLAPS

CONSTANT MaxInput

VARIABLES at, msgs, input

W == INSTANCE MainLoopWin
M == INSTANCE MainLoopMac

IInv == TypeOK /\ NoLostWakeup

LEMMA LoopInit == Init => IInv
<1> SUFFICES ASSUME Init PROVE IInv
    OBVIOUS
<1>1. pending \in Seq(Callback) /\ batch \in Seq(Callback) /\ ran \in Seq(Callback)
  BY DEF Init
<1>2. pc \in [Threads -> {"idle", "pushed"}] /\ posted \in [Threads -> 0 .. MaxPosts]
  BY MaxPostsAssumption DEF Init
<1>3. TypeOK
  BY <1>1, <1>2 DEF Init, TypeOK
<1> QED BY <1>3 DEF Init, IInv, NoLostWakeup

(***************************************************************************)
(* The callback a push queues is one of the callbacks, and the push keeps  *)
(* the types.                                                              *)
(***************************************************************************)
LEMMA PushTypes ==
    ASSUME TypeOK, NEW t \in Threads, Push(t)
    PROVE  /\ posted'[t] = posted[t] + 1
           /\ <<t, posted'[t]>> \in Callback
           /\ pending' \in Seq(Callback)
           /\ posted' \in [Threads -> 0 .. MaxPosts]
<1>1. posted \in [Threads -> 0 .. MaxPosts] /\ pending \in Seq(Callback)
  BY DEF TypeOK
<1>2. posted[t] \in 0 .. MaxPosts /\ posted[t] < MaxPosts
  BY <1>1 DEF Push
<1>3. posted[t] + 1 \in 1 .. MaxPosts
  BY <1>2, MaxPostsAssumption
<1>4. posted' = [posted EXCEPT ![t] = posted[t] + 1]
  BY DEF Push
<1>5. posted'[t] = posted[t] + 1
  BY <1>1, <1>4
<1>6. <<t, posted'[t]>> \in Callback
  BY <1>3, <1>5 DEF Callback
<1>7. pending' = Append(pending, <<t, posted'[t]>>)
  BY DEF Push
<1>8. pending' \in Seq(Callback)
  BY <1>1, <1>6, <1>7
<1>9. posted' \in [Threads -> 0 .. MaxPosts]
  BY <1>1, <1>3, <1>4
<1> QED BY <1>5, <1>6, <1>8, <1>9

LEMMA LoopTypes == TypeOK /\ [Next]_vars => TypeOK'
<1> SUFFICES ASSUME TypeOK, [Next]_vars
             PROVE  TypeOK'
    OBVIOUS
<1>0. /\ pending \in Seq(Callback) /\ batch \in Seq(Callback) /\ ran \in Seq(Callback)
      /\ sources \in Nat
      /\ pc \in [Threads -> {"idle", "pushed"}]
      /\ quitting \in BOOLEAN /\ looping \in BOOLEAN
  BY DEF TypeOK
<1>1. ASSUME NEW t \in Threads, Push(t)
      PROVE  TypeOK'
  <2>1. pending' \in Seq(Callback) /\ posted' \in [Threads -> 0 .. MaxPosts]
    BY <1>1, PushTypes
  <2>2. pc' \in [Threads -> {"idle", "pushed"}]
    BY <1>0, <1>1 DEF Push
  <2> QED BY <1>1, <2>1, <2>2 DEF Push, TypeOK
<1>2. ASSUME NEW t \in Threads, AddIdle(t)
      PROVE  TypeOK'
  <2>1. pc' \in [Threads -> {"idle", "pushed"}] /\ sources' \in Nat
    BY <1>0, <1>2 DEF AddIdle
  <2> QED BY <1>2, <2>1 DEF AddIdle, TypeOK
<1>3. CASE OnIdle
  <2>1. pending' \in Seq(Callback) /\ batch' \in Seq(Callback)
    BY <1>0, <1>3 DEF OnIdle
  <2> QED BY <1>3, <2>1 DEF OnIdle, TypeOK
<1>4. CASE RunCallback
  <2>1. Head(batch) \in Callback /\ Tail(batch) \in Seq(Callback)
    BY <1>0, <1>4 DEF RunCallback
  <2>2. ran' \in Seq(Callback) /\ batch' \in Seq(Callback)
    BY <1>0, <1>4, <2>1 DEF RunCallback
  <2> QED BY <1>4, <2>2 DEF RunCallback, TypeOK
<1>5. CASE RequestQuit \/ GtkMainQuit
  BY <1>5 DEF RequestQuit, GtkMainQuit, TypeOK
<1>6. CASE UNCHANGED vars
  BY <1>6 DEF vars, TypeOK
<1> QED BY <1>1, <1>2, <1>3, <1>4, <1>5, <1>6 DEF Next

LEMMA LoopWakeup == IInv /\ [Next]_vars => NoLostWakeup'
<1> SUFFICES ASSUME IInv, [Next]_vars
             PROVE  NoLostWakeup'
    OBVIOUS
<1>0. /\ NoLostWakeup
      /\ sources \in Nat
      /\ pc \in [Threads -> {"idle", "pushed"}]
  BY DEF IInv, TypeOK
<1>1. ASSUME NEW t \in Threads, Push(t)
      PROVE  NoLostWakeup'
  <2>1. pc'[t] = "pushed"
    BY <1>0, <1>1 DEF Push
  <2> QED BY <2>1 DEF NoLostWakeup
<1>2. ASSUME NEW t \in Threads, AddIdle(t)
      PROVE  NoLostWakeup'
  BY <1>0, <1>2 DEF AddIdle, NoLostWakeup
<1>3. CASE OnIdle
  BY <1>3 DEF OnIdle, NoLostWakeup
<1>4. CASE RunCallback \/ RequestQuit \/ GtkMainQuit
  BY <1>0, <1>4 DEF RunCallback, RequestQuit, GtkMainQuit, NoLostWakeup
<1>5. CASE UNCHANGED vars
  BY <1>0, <1>5 DEF vars, NoLostWakeup
<1> QED BY <1>1, <1>2, <1>3, <1>4, <1>5 DEF Next

LEMMA LoopAlways == Spec => []IInv
<1>1. IInv /\ [Next]_vars => IInv'
  BY LoopTypes, LoopWakeup DEF IInv
<1> QED BY <1>1, LoopInit, PTL DEF Spec

(***************************************************************************)
(* The variables of the GTK main loop keep their types.                    *)
(***************************************************************************)
THEOREM LoopTypeCorrect == Spec => []TypeOK
<1>1. IInv => TypeOK
  BY DEF IInv
<1> QED BY <1>1, LoopAlways, PTL

(***************************************************************************)
(* Whatever the threads do between the unlock and g_idle_add_full, no      *)
(* callback is left in the queue with nobody to run it.                    *)
(***************************************************************************)
THEOREM WakeupNeverLost == Spec => []NoLostWakeup
<1>1. IInv => NoLostWakeup
  BY DEF IInv
<1> QED BY <1>1, LoopAlways, PTL

-----------------------------------------------------------------------------
(***************************************************************************)
(* The main loop implements the promise of App::Post: the queue of the     *)
(* promise is what is left of the batch followed by g_pending.             *)
(***************************************************************************)
LEMMA PopsTheQueue ==
    ASSUME NEW S, NEW s \in Seq(S), NEW u \in Seq(S), s # <<>>
    PROVE  /\ s \o u # <<>>
           /\ Head(s \o u) = Head(s)
           /\ Tail(s \o u) = Tail(s) \o u
OBVIOUS

LEMMA PushesTheQueue ==
    ASSUME NEW S, NEW s \in Seq(S), NEW u \in Seq(S), NEW x \in S
    PROVE  s \o Append(u, x) = Append(s \o u, x)
OBVIOUS

LEMMA EmptyQueue ==
    ASSUME NEW S, NEW s \in Seq(S)
    PROVE  s \o <<>> = s /\ <<>> \o s = s
OBVIOUS

LEMMA PromiseStep ==
    ASSUME TypeOK, [Next]_vars
    PROVE  [Promise!Next]_(Promise!vars)
<1> USE DEF Promise!Next, Promise!vars
<1>0. /\ pending \in Seq(Callback) /\ batch \in Seq(Callback)
  BY DEF TypeOK
<1>1. ASSUME NEW t \in Threads, Push(t)
      PROVE  Promise!Next
  <2>1. <<t, posted'[t]>> \in Callback
    BY <1>1, PushTypes
  <2>2. batch' \o pending' = Append(batch \o pending, <<t, posted'[t]>>)
    BY <1>0, <1>1, <2>1, PushesTheQueue DEF Push
  <2>3. Promise!Post(t)
    BY <1>1, <2>2 DEF Push, Promise!Post
  <2> QED BY <2>3
<1>2. ASSUME NEW t \in Threads, AddIdle(t)
      PROVE  UNCHANGED Promise!vars
  BY <1>2 DEF AddIdle
<1>3. CASE OnIdle
  <2>1. batch' \o pending' = pending /\ batch \o pending = pending
    BY <1>0, <1>3, EmptyQueue DEF OnIdle
  <2> QED BY <1>3, <2>1 DEF OnIdle
<1>4. CASE RunCallback
  <2>1. /\ batch \o pending # <<>>
        /\ Head(batch \o pending) = Head(batch)
        /\ Tail(batch \o pending) = batch' \o pending'
    BY <1>0, <1>4, PopsTheQueue DEF RunCallback
  <2>2. Promise!Run
    BY <1>4, <2>1 DEF RunCallback, MainIsFree, Promise!Run
  <2> QED BY <2>2
<1>5. CASE RequestQuit
  BY <1>5 DEF RequestQuit
<1>6. CASE GtkMainQuit
  <2>1. Promise!Quit
    BY <1>6 DEF GtkMainQuit, MainIsFree, Promise!Quit
  <2> QED BY <2>1
<1>7. CASE UNCHANGED vars
  BY <1>7 DEF vars
<1> QED BY <1>1, <1>2, <1>3, <1>4, <1>5, <1>6, <1>7 DEF Next

(***************************************************************************)
(* Callbacks run one at a time, in the order they were posted, each once.  *)
(***************************************************************************)
THEOREM LoopKeepsPromise == Spec => PromiseSafety
<1>1. Init => Promise!Init
  <2>1. <<>> \o <<>> = <<>>
    OBVIOUS
  <2> QED BY <2>1 DEF Init, Promise!Init
<1>2. IInv /\ [Next]_vars => [Promise!Next]_(Promise!vars)
  BY PromiseStep DEF IInv
<1> QED BY <1>1, <1>2, LoopAlways, PTL DEF Spec, PromiseSafety

-----------------------------------------------------------------------------
(***************************************************************************)
(* Win32.  NoLostWakeup is inductive with the types: a wake-up that a      *)
(* modal loop swallows is swallowed in a message that a drain follows.     *)
(* The refinement needs that the batch is empty outside a drain.           *)
(***************************************************************************)
WinInv ==
    /\ W!TypeOK
    /\ W!NoLostWakeup
    /\ at # "drain" => batch = <<>>

LEMMA WinInit == W!Init => WinInv
<1> SUFFICES ASSUME W!Init PROVE WinInv
    OBVIOUS
<1>1. /\ pc \in [Threads -> {"idle", "wake"}]
      /\ posted \in [Threads -> 0 .. MaxPosts]
      /\ input \in Nat
  BY MaxPostsAssumption DEF W!Init, W!Threads, Threads
<1>2. /\ pending \in Seq(W!Callback) /\ batch \in Seq(W!Callback)
      /\ ran \in Seq(W!Callback) /\ msgs \in Seq({"pump", "quit"})
  BY DEF W!Init
<1>3. W!TypeOK
  BY <1>1, <1>2 DEF W!Init, W!TypeOK, W!Threads, Threads
<1> QED BY <1>3 DEF W!Init, WinInv, W!NoLostWakeup

LEMMA WinPushTypes ==
    ASSUME W!TypeOK, NEW t \in Threads, W!Push(t)
    PROVE  /\ <<t, posted'[t]>> \in Callback
           /\ pending' = Append(pending, <<t, posted'[t]>>)
           /\ pending' \in Seq(Callback) /\ pending' # <<>>
           /\ posted' \in [Threads -> 0 .. MaxPosts]
           /\ pc' \in [Threads -> {"idle", "wake"}]
<1>1. /\ posted \in [Threads -> 0 .. MaxPosts] /\ pending \in Seq(Callback)
      /\ pc \in [Threads -> {"idle", "wake"}]
  BY DEF W!TypeOK, W!Callback, Callback, W!Threads, Threads
<1>2. posted[t] + 1 \in 1 .. MaxPosts
  BY <1>1, MaxPostsAssumption DEF W!Push
<1>3. posted' = [posted EXCEPT ![t] = posted[t] + 1]
  BY DEF W!Push
<1>4. <<t, posted'[t]>> \in Callback
  BY <1>1, <1>2, <1>3 DEF Callback
<1>5. pending' = Append(pending, <<t, posted'[t]>>)
  BY DEF W!Push
<1>6. pending' \in Seq(Callback) /\ pending' # <<>>
  BY <1>1, <1>4, <1>5
<1>7. posted' \in [Threads -> 0 .. MaxPosts]
  BY <1>1, <1>2, <1>3
<1>8. pc' \in [Threads -> {"idle", "wake"}]
  BY <1>1 DEF W!Push
<1> QED BY <1>4, <1>5, <1>6, <1>7, <1>8

LEMMA WinStep == WinInv /\ [W!Next]_(W!vars) => WinInv'
<1> SUFFICES ASSUME WinInv, [W!Next]_(W!vars)
             PROVE  WinInv'
    OBVIOUS
<1> USE DEF WinInv
<1>0. /\ pending \in Seq(Callback) /\ batch \in Seq(Callback) /\ ran \in Seq(Callback)
      /\ msgs \in Seq({"pump", "quit"})
      /\ pc \in [Threads -> {"idle", "wake"}]
      /\ W!Threads = Threads /\ W!Callback = Callback
  BY DEF W!TypeOK, W!Callback, Callback, W!Threads, Threads
<1>1. ASSUME NEW t \in Threads, W!Push(t)
      PROVE  WinInv'
  <2>1. W!TypeOK'
    BY <1>0, <1>1, WinPushTypes DEF W!Push, W!TypeOK
  <2>2. W!NoLostWakeup'
    <3>1. CASE pending = <<>>
      <4>1. pc'[t] = "wake"
        BY <1>0, <1>1, <3>1 DEF W!Push
      <4> QED BY <1>0, <4>1 DEF W!NoLostWakeup, W!PumpOnItsWay
    <3>2. CASE pending # <<>>
      <4>1. pc' = pc
        BY <1>0, <1>1, <3>2 DEF W!Push
      <4> QED BY <1>1, <3>2, <4>1 DEF W!Push, W!NoLostWakeup, W!PumpOnItsWay
    <3> QED BY <3>1, <3>2
  <2> QED BY <1>1, <2>1, <2>2 DEF W!Push
<1>2. ASSUME NEW t \in Threads, W!PostPump(t)
      PROVE  WinInv'
  <2>1. /\ msgs' \in Seq({"pump", "quit"})
        /\ Len(msgs') = Len(msgs) + 1 /\ msgs'[Len(msgs')] = "pump"
    BY <1>0, <1>2 DEF W!PostPump
  <2>2. pc' \in [Threads -> {"idle", "wake"}]
    BY <1>0, <1>2 DEF W!PostPump
  <2>3. W!PumpOnItsWay'
    BY <1>0, <2>1 DEF W!PumpOnItsWay
  <2> QED BY <1>0, <1>2, <2>1, <2>2, <2>3 DEF W!PostPump, W!TypeOK, W!NoLostWakeup
<1>3. CASE W!PlatformQuit
  <2>1. /\ msgs' \in Seq({"pump", "quit"})
        /\ Len(msgs') = Len(msgs) + 1
        /\ \A k \in 1 .. Len(msgs) : msgs'[k] = msgs[k]
    BY <1>0, <1>3 DEF W!PlatformQuit
  <2>2. W!PumpOnItsWay => W!PumpOnItsWay'
    BY <1>0, <1>3, <2>1 DEF W!PlatformQuit, W!PumpOnItsWay
  <2> QED BY <1>0, <1>3, <2>1, <2>2 DEF W!PlatformQuit, W!TypeOK, W!NoLostWakeup
<1>4. CASE W!GetPump \/ W!ModalSwallowsPump
  <2>1. msgs # <<>> /\ msgs' = Tail(msgs)
    BY <1>4 DEF W!GetPump, W!ModalSwallowsPump
  <2>2. msgs' \in Seq({"pump", "quit"})
    BY <1>0, <2>1
  <2> QED BY <1>0, <1>4, <2>2 DEF W!GetPump, W!ModalSwallowsPump, W!TypeOK, W!NoLostWakeup
<1>5. CASE W!GetInput
  <2>1. input' \in Nat
    BY <1>5 DEF W!GetInput, W!TypeOK
  <2> QED BY <1>5, <2>1 DEF W!GetInput, W!TypeOK, W!NoLostWakeup
<1>6. CASE W!GetQuit \/ W!EnterModal \/ W!LeaveModal
  BY <1>6 DEF W!GetQuit, W!EnterModal, W!LeaveModal, W!TypeOK, W!NoLostWakeup
<1>7. CASE W!DrainPending
  BY <1>0, <1>7 DEF W!DrainPending, W!TypeOK, W!NoLostWakeup
<1>8. CASE W!RunCallback
  <2>1. ran' \in Seq(Callback) /\ batch' \in Seq(Callback)
    BY <1>0, <1>8 DEF W!RunCallback
  <2>2. W!PumpOnItsWay' <=> W!PumpOnItsWay
    BY <1>8 DEF W!RunCallback, W!PumpOnItsWay
  <2> QED BY <1>0, <1>8, <2>1, <2>2 DEF W!RunCallback, W!TypeOK, W!NoLostWakeup
<1>9. CASE W!EndDrain
  BY <1>9 DEF W!EndDrain, W!TypeOK, W!NoLostWakeup, W!PumpOnItsWay
<1>10. CASE UNCHANGED W!vars
  BY <1>10 DEF W!vars, W!TypeOK, W!NoLostWakeup, W!PumpOnItsWay
<1> QED BY <1>0, <1>1, <1>2, <1>3, <1>4, <1>5, <1>6, <1>7, <1>8, <1>9, <1>10
        DEF W!Next, W!LoopStep

LEMMA WinAlways == W!Spec => []WinInv
<1> QED BY WinInit, WinStep, PTL DEF W!Spec

(***************************************************************************)
(* "solo despierta si la cola estaba vacía" (App_win.cpp) loses no         *)
(* callback, whatever modal loops swallow and however many threads post.   *)
(***************************************************************************)
THEOREM WinWakeupNeverLost == W!Spec => [](W!TypeOK /\ W!NoLostWakeup)
<1>1. WinInv => W!TypeOK /\ W!NoLostWakeup
  BY DEF WinInv
<1> QED BY <1>1, WinAlways, PTL

(***************************************************************************)
(* The Win32 loop keeps the promise of App::Post.                          *)
(***************************************************************************)
LEMMA WinPromiseStep ==
    ASSUME WinInv, [W!Next]_(W!vars)
    PROVE  [W!Promise!Next]_(W!Promise!vars)
<1> USE DEF W!Promise!Next, W!Promise!vars
<1>0. /\ pending \in Seq(Callback) /\ batch \in Seq(Callback)
      /\ W!Threads = Threads
      /\ at # "drain" => batch = <<>>
  BY DEF WinInv, W!TypeOK, W!Callback, Callback, W!Threads, Threads
<1>1. ASSUME NEW t \in Threads, W!Push(t)
      PROVE  W!Promise!Next
  <2>1. /\ <<t, posted'[t]>> \in Callback
        /\ pending' = Append(pending, <<t, posted'[t]>>)
    BY <1>1, WinPushTypes DEF WinInv
  <2>2. batch' \o pending' = Append(batch \o pending, <<t, posted'[t]>>)
    BY <1>0, <1>1, <2>1, PushesTheQueue DEF W!Push
  <2>3. W!Promise!Post(t)
    BY <1>1, <2>2 DEF W!Push, W!Promise!Post
  <2> QED BY <1>0, <2>3
<1>2. ASSUME NEW t \in Threads, W!PostPump(t)
      PROVE  UNCHANGED W!Promise!vars
  BY <1>2 DEF W!PostPump
<1>3. CASE W!PlatformQuit \/ W!GetPump \/ W!GetInput \/ W!EnterModal
           \/ W!ModalSwallowsPump \/ W!LeaveModal \/ W!EndDrain
  BY <1>3 DEF W!PlatformQuit, W!GetPump, W!GetInput, W!EnterModal, W!ModalSwallowsPump,
              W!LeaveModal, W!EndDrain
<1>4. CASE W!GetQuit
  <2>1. W!Promise!Quit
    BY <1>4 DEF W!GetQuit, W!Promise!Quit
  <2> QED BY <2>1
<1>5. CASE W!DrainPending
  <2>1. batch' \o pending' = pending /\ batch \o pending = pending
    BY <1>0, <1>5, EmptyQueue DEF W!DrainPending
  <2> QED BY <1>5, <2>1 DEF W!DrainPending
<1>6. CASE W!RunCallback
  <2>1. /\ batch \o pending # <<>>
        /\ Head(batch \o pending) = Head(batch)
        /\ Tail(batch \o pending) = batch' \o pending'
    BY <1>0, <1>6, PopsTheQueue DEF W!RunCallback
  <2>2. W!Promise!Run
    BY <1>6, <2>1 DEF W!RunCallback, W!Promise!Run
  <2> QED BY <2>2
<1>7. CASE UNCHANGED W!vars
  BY <1>7 DEF W!vars
<1> QED BY <1>0, <1>1, <1>2, <1>3, <1>4, <1>5, <1>6, <1>7 DEF W!Next, W!LoopStep

(***************************************************************************)
(* Callbacks of the Win32 loop run one at a time, in the order they were   *)
(* accepted, each once, also when a modal loop held the thread.            *)
(***************************************************************************)
THEOREM WinKeepsPromise == W!Spec => W!PromiseSafety
<1>1. W!Init => W!Promise!Init
  <2>1. <<>> \o <<>> = <<>>
    OBVIOUS
  <2> QED BY <2>1 DEF W!Init, W!Promise!Init
<1>2. WinInv /\ [W!Next]_(W!vars) => [W!Promise!Next]_(W!Promise!vars)
  BY WinPromiseStep
<1> QED BY <1>1, <1>2, WinAlways, PTL DEF W!Spec, W!PromiseSafety

-----------------------------------------------------------------------------
(***************************************************************************)
(* macOS.  There is no wake-up to lose; as on Win32, the batch is empty    *)
(* outside the block that runs it.                                         *)
(***************************************************************************)
MacInv == M!TypeOK /\ (at # "block" => batch = <<>>)

LEMMA MacInit == M!Init => MacInv
<1> SUFFICES ASSUME M!Init PROVE MacInv
    OBVIOUS
<1>1. pending \in Seq(M!Callback) /\ batch \in Seq(M!Callback) /\ ran \in Seq(M!Callback)
  BY DEF M!Init
<1>2. posted \in [M!Threads -> 0 .. MaxPosts]
  BY MaxPostsAssumption DEF M!Init
<1> QED BY <1>1, <1>2 DEF M!Init, M!TypeOK, MacInv

LEMMA MacPushTypes ==
    ASSUME M!TypeOK, NEW t \in Threads, M!PlatformPost(t)
    PROVE  /\ <<t, posted'[t]>> \in Callback
           /\ pending' = Append(pending, <<t, posted'[t]>>)
           /\ pending' \in Seq(Callback)
           /\ posted' \in [Threads -> 0 .. MaxPosts]
<1>1. posted \in [Threads -> 0 .. MaxPosts] /\ pending \in Seq(Callback)
  BY DEF M!TypeOK, M!Callback, Callback, M!Threads, Threads
<1>2. posted[t] + 1 \in 1 .. MaxPosts
  BY <1>1, MaxPostsAssumption DEF M!PlatformPost
<1>3. posted' = [posted EXCEPT ![t] = posted[t] + 1]
  BY DEF M!PlatformPost
<1>4. <<t, posted'[t]>> \in Callback
  BY <1>1, <1>2, <1>3 DEF Callback
<1>5. pending' = Append(pending, <<t, posted'[t]>>)
  BY DEF M!PlatformPost
<1>6. pending' \in Seq(Callback)
  BY <1>1, <1>4, <1>5
<1>7. posted' \in [Threads -> 0 .. MaxPosts]
  BY <1>1, <1>2, <1>3
<1> QED BY <1>4, <1>5, <1>6, <1>7

LEMMA MacStep ==
    ASSUME MacInv, [M!Next]_(M!vars)
    PROVE  MacInv' /\ [W!Promise!Next]_(W!Promise!vars)
<1> USE DEF MacInv, W!Promise!Next, W!Promise!vars
<1>0. /\ pending \in Seq(Callback) /\ batch \in Seq(Callback) /\ ran \in Seq(Callback)
      /\ M!Threads = Threads /\ M!Callback = Callback /\ W!Threads = Threads
  BY DEF M!TypeOK, M!Callback, Callback, M!Threads, W!Threads, Threads
<1>1. ASSUME NEW t \in Threads, M!PlatformPost(t)
      PROVE  MacInv' /\ W!Promise!Next
  <2>1. /\ <<t, posted'[t]>> \in Callback
        /\ pending' = Append(pending, <<t, posted'[t]>>)
        /\ pending' \in Seq(Callback) /\ posted' \in [Threads -> 0 .. MaxPosts]
    BY <1>1, MacPushTypes
  <2>2. batch' \o pending' = Append(batch \o pending, <<t, posted'[t]>>)
    BY <1>0, <1>1, <2>1, PushesTheQueue DEF M!PlatformPost
  <2>3. W!Promise!Post(t)
    BY <1>1, <2>2 DEF M!PlatformPost, W!Promise!Post
  <2> QED BY <1>0, <1>1, <2>1, <2>3 DEF M!PlatformPost, M!TypeOK
<1>2. CASE M!Timer
  <2>1. batch' \o pending' = pending /\ batch \o pending = pending
    BY <1>0, <1>2, EmptyQueue DEF M!Timer
  <2>2. pending' \in Seq(Callback) /\ batch' \in Seq(Callback)
    BY <1>0, <1>2 DEF M!Timer
  <2> QED BY <1>0, <1>2, <2>1, <2>2 DEF M!Timer, M!TypeOK
<1>3. CASE M!RunCallback
  <2>1. /\ batch \o pending # <<>>
        /\ Head(batch \o pending) = Head(batch)
        /\ Tail(batch \o pending) = batch' \o pending'
    BY <1>0, <1>3, PopsTheQueue DEF M!RunCallback
  <2>2. W!Promise!Run
    BY <1>3, <2>1 DEF M!RunCallback, W!Promise!Run
  <2>3. ran' \in Seq(Callback) /\ batch' \in Seq(Callback)
    BY <1>0, <1>3 DEF M!RunCallback
  <2> QED BY <1>0, <1>3, <2>2, <2>3 DEF M!RunCallback, M!TypeOK
<1>4. CASE M!EndBlock \/ M!PlatformQuit
  BY <1>4 DEF M!EndBlock, M!PlatformQuit, M!TypeOK
<1>5. CASE M!Terminate
  <2>1. W!Promise!Quit
    BY <1>5 DEF M!Terminate, W!Promise!Quit
  <2> QED BY <1>5, <2>1 DEF M!Terminate, M!TypeOK
<1>6. CASE UNCHANGED M!vars
  BY <1>6 DEF M!vars, M!TypeOK
<1> QED BY <1>0, <1>1, <1>2, <1>3, <1>4, <1>5, <1>6 DEF M!Next

(***************************************************************************)
(* The timer of macOS keeps the promise of App::Post too, until the        *)
(* process is ended from inside the loop.                                  *)
(***************************************************************************)
THEOREM MacKeepsPromise == M!Spec => W!PromiseSafety
<1>1. M!Init => W!Promise!Init
  <2>1. <<>> \o <<>> = <<>>
    OBVIOUS
  <2> QED BY <2>1 DEF M!Init, W!Promise!Init, M!Threads, W!Threads
<1>2. MacInv /\ [M!Next]_(M!vars) => MacInv' /\ [W!Promise!Next]_(W!Promise!vars)
  BY MacStep
<1> QED BY <1>1, <1>2, MacInit, PTL DEF M!Spec, W!PromiseSafety
=============================================================================
