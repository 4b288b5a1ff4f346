---------------------------- MODULE WindowsProofs ----------------------------
(***************************************************************************)
(* Proofs about windows, for every value of the bounds: closing one with a *)
(* veto (CloseVeto), the calls of their views, their downloads, the native *)
(* window and the documents of a view (Session, NativeWindow and Webviews, *)
(* which are S, N and V in MCWindows).                                     *)
(*                                                                         *)
(* For CloseVeto the properties that say why the window went away need one *)
(* more assumption: that nobody answers with the id 0 (with it they are    *)
(* false, see AnswerNeedsRequest).                                         *)
(***************************************************************************)
EXTENDS MCWindows, FiniteSetTheorems, Induction, TLAPS

(***************************************************************************)
(* The bookkeeping of the request in flight: its id is the last one given  *)
(* out, and it has not been answered.                                      *)
(***************************************************************************)
InFlightIsLast ==
    jsCloseRequestId # 0 => jsCloseRequestId = jsCloseSeq /\ ~jsCloseResponded

(***************************************************************************)
(* What the verdicts say while the window is open: the last request is     *)
(* pending exactly while it is in flight, and otherwise it was refused.    *)
(***************************************************************************)
LastIsPending ==
    life = "open" =>
        /\ cause = "none"
        /\ jsCloseRequestId # 0 => verdict[jsCloseSeq] = "pending"
        /\ jsCloseRequestId = 0 /\ jsCloseSeq # 0 =>
               verdict[jsCloseSeq] \in {"vetoed", "denied"}

BookInv == TypeOK /\ InFlightIsLast /\ PendingHasTimer

VerdictInv == BookInv /\ LastIsPending /\ VerdictDecides

-----------------------------------------------------------------------------
(***************************************************************************)
(* Every step keeps the types and the books of the request in flight.      *)
(***************************************************************************)
LEMMA BookStep == BookInv /\ [Next]_vars => BookInv'
<1> SUFFICES ASSUME BookInv, [Next]_vars
             PROVE  BookInv'
    OBVIOUS
<1> USE MaxRequestsAssumption DEF BookInv, TypeOK, InFlightIsLast,
        PendingHasTimer, RequestId, Verdict
<1>1. CASE BeginCloseFlow
  <2>1. jsCloseSeq' \in RequestId
    BY <1>1 DEF BeginCloseFlow
  <2>2. TypeOK'
    <3>1. timers' \in Seq(RequestId)
        <4>1. timers' = timers \/ timers' = Append(timers, jsCloseSeq')
            BY <1>1 DEF BeginCloseFlow
        <4> QED BY <2>1, <4>1
    <3>2. announced' \in SUBSET RequestId
        BY <1>1, <2>1 DEF BeginCloseFlow
    <3>3. verdict' \in [RequestId -> Verdict]
        BY <1>1 DEF BeginCloseFlow
    <3>4. closeRequestVeto' \in BOOLEAN
        BY <1>1 DEF BeginCloseFlow
    <3>5. jsCloseRequestId' \in 0 .. MaxRequests
        BY <1>1, <2>1 DEF BeginCloseFlow
    <3>6. UNCHANGED <<life, destroys, cause>> /\ jsCloseResponded' \in BOOLEAN
        BY <1>1 DEF BeginCloseFlow, KeepWindow
    <3>7. jsCloseSeq' \in 0 .. MaxRequests
        BY <2>1
    <3> QED BY <3>1, <3>2, <3>3, <3>4, <3>5, <3>6, <3>7
  <2>3. InFlightIsLast'
    BY <1>1 DEF BeginCloseFlow
  <2>4. PendingHasTimer'
    <3> SUFFICES ASSUME jsCloseRequestId' # 0
                 PROVE  \E k \in 1 .. Len(timers') : timers'[k] = jsCloseRequestId'
        OBVIOUS
    <3>1. timers' = Append(timers, jsCloseSeq') /\ jsCloseRequestId' = jsCloseSeq'
        BY <1>1 DEF BeginCloseFlow
    <3>2. Len(timers') = Len(timers) + 1 /\ timers'[Len(timers) + 1] = jsCloseSeq'
        BY <3>1, <2>1
    <3> QED BY <3>1, <3>2
  <2> QED BY <2>2, <2>3, <2>4
<1>2. CASE CloseTimerFired
  <2>1. timers' \in Seq(RequestId)
    BY <1>2 DEF CloseTimerFired
  <2> QED BY <1>2, <2>1 DEF CloseTimerFired, DestroyWindow, KeepWindow
<1>3. CASE Answer
  <2> PICK id \in announced \cup StrayIds, allow \in BOOLEAN : RespondJsClose(id, allow)
    BY <1>3 DEF Answer
  <2>1. verdict' \in [RequestId -> Verdict]
    BY DEF RespondJsClose
  <2>2. TypeOK'
    BY <2>1 DEF RespondJsClose, DestroyWindow, KeepWindow
  <2>3. InFlightIsLast' /\ PendingHasTimer'
    BY DEF RespondJsClose
  <2> QED BY <2>2, <2>3
<1>4. CASE Destroy
  BY <1>4 DEF Destroy, DestroyWindow
<1>5. CASE DeleteObject
  BY <1>5 DEF DeleteObject
<1>6. CASE UNCHANGED vars
  BY <1>6 DEF vars
<1> QED BY <1>1, <1>2, <1>3, <1>4, <1>5, <1>6 DEF Next

LEMMA BookInit == Init => BookInv
<1> SUFFICES ASSUME Init PROVE BookInv
    OBVIOUS
<1>1. verdict \in [RequestId -> Verdict]
  BY DEF Init, Verdict
<1>2. timers \in Seq(RequestId) /\ jsCloseSeq \in 0 .. MaxRequests
  BY MaxRequestsAssumption DEF Init
<1>3. TypeOK
  BY <1>1, <1>2 DEF Init, TypeOK
<1> QED BY <1>3 DEF Init, BookInv, InFlightIsLast, PendingHasTimer

LEMMA BookAlways == Spec => []BookInv
BY BookInit, BookStep, PTL DEF Spec

(***************************************************************************)
(* The variables of F3.4 keep their types.                                 *)
(***************************************************************************)
THEOREM TypeCorrect == Spec => []TypeOK
<1>1. BookInv => TypeOK
  BY DEF BookInv
<1> QED BY <1>1, BookAlways, PTL

(***************************************************************************)
(* Whoever answers with whatever id: while a request is in flight its own  *)
(* safety timer is armed, so the window cannot stay open unanswered.       *)
(***************************************************************************)
THEOREM PendingAlwaysTimed == Spec => []PendingHasTimer
<1>1. BookInv => PendingHasTimer
  BY DEF BookInv
<1> QED BY <1>1, BookAlways, PTL

-----------------------------------------------------------------------------
(***************************************************************************)
(* The verdicts.                                                           *)
(***************************************************************************)
LEMMA VerdictInit == Init => VerdictInv
BY BookInit, MaxRequestsAssumption DEF Init, VerdictInv, LastIsPending, VerdictDecides, RequestId

LEMMA VerdictStep ==
    ASSUME 0 \notin StrayIds, VerdictInv, [Next]_vars
    PROVE  LastIsPending' /\ VerdictDecides'
<1>1. BookInv /\ TypeOK /\ InFlightIsLast /\ LastIsPending /\ VerdictDecides
  BY DEF VerdictInv, BookInv
<1>2. /\ jsCloseSeq \in 0 .. MaxRequests
      /\ jsCloseRequestId \in 0 .. MaxRequests
      /\ verdict \in [RequestId -> Verdict]
      /\ announced \subseteq RequestId
      /\ MaxRequests \in Nat
  BY <1>1, MaxRequestsAssumption DEF TypeOK
<1>3. CASE BeginCloseFlow
  <2> PICK veto \in BOOLEAN :
        /\ verdict' = [verdict EXCEPT ![jsCloseSeq'] = IF veto THEN "vetoed" ELSE "pending"]
        /\ jsCloseRequestId' = IF veto THEN 0 ELSE jsCloseSeq'
    BY <1>3 DEF BeginCloseFlow
  <2>1. /\ jsCloseSeq' = jsCloseSeq + 1 /\ jsCloseSeq' \in RequestId
        /\ life = "open" /\ life' = life /\ cause' = cause /\ jsCloseRequestId = 0
    BY <1>2, <1>3 DEF BeginCloseFlow, KeepWindow, RequestId
  <2>2. verdict'[jsCloseSeq'] = IF veto THEN "vetoed" ELSE "pending"
    BY <1>2, <2>1
  <2>3. \A k \in RequestId : k # jsCloseSeq' => verdict'[k] = verdict[k]
    BY <1>2, <2>1
  <2>4. LastIsPending'
    BY <1>1, <1>2, <2>1, <2>2 DEF LastIsPending, RequestId
  <2>5. VerdictDecides'
    BY <1>1, <1>2, <2>1, <2>2, <2>3 DEF VerdictDecides, LastIsPending, RequestId
  <2> QED BY <2>4, <2>5
<1>4. ASSUME NEW what \in {"timeout", "allowed", "denied"},
             life = "open", jsCloseRequestId # 0,
             verdict' = [verdict EXCEPT ![jsCloseRequestId] = what],
             life' = (IF what = "denied" THEN "open" ELSE "destroyed"),
             cause' = (IF what = "denied" THEN cause ELSE what),
             jsCloseSeq' = jsCloseSeq,
             what = "denied" => jsCloseRequestId' = 0
      PROVE  LastIsPending' /\ VerdictDecides'
  <2>1. jsCloseRequestId = jsCloseSeq /\ jsCloseSeq \in RequestId
    BY <1>1, <1>2, <1>4 DEF InFlightIsLast, RequestId
  <2>2. verdict'[jsCloseSeq] = what
    BY <1>2, <1>4, <2>1
  <2>3. \A k \in RequestId : k # jsCloseSeq => verdict'[k] = verdict[k]
    BY <1>2, <1>4, <2>1
  <2>4. cause = "none"
    BY <1>1, <1>4 DEF LastIsPending
  <2>5. LastIsPending'
    BY <1>4, <2>1, <2>2, <2>4 DEF LastIsPending
  <2>6. \A k \in RequestId :
          /\ k < jsCloseSeq' => verdict'[k] \in {"vetoed", "denied"}
          /\ k > jsCloseSeq' => verdict'[k] = "none"
    BY <1>1, <1>2, <1>4, <2>1, <2>3 DEF VerdictDecides, RequestId
  <2>7. \A k \in RequestId : verdict'[k] \in {"allowed", "timeout"} => cause' = verdict'[k]
    BY <1>1, <1>2, <1>4, <2>1, <2>2, <2>3, <2>4 DEF VerdictDecides, RequestId
  <2>8. cause' \in {"allowed", "timeout"} =>
           jsCloseSeq' > 0 /\ verdict'[jsCloseSeq'] = cause'
    BY <1>2, <1>4, <2>1, <2>2, <2>4 DEF RequestId
  <2> QED BY <2>5, <2>6, <2>7, <2>8 DEF VerdictDecides
<1>5. ASSUME verdict' = verdict, jsCloseSeq' = jsCloseSeq, cause' = cause,
             jsCloseRequestId' = jsCloseRequestId,
             life' = "open" => life = "open"
      PROVE  LastIsPending' /\ VerdictDecides'
  BY <1>1, <1>5 DEF LastIsPending, VerdictDecides
<1>6. CASE CloseTimerFired
  <2>1. CASE life = "open" /\ ~jsCloseResponded /\ jsCloseRequestId # 0
    BY <1>4, <1>6, <2>1 DEF CloseTimerFired, DestroyWindow
  <2>2. CASE ~(life = "open" /\ ~jsCloseResponded /\ jsCloseRequestId # 0)
    BY <1>5, <1>6, <2>2 DEF CloseTimerFired, DestroyWindow, KeepWindow
  <2> QED BY <2>1, <2>2
<1>7. CASE Answer
  <2> PICK id \in announced \cup StrayIds, allow \in BOOLEAN : RespondJsClose(id, allow)
    BY <1>7 DEF Answer
  <2>1. id # 0 /\ id = jsCloseRequestId /\ id \in RequestId
    BY <1>2 DEF RespondJsClose, RequestId
  <2>2. CASE allow
    BY <1>4, <2>1, <2>2 DEF RespondJsClose, DestroyWindow
  <2>3. CASE ~allow
    BY <1>4, <2>1, <2>3 DEF RespondJsClose, KeepWindow
  <2> QED BY <2>2, <2>3
<1>8. CASE Destroy
  BY <1>1, <1>8 DEF Destroy, DestroyWindow, LastIsPending, VerdictDecides
<1>9. CASE DeleteObject
  BY <1>5, <1>9 DEF DeleteObject
<1>10. CASE UNCHANGED vars
  BY <1>5, <1>10 DEF vars
<1> QED BY <1>3, <1>6, <1>7, <1>8, <1>9, <1>10 DEF Next

LEMMA VerdictAlways == ASSUME 0 \notin StrayIds PROVE Spec => []VerdictInv
<1>1. VerdictInv /\ [Next]_vars => VerdictInv'
  BY BookStep, VerdictStep DEF VerdictInv
<1> QED BY <1>1, VerdictInit, PTL DEF Spec

(***************************************************************************)
(* If nobody answers with the id 0, the window goes away for the reason    *)
(* its last request gives or by an explicit Destroy, and every request     *)
(* before the last one was refused.                                        *)
(***************************************************************************)
THEOREM VerdictsDecide == ASSUME 0 \notin StrayIds PROVE Spec => []VerdictDecides
<1>1. VerdictInv => VerdictDecides
  BY DEF VerdictInv
<1> QED BY <1>1, VerdictAlways, PTL

-----------------------------------------------------------------------------
(***************************************************************************)
(* The first effective answer to a request is final: what was vetoed,      *)
(* denied, allowed or timed out stays so, whatever comes later.            *)
(***************************************************************************)
THEOREM VerdictsAreFinal == ASSUME 0 \notin StrayIds PROVE Spec => SettledOnce
<1>1. ASSUME VerdictInv, Next
      PROVE  \A k \in RequestId :
                 verdict[k] \notin {"none", "pending"} => verdict'[k] = verdict[k]
  <2> SUFFICES ASSUME NEW k \in RequestId, verdict[k] \notin {"none", "pending"}
               PROVE  verdict'[k] = verdict[k]
    OBVIOUS
  <2>1. /\ jsCloseSeq \in 0 .. MaxRequests
        /\ verdict \in [RequestId -> Verdict]
        /\ announced \subseteq RequestId
        /\ MaxRequests \in Nat
        /\ InFlightIsLast /\ LastIsPending /\ VerdictDecides
    BY <1>1, MaxRequestsAssumption DEF VerdictInv, BookInv, TypeOK
  <2>2. life = "open" /\ jsCloseRequestId # 0 => jsCloseRequestId # k
    BY <2>1 DEF InFlightIsLast, LastIsPending
  <2>3. CASE BeginCloseFlow
    <3>1. jsCloseSeq' # k
      BY <2>1, <2>3 DEF BeginCloseFlow, VerdictDecides, RequestId
    <3> QED BY <2>1, <2>3, <3>1 DEF BeginCloseFlow
  <2>4. CASE CloseTimerFired
    BY <2>1, <2>2, <2>4 DEF CloseTimerFired
  <2>5. CASE Answer
    <3> PICK id \in announced \cup StrayIds, allow \in BOOLEAN : RespondJsClose(id, allow)
      BY <2>5 DEF Answer
    <3>1. id # 0
      BY <2>1 DEF RequestId
    <3> QED BY <2>1, <2>2, <3>1 DEF RespondJsClose
  <2>6. CASE Destroy \/ DeleteObject
    BY <2>6 DEF Destroy, DeleteObject
  <2> QED BY <1>1, <2>3, <2>4, <2>5, <2>6 DEF Next
<1>2. VerdictInv /\ [Next]_vars =>
        [\A k \in RequestId :
            verdict[k] \notin {"none", "pending"} => verdict'[k] = verdict[k]]_vars
  BY <1>1
<1> QED BY <1>2, VerdictAlways, PTL DEF Spec, SettledOnce

-----------------------------------------------------------------------------
(***************************************************************************)
(* CloseVeto implements the safety part of CloseContract: each handler is  *)
(* a step of the contract or leaves what the contract speaks of alone.     *)
(***************************************************************************)
LEMMA ContractStep ==
    ASSUME 0 \notin StrayIds, VerdictInv, [Next]_vars
    PROVE  [Contract!Next]_(Contract!vars)
<1> USE DEF Contract!Next, Contract!vars, Contract!Ask, Contract!Refuse, Contract!Request,
            Contract!Decide, Contract!Deny, Contract!Close, Contract!Destroy
<1>1. /\ jsCloseSeq \in 0 .. MaxRequests /\ announced \subseteq RequestId
      /\ MaxRequests \in Nat /\ InFlightIsLast /\ LastIsPending
  BY MaxRequestsAssumption DEF VerdictInv, BookInv, TypeOK
<1>2. CASE BeginCloseFlow
  <2> PICK veto \in BOOLEAN : jsCloseRequestId' = IF veto THEN 0 ELSE jsCloseSeq'
    BY <1>2 DEF BeginCloseFlow
  <2>1. /\ life = "open" /\ life' = "open" /\ jsCloseRequestId = 0 /\ cause' = cause
        /\ jsCloseSeq < MaxRequests /\ jsCloseSeq' = jsCloseSeq + 1 /\ jsCloseSeq' # 0
    BY <1>1, <1>2 DEF BeginCloseFlow, KeepWindow
  <2> QED BY <2>1
<1>3. CASE CloseTimerFired
  BY <1>3 DEF CloseTimerFired, DestroyWindow, KeepWindow
<1>4. CASE Answer
  <2> PICK id \in announced \cup StrayIds, allow \in BOOLEAN : RespondJsClose(id, allow)
    BY <1>4 DEF Answer
  <2>1. jsCloseRequestId # 0
    BY <1>1 DEF RespondJsClose, RequestId
  <2> QED BY <2>1 DEF RespondJsClose, DestroyWindow, KeepWindow
<1>5. CASE Destroy
  BY <1>5 DEF Destroy, DestroyWindow
<1>6. CASE DeleteObject
  BY <1>6 DEF DeleteObject
<1>7. CASE UNCHANGED vars
  BY <1>7 DEF vars
<1> QED BY <1>2, <1>3, <1>4, <1>5, <1>6, <1>7 DEF Next

(***************************************************************************)
(* F3.4 implements CloseContract (its safety part; the liveness is checked *)
(* by TLC), if nobody answers with the id 0.                               *)
(***************************************************************************)
THEOREM ImplementsContractSafety == ASSUME 0 \notin StrayIds PROVE Spec => ContractSafety
<1>1. Init => Contract!Init
  BY DEF Init, Contract!Init
<1>2. VerdictInv /\ [Next]_vars => [Contract!Next]_(Contract!vars)
  BY ContractStep
<1> QED BY <1>1, <1>2, VerdictAlways, PTL DEF Spec, ContractSafety

-----------------------------------------------------------------------------
(***************************************************************************)
(* Session, the calls that wait.  A request WebKit has not answered        *)
(* belongs to a frame that is still on the stack, is not done, and is not  *)
(* a search: so the loop of that frame has no reason to end.               *)
(***************************************************************************)
Ops == {"cookiesGet", "cookieDelete", "capturePage", "findInPage"}
Frame == [call : Nat, op : Ops, win : Nat, done : BOOLEAN, cookie : BOOLEAN,
          guard : Nat, matches : Nat, stable : Nat]

CallsTyped ==
    /\ stack \in Seq(Frame) /\ turn \in BOOLEAN
    /\ calls \in Nat /\ asked \subseteq 1 .. calls
    /\ counted \in [S!Window -> Nat]
    /\ turn => stack # <<>>

FramesWait ==
    \A k \in 1 .. Len(stack) :
        /\ stack[k].call <= calls
        /\ stack[k].call \in asked => ~stack[k].done /\ stack[k].op # "findInPage"
        /\ stack[k].op = "findInPage" => stack[k].win \in S!Window

HasFrame == \A call \in asked : \E k \in 1 .. Len(stack) : stack[k].call = call

CallsInv == CallsTyped /\ FramesWait /\ HasFrame

(***************************************************************************)
(* Session, the downloads.  A context has one handler or none, an id is    *)
(* given out once, and a download that runs and is tracked has one.        *)
(***************************************************************************)
DownloadsTyped ==
    /\ handlers \in [S!Context -> Nat]
    /\ g_nextDl \in Nat
    /\ transfer \in [S!Download -> {"none", "runs", "over"}]
    /\ transferIn \in [S!Download -> [ctx : S!Context, tracked : BOOLEAN]]

OneHandler == \A c \in S!Context : handlers[c] = IF c \in connected THEN 1 ELSE 0

IdsGivenOnce == \A id \in DOMAIN g_downloads : id \in Nat /\ id < g_nextDl

IdsLeadToDownloads == \A id \in DOMAIN g_downloads : g_downloads[id].dl \in S!Download

Tracked(d) == transfer[d] = "runs" /\ transferIn[d].tracked

TrackedOnce ==
    \A d \in S!Download :
        /\ Tracked(d) => \E id : S!IdsOf(d) = {id}
        /\ ~Tracked(d) => S!IdsOf(d) = {}

DownloadsInv ==
    DownloadsTyped /\ OneHandler /\ IdsGivenOnce /\ IdsLeadToDownloads /\ TrackedOnce

-----------------------------------------------------------------------------
(***************************************************************************)
(* NativeWindow.  On GTK the last notice under way is the state of the     *)
(* window; when none is, and on macOS when no animation runs, the flag and *)
(* the last events agree with it; on Windows full screen is never entered. *)
(***************************************************************************)
State == [zoomed : BOOLEAN, iconic : BOOLEAN, full : BOOLEAN]
Heard == [zoomed : {"nothing", "maximize", "unmaximize"},
          full : {"nothing", "enterFullScreen", "leaveFullScreen"},
          page : {"nothing"} \cup N!NavigationEvents]

NativeTyped ==
    /\ platform \in {"gtk", "mac", "win"} /\ lifeN \in {"none", "up", "gone"}
    /\ liveN \in BOOLEAN /\ mapped \in BOOLEAN /\ flag \in BOOLEAN
    /\ state \in State /\ notices \in Seq(State)
    /\ askedN \in Seq(N!Operations)
    /\ heard \in Heard

KnowsFull ==
    /\ flag = state.full
    /\ state.full => heard.full = "enterFullScreen"
    /\ ~state.full => heard.full \in {"nothing", "leaveFullScreen"}

KnowsZoomed ==
    /\ state.zoomed => heard.zoomed = "maximize"
    /\ ~state.zoomed => heard.zoomed \in {"nothing", "unmaximize"}

NotCreated == lifeN = "none" => ~liveN /\ ~asking /\ askedN = <<>> /\ notices = <<>>
                                /\ KnowsFull /\ KnowsZoomed

GtkKnows ==
    platform = "gtk" /\ lifeN = "up" =>
        IF notices = <<>> THEN KnowsFull /\ KnowsZoomed
                          ELSE notices[Len(notices)] = state

MacKnows ==
    platform = "mac" /\ lifeN = "up" => mapped /\ (askedN = <<>> => KnowsFull)

WinKnows == platform = "win" => KnowsFull

NativeInv == NativeTyped /\ NotCreated /\ GtkKnows /\ MacKnows /\ WinKnows

-----------------------------------------------------------------------------
(***************************************************************************)
(* The calls that wait.                                                    *)
(***************************************************************************)
LEMMA CallsInit == S!Init => CallsInv
<1> SUFFICES ASSUME S!Init PROVE CallsInv
  OBVIOUS
<1>1. stack = <<>> /\ turn = FALSE /\ asked = {} /\ calls = 0
      /\ counted = [w \in S!Window |-> 0]
  BY DEF S!Init
<1>2. Len(stack) = 0 /\ <<>> \in Seq(Frame)
  BY <1>1
<1>3. CallsTyped
  BY <1>1, <1>2 DEF CallsTyped
<1>4. \A k \in 1 .. Len(stack) : FALSE
  BY <1>2
<1> QED BY <1>1, <1>3, <1>4 DEF CallsInv, FramesWait, HasFrame

LEMMA CallsImply == CallsInv => S!NoLateAnswer
BY DEF CallsInv, HasFrame, S!NoLateAnswer, S!FrameOf

\* A handler that does not wait, also one that counts as a call.
LEMMA QuietKeeps ==
    ASSUME CallsInv, UNCHANGED <<stack, asked>>, calls' \in {calls, calls + 1},
           turn' \in BOOLEAN, turn' => stack # <<>>, counted' \in [S!Window -> Nat]
    PROVE  CallsInv'
<1>1. calls \in Nat /\ calls' \in Nat /\ calls <= calls'
  BY DEF CallsInv, CallsTyped
<1>2. asked' \subseteq 1 .. calls'
  BY <1>1 DEF CallsInv, CallsTyped
<1>3. CallsTyped'
  BY <1>1, <1>2 DEF CallsInv, CallsTyped
<1>4. FramesWait'
  <2> SUFFICES ASSUME NEW k \in 1 .. Len(stack)
               PROVE  /\ stack[k].call <= calls'
                      /\ stack[k].call \in asked =>
                             ~stack[k].done /\ stack[k].op # "findInPage"
                      /\ stack[k].op = "findInPage" => stack[k].win \in S!Window
    BY DEF FramesWait, S!Window
  <2>1. stack[k] \in Frame
    BY DEF CallsInv, CallsTyped
  <2>2. stack[k].call \in Nat
    BY <2>1 DEF Frame
  <2> QED BY <1>1, <2>2 DEF CallsInv, FramesWait
<1> QED BY <1>3, <1>4 DEF CallsInv, HasFrame

\* A handler that waits: its frame is the innermost.
LEMMA WaitKeeps ==
    ASSUME SessionWindows \in Nat, CallsInv, NEW op \in Ops, NEW w \in Nat, S!Wait(op, w),
           op = "findInPage" => w \in S!Window,
           asked' = IF op = "findInPage" THEN asked ELSE asked \cup {calls'},
           counted' \in [S!Window -> Nat]
    PROVE  CallsInv'
<1> DEFINE f == [call |-> calls', op |-> op, win |-> w, done |-> FALSE, cookie |-> FALSE,
                 guard |-> 0, matches |-> 0, stable |-> 0]
<1>1. calls' = calls + 1 /\ stack' = Append(stack, f) /\ turn' = FALSE
  BY DEF S!Wait, S!Counting
<1>2. calls \in Nat /\ stack \in Seq(Frame) /\ asked \subseteq 1 .. calls /\ calls' \in Nat
  BY <1>1 DEF CallsInv, CallsTyped
<1>3. f \in Frame /\ f.call = calls' /\ f.op = op /\ f.win = w /\ f.done = FALSE
  BY <1>2 DEF Frame
<1> HIDE DEF f
<1>4. /\ stack' \in Seq(Frame) /\ Len(stack) \in Nat /\ Len(stack') = Len(stack) + 1
      /\ \A k \in 1 .. Len(stack) : stack'[k] = stack[k]
      /\ stack'[Len(stack) + 1] = f
  BY <1>1, <1>2, <1>3, AppendProperties
<1>5. asked' \subseteq 1 .. calls' /\ calls' \notin asked
  BY <1>1, <1>2
<1>6. CallsTyped'
  BY <1>1, <1>2, <1>4, <1>5 DEF CallsTyped
<1>7. FramesWait'
  <2> SUFFICES ASSUME NEW k \in 1 .. Len(stack')
               PROVE  /\ stack'[k].call <= calls'
                      /\ stack'[k].call \in asked' =>
                             ~stack'[k].done /\ stack'[k].op # "findInPage"
                      /\ stack'[k].op = "findInPage" => stack'[k].win \in S!Window
    BY DEF FramesWait, S!Window
  <2>1. CASE k \in 1 .. Len(stack)
    <3>1. /\ stack[k].call <= calls
          /\ stack[k].call \in asked => ~stack[k].done /\ stack[k].op # "findInPage"
          /\ stack[k].op = "findInPage" => stack[k].win \in S!Window
      BY <2>1 DEF CallsInv, FramesWait
    <3>2. stack'[k] = stack[k] /\ stack[k].call \in Nat
      <4>1. stack[k] \in Frame
        BY <1>2, <2>1
      <4> QED BY <1>4, <2>1, <4>1 DEF Frame
    <3>3. stack[k].call <= calls' /\ stack[k].call # calls'
      BY <1>1, <1>2, <3>1, <3>2
    <3> QED BY <3>1, <3>2, <3>3
  <2>2. CASE k = Len(stack) + 1
    BY <1>1, <1>2, <1>3, <1>4, <1>5, <2>2
  <2> QED BY <1>4, <2>1, <2>2
<1>8. HasFrame'
  <2> SUFFICES ASSUME NEW call \in asked'
               PROVE  \E k \in 1 .. Len(stack') : stack'[k].call = call
    BY DEF HasFrame
  <2>1. CASE call \in asked
    <3>1. PICK k \in 1 .. Len(stack) : stack[k].call = call
      BY <2>1 DEF CallsInv, HasFrame
    <3>2. k \in 1 .. Len(stack') /\ stack'[k] = stack[k]
      BY <1>4
    <3> QED BY <3>1, <3>2
  <2>2. CASE call = calls'
    <3>1. Len(stack) + 1 \in 1 .. Len(stack')
      BY <1>4
    <3> QED BY <1>3, <1>4, <2>2, <3>1
  <2> QED BY <2>1, <2>2
<1> QED BY <1>6, <1>7, <1>8 DEF CallsInv

\* A frame that is no longer waited for comes off.
LEMMA PopKeeps ==
    ASSUME CallsInv, stack # <<>>, S!Return,
           stack[Len(stack)].call \notin asked,
           UNCHANGED <<asked, calls>>, counted' = counted
    PROVE  CallsInv'
<1> DEFINE n == Len(stack) - 1
<1>1. stack' = SubSeq(stack, 1, n) /\ turn' = (stack' # <<>>)
  BY DEF S!Return, S!Below
<1>2. stack \in Seq(Frame) /\ Len(stack) \in Nat /\ n \in Nat
  BY DEF CallsInv, CallsTyped
<1>3. /\ stack' \in Seq(Frame) /\ Len(stack') = n
      /\ \A k \in 1 .. n : stack'[k] = stack[k]
  <2>1. \A i \in 1 .. n : stack[i] \in Frame
    BY <1>2
  <2>2. \A i \in 1 .. n - 1 + 1 : i \in 1 .. n /\ 1 + i - 1 = i
    BY <1>2
  <2>3. n - 1 + 1 = n
    BY <1>2
  <2> HIDE DEF n
  <2>4. /\ SubSeq(stack, 1, n) \in Seq(Frame)
        /\ Len(SubSeq(stack, 1, n)) = IF 1 <= n THEN n - 1 + 1 ELSE 0
        /\ \A i \in 1 .. n - 1 + 1 : SubSeq(stack, 1, n)[i] = stack[1 + i - 1]
    BY <1>2, <2>1, SubSeqProperties
  <2> QED BY <1>1, <1>2, <2>2, <2>3, <2>4
<1>4. \A k \in 1 .. Len(stack) : k \in 1 .. n \/ k = Len(stack)
  BY <1>2
<1>5. 1 .. n \subseteq 1 .. Len(stack)
  BY <1>2
<1> HIDE DEF n
<1>6. CallsTyped'
  <2>1. turn' \in BOOLEAN /\ (turn' => stack' # <<>>)
    BY <1>1
  <2> QED BY <1>3, <2>1 DEF CallsInv, CallsTyped
<1>7. FramesWait'
  BY <1>3, <1>5 DEF CallsInv, FramesWait
<1>8. HasFrame'
  <2> SUFFICES ASSUME NEW call \in asked
               PROVE  \E k \in 1 .. n : stack'[k].call = call
    BY <1>3 DEF HasFrame
  <2>1. PICK k \in 1 .. Len(stack) : stack[k].call = call
    BY DEF CallsInv, HasFrame
  <2>2. k \in 1 .. n
    BY <1>4, <2>1
  <2> QED BY <1>3, <2>1, <2>2
<1> QED BY <1>6, <1>7, <1>8 DEF CallsInv

\* Frames are written to; a request that is answered is one no longer asked.
LEMMA WriteKeeps ==
    ASSUME CallsInv, stack' \in Seq(Frame), Len(stack') = Len(stack),
           \A k \in 1 .. Len(stack) :
               /\ stack'[k].call = stack[k].call /\ stack'[k].op = stack[k].op
               /\ stack'[k].win = stack[k].win
               /\ stack[k].call \in asked' => stack'[k].done = stack[k].done,
           asked' \subseteq asked, calls' = calls, counted' = counted,
           turn' \in BOOLEAN, turn' => stack # <<>>
    PROVE  CallsInv'
<1>1. turn' => stack' # <<>>
  <2>1. stack \in Seq(Frame)
    BY DEF CallsInv, CallsTyped
  <2> QED BY <2>1, EmptySeq
<1>2. CallsTyped'
  BY <1>1 DEF CallsInv, CallsTyped
<1>3. FramesWait'
  BY DEF CallsInv, FramesWait
<1>4. HasFrame'
  BY DEF CallsInv, HasFrame
<1> QED BY <1>2, <1>3, <1>4 DEF CallsInv

\* What is known before a step.
LEMMA CallsKnown ==
    ASSUME CallsInv
    PROVE  /\ stack \in Seq(Frame) /\ turn \in BOOLEAN /\ (turn => stack # <<>>)
           /\ calls \in Nat /\ counted \in [S!Window -> Nat]
           /\ Len(stack) \in Nat
           /\ stack # <<>> => Len(stack) \in 1 .. Len(stack) /\ stack[Len(stack)] \in Frame
<1>1. stack \in Seq(Frame) /\ turn \in BOOLEAN /\ (turn => stack # <<>>)
      /\ calls \in Nat /\ counted \in [S!Window -> Nat]
  BY DEF CallsInv, CallsTyped
<1>2. Len(stack) \in Nat /\ (stack # <<>> => Len(stack) > 0)
  BY <1>1
<1>3. stack # <<>> => Len(stack) \in 1 .. Len(stack)
  BY <1>2
<1>4. \A k \in 1 .. Len(stack) : stack[k] \in Frame
  BY <1>1
<1> QED BY <1>1, <1>2, <1>3, <1>4

LEMMA PumpUntilKeeps == ASSUME CallsInv, S!PumpUntil PROVE CallsInv'
<1> DEFINE n == Len(stack)
<1>1. /\ turn /\ stack[n].op # "findInPage" /\ UNCHANGED <<counted, asked, calls>>
      /\ IF stack[n].done THEN S!Return ELSE turn' = FALSE /\ stack' = stack
  BY DEF S!PumpUntil, S!Top, S!GoRound
<1>2. stack # <<>> /\ n \in 1 .. n /\ stack[n] \in Frame
  BY <1>1, CallsKnown
<1>3. CASE stack[n].done
  <2>1. stack[n].call \notin asked
    BY <1>2, <1>3 DEF CallsInv, FramesWait
  <2> QED BY <1>1, <1>2, <1>3, <2>1, PopKeeps
<1>4. CASE ~stack[n].done
  BY <1>1, <1>4, CallsKnown, QuietKeeps
<1> QED BY <1>3, <1>4

\* A frame that is written to, the answer and whether the cookie is there.
LEMMA FrameAnswered ==
    ASSUME NEW f \in Frame, NEW b \in BOOLEAN
    PROVE  LET g == [f EXCEPT !.done = TRUE, !.cookie = b]
           IN  g \in Frame /\ g.call = f.call /\ g.op = f.op /\ g.win = f.win
<1>1. CASE b = TRUE
  BY <1>1 DEF Frame
<1>2. CASE b = FALSE
  BY <1>2 DEF Frame
<1> QED BY <1>1, <1>2

LEMMA FindLoopKeeps ==
    ASSUME FindGuard \in Nat, FindStable \in Nat, CallsInv, S!FindLoop PROVE CallsInv'
<1> DEFINE n == Len(stack)
           top == stack[n]
           now == counted[top.win]
           same == now = top.matches /\ now > 0
           next == [top EXCEPT !.guard = @ + 1, !.matches = now,
                               !.stable = IF same THEN @ + 1 ELSE 0]
<1>1. /\ turn /\ top.op = "findInPage" /\ UNCHANGED <<counted, asked, calls>>
      /\ S!Return \/ (stack' = [stack EXCEPT ![n] = next] /\ turn' = FALSE)
  BY DEF S!FindLoop, S!Top, S!GoRound, S!viewVars
<1>2. stack # <<>> /\ n \in 1 .. n /\ top \in Frame /\ stack \in Seq(Frame)
      /\ counted \in [S!Window -> Nat]
  BY <1>1, CallsKnown
<1>3. top.call \notin asked /\ top.win \in S!Window
  BY <1>1, <1>2 DEF CallsInv, FramesWait
<1>4. CASE S!Return
  BY <1>1, <1>2, <1>3, <1>4, PopKeeps
<1>5. CASE stack' = [stack EXCEPT ![n] = next] /\ turn' = FALSE
  <2>1. /\ now \in Nat /\ top.guard + 1 \in Nat
        /\ (IF same THEN top.stable + 1 ELSE 0) \in Nat
    BY <1>2, <1>3 DEF Frame
  <2>2. next \in Frame /\ next.call = top.call /\ next.op = top.op /\ next.win = top.win
    <3> HIDE DEF now, same
    <3> QED BY <1>2, <2>1 DEF Frame
  <2> HIDE DEF next
  <2>3. /\ stack' \in Seq(Frame) /\ Len(stack') = Len(stack)
        /\ \A k \in 1 .. n : stack'[k] = IF k = n THEN next ELSE stack[k]
    BY <1>2, <1>5, <2>2
  <2>4. \A k \in 1 .. Len(stack) :
            /\ stack'[k].call = stack[k].call /\ stack'[k].op = stack[k].op
            /\ stack'[k].win = stack[k].win
            /\ stack[k].call \in asked' => stack'[k].done = stack[k].done
    BY <1>1, <1>3, <2>2, <2>3
  <2> QED BY <1>1, <1>5, <2>3, <2>4, WriteKeeps
<1> QED BY <1>1, <1>4, <1>5

LEMMA AnswerKeeps == ASSUME CallsInv, NEW call \in asked, S!Answer(call) PROVE CallsInv'
<1> DEFINE written(k) == IF stack[k].call = call
                         THEN [stack[k] EXCEPT !.done = TRUE, !.cookie = (0 \in jar)]
                         ELSE stack[k]
<1>1. /\ asked' = asked \ {call} /\ turn' = (stack # <<>>)
      /\ stack' = [k \in 1 .. Len(stack) |-> written(k)]
      /\ calls' = calls /\ counted' = counted
  BY DEF S!Answer, S!Dispatch, S!FrameOf, S!viewVars
<1>2. stack \in Seq(Frame) /\ Len(stack) \in Nat
  BY CallsKnown
<1>3. ASSUME NEW k \in 1 .. Len(stack)
      PROVE  /\ written(k) \in Frame
             /\ written(k).call = stack[k].call /\ written(k).op = stack[k].op
             /\ written(k).win = stack[k].win
             /\ stack[k].call # call => written(k) = stack[k]
  <2>1. stack[k] \in Frame /\ (0 \in jar) \in BOOLEAN
    BY <1>2
  <2> QED BY <2>1, FrameAnswered
<1> HIDE DEF written
<1>4. /\ stack' \in Seq(Frame) /\ Len(stack') = Len(stack)
      /\ \A k \in 1 .. Len(stack) : stack'[k] = written(k)
  BY <1>1, <1>2, <1>3
<1>5. \A k \in 1 .. Len(stack) :
          /\ stack'[k].call = stack[k].call /\ stack'[k].op = stack[k].op
          /\ stack'[k].win = stack[k].win
          /\ stack[k].call \in asked' => stack'[k].done = stack[k].done
  BY <1>1, <1>3, <1>4
<1>6. turn' \in BOOLEAN /\ (turn' => stack # <<>>)
  BY <1>1
<1> QED BY <1>1, <1>4, <1>5, <1>6, WriteKeeps

\* Handlers that come back at once, and what happens beside them.
LEMMA ImmediateTells ==
    ASSUME CallsInv,
           \/ S!Immediate
           \/ S!Dispatch /\ UNCHANGED <<stack, asked, calls>>
    PROVE  /\ UNCHANGED <<stack, asked>> /\ calls' \in {calls, calls + 1}
           /\ turn' \in BOOLEAN /\ (turn' => stack # <<>>)
BY DEF S!Immediate, S!Dispatch, S!Counting

LEMMA CountedKeeps ==
    ASSUME CallsInv, NEW w \in S!Window,
           S!Counted(w) \/ \E leaves \in BOOLEAN : S!Navigate(w, leaves)
    PROVE  CallsInv'
<1>1. counted' \in [S!Window -> Nat]
  <2>1. \/ counted' = counted \/ counted' = [counted EXCEPT ![w] = 1]
        \/ counted' = [counted EXCEPT ![w] = 0]
    BY DEF S!Counted, S!Navigate
  <2>2. counted \in [S!Window -> Nat]
    BY CallsKnown
  <2> QED BY <2>1, <2>2
<1>2. S!Immediate \/ (S!Dispatch /\ UNCHANGED <<stack, asked, calls>>)
  BY DEF S!Counted, S!Navigate
<1> QED BY <1>1, <1>2, ImmediateTells, QuietKeeps

\* A handler that waits.
LEMMA WaitingKeeps ==
    ASSUME SessionWindows \in Nat, CallsInv,
           \/ S!cookiesGet \/ S!cookieDelete
           \/ \E w \in S!Window : S!capturePage(w) \/ S!findInPage(w)
    PROVE  CallsInv'
<1>0. counted \in [S!Window -> Nat] /\ S!Window \subseteq Nat
  BY CallsKnown DEF S!Window
<1>1. CASE S!cookiesGet
  BY <1>0, <1>1, WaitKeeps DEF S!cookiesGet, S!viewVars, Ops
<1>2. CASE S!cookieDelete
  BY <1>0, <1>2, WaitKeeps DEF S!cookieDelete, S!viewVars, Ops
<1>3. ASSUME NEW w \in S!Window, S!capturePage(w) PROVE CallsInv'
  BY <1>0, <1>3, WaitKeeps DEF S!capturePage, S!viewVars, Ops
<1>4. ASSUME NEW w \in S!Window, S!findInPage(w) PROVE CallsInv'
  <2>1. counted' \in [S!Window -> Nat]
    BY <1>0, <1>4 DEF S!findInPage
  <2> QED BY <1>0, <1>4, <2>1, WaitKeeps DEF S!findInPage, Ops
<1> QED BY <1>1, <1>2, <1>3, <1>4

\* What leaves the calls that wait and the find controllers as they are.
Elsewhere ==
    /\ S!Immediate \/ (S!Dispatch /\ UNCHANGED <<stack, asked, calls>>)
    /\ counted' = counted

LEMMA ElsewhereKeeps == ASSUME CallsInv, Elsewhere PROVE CallsInv'
<1>1. counted' \in [S!Window -> Nat]
  BY CallsKnown DEF Elsewhere
<1> QED BY <1>1, ImmediateTells, QuietKeeps DEF Elsewhere

LEMMA CallsNext ==
    ASSUME SessionWindows \in Nat, FindGuard \in Nat, FindStable \in Nat,
           CallsInv, [S!Next]_(S!vars)
    PROVE  CallsInv'
<1>1. CASE UNCHANGED S!vars
  BY <1>1 DEF S!vars, S!callVars, S!viewVars, CallsInv, CallsTyped, FramesWait, HasFrame,
              S!Window
<1>2. CASE \/ S!OpenWindow \/ \E w \in S!Window : S!CloseWindow(w)
           \/ S!cookiesSet \/ S!setUserAgentAll
           \/ \E d \in S!Download :
                 \/ \E c \in S!Window : S!OnDownloadStarted(d, c)
                 \/ S!OnDlProgress(d) \/ S!DownloadEnds(d)
           \/ \E id \in DOMAIN g_downloads : S!downloadCancel(id)
  <2>1. Elsewhere
    BY <1>2 DEF Elsewhere, S!OpenWindow, S!CloseWindow, S!cookiesSet, S!setUserAgentAll,
                S!OnDownloadStarted, S!OnDlProgress, S!DownloadEnds, S!downloadCancel,
                S!viewVars
  <2> QED BY <2>1, ElsewhereKeeps
<1>3. ASSUME NEW w \in S!Window,
             \/ S!attach(w) \/ S!PageSetsCookie(w)
             \/ \E b \in BOOLEAN : S!clearStorage(w, b)
             \/ \E p \in Setters, valid \in BOOLEAN : S!SetProperty(w, p, valid)
             \/ S!openDevTools(w) \/ S!setProxy(w)
             \/ \E b \in BOOLEAN : S!spellCheck(w, b)
      PROVE  CallsInv'
  <2>1. Elsewhere
    BY <1>3 DEF Elsewhere, S!attach, S!PageSetsCookie, S!clearStorage, S!SetProperty,
                S!openDevTools, S!setProxy, S!spellCheck, S!viewVars
  <2> QED BY <2>1, ElsewhereKeeps
<1> QED BY <1>1, <1>2, <1>3, PumpUntilKeeps, FindLoopKeeps, AnswerKeeps, CountedKeeps,
           WaitingKeeps DEF S!Next

(***************************************************************************)
(* However the loops of the handlers nest, WebKit answers no request into  *)
(* the frame of a handler that has returned.                               *)
(***************************************************************************)
THEOREM AnswersFindTheirFrame ==
    ASSUME SessionWindows \in Nat, FindGuard \in Nat, FindStable \in Nat
    PROVE  S!Spec => []NoLateAnswer
<1>1. S!Init => CallsInv
  BY CallsInit
<1>2. CallsInv /\ [S!Next]_(S!vars) => CallsInv'
  BY CallsNext
<1>3. S!NoLateAnswer => NoLateAnswer
  BY DEF NoLateAnswer
<1> QED BY <1>1, <1>2, <1>3, CallsImply, PTL DEF S!Spec

-----------------------------------------------------------------------------
(***************************************************************************)
(* The downloads.                                                          *)
(***************************************************************************)
LEMMA DownloadsInit ==
    ASSUME SessionWindows \in Nat, S!Init PROVE DownloadsInv
<1>1. /\ connected = {} /\ handlers = [c \in S!Context |-> 0]
      /\ g_downloads = <<>> /\ g_nextDl = 1
      /\ transfer = [d \in S!Download |-> "none"]
      /\ transferIn = [d \in S!Download |-> [ctx |-> 0, tracked |-> FALSE]]
  BY DEF S!Init
<1>2. DOMAIN g_downloads = {} /\ 0 \in S!Context
  BY <1>1 DEF S!Context
<1>3. DownloadsTyped
  BY <1>1, <1>2 DEF DownloadsTyped
<1>4. OneHandler
  BY <1>1 DEF OneHandler
<1>5. IdsGivenOnce /\ IdsLeadToDownloads
  BY <1>2 DEF IdsGivenOnce, IdsLeadToDownloads
<1>6. TrackedOnce
  BY <1>1, <1>2 DEF TrackedOnce, Tracked, S!IdsOf
<1> QED BY <1>3, <1>4, <1>5, <1>6 DEF DownloadsInv

LEMMA SameCardinality == \A set : S!Cardinality(set) = Cardinality(set)
BY Zenon DEF S!Cardinality, S!IsFiniteSet, Cardinality, IsFiniteSet

LEMMA DownloadsImply == DownloadsInv => S!DownloadsTracked
<1> SUFFICES ASSUME DownloadsInv, NEW d \in S!Download
             PROVE  Cardinality(S!IdsOf(d)) = IF Tracked(d) THEN 1 ELSE 0
  BY SameCardinality, Zenon DEF S!DownloadsTracked, Tracked
<1>1. CASE Tracked(d)
  <2>1. PICK id : S!IdsOf(d) = {id}
    BY <1>1 DEF DownloadsInv, TrackedOnce
  <2>2. Cardinality({id}) = 1
    BY FS_Singleton
  <2> QED BY <1>1, <2>1, <2>2 DEF Tracked
<1>2. CASE ~Tracked(d)
  <2>1. S!IdsOf(d) = {}
    BY <1>2 DEF DownloadsInv, TrackedOnce
  <2>2. Cardinality({}) = 0
    BY FS_EmptySet
  <2> QED BY <1>2, <2>1, <2>2 DEF Tracked
<1> QED BY <1>1, <1>2

LEMMA AttachKeeps ==
    ASSUME SessionWindows \in Nat, DownloadsInv, NEW w \in S!Window, S!attach(w)
    PROVE  DownloadsInv'
<1>1. UNCHANGED <<g_downloads, g_nextDl, transfer, transferIn>>
  BY DEF S!attach
<1>2. w \in S!Context
  BY DEF S!Window, S!Context
<1>3. DownloadsTyped' /\ OneHandler'
  <2>1. CASE UNCHANGED <<connected, handlers>>
    BY <1>1, <2>1 DEF DownloadsInv, DownloadsTyped, OneHandler, S!Download, S!Context
  <2>2. CASE /\ w \notin connected /\ connected' = connected \cup {w}
             /\ handlers' = [handlers EXCEPT ![w] = @ + 1]
    BY <1>1, <1>2, <2>2 DEF DownloadsInv, DownloadsTyped, OneHandler, S!Download, S!Context
  <2> QED BY <2>1, <2>2 DEF S!attach
<1>4. IdsGivenOnce' /\ IdsLeadToDownloads' /\ TrackedOnce'
  BY <1>1 DEF DownloadsInv, IdsGivenOnce, IdsLeadToDownloads, TrackedOnce, Tracked, S!IdsOf,
              S!Download
<1> QED BY <1>3, <1>4 DEF DownloadsInv

LEMMA StartedKeeps ==
    ASSUME SessionWindows \in Nat, DownloadsInv, NEW d \in S!Download, NEW c \in S!Window,
           S!OnDownloadStarted(d, c)
    PROVE  DownloadsInv'
<1> DEFINE n == handlers[c]
           ids == g_nextDl .. g_nextDl + n - 1
           entry == [win |-> S!NewestWindow, dl |-> d]
<1>1. /\ transfer[d] = "none"
      /\ transfer' = [transfer EXCEPT ![d] = "runs"]
      /\ transferIn' = [transferIn EXCEPT ![d] = [ctx |-> c, tracked |-> c \in connected]]
      /\ g_downloads' = [id \in DOMAIN g_downloads \cup ids |->
             IF id \in ids THEN entry ELSE g_downloads[id]]
      /\ g_nextDl' = g_nextDl + n
      /\ UNCHANGED <<connected, handlers>>
  BY DEF S!OnDownloadStarted
<1>2. /\ c \in S!Context /\ n \in Nat /\ n = (IF c \in connected THEN 1 ELSE 0)
      /\ g_nextDl \in Nat
  BY DEF S!Window, S!Context, DownloadsInv, DownloadsTyped, OneHandler
<1>3. entry.dl = d
  OBVIOUS
<1>4. /\ c \in connected => ids = {g_nextDl}
      /\ c \notin connected => ids = {}
  <2>1. \A i \in Int : i \in ids <=> i >= g_nextDl /\ i <= g_nextDl + n - 1
    BY <1>2
  <2>2. ids \subseteq Int
    OBVIOUS
  <2> HIDE DEF ids, n
  <2>3. CASE c \in connected
    <3>1. g_nextDl + n - 1 = g_nextDl
      BY <1>2, <2>3
    <3>2. \A i \in Int : i \in ids <=> i = g_nextDl
      BY <1>2, <2>1, <3>1
    <3>3. g_nextDl \in Int
      BY <1>2
    <3>4. ids = {g_nextDl}
      <4>1. \A i : i \in ids <=> i = g_nextDl
        BY <2>2, <3>2, <3>3, Zenon
      <4> QED BY <4>1, SMT
    <3> QED BY <2>3, <3>4, Zenon
  <2>4. CASE c \notin connected
    <3>1. \A i \in Int : i \notin ids
      BY <1>2, <2>1, <2>4
    <3> QED BY <2>2, <2>4, <3>1
  <2> QED BY <2>3, <2>4
<1> HIDE DEF n, ids, entry
<1>5. /\ DOMAIN g_downloads' = DOMAIN g_downloads \cup ids
      /\ \A id \in DOMAIN g_downloads' :
             g_downloads'[id] = IF id \in ids THEN entry ELSE g_downloads[id]
  BY <1>1
<1>6. \A id \in ids : id \in Nat /\ id < g_nextDl' /\ id \notin DOMAIN g_downloads
  BY <1>1, <1>2, <1>4 DEF DownloadsInv, IdsGivenOnce
<1>7. DownloadsTyped'
  <2>1. [ctx |-> c, tracked |-> c \in connected] \in [ctx : S!Context, tracked : BOOLEAN]
    BY <1>2
  <2>2. /\ transfer' \in [S!Download -> {"none", "runs", "over"}]
        /\ transferIn' \in [S!Download -> [ctx : S!Context, tracked : BOOLEAN]]
        /\ handlers' \in [S!Context -> Nat]
    BY <1>1, <2>1 DEF DownloadsInv, DownloadsTyped
  <2>3. g_nextDl' \in Nat
    BY <1>1, <1>2
  <2> QED BY <2>2, <2>3 DEF DownloadsTyped, S!Download, S!Context
<1>8. OneHandler'
  BY <1>1 DEF DownloadsInv, OneHandler, S!Context
<1>9. IdsGivenOnce'
  <2>1. \A id \in DOMAIN g_downloads : id \in Nat /\ id < g_nextDl'
    BY <1>1, <1>2 DEF DownloadsInv, IdsGivenOnce
  <2> QED BY <1>5, <1>6, <2>1 DEF IdsGivenOnce
<1>10. IdsLeadToDownloads'
  BY <1>3, <1>5 DEF DownloadsInv, IdsLeadToDownloads, S!Download
<1>11. TrackedOnce'
  <2>1. ASSUME NEW e \in S!Download, e # d
        PROVE  S!IdsOf(e)' = S!IdsOf(e) /\ (Tracked(e)' <=> Tracked(e))
    <3>1. transfer'[e] = transfer[e] /\ transferIn'[e] = transferIn[e]
      BY <1>1, <2>1 DEF DownloadsInv, DownloadsTyped
    <3>2. S!IdsOf(e)' = S!IdsOf(e)
      BY <1>3, <1>5, <1>6, <2>1 DEF S!IdsOf
    <3> QED BY <3>1, <3>2 DEF Tracked
  <2>2. S!IdsOf(d)' = ids
    <3>1. S!IdsOf(d) = {}
      BY <1>1 DEF DownloadsInv, TrackedOnce, Tracked
    <3> QED BY <1>3, <1>5, <1>6, <3>1 DEF S!IdsOf
  <2>3. Tracked(d)' <=> c \in connected
    <3>1. transfer'[d] = "runs" /\ transferIn'[d] = [ctx |-> c, tracked |-> c \in connected]
      BY <1>1 DEF DownloadsInv, DownloadsTyped
    <3>2. [ctx |-> c, tracked |-> c \in connected].tracked <=> c \in connected
      OBVIOUS
    <3> QED BY <3>1, <3>2 DEF Tracked
  <2>4. ASSUME NEW e \in S!Download
        PROVE  /\ Tracked(e)' => \E id : S!IdsOf(e)' = {id}
               /\ ~Tracked(e)' => S!IdsOf(e)' = {}
    <3>1. CASE e = d
      BY <1>4, <2>2, <2>3, <3>1
    <3>2. CASE e # d
      BY <2>1, <3>2 DEF DownloadsInv, TrackedOnce
    <3> QED BY <3>1, <3>2
  <2> QED BY <2>4 DEF TrackedOnce, S!Download
<1> QED BY <1>7, <1>8, <1>9, <1>10, <1>11 DEF DownloadsInv

LEMMA FinishedKeeps ==
    ASSUME DownloadsInv, NEW d \in S!Download, S!OnDlFinished(d),
           UNCHANGED <<connected, handlers, g_nextDl, transferIn>>
    PROVE  DownloadsInv'
<1>1. /\ transfer' = [transfer EXCEPT ![d] = "over"]
      /\ g_downloads' = [id \in DOMAIN g_downloads \ S!IdsOf(d) |-> g_downloads[id]]
  BY DEF S!OnDlFinished
<1>2. /\ DOMAIN g_downloads' = DOMAIN g_downloads \ S!IdsOf(d)
      /\ \A id \in DOMAIN g_downloads' : g_downloads'[id] = g_downloads[id]
  BY <1>1
<1>3. DownloadsTyped' /\ OneHandler'
  BY <1>1 DEF DownloadsInv, DownloadsTyped, OneHandler, S!Download, S!Context
<1>4. IdsGivenOnce' /\ IdsLeadToDownloads'
  BY <1>2 DEF DownloadsInv, IdsGivenOnce, IdsLeadToDownloads, S!Download
<1>5. ASSUME NEW e \in S!Download
      PROVE  /\ Tracked(e)' => \E id : S!IdsOf(e)' = {id}
             /\ ~Tracked(e)' => S!IdsOf(e)' = {}
  <2>1. CASE e = d
    <3>1. transfer'[d] = "over"
      BY <1>1 DEF DownloadsInv, DownloadsTyped
    <3>2. S!IdsOf(d)' = {}
      BY <1>2 DEF S!IdsOf
    <3> QED BY <2>1, <3>1, <3>2 DEF Tracked
  <2>2. CASE e # d
    <3>1. transfer'[e] = transfer[e]
      BY <1>1, <2>2 DEF DownloadsInv, DownloadsTyped
    <3>2. S!IdsOf(e)' = S!IdsOf(e)
      BY <1>2, <2>2 DEF S!IdsOf
    <3> QED BY <3>1, <3>2 DEF DownloadsInv, TrackedOnce, Tracked
  <2> QED BY <2>1, <2>2
<1>6. TrackedOnce'
  BY <1>5 DEF TrackedOnce, S!Download
<1> QED BY <1>3, <1>4, <1>6 DEF DownloadsInv

LEMMA DownloadsNext ==
    ASSUME SessionWindows \in Nat, DownloadsInv, [S!Next]_(S!vars)
    PROVE  DownloadsInv'
<1>1. CASE UNCHANGED <<connected, handlers, g_downloads, g_nextDl, transfer, transferIn>>
  <2>1. DownloadsTyped' /\ OneHandler'
    BY <1>1 DEF DownloadsInv, DownloadsTyped, OneHandler, S!Download, S!Context
  <2>2. IdsGivenOnce' /\ IdsLeadToDownloads'
    BY <1>1 DEF DownloadsInv, IdsGivenOnce, IdsLeadToDownloads, S!Download
  <2>3. TrackedOnce'
    BY <1>1 DEF DownloadsInv, TrackedOnce, Tracked, S!IdsOf, S!Download
  <2> QED BY <2>1, <2>2, <2>3 DEF DownloadsInv
<1>2. CASE UNCHANGED S!vars
  BY <1>1, <1>2 DEF S!vars, S!downloadVars
<1>3. CASE \/ S!OpenWindow \/ \E w \in S!Window : S!CloseWindow(w)
           \/ S!cookiesGet \/ S!cookieDelete \/ S!cookiesSet \/ S!setUserAgentAll
           \/ S!PumpUntil \/ S!FindLoop \/ \E call \in asked : S!Answer(call)
           \/ \E d \in S!Download : S!OnDlProgress(d)
  BY <1>1, <1>3 DEF S!OpenWindow, S!CloseWindow, S!cookiesGet, S!cookieDelete,
     S!cookiesSet, S!setUserAgentAll, S!PumpUntil, S!FindLoop, S!Answer, S!OnDlProgress,
     S!downloadVars
<1>4. ASSUME NEW w \in S!Window,
             \/ S!capturePage(w) \/ S!findInPage(w) \/ S!PageSetsCookie(w) \/ S!Counted(w)
             \/ \E b \in BOOLEAN : S!clearStorage(w, b)
             \/ \E p \in Setters, valid \in BOOLEAN : S!SetProperty(w, p, valid)
             \/ S!openDevTools(w) \/ S!setProxy(w)
             \/ \E b \in BOOLEAN : S!spellCheck(w, b) \/ S!Navigate(w, b)
      PROVE  DownloadsInv'
  BY <1>1, <1>4 DEF S!capturePage, S!findInPage, S!PageSetsCookie, S!Counted,
     S!clearStorage, S!SetProperty, S!openDevTools, S!setProxy, S!spellCheck, S!Navigate,
     S!downloadVars
<1>5. ASSUME NEW d \in S!Download, S!DownloadEnds(d) PROVE DownloadsInv'
  BY <1>5, FinishedKeeps DEF S!DownloadEnds
<1>6. ASSUME NEW id \in DOMAIN g_downloads, S!downloadCancel(id) PROVE DownloadsInv'
  BY <1>6, FinishedKeeps DEF S!downloadCancel, DownloadsInv, IdsLeadToDownloads
<1> QED BY <1>2, <1>3, <1>4, <1>5, <1>6, AttachKeeps, StartedKeeps DEF S!Next

(***************************************************************************)
(* A download of an attached window has one id while it runs and none      *)
(* after, however often the window is attached and whoever cancels it.     *)
(***************************************************************************)
THEOREM DownloadsHaveOneId ==
    ASSUME SessionWindows \in Nat
    PROVE  S!Spec => []DownloadsTracked
<1>1. S!Init => DownloadsInv
  BY DownloadsInit
<1>2. DownloadsInv /\ [S!Next]_(S!vars) => DownloadsInv'
  BY DownloadsNext
<1>3. S!DownloadsTracked => DownloadsTracked
  BY DEF DownloadsTracked
<1> QED BY <1>1, <1>2, <1>3, DownloadsImply, PTL DEF S!Spec
-----------------------------------------------------------------------------
(***************************************************************************)
(* The native window.                                                      *)
(***************************************************************************)
LEMMA NativeInit == Platforms \subseteq {"gtk", "mac", "win"} /\ N!Init => NativeInv
<1> SUFFICES ASSUME Platforms \subseteq {"gtk", "mac", "win"}, N!Init PROVE NativeInv
  OBVIOUS
<1>1. /\ platform \in Platforms /\ lifeN = "none"
      /\ liveN = FALSE /\ mapped = FALSE /\ flag = FALSE /\ asking = FALSE
      /\ state = [zoomed |-> FALSE, iconic |-> FALSE, full |-> FALSE]
      /\ askedN = <<>> /\ notices = <<>>
      /\ heard = [zoomed |-> "nothing", full |-> "nothing", page |-> "nothing"]
  BY DEF N!Init, N!Plain
<1>2. state \in State /\ state.full = FALSE /\ state.zoomed = FALSE
  BY <1>1 DEF State
<1>3. heard \in Heard /\ heard.full = "nothing" /\ heard.zoomed = "nothing"
  BY <1>1 DEF Heard
<1>4. KnowsFull /\ KnowsZoomed
  BY <1>1, <1>2, <1>3 DEF KnowsFull, KnowsZoomed
<1>5. askedN \in Seq(N!Operations) /\ notices \in Seq(State)
  BY <1>1
<1>6. NativeTyped
  BY <1>1, <1>2, <1>3, <1>5 DEF NativeTyped
<1> QED BY <1>1, <1>4, <1>6 DEF NativeInv, NotCreated, GtkKnows, MacKnows, WinKnows

LEMMA NativeImplies == NativeInv => N!SdkKnowsState
<1> SUFFICES ASSUME NativeInv, lifeN = "up", ~N!InMotion
             PROVE  /\ flag = state.full
                    /\ heard.full \in {N!Hears(state).full}
                           \cup (IF state.full THEN {} ELSE {"nothing"})
                    /\ platform = "gtk" => heard.zoomed \in {N!Hears(state).zoomed}
                           \cup (IF state.zoomed THEN {} ELSE {"nothing"})
  BY DEF N!SdkKnowsState
<1>1. askedN = <<>> /\ notices = <<>>
  BY DEF N!InMotion
<1>2. KnowsFull /\ (platform = "gtk" => KnowsZoomed)
  BY <1>1 DEF NativeInv, NativeTyped, GtkKnows, MacKnows, WinKnows
<1>3. /\ N!Hears(state).full = IF state.full THEN "enterFullScreen" ELSE "leaveFullScreen"
      /\ N!Hears(state).zoomed = IF state.zoomed THEN "maximize" ELSE "unmaximize"
  BY DEF N!Hears, NativeInv, NativeTyped, Heard
<1> QED BY <1>2, <1>3 DEF KnowsFull, KnowsZoomed

\* What an operation makes of a state is a state; only what it is about changes.
LEMMA ChangedState ==
    ASSUME NEW op \in N!Operations, NEW s \in State
    PROVE  /\ N!Changed(op, s) \in State
           /\ N!About(op) # "full" => N!Changed(op, s).full = s.full
<1>1. CASE op \in {"minimize", "restore"}
  <2>1. N!Changed(op, s) = [s EXCEPT !.iconic = (op = "minimize")]
    BY <1>1 DEF N!Changed
  <2>2. (op = "minimize") \in BOOLEAN
    OBVIOUS
  <2> QED BY <2>1, <2>2 DEF State
<1>2. CASE op \in {"maximize", "unmaximize"}
  <2>1. N!Changed(op, s) = [s EXCEPT !.zoomed = (op = "maximize")]
    BY <1>2 DEF N!Changed
  <2>2. (op = "maximize") \in BOOLEAN
    OBVIOUS
  <2> QED BY <2>1, <2>2 DEF State
<1>3. CASE op \in {"fullscreen", "unfullscreen"}
  <2>1. N!Changed(op, s) = [s EXCEPT !.full = (op = "fullscreen")] /\ N!About(op) = "full"
    BY <1>3 DEF N!Changed, N!About
  <2>2. (op = "fullscreen") \in BOOLEAN
    OBVIOUS
  <2> QED BY <2>1, <2>2 DEF State
<1> QED BY <1>1, <1>2, <1>3 DEF N!Operations

\* A step that changes neither the state nor what is known of it.
StateKept ==
    /\ UNCHANGED <<platform, flag, state, notices>>
    /\ heard' \in Heard /\ heard'.full = heard.full /\ heard'.zoomed = heard.zoomed
    /\ askedN' \in Seq(N!Operations) /\ (askedN' = <<>> => askedN = <<>>)
    /\ lifeN' \in {"none", "up", "gone"} /\ liveN' \in BOOLEAN /\ mapped' \in BOOLEAN
    /\ lifeN' = "none" => lifeN = "none" /\ ~liveN' /\ ~asking' /\ askedN' = askedN
    /\ lifeN' = "up" => lifeN # "gone" /\ (platform = "mac" => mapped')

LEMMA StateKeptKeeps == ASSUME NativeInv, StateKept PROVE NativeInv'
<1>1. NativeTyped'
  BY DEF NativeInv, NativeTyped, StateKept
<1>2. /\ KnowsFull => KnowsFull'
      /\ KnowsZoomed => KnowsZoomed'
  BY DEF StateKept, KnowsFull, KnowsZoomed
<1>3. NotCreated'
  BY <1>2 DEF NativeInv, NotCreated, StateKept
<1>4. GtkKnows'
  <2> SUFFICES ASSUME platform = "gtk", lifeN' = "up"
               PROVE  IF notices = <<>> THEN KnowsFull' /\ KnowsZoomed'
                                        ELSE notices[Len(notices)] = state
    BY DEF GtkKnows, StateKept
  <2> QED BY <1>2 DEF NativeInv, NativeTyped, NotCreated, GtkKnows, StateKept
<1>5. MacKnows'
  <2> SUFFICES ASSUME platform = "mac", lifeN' = "up"
               PROVE  mapped' /\ (askedN' = <<>> => KnowsFull')
    BY DEF MacKnows, StateKept
  <2> QED BY <1>2 DEF NativeInv, NativeTyped, NotCreated, MacKnows, StateKept
<1>6. WinKnows'
  BY <1>2 DEF NativeInv, WinKnows, StateKept
<1> QED BY <1>1, <1>3, <1>4, <1>5, <1>6 DEF NativeInv

LEMMA CreateKeeps == ASSUME NativeInv, N!Create PROVE NativeInv'
<1>1. /\ lifeN' = "up" /\ liveN' = TRUE /\ lifeN = "none"
      /\ UNCHANGED <<platform, state, flag, askedN, notices, heard>>
  BY DEF N!Create
<1>2. mapped' \in BOOLEAN /\ (platform = "mac" => mapped')
  BY DEF N!Create, N!PCreateGtk, N!PCreateMac, N!PCreateWin, NativeInv, NativeTyped
<1>3. StateKept
  BY <1>1, <1>2 DEF StateKept, NativeInv, NativeTyped
<1> QED BY <1>3, StateKeptKeeps

\* A call that names a live window finds one that was created.
LEMMA CallCreated == NativeInv /\ N!Call => lifeN # "none"
  BY DEF NativeInv, NotCreated, N!Call

LEMMA AppearanceKeeps ==
    ASSUME NativeInv, NEW call \in {"show", "hide", "focus"}, N!Appearance(call)
    PROVE  NativeInv'
<1>1. /\ lifeN # "none"
      /\ UNCHANGED <<platform, lifeN, mapped, state, flag, notices, heard, liveN, asking>>
  BY CallCreated DEF N!Appearance, N!sdkVars
<1>2. askedN' = askedN \/ askedN' = Append(askedN, "restore")
  BY DEF N!Appearance, N!GtkAppearance, N!MacAppearance, NativeInv, NativeTyped
<1>3. askedN' \in Seq(N!Operations) /\ (askedN' = <<>> => askedN = <<>>)
  <2>1. askedN \in Seq(N!Operations) /\ "restore" \in N!Operations
    BY DEF NativeInv, NativeTyped, N!Operations
  <2> HIDE DEF N!Operations
  <2> QED BY <1>2, <2>1, AppendProperties
<1>4. StateKept
  BY <1>1, <1>3 DEF StateKept, NativeInv, NativeTyped, MacKnows
<1> QED BY <1>4, StateKeptKeeps

LEMMA RequestKeeps ==
    ASSUME NativeInv, NEW op \in N!Operations, N!Request(op)
    PROVE  NativeInv'
<1>1. /\ lifeN # "none"
      /\ UNCHANGED <<platform, lifeN, mapped, flag, notices, heard, liveN, asking>>
  BY CallCreated DEF N!Request, N!sdkVars
<1>2. askedN \in Seq(N!Operations) /\ {"fullscreen", "unfullscreen"} \subseteq N!Operations
  BY DEF NativeInv, NativeTyped, N!Operations
<1>3. CASE platform \in {"gtk", "win"}
  <2>1. state' = state /\ (askedN' = askedN \/ askedN' = Append(askedN, op))
    BY <1>3 DEF N!Request, N!GtkRequest, N!WinRequest
  <2>2. askedN' \in Seq(N!Operations) /\ (askedN' = <<>> => askedN = <<>>)
    BY <1>2, <2>1, AppendProperties
  <2>3. StateKept
    BY <1>1, <1>3, <2>1, <2>2 DEF StateKept, NativeInv, NativeTyped
  <2> QED BY <2>3, StateKeptKeeps
<1>4. CASE platform = "mac" /\ N!About(op) = "full"
  <2>1. /\ state' = state
        /\ askedN' \in {askedN, <<"fullscreen">>, <<"unfullscreen">>}
    <3>1. N!MacRequest(op)
      BY <1>4 DEF N!Request
    <3> QED BY <1>4, <3>1 DEF N!MacRequest
  <2>2. askedN' \in Seq(N!Operations) /\ (askedN' = <<>> => askedN = <<>>)
    <3>1. \A o \in N!Operations : <<o>> \in Seq(N!Operations) /\ <<o>> # <<>>
      OBVIOUS
    <3> QED BY <1>2, <2>1, <3>1
  <2>3. StateKept
    BY <1>1, <1>4, <2>1, <2>2 DEF StateKept, NativeInv, NativeTyped, MacKnows
  <2> QED BY <2>3, StateKeptKeeps
<1>5. CASE platform = "mac" /\ N!About(op) # "full"
  <2>1. UNCHANGED askedN
    BY <1>5 DEF N!Request, N!MacRequest, N!About
  <2>2. state' \in State /\ state'.full = state.full
    <3>1. N!About(op) \in {"zoomed", "iconic"}
      BY <1>5 DEF N!About
    <3>2. CASE N!About(op) = "zoomed"
      <4>1. state' = [state EXCEPT !.zoomed = ~@]
        BY <1>5, <3>2 DEF N!Request, N!MacRequest
      <4>2. state \in State /\ (~state.zoomed) \in BOOLEAN
        BY DEF NativeInv, NativeTyped
      <4> QED BY <4>1, <4>2 DEF State
    <3>3. CASE N!About(op) = "iconic"
      <4>1. state' = N!Changed(op, state)
        BY <1>5, <3>3 DEF N!Request, N!MacRequest
      <4> QED BY <1>5, <4>1, ChangedState DEF NativeInv, NativeTyped
    <3> QED BY <3>1, <3>2, <3>3
  <2>3. NativeTyped'
    BY <1>1, <2>1, <2>2 DEF NativeInv, NativeTyped
  <2>4. KnowsFull => KnowsFull'
    BY <1>1, <2>2 DEF KnowsFull
  <2> QED BY <1>1, <1>5, <2>1, <2>3, <2>4 DEF NativeInv, NotCreated, GtkKnows, MacKnows, WinKnows
<1> QED BY <1>3, <1>4, <1>5 DEF NativeInv, NativeTyped

\* The window manager changes the state, and tells GTK if it did.
LEMMA BecomesKeeps ==
    ASSUME NativeInv, platform = "gtk", lifeN = "up", NEW s \in State, N!Becomes(s),
           askedN' \in Seq(N!Operations),
           UNCHANGED <<platform, lifeN, mapped, flag, heard, liveN, asking>>
    PROVE  NativeInv'
<1>1. /\ state' = s /\ notices \in Seq(State)
      /\ notices' = IF s # state THEN Append(notices, s) ELSE notices
  BY DEF N!Becomes, NativeInv, NativeTyped
<1>2. CASE s = state
  <2>1. state' = state /\ notices' = notices
    BY <1>1, <1>2
  <2>2. NativeTyped'
    BY <2>1 DEF NativeInv, NativeTyped
  <2>3. /\ KnowsFull => KnowsFull'
        /\ KnowsZoomed => KnowsZoomed'
    BY <2>1 DEF KnowsFull, KnowsZoomed
  <2> QED BY <2>1, <2>2, <2>3 DEF NativeInv, NotCreated, GtkKnows, MacKnows, WinKnows
<1>3. CASE s # state
  <2>1. notices' = Append(notices, s)
    BY <1>1, <1>3
  <2>2. /\ notices' \in Seq(State) /\ notices' # <<>>
        /\ notices'[Len(notices')] = s
    BY <1>1, <2>1, AppendProperties
  <2>3. NativeTyped'
    BY <1>1, <2>2 DEF NativeInv, NativeTyped
  <2> QED BY <1>1, <2>2, <2>3 DEF NativeInv, NotCreated, GtkKnows, MacKnows, WinKnows
<1> QED BY <1>2, <1>3

LEMMA WindowManagerKeeps == ASSUME NativeInv, N!WindowManager PROVE NativeInv'
<1>1. /\ platform = "gtk" /\ lifeN = "up" /\ askedN # <<>>
      /\ N!Becomes(N!Changed(Head(askedN), state)) /\ askedN' = Tail(askedN)
      /\ UNCHANGED <<platform, lifeN, mapped, flag, heard, liveN, asking>>
  BY DEF N!WindowManager, N!sdkVars
<1>2. Head(askedN) \in N!Operations /\ askedN' \in Seq(N!Operations)
  BY <1>1 DEF NativeInv, NativeTyped
<1>3. N!Changed(Head(askedN), state) \in State
  BY <1>2, ChangedState DEF NativeInv, NativeTyped
<1> QED BY <1>1, <1>2, <1>3, BecomesKeeps

LEMMA UserChangesKeeps ==
    ASSUME NativeInv, NEW op \in N!Operations, N!UserChanges(op)
    PROVE  NativeInv'
<1>1. /\ platform = "gtk" /\ lifeN = "up" /\ N!Becomes(N!Changed(op, state))
      /\ UNCHANGED <<platform, lifeN, mapped, flag, heard, liveN, asking, askedN>>
  BY DEF N!UserChanges, N!sdkVars
<1>2. N!Changed(op, state) \in State /\ askedN' \in Seq(N!Operations)
  BY <1>1, ChangedState DEF NativeInv, NativeTyped
<1> QED BY <1>1, <1>2, BecomesKeeps

\* What the SDK hears of a state is an event of each kind.
LEMMA HearsState ==
    ASSUME NativeInv, NEW s \in State
    PROVE  /\ N!Hears(s) \in Heard
           /\ N!Hears(s).full = IF s.full THEN "enterFullScreen" ELSE "leaveFullScreen"
           /\ N!Hears(s).zoomed = IF s.zoomed THEN "maximize" ELSE "unmaximize"
<1>1. heard \in Heard
  BY DEF NativeInv, NativeTyped
<1> QED BY <1>1 DEF N!Hears, Heard

LEMMA StateEventKeeps == ASSUME NativeInv, N!StateEvent PROVE NativeInv'
<1>1. /\ platform = "gtk" /\ lifeN = "up" /\ notices # <<>>
      /\ flag' = Head(notices).full /\ heard' = N!Hears(Head(notices))
      /\ notices' = Tail(notices)
      /\ UNCHANGED <<platform, lifeN, mapped, state, askedN, liveN, asking>>
  BY DEF N!StateEvent, N!sdkVars
<1>2. /\ notices \in Seq(State) /\ Head(notices) \in State
      /\ notices' \in Seq(State) /\ Len(notices') = Len(notices) - 1
      /\ \A k \in 1 .. Len(notices') : notices'[k] = notices[k + 1]
  BY <1>1 DEF NativeInv, NativeTyped
<1>3. NativeTyped'
  <2>1. heard' \in Heard
    BY <1>1, <1>2, HearsState
  <2>2. flag' \in BOOLEAN
    <3>1. Head(notices).full \in BOOLEAN
      BY <1>2 DEF State
    <3> QED BY <1>1, <3>1
  <2> QED BY <1>1, <1>2, <2>1, <2>2 DEF NativeInv, NativeTyped
<1>4. notices[Len(notices)] = state
  BY <1>1 DEF NativeInv, GtkKnows
<1>5. CASE notices' = <<>>
  <2>1. Len(notices) = 1 /\ Head(notices) = state
    <3>1. Len(notices) = 1
      BY <1>2, <1>5
    <3> QED BY <1>1, <1>2, <1>4, <3>1
  <2>2. KnowsFull' /\ KnowsZoomed'
    BY <1>1, <1>2, <2>1, HearsState DEF KnowsFull, KnowsZoomed
  <2> QED BY <1>1, <1>3, <1>5, <2>2 DEF NativeInv, NotCreated, GtkKnows, MacKnows, WinKnows
<1>6. CASE notices' # <<>>
  <2>1. notices'[Len(notices')] = state
    <3>1. Len(notices') \in Nat /\ Len(notices') # 0
      BY <1>2, <1>6, EmptySeq
    <3>2. notices'[Len(notices')] = notices[Len(notices') + 1]
      BY <1>2, <3>1
    <3>3. Len(notices') + 1 = Len(notices)
      BY <1>2, <3>1
    <3> QED BY <1>4, <3>2, <3>3
  <2> QED BY <1>1, <1>3, <1>6, <2>1 DEF NativeInv, NotCreated, GtkKnows, MacKnows, WinKnows
<1> QED BY <1>5, <1>6

LEMMA AnimationEndsKeeps == ASSUME NativeInv, N!AnimationEnds PROVE NativeInv'
<1>1. /\ platform = "mac" /\ lifeN = "up" /\ askedN # <<>> /\ mapped
      /\ state' = N!Changed(Head(askedN), state) /\ askedN' = <<>>
      /\ flag' = state'.full /\ heard' = [heard EXCEPT !.full = N!Hears(state').full]
      /\ UNCHANGED <<platform, lifeN, mapped, notices, liveN, asking>>
  BY DEF N!AnimationEnds, N!sdkVars, NativeInv, MacKnows
<1>2. Head(askedN) \in N!Operations /\ askedN' \in Seq(N!Operations)
  BY <1>1 DEF NativeInv, NativeTyped
<1>3. state' \in State
  BY <1>1, <1>2, ChangedState DEF NativeInv, NativeTyped
<1>4. /\ N!Hears(state').full = IF state'.full THEN "enterFullScreen" ELSE "leaveFullScreen"
  BY <1>3, HearsState
<1>5. heard \in Heard
  BY DEF NativeInv, NativeTyped
<1>6. heard' \in Heard /\ heard'.full = N!Hears(state').full
  BY <1>1, <1>4, <1>5 DEF Heard
<1>7. NativeTyped'
  BY <1>1, <1>2, <1>3, <1>6 DEF NativeInv, NativeTyped, State
<1>8. KnowsFull'
  BY <1>1, <1>4, <1>6 DEF KnowsFull
<1> QED BY <1>1, <1>7, <1>8 DEF NativeInv, NotCreated, GtkKnows, MacKnows, WinKnows

\* Destroying a window that is up changes nothing of its state.
LEMMA DestroyKept ==
    ASSUME NativeInv, N!PDestroy,
           UNCHANGED <<platform, flag, state, notices, heard, askedN>>
    PROVE  StateKept
<1>1. lifeN' = "gone"
  BY DEF N!PDestroy
<1>2. liveN' \in BOOLEAN /\ mapped' \in BOOLEAN
  BY DEF N!PDestroy, N!PDestroyGtk, N!PDestroyMac, N!PDestroyWin, N!Closed,
         NativeInv, NativeTyped
<1> QED BY <1>1, <1>2 DEF StateKept, NativeInv, NativeTyped

LEMMA EndsKeep ==
    ASSUME NativeInv,
           \/ N!WindowDestroy \/ N!WindowClose \/ N!UserCloses
           \/ \E allow \in BOOLEAN : N!CloseDecided(allow)
    PROVE  NativeInv'
<1>1. CASE N!WindowDestroy
  BY <1>1, DestroyKept, StateKeptKeeps DEF N!WindowDestroy
<1>2. CASE N!WindowClose
  <2>1. lifeN # "none" /\ UNCHANGED <<platform, lifeN, mapped, state, flag, askedN, notices, heard, liveN>>
    BY <1>2, CallCreated DEF N!WindowClose, N!nativeVars
  <2>2. StateKept
    BY <2>1 DEF StateKept, NativeInv, NativeTyped, MacKnows
  <2> QED BY <2>2, StateKeptKeeps
<1>3. CASE N!UserCloses
  <2>1. /\ lifeN = "up" /\ lifeN' = IF platform = "mac" THEN "gone" ELSE lifeN
        /\ UNCHANGED <<platform, mapped, state, flag, askedN, notices, heard, liveN>>
    BY <1>3 DEF N!UserCloses
  <2>2. StateKept
    BY <2>1 DEF StateKept, NativeInv, NativeTyped
  <2> QED BY <2>2, StateKeptKeeps
<1>4. ASSUME NEW allow \in BOOLEAN, N!CloseDecided(allow) PROVE NativeInv'
  <2>1. asking /\ UNCHANGED <<platform, state, flag, askedN, notices, heard>>
    BY <1>4 DEF N!CloseDecided
  <2>2. CASE allow /\ lifeN = "up"
    BY <1>4, <2>1, <2>2, DestroyKept, StateKeptKeeps DEF N!CloseDecided
  <2>3. CASE ~(allow /\ lifeN = "up")
    <3>1. mapped' = (mapped /\ ~allow) /\ UNCHANGED <<lifeN, liveN>>
      BY <1>4, <2>3 DEF N!CloseDecided
    <3>2. mapped' \in BOOLEAN /\ (lifeN = "up" /\ mapped => mapped')
      BY <2>3, <3>1
    <3>3. StateKept
      BY <2>1, <3>1, <3>2 DEF StateKept, NativeInv, NativeTyped, NotCreated, MacKnows
    <3> QED BY <3>3, StateKeptKeeps
  <2> QED BY <2>2, <2>3
<1> QED BY <1>1, <1>2, <1>3, <1>4

LEMMA PageLoadsKeeps ==
    ASSUME NativeInv, NEW event \in N!NavigationEvents, N!PageLoads(event)
    PROVE  NativeInv'
<1>1. /\ heard' = [heard EXCEPT !.page = event]
      /\ UNCHANGED <<platform, lifeN, mapped, state, flag, askedN, notices, liveN, asking>>
  BY DEF N!PageLoads, N!nativeVars, N!sdkVars
<1>2. heard \in Heard
  BY DEF NativeInv, NativeTyped
<1>3. heard' \in Heard /\ heard'.full = heard.full /\ heard'.zoomed = heard.zoomed
  BY <1>1, <1>2 DEF Heard
<1>4. StateKept
  BY <1>1, <1>3 DEF StateKept, NativeInv, NativeTyped, NotCreated, MacKnows
<1> QED BY <1>4, StateKeptKeeps

LEMMA NativeNext == ASSUME NativeInv, [N!Next]_(N!vars) PROVE NativeInv'
<1>1. ASSUME UNCHANGED <<platform, lifeN, liveN, mapped, state, flag, askedN, notices, heard, asking>>
      PROVE  NativeInv'
  <2>1. StateKept
    BY <1>1 DEF StateKept, NativeInv, NativeTyped, NotCreated, MacKnows
  <2> QED BY <2>1, StateKeptKeeps
<1>2. CASE UNCHANGED N!vars
  BY <1>1, <1>2 DEF N!vars, N!nativeVars
<1>3. CASE \/ \E p, s \in {"given", "zero"} : N!SetBounds(p, s)
           \/ N!SetTitle \/ N!PageTitle \/ N!HandleInternalInvoke
  BY <1>1, <1>3 DEF N!SetBounds, N!SetTitle, N!PageTitle, N!HandleInternalInvoke, N!sdkVars
<1> QED BY <1>2, <1>3, CreateKeeps, RequestKeeps, UserChangesKeeps, WindowManagerKeeps,
           StateEventKeeps, AnimationEndsKeeps, AppearanceKeeps, PageLoadsKeeps, EndsKeep
        DEF N!Next

(***************************************************************************)
(* Once nothing is under way, isFullScreen and the last events the SDK     *)
(* heard agree with what the window is, on all three platforms and however *)
(* many calls and changes of the user there were.                          *)
(***************************************************************************)
THEOREM SdkKnowsWindow ==
    ASSUME Platforms \subseteq {"gtk", "mac", "win"}
    PROVE  N!Spec => []SdkKnowsState
<1>1. N!Init => NativeInv
  BY NativeInit
<1>2. NativeInv /\ [N!Next]_(N!vars) => NativeInv'
  BY NativeNext
<1>3. N!SdkKnowsState => SdkKnowsState
  BY DEF SdkKnowsState
<1> QED BY <1>1, <1>2, <1>3, NativeImplies, PTL DEF N!Spec
-----------------------------------------------------------------------------
(***************************************************************************)
(* Webviews.  A view is in one of these states; what the window asked for  *)
(* before it was there is kept in order, the last address among it, and    *)
(* all of it is in place when it is there.                                 *)
(***************************************************************************)
Both == <<"bridge", "windowId">>

Fields == {"state", "queue", "scripts", "handler", "attached", "url", "root", "mapped",
           "bounds", "docs"}

DocOf == [url : {"app", "http", "https://app.owear"}, scripts : {Both}, heard : {TRUE},
          root : {root}]

\* The documents end with the one at the address url, or there are none.
Shown(docs, url) ==
    IF url = V!NoUrl THEN docs = <<>> ELSE docs # <<>> /\ docs[Len(docs)].url = V!Target(url)

ViewInv ==
    /\ DOMAIN view = Fields
    /\ view.docs \in Seq(DocOf)
    /\ view.url \in {V!NoUrl, "app", "http"} /\ lastUrl \in {V!NoUrl, "app", "http"}
    /\ view.state = "none" =>
          /\ view.queue = <<>> /\ view.scripts = <<>> /\ view.docs = <<>>
          /\ view.url = V!NoUrl /\ lastUrl = V!NoUrl
    /\ view.state = "creating" =>
          /\ platformV = "win" /\ view.queue = Both /\ view.handler = TRUE
          /\ view.root = root /\ view.url = lastUrl /\ view.docs = <<>>
    /\ view.state = "ready" =>
          /\ view.scripts = Both /\ view.attached = TRUE /\ view.mapped = root
          /\ view.url = V!NoUrl /\ Shown(view.docs, lastUrl)

LEMMA NoUrlIsNone == V!NoUrl \notin {"app", "http"}
BY Zenon DEF V!NoUrl

LEMMA AppendToOne ==
  ASSUME NEW Values, NEW b \in Values, NEW once \in Seq(Values)
  PROVE  Len(once) = 1 => /\ Append(once, b) \in Seq(Values) /\ Len(Append(once, b)) = 2
                          /\ Append(once, b)[1] = once[1] /\ Append(once, b)[2] = b
<1>1. /\ Append(once, b) \in Seq(Values) /\ Len(Append(once, b)) = Len(once) + 1
      /\ \A i \in 1 .. Len(once) : Append(once, b)[i] = once[i]
      /\ Append(once, b)[Len(once) + 1] = b
  BY AppendProperties
<1> QED BY <1>1

LEMMA TwoAppended ==
  ASSUME NEW Values, NEW a \in Values, NEW b \in Values
  PROVE  Append(Append(<<>>, a), b) = <<a, b>>
<1> DEFINE both == <<a, b>>
           twice == Append(<<a>>, b)
<1>1. Append(<<>>, a) = <<a>> /\ <<a>> \in Seq(Values) /\ Len(<<a>>) = 1 /\ <<a>>[1] = a
  OBVIOUS
<1>2. twice \in Seq(Values) /\ Len(twice) = 2 /\ twice[1] = a /\ twice[2] = b
  BY <1>1, AppendToOne
<1>3. both \in Seq(Values) /\ Len(both) = 2 /\ both[1] = a /\ both[2] = b
  <2>1. both \in Seq(Values)
    OBVIOUS
  <2>2. Len(both) = 2
    OBVIOUS
  <2>3. both[1] = a /\ both[2] = b
    OBVIOUS
  <2> QED BY <2>1, <2>2, <2>3
<1> HIDE DEF both, twice
<1>4. \A i \in 1 .. Len(twice) : twice[i] = both[i]
  BY <1>2, <1>3
<1>5. twice = both
  BY <1>2, <1>3, <1>4, SeqEqual
<1> QED BY <1>1, <1>5 DEF both, twice

LEMMA BothAppended == Append(Append(<<>>, "bridge"), "windowId") = Both
<1>1. "bridge" \in {"bridge", "windowId"} /\ "windowId" \in {"bridge", "windowId"}
  OBVIOUS
<1> QED BY <1>1, TwoAppended DEF Both

LEMMA DocumentLoaded ==
    ASSUME NEW v, NEW url \in {"app", "http"}, DOMAIN v = Fields, v.state = "ready",
           v.docs \in Seq(DocOf), v.scripts = Both, v.attached = TRUE, v.mapped = root
    PROVE  \E docs \in Seq(DocOf) :
              V!LoadURL(v, url) = [v EXCEPT !.docs = docs] /\ Shown(docs, url)
<1> DEFINE doc == [url |-> V!Target(url), scripts |-> v.scripts, heard |-> v.attached,
                   root |-> v.mapped]
           docs == Append(v.docs, doc)
<1>1. V!Target(url) \in {"app", "http", "https://app.owear"}
  BY DEF V!Target
<1>2. doc = [url |-> V!Target(url), scripts |-> Both, heard |-> TRUE, root |-> root]
  BY Zenon
<1>3. doc \in DocOf /\ doc.url = V!Target(url)
  BY <1>1, <1>2 DEF DocOf
<1> HIDE DEF doc
<1>4. docs \in Seq(DocOf) /\ docs # <<>> /\ docs[Len(docs)] = doc
  BY <1>3
<1>5. V!LoadURL(v, url) = [v EXCEPT !.docs = docs]
  BY Zenon DEF V!LoadURL, V!Ready, doc
<1> HIDE DEF docs
<1>6. Shown(docs, url)
  BY <1>3, <1>4, NoUrlIsNone DEF Shown
<1> QED BY <1>4, <1>5, <1>6

LEMMA ViewStart == V!Init => ViewInv
<1> SUFFICES ASSUME V!Init PROVE ViewInv
  OBVIOUS
<1>1. view = [state |-> "none", queue |-> <<>>, scripts |-> <<>>, handler |-> FALSE,
              attached |-> FALSE, url |-> V!NoUrl, root |-> <<>>, mapped |-> <<>>,
              bounds |-> 0, docs |-> <<>>]
  BY DEF V!Init
<1>2. <<>> \in Seq(DocOf)
  OBVIOUS
<1>3. lastUrl = V!NoUrl
  BY DEF V!Init
<1> QED BY <1>1, <1>2, <1>3 DEF ViewInv, Fields

\* The view is replaced by one that differs in its state and is not there.
LEMMA ViewGone ==
    ASSUME ViewInv, NEW next \in {"failed", "gone", "ended", "misused"}
    PROVE  view' = [view EXCEPT !.state = next] /\ UNCHANGED <<platformV, root, lastUrl>>
           => ViewInv'
BY DEF ViewInv, Fields, DocOf

\* The view is there and loads a document, or none.
LEMMA ViewLoads ==
    ASSUME NEW v, NEW url \in {V!NoUrl, "app", "http"}, DOMAIN v = Fields, v.state = "ready",
           v.docs \in Seq(DocOf), v.scripts = Both, v.attached = TRUE, v.mapped = root,
           v.url = V!NoUrl, url = V!NoUrl => v.docs = <<>>
    PROVE  /\ view' = IF url = V!NoUrl THEN v ELSE V!LoadURL(v, url)
           /\ UNCHANGED <<platformV, root>> /\ lastUrl' = url
           => ViewInv'
<1>1. url # V!NoUrl => \E docs \in Seq(DocOf) :
                     V!LoadURL(v, url) = [v EXCEPT !.docs = docs] /\ Shown(docs, url)
  <2>1. url # V!NoUrl => url \in {"app", "http"}
    OBVIOUS
  <2> QED BY <2>1, DocumentLoaded, Zenon
<1> SUFFICES ASSUME view' = IF url = V!NoUrl THEN v ELSE V!LoadURL(v, url),
                    UNCHANGED <<platformV, root>>, lastUrl' = url
             PROVE  ViewInv'
  OBVIOUS
<1>2. CASE url = V!NoUrl
  BY <1>2 DEF ViewInv, Fields, DocOf, Shown
<1>3. CASE url # V!NoUrl
  <2>1. PICK docs \in Seq(DocOf) : view' = [v EXCEPT !.docs = docs] /\ Shown(docs, url)
    BY <1>1, <1>3
  <2>2. view'.docs = docs /\ view'.state = "ready" /\ view'.url = V!NoUrl
    BY <2>1 DEF Fields
  <2>3. Shown(view.docs, lastUrl)'
    BY <2>1, <2>2 DEF Shown, V!Target
  <2> QED BY <2>1, <2>3 DEF ViewInv, Fields, DocOf
<1> QED BY <1>2, <1>3

LEMMA ViewStep == ViewInv /\ [V!Next]_(V!webviewVars) => ViewInv'
<1> SUFFICES ASSUME ViewInv, [V!Next]_(V!webviewVars) PROVE ViewInv'
  OBVIOUS
<1>1. CASE V!InitCommon
  <2>1. PICK url \in {V!NoUrl, "app", "http"} :
            LET made    == V!RegisterAssetScheme(V!Create(view), root)
                bridged == V!InjectInitScript(V!InjectInitScript(made, "bridge"), "windowId")
                handled == V!SetMessageHandler(bridged)
            IN /\ view' = IF url = V!NoUrl THEN handled ELSE V!LoadURL(handled, url)
               /\ lastUrl' = url
    BY <1>1 DEF V!InitCommon
  <2> DEFINE made    == V!RegisterAssetScheme(V!Create(view), root)
             once    == V!InjectInitScript(made, "bridge")
             bridged == V!InjectInitScript(once, "windowId")
             handled == V!SetMessageHandler(bridged)
  <2>2. view' = IF url = V!NoUrl THEN handled ELSE V!LoadURL(handled, url)
    BY <2>1
  <2>8. lastUrl' = url
    BY <2>1
  <2>3. UNCHANGED <<platformV, root>> /\ view.state = "none"
    BY <1>1 DEF V!InitCommon
  <2>4. /\ DOMAIN view = Fields /\ view.queue = <<>> /\ view.scripts = <<>> /\ view.url = V!NoUrl
        /\ view.docs \in Seq(DocOf) /\ view.docs = <<>>
    BY <2>3 DEF ViewInv
  <2>5. Append(Append(<<>>, "bridge"), "windowId") = Both
    BY BothAppended
  <2>6. CASE platformV = "win"
    <3>1. V!Create(view) = [view EXCEPT !.state = "creating"]
      BY <2>6 DEF V!Create
    <3>2. /\ made = [[view EXCEPT !.state = "creating"] EXCEPT !.root = root]
          /\ DOMAIN made = Fields /\ made.state = "creating" /\ made.root = root
          /\ made.queue = <<>> /\ made.url = V!NoUrl /\ made.docs = view.docs
      BY <2>4, <3>1 DEF V!RegisterAssetScheme, V!Ready, Fields
    <3> HIDE DEF made
    <3>3. /\ once = [made EXCEPT !.queue = Append(@, "bridge")]
          /\ DOMAIN once = Fields /\ once.state = "creating" /\ once.root = root
          /\ once.queue = Append(<<>>, "bridge") /\ once.url = V!NoUrl /\ once.docs = view.docs
      BY <3>2 DEF V!InjectInitScript, V!Ready, Fields
    <3> HIDE DEF once
    <3>4. /\ bridged = [once EXCEPT !.queue = Append(@, "windowId")]
          /\ DOMAIN bridged = Fields /\ bridged.state = "creating" /\ bridged.root = root
          /\ bridged.queue = Both /\ bridged.url = V!NoUrl /\ bridged.docs = view.docs
      BY <2>5, <3>3 DEF V!InjectInitScript, V!Ready, Fields
    <3> HIDE DEF bridged
    <3>5. handled = [bridged EXCEPT !.handler = TRUE, !.attached = FALSE]
      BY <3>4, Zenon DEF V!SetMessageHandler, V!Ready
    <3>6. /\ DOMAIN handled = Fields /\ handled.state = "creating" /\ handled.root = root
          /\ handled.queue = Both /\ handled.url = V!NoUrl /\ handled.docs = view.docs
          /\ handled.handler = TRUE
      BY <3>4, <3>5 DEF Fields
    <3> HIDE DEF handled
    <3>7. view' = IF url = V!NoUrl THEN handled ELSE [handled EXCEPT !.url = url]
      BY <2>2, <3>6 DEF V!LoadURL, V!Ready
    <3> QED BY <2>3, <2>4, <2>6, <2>8, <3>6, <3>7 DEF ViewInv, Fields, DocOf
  <2>7. CASE platformV # "win"
    <3>1. V!Create(view) = [view EXCEPT !.state = "ready"]
      BY <2>7 DEF V!Create
    <3>2. /\ made = [[view EXCEPT !.state = "ready"] EXCEPT !.root = root, !.mapped = root]
          /\ DOMAIN made = Fields /\ made.state = "ready" /\ made.mapped = root
          /\ made.scripts = <<>> /\ made.url = V!NoUrl /\ made.docs = view.docs
      BY <2>4, <3>1 DEF V!RegisterAssetScheme, V!Ready, Fields
    <3> HIDE DEF made
    <3>3. /\ once = [made EXCEPT !.scripts = Append(@, "bridge")]
          /\ DOMAIN once = Fields /\ once.state = "ready" /\ once.mapped = root
          /\ once.scripts = Append(<<>>, "bridge") /\ once.url = V!NoUrl /\ once.docs = view.docs
      BY <3>2 DEF V!InjectInitScript, V!Ready, Fields
    <3> HIDE DEF once
    <3>4. /\ bridged = [once EXCEPT !.scripts = Append(@, "windowId")]
          /\ DOMAIN bridged = Fields /\ bridged.state = "ready" /\ bridged.mapped = root
          /\ bridged.scripts = Both /\ bridged.url = V!NoUrl /\ bridged.docs = view.docs
      BY <2>5, <3>3 DEF V!InjectInitScript, V!Ready, Fields
    <3> HIDE DEF bridged
    <3>5. handled = [bridged EXCEPT !.handler = TRUE, !.attached = TRUE]
      BY <3>4, Zenon DEF V!SetMessageHandler, V!Ready
    <3>6. /\ DOMAIN handled = Fields /\ handled.state = "ready" /\ handled.mapped = root
          /\ handled.scripts = Both /\ handled.url = V!NoUrl /\ handled.docs = view.docs
          /\ handled.attached = TRUE
      BY <3>4, <3>5 DEF Fields
    <3> HIDE DEF handled
    <3> QED BY <2>2, <2>3, <2>4, <2>8, <3>6, ViewLoads
  <2> QED BY <2>6, <2>7
<1>2. CASE V!CreateFails
  BY <1>2, ViewGone DEF V!CreateFails
<1>3. CASE V!OnControllerReady
  <2> DEFINE v == [view EXCEPT !.state = "ready", !.scripts = view.queue, !.queue = <<>>,
                               !.attached = view.handler, !.mapped = view.root,
                               !.url = V!NoUrl, !.bounds = size]
  <2>1. /\ view.state = "creating" /\ UNCHANGED <<platformV, root, lastUrl>>
        /\ view' = IF view.url = V!NoUrl THEN v ELSE V!LoadURL(v, view.url)
    BY <1>3 DEF V!OnControllerReady
  <2>2. /\ DOMAIN view = Fields /\ view.queue = Both /\ view.handler = TRUE /\ view.root = root
        /\ view.docs \in Seq(DocOf) /\ view.url \in {V!NoUrl, "app", "http"}
        /\ view.url = lastUrl /\ view.docs = <<>>
    BY <2>1 DEF ViewInv
  <2>3. v = [view EXCEPT !.state = "ready", !.scripts = Both, !.queue = <<>>,
                         !.attached = TRUE, !.mapped = root, !.url = V!NoUrl, !.bounds = size]
    BY <2>2, Zenon
  <2>4. /\ DOMAIN v = Fields /\ v.state = "ready" /\ v.docs = view.docs /\ v.scripts = Both
        /\ v.attached = TRUE /\ v.mapped = root /\ v.url = V!NoUrl
    BY <2>2, <2>3 DEF Fields
  <2> HIDE DEF v
  <2> QED BY <2>1, <2>2, <2>4, ViewLoads
<1>4. CASE V!ControllerFails \/ V!Destroy
  <2>1. \E next \in {"failed", "gone", "ended", "misused"} :
            view' = [view EXCEPT !.state = next] /\ UNCHANGED <<platformV, root, lastUrl>>
    BY <1>4 DEF V!ControllerFails, V!Destroy
  <2> QED BY <2>1, ViewGone
<1>5. CASE V!Navigate
  <2>1. PICK url \in {"app", "http"} : view' = V!LoadURL(view, url) /\ lastUrl' = url
    BY <1>5 DEF V!Navigate
  <2>2. UNCHANGED <<platformV, root>> /\ view.state \in {"creating", "ready"}
    BY <1>5 DEF V!Navigate
  <2>3. CASE view.state = "ready"
    <3>1. /\ DOMAIN view = Fields /\ view.docs \in Seq(DocOf) /\ view.scripts = Both
          /\ view.attached = TRUE /\ view.mapped = root /\ view.url = V!NoUrl
      BY <2>3 DEF ViewInv
    <3>2. url \in {V!NoUrl, "app", "http"} /\ (url = V!NoUrl => view.docs = <<>>)
      BY NoUrlIsNone
    <3>3. view' = IF url = V!NoUrl THEN view ELSE V!LoadURL(view, url)
      BY <2>1, NoUrlIsNone
    <3>4. UNCHANGED <<platformV, root>> /\ lastUrl' = url
      BY <2>1, <2>2
    <3> QED BY <2>3, <3>1, <3>2, <3>3, <3>4, ViewLoads
  <2>4. CASE view.state = "creating"
    <3>1. view' = [view EXCEPT !.url = url]
      BY <2>1, <2>4 DEF V!LoadURL, V!Ready
    <3> QED BY <2>1, <2>2, <2>4, <3>1 DEF ViewInv, Fields, DocOf
  <2> QED BY <2>2, <2>3, <2>4
<1>6. CASE V!UserResizes \/ V!EvalJS \/ V!EvalDone \/ V!Request \/ UNCHANGED V!webviewVars
  BY <1>6 DEF ViewInv, DocOf, Shown, V!Target, V!UserResizes, V!EvalJS, V!EvalDone,
              V!Request, V!webviewVars
<1> QED BY <1>1, <1>2, <1>3, <1>4, <1>5, <1>6 DEF V!Next

(***************************************************************************)
(* For any roots and any number of loads, on every platform: whenever a    *)
(* backend begins to load a document, both scripts are in place and in     *)
(* order, the message handler is attached and the files of the application *)
(* are mapped, also when the view was not there when they were asked for;  *)
(* and a view that is there has loaded last what was asked for last        *)
(* (InitCommon, and OnControllerReady of Webview2Backend.cpp).             *)
(***************************************************************************)
THEOREM DocumentsLoadWhole ==
    V!Init /\ [][V!Next]_(V!webviewVars) => []DocumentsAreWhole
<1>1. ViewInv => V!DocumentsAreWhole
  <2> SUFFICES ASSUME ViewInv PROVE V!DocumentsAreWhole
    OBVIOUS
  <2>1. \A i \in DOMAIN view.docs : view.docs[i] \in DocOf
    <3>1. view.docs \in Seq(DocOf)
      BY DEF ViewInv
    <3> QED BY <3>1
  <2>2. ASSUME NEW d \in DocOf PROVE d.scripts = Both /\ d.heard /\ d.root = root
    BY DEF DocOf
  <2>3. view.docs # <<>> => V!Last(view.docs) = view.docs[Len(view.docs)]
    BY DEF V!Last
  <2> QED BY <2>1, <2>2, <2>3 DEF ViewInv, Both, Shown, V!DocumentsAreWhole
<1>2. V!DocumentsAreWhole => DocumentsAreWhole
  BY DEF DocumentsAreWhole
<1> QED BY <1>1, <1>2, ViewStart, ViewStep, PTL

-----------------------------------------------------------------------------
(***************************************************************************)
(* The files of app://.  Walk is a fold over the components of a path, so  *)
(* what it computes is shown by induction over the path.                   *)
(***************************************************************************)
LEMMA AddType ==
    ASSUME NEW out \in Seq(V!Component), NEW c \in V!Component
    PROVE  V!AddComponent(out, c) \in Seq(V!Component)
<1>1. out # <<>> => V!Front(out) \in Seq(V!Component)
  <2>1. out # <<>> => Len(out) - 1 \in Nat /\ Len(out) - 1 <= Len(out)
    OBVIOUS
  <2>2. \A i \in 1 .. Len(out) - 1 : out[i] \in V!Component
    OBVIOUS
  <2> QED BY <2>1, <2>2, SubSeqProperties DEF V!Front
<1>2. out \notin {<<>>, <<"/">>} => out # <<>>
  OBVIOUS
<1>3. Append(out, c) \in Seq(V!Component)
  BY AppendProperties
<1> QED BY <1>1, <1>2, <1>3 DEF V!AddComponent

(***************************************************************************)
(* Walk takes a path component by component.                               *)
(***************************************************************************)
Walked(path, f) ==
    f = [n \in 0 .. Len(path) |-> IF n = 0 THEN <<>> ELSE V!AddComponent(f[n - 1], path[n])]

LEMMA WalkIsFold ==
    ASSUME NEW path \in Seq(V!Component)
    PROVE  \E f \in [0 .. Len(path) -> Seq(V!Component)] :
              Walked(path, f) /\ V!Walk(path) = f[Len(path)]
<1> DEFINE n == Len(path)
           step == [p \in Seq(V!Component) \X (1 .. n) |-> V!AddComponent(p[1], path[p[2]])]
           f == CHOOSE g : Walked(path, g)
<1>1. n \in Nat /\ <<>> \in Seq(V!Component)
  OBVIOUS
<1>2. step \in [Seq(V!Component) \X (1 .. n) -> Seq(V!Component)]
  <2>1. \A p \in Seq(V!Component) \X (1 .. n) : p[1] \in Seq(V!Component) /\ path[p[2]] \in V!Component
    OBVIOUS
  <2>2. \A p \in Seq(V!Component) \X (1 .. n) : V!AddComponent(p[1], path[p[2]]) \in Seq(V!Component)
    BY <2>1, AddType
  <2> QED BY <2>2
<1>3. PICK g \in [0 .. n -> Seq(V!Component)] : IsFold(g, <<>>, step, n)
  <2> HIDE DEF step, n
  <2> QED BY <1>1, <1>2, FoldExists
<1>4. \A i \in 1 .. n : step[<<g[i - 1], i>>] = V!AddComponent(g[i - 1], path[i])
  <2> TAKE i \in 1 .. n
  <2>1. i - 1 \in 0 .. n
    BY <1>1
  <2>2. g[i - 1] \in Seq(V!Component)
    BY <1>3, <2>1
  <2>3. <<g[i - 1], i>> \in Seq(V!Component) \X (1 .. n)
    BY <2>2
  <2> QED BY <2>3
<1>5. Walked(path, g)
  <2> HIDE DEF step
  <2>1. \A i \in 0 .. n : i # 0 => i \in 1 .. n
    BY <1>1
  <2>2. [i \in 0 .. n |-> IF i = 0 THEN <<>> ELSE step[<<g[i - 1], i>>]]
        = [i \in 0 .. n |-> IF i = 0 THEN <<>> ELSE V!AddComponent(g[i - 1], path[i])]
    BY <1>4, <2>1
  <2> QED BY <1>3, <2>2 DEF IsFold, Walked
<1>6. Walked(path, f)
  BY <1>5
<1>7. V!Walk(path) = f[n]
  BY DEF V!Walk, Walked
<1> HIDE DEF f
<1>8. \A i \in 0 .. n : f[i] = IF i = 0 THEN <<>> ELSE V!AddComponent(f[i - 1], path[i])
  BY <1>6 DEF Walked
<1>9. \A i \in 0 .. n : f[i] = g[i]
  <2> DEFINE T == {i \in 0 .. n : f[i] = g[i]}
  <2>1. 0 \in T
    BY <1>5, <1>8 DEF Walked
  <2>2. \A i \in 0 .. n - 1 : i \in T => i + 1 \in T
    <3> TAKE i \in 0 .. n - 1
    <3>1. i + 1 \in 0 .. n /\ i + 1 # 0 /\ (i + 1) - 1 = i
      OBVIOUS
    <3>2. g[i + 1] = V!AddComponent(g[i], path[i + 1])
      BY <1>5, <3>1 DEF Walked
    <3> QED BY <1>8, <3>1, <3>2
  <2> HIDE DEF T
  <2>3. \A i \in 0 .. n : i \in T
    BY <1>1, <2>1, <2>2, UpToInduction
  <2> QED BY <2>3 DEF T
<1>10. f \in [0 .. n -> Seq(V!Component)]
  <2>1. f = [i \in 0 .. n |-> IF i = 0 THEN <<>> ELSE V!AddComponent(f[i - 1], path[i])]
    BY <1>6 DEF Walked
  <2>2. \A i \in 0 .. n : f[i] \in Seq(V!Component)
    BY <1>3, <1>9
  <2> QED BY <2>1, <2>2
<1> QED BY <1>6, <1>7, <1>10

LEMMA WalkAppend ==
    ASSUME NEW path \in Seq(V!Component), NEW c \in V!Component
    PROVE  /\ V!Walk(path) \in Seq(V!Component)
           /\ V!Walk(Append(path, c)) = V!AddComponent(V!Walk(path), c)
<1> DEFINE n == Len(path)
           longer == Append(path, c)
<1>1. /\ n \in Nat /\ longer \in Seq(V!Component) /\ Len(longer) = n + 1 /\ longer[n + 1] = c
      /\ \A i \in 1 .. n : longer[i] = path[i]
  <2>1. n \in Nat
    OBVIOUS
  <2>2. /\ Append(path, c) \in Seq(V!Component) /\ Len(Append(path, c)) = Len(path) + 1
        /\ Append(path, c)[Len(path) + 1] = c
        /\ \A i \in 1 .. Len(path) : Append(path, c)[i] = path[i]
    BY AppendedTo
  <2> QED BY <2>1, <2>2, Zenon
<1>2. PICK f \in [0 .. n -> Seq(V!Component)] : Walked(path, f) /\ V!Walk(path) = f[n]
  BY WalkIsFold
<1> HIDE DEF longer
<1>3. PICK g \in [0 .. Len(longer) -> Seq(V!Component)] :
          Walked(longer, g) /\ V!Walk(longer) = g[Len(longer)]
  BY <1>1, WalkIsFold
<1>4. \A i \in 0 .. n : f[i] = IF i = 0 THEN <<>> ELSE V!AddComponent(f[i - 1], path[i])
  BY <1>2 DEF Walked
<1>5. \A i \in 0 .. n + 1 : g[i] = IF i = 0 THEN <<>> ELSE V!AddComponent(g[i - 1], longer[i])
  BY <1>1, <1>3 DEF Walked
<1> DEFINE T == {i \in 0 .. n : f[i] = g[i]}
<1>6. 0 \in T
  BY <1>4, <1>5
<1>7. \A i \in 0 .. n - 1 : i \in T => i + 1 \in T
  <2> TAKE i \in 0 .. n - 1
  <2>1. i + 1 \in 0 .. n /\ i + 1 # 0 /\ (i + 1) - 1 = i /\ i + 1 \in 1 .. n /\ i + 1 \in 0 .. n + 1
    OBVIOUS
  <2>2. longer[i + 1] = path[i + 1]
    BY <1>1, <2>1
  <2> QED BY <1>4, <1>5, <2>1, <2>2
<1> HIDE DEF T
<1>8. n \in T
  <2>1. n \in 0 .. n
    BY <1>1
  <2> QED BY <1>1, <1>6, <1>7, <2>1, UpToInduction
<1>9. f[n] = g[n]
  BY <1>8 DEF T
<1>10. g[n + 1] = V!AddComponent(g[n], c)
  <2>1. n + 1 \in 0 .. n + 1 /\ n + 1 # 0 /\ (n + 1) - 1 = n
    BY <1>1
  <2> QED BY <1>1, <1>5, <2>1
<1>11. f[n] \in Seq(V!Component)
  BY <1>1, <1>2
<1> QED BY <1>1, <1>2, <1>3, <1>9, <1>10, <1>11 DEF longer

(***************************************************************************)
(* What Walk returns has no component to be taken away, and ".." stands at *)
(* its beginning only.                                                     *)
(***************************************************************************)
Special == {"", ".", ".."}

IsClean(out) ==
    /\ out \in Seq(V!Component)
    /\ \A i \in 1 .. Len(out) : out[i] \notin {"", "."}
    /\ \A i \in 1 .. Len(out) : out[i] = ".." => \A j \in 1 .. i : out[j] = ".."

LEMMA WalkEmpty == V!Walk(<<>>) = <<>>
<1>1. <<>> \in Seq(V!Component) /\ Len(<<>>) = 0
  OBVIOUS
<1>2. PICK f \in [0 .. 0 -> Seq(V!Component)] : Walked(<<>>, f) /\ V!Walk(<<>>) = f[0]
  BY <1>1, WalkIsFold
<1> QED BY <1>1, <1>2 DEF Walked

LEMMA AddKeepsClean ==
    ASSUME NEW out, IsClean(out), NEW c \in V!Component
    PROVE  IsClean(V!AddComponent(out, c))
<1>1. out \in Seq(V!Component)
  BY DEF IsClean
<1>2. CASE c \in {"", "."} \/ (c = ".." /\ out = <<"/">>)
  BY <1>2 DEF V!AddComponent
<1>3. CASE c = ".." /\ out \notin {<<>>, <<"/">>} /\ V!Last(out) # ".."
  <2>1. out # <<>> /\ Len(out) # 0
    BY <1>1, <1>3
  <2>2. Len(out) - 1 \in 0 .. Len(out)
    BY <1>1, <2>1
  <2> DEFINE front == SubSeq(out, 1, Len(out) - 1)
  <2>3. /\ front \in Seq(V!Component) /\ Len(front) = Len(out) - 1
        /\ \A i \in 1 .. Len(out) - 1 : front[i] = out[i]
    BY <1>1, <2>2, PrefixOfSeq
  <2>4. V!AddComponent(out, c) = front
    BY <1>3 DEF V!AddComponent, V!Front
  <2> HIDE DEF front
  <2>5. \A i \in 1 .. Len(front) : i \in 1 .. Len(out) /\ front[i] = out[i]
    BY <1>1, <2>3
  <2>6. \A i \in 1 .. Len(front) : \A j \in 1 .. i : j \in 1 .. Len(front)
    BY <2>3
  <2>7. IsClean(front)
    BY <2>3, <2>5, <2>6, Zenon DEF IsClean
  <2> QED BY <2>4, <2>7
<1>4. CASE /\ c \notin {"", "."}
           /\ c = ".." => out # <<"/">> /\ (out = <<>> \/ V!Last(out) = "..")
  <2> DEFINE more == Append(out, c)
  <2>1. V!AddComponent(out, c) = more
    BY <1>4 DEF V!AddComponent
  <2>2. /\ more \in Seq(V!Component) /\ Len(more) = Len(out) + 1
        /\ more[Len(out) + 1] = c
        /\ \A i \in 1 .. Len(out) : more[i] = out[i]
    BY <1>1, AppendedTo
  <2> HIDE DEF more
  <2>0. \A i \in 1 .. Len(more) : i \in 1 .. Len(out) \/ i = Len(out) + 1
    BY <1>1, <2>2
  <2>3. \A i \in 1 .. Len(more) : more[i] \notin {"", "."}
    <3>1. \A i \in 1 .. Len(out) : out[i] \notin {"", "."}
      BY DEF IsClean
    <3> QED BY <1>4, <2>0, <2>2, <3>1, Zenon
  <2>4. ASSUME NEW i \in 1 .. Len(more), more[i] = "..", NEW j \in 1 .. i
        PROVE  more[j] = ".."
    <3>1. CASE i \in 1 .. Len(out)
      <4>1. out[i] = ".."
        BY <2>2, <2>4, <3>1
      <4>2. j \in 1 .. Len(out)
        BY <1>1, <3>1
      <4>3. out[j] = ".."
        BY <3>1, <4>1, Zenon DEF IsClean
      <4> QED BY <2>2, <4>2, <4>3
    <3>2. CASE i = Len(out) + 1
      <4>1. c = ".."
        BY <2>2, <2>4, <3>2
      <4>2. CASE j = i
        BY <2>4, <4>2
      <4>3. CASE j # i
        <5>1. j \in 1 .. Len(out) /\ Len(out) \in 1 .. Len(out)
          BY <1>1, <3>2, <4>3
        <5>2. out # <<>>
          BY <5>1
        <5>3. out[Len(out)] = ".."
          BY <1>4, <4>1, <5>2 DEF V!Last
        <5>4. out[j] = ".."
          BY <5>1, <5>3 DEF IsClean
        <5> QED BY <2>2, <5>1, <5>4
      <4> QED BY <4>2, <4>3
    <3> QED BY <2>0, <3>1, <3>2
  <2>5. IsClean(more)
    BY <2>2, <2>3, <2>4, Zenon DEF IsClean
  <2> QED BY <2>1, <2>5
<1> QED BY <1>2, <1>3, <1>4

LEMMA WalkClean == ASSUME NEW path \in Seq(V!Component) PROVE IsClean(V!Walk(path))
<1> DEFINE T == {p \in Seq(V!Component) : IsClean(V!Walk(p))}
<1>1. <<>> \in T
  <2>1. IsClean(<<>>)
    BY DEF IsClean
  <2> QED BY <2>1, WalkEmpty
<1>2. ASSUME NEW p \in Seq(V!Component), NEW c \in V!Component, p \in T
      PROVE  Append(p, c) \in T
  <2>1. Append(p, c) \in Seq(V!Component)
    BY AppendedTo
  <2>2. V!Walk(Append(p, c)) = V!AddComponent(V!Walk(p), c)
    BY WalkAppend
  <2> QED BY <1>2, <2>1, <2>2, AddKeepsClean
<1> HIDE DEF T
<1>3. path \in T
  BY <1>1, <1>2, SeqInduction
<1> QED BY <1>3 DEF T

LEMMA WalkRest ==
    ASSUME NEW p \in Seq(V!Component), NEW rest \in Seq(V!Component),
           \A i \in 1 .. Len(rest) : rest[i] \notin Special
    PROVE  V!Walk(p \o rest) = V!Walk(p) \o rest
<1> DEFINE T == {q \in Seq(V!Component) : (\A i \in 1 .. Len(q) : q[i] \notin Special)
                                         => V!Walk(p \o q) = V!Walk(p) \o q}
<1>1. <<>> \in T
  <2>1. V!Walk(p) \in Seq(V!Component)
    BY WalkClean DEF IsClean
  <2>2. p \o <<>> = p /\ V!Walk(p) \o <<>> = V!Walk(p) /\ <<>> \in Seq(V!Component)
    BY <2>1
  <2> QED BY <2>2
<1>2. ASSUME NEW q \in Seq(V!Component), NEW c \in V!Component, q \in T
      PROVE  Append(q, c) \in T
  <2> DEFINE qc == Append(q, c)
             out == V!Walk(p)
  <2>1. /\ qc \in Seq(V!Component) /\ Len(qc) = Len(q) + 1 /\ qc[Len(q) + 1] = c
        /\ \A i \in 1 .. Len(q) : qc[i] = q[i]
    BY AppendedTo
  <2>2. p \o qc = Append(p \o q, c) /\ p \o q \in Seq(V!Component)
    BY ConcatAppend, Concatenated
  <2>3. out \in Seq(V!Component)
    BY WalkClean DEF IsClean
  <2>4. out \o qc = Append(out \o q, c)
    BY <2>3, ConcatAppend
  <2>5. ASSUME \A i \in 1 .. Len(qc) : qc[i] \notin Special
        PROVE  V!Walk(p \o qc) = out \o qc
    <3>1. \A i \in 1 .. Len(q) : q[i] \notin Special
      BY <2>1, <2>5
    <3>2. V!Walk(p \o q) = out \o q
      BY <1>2, <3>1
    <3>3. c \notin Special
      BY <2>1, <2>5
    <3>4. V!Walk(Append(p \o q, c)) = V!AddComponent(V!Walk(p \o q), c)
      BY <2>2, WalkAppend
    <3>5. V!AddComponent(out \o q, c) = Append(out \o q, c)
      BY <3>3 DEF V!AddComponent, Special
    <3> QED BY <2>2, <2>4, <3>2, <3>4, <3>5
  <2> HIDE DEF qc, out
  <2> QED BY <2>1, <2>5 DEF qc, out
<1> HIDE DEF T
<1>3. rest \in T
  BY <1>1, <1>2, SeqInduction
<1> QED BY <1>3 DEF T

\* A path with a slash at its end: one component more, the empty one.
LEMMA WithSlash ==
    ASSUME NEW p \in Seq(V!Component)
    PROVE  /\ Append(p, "") \in Seq(V!Component) /\ Len(Append(p, "")) = Len(p) + 1
           /\ Append(p, "")[Len(p) + 1] = ""
           /\ Append(p, "")[Len(Append(p, ""))] = ""
           /\ \A i \in 1 .. Len(p) : Append(p, "")[i] = p[i]
<1>1. \A c \in V!Component :
          /\ Append(p, c) \in Seq(V!Component) /\ Len(Append(p, c)) = Len(p) + 1
          /\ Append(p, c)[Len(p) + 1] = c
          /\ \A i \in 1 .. Len(p) : Append(p, c)[i] = p[i]
  BY AppendedTo
<1>2. "" \in V!Component
  BY DEF V!Component
<1> QED BY <1>1, <1>2, Zenon

LEMMA NormalForms ==
    ASSUME NEW path \in Seq(V!Component)
    PROVE  /\ \/ V!Normal(path) = V!Walk(path)
              \/ V!Normal(path) = Append(V!Walk(path), "")
           /\ V!Normal(path) \in Seq(V!Component)
           /\ V!Bare(V!Normal(path)) = V!Walk(path)
<1> DEFINE out == V!Walk(path)
           more == Append(out, "")
<1>1. IsClean(out) /\ out \in Seq(V!Component)
  BY WalkClean DEF IsClean
<1>2. V!Normal(path) = out \/ V!Normal(path) = more
  BY DEF V!Normal
<1> HIDE DEF out
<1>4. /\ more \in Seq(V!Component) /\ Len(more) = Len(out) + 1 /\ more[Len(more)] = ""
      /\ \A i \in 1 .. Len(out) : more[i] = out[i]
  BY <1>1, WithSlash
<1> HIDE DEF more
<1>5. V!Bare(out) = out
  <2>1. out # <<>> => Len(out) \in 1 .. Len(out)
    BY <1>1
  <2> QED BY <1>1, <2>1 DEF IsClean, V!Bare, V!Last
<1>6. V!Bare(more) = out
  <2>0. more # <<>> /\ Len(more) - 1 = Len(out) /\ Len(out) \in 0 .. Len(more)
    <3>1. out \in Seq(V!Component) /\ more \in Seq(V!Component) /\ Len(more) = Len(out) + 1
      BY <1>1, <1>4
    <3> QED BY <3>1
  <2>1. V!Last(more) = ""
    BY <1>4, Zenon DEF V!Last
  <2> DEFINE front == SubSeq(more, 1, Len(out))
  <2>3. /\ front \in Seq(V!Component) /\ Len(front) = Len(out)
        /\ \A i \in 1 .. Len(out) : front[i] = more[i]
    <3>1. more \in Seq(V!Component)
      BY <1>4
    <3> QED BY <2>0, <3>1, PrefixOfSeq
  <2>4. V!Bare(more) = front
    BY <2>0, <2>1 DEF V!Bare, V!Front
  <2> HIDE DEF front
  <2>5. front = out
    BY <1>1, <1>4, <2>3, SeqEqual
  <2> QED BY <2>4, <2>5
<1> QED BY <1>1, <1>2, <1>4, <1>5, <1>6 DEF out, more

\* A file is not found under a name with a slash at its end.
LEMMA FilesAreWalked ==
    ASSUME V!PathsProper, NEW path \in Seq(V!Component), V!Normal(path) \in Files
    PROVE  V!Normal(path) = V!Walk(path) /\ path # <<>> /\ path[Len(path)] # ""
<1> DEFINE out == V!Walk(path)
           f == V!Normal(path)
<1>1. out \in Seq(V!Component)
  BY WalkClean DEF IsClean
<1>2. f # <<>> /\ f # <<"/">> /\ f[Len(f)] # ""
  BY DEF V!PathsProper, V!Absolute
<1>3. Append(out, "")[Len(Append(out, ""))] = ""
  BY <1>1, WithSlash
<1>4. f = out
  <2>1. f = out \/ f = Append(out, "")
    BY NormalForms
  <2> QED BY <1>2, <1>3, <2>1
<1>5. path # <<>>
  BY <1>2, <1>4, WalkEmpty
<1>6. path[Len(path)] # ""
  <2> SUFFICES ASSUME path[Len(path)] = "" PROVE FALSE
    OBVIOUS
  <2>1. V!Last(path) = ""
    BY DEF V!Last
  <2>2. f = Append(out, "")
    BY <1>2, <1>4, <1>5, <2>1 DEF V!Normal
  <2> QED BY <1>2, <1>3, <2>2
<1> QED BY <1>4, <1>5, <1>6

LEMMA ServedBeneath ==
    ASSUME V!PathsProper, NEW r \in Roots, NEW path \in Seq(V!Component),
           V!IsPrefix(r, V!Normal(path)),
           V!Normal(V!Join(Cwd, V!Normal(path))) \in Files
    PROVE  V!IsPrefix(V!Bare(V!Normal(V!Join(Cwd, r))), V!Normal(V!Join(Cwd, V!Normal(path))))
<1> DEFINE full == V!Normal(path)
           base == IF V!Absolute(full) THEN <<>> ELSE Cwd
           out  == V!Walk(path)
           rest == SubSeq(full, Len(r) + 1, Len(full))
           from == base \o r
           served == base \o full
<1>1. /\ r \in Seq(V!Component) /\ Cwd \in Seq(V!Component) /\ full \in Seq(V!Component)
      /\ out \in Seq(V!Component) /\ base \in Seq(V!Component)
  <2>1. r \in Seq(V!Component) /\ Cwd \in Seq(V!Component)
    BY DEF V!PathsProper
  <2>2. full \in Seq(V!Component) /\ out \in Seq(V!Component)
    BY NormalForms, WalkClean DEF IsClean
  <2> QED BY <2>1, <2>2
<1>2. PICK k \in 1 .. Len(r) : r[k] # ".."
  BY DEF V!PathsProper
<1> HIDE DEF full, out
<1>3. /\ Len(r) <= Len(full) /\ Len(r) \in 0 .. Len(full) /\ r # <<>> /\ full # <<>>
      /\ SubSeq(full, 1, Len(r)) = r
  <2>1. Len(r) <= Len(full) /\ SubSeq(r, 1, Len(r)) = SubSeq(full, 1, Len(r))
    BY DEF V!IsPrefix, full
  <2>2. SubSeq(r, 1, Len(r)) = r
    BY <1>1, WholeSeq
  <2> QED BY <1>1, <1>2, <2>1, <2>2
<1>4. \A i \in 1 .. Len(r) : r[i] = full[i]
  BY <1>1, <1>3, PrefixOfSeq
<1>5. V!Absolute(r) <=> V!Absolute(full)
  <2>1. 1 \in 1 .. Len(r)
    BY <1>1, <1>2
  <2> QED BY <1>3, <1>4, <2>1 DEF V!Absolute
<1>6. V!Join(Cwd, full) = served /\ V!Join(Cwd, r) = from
  <2>1. V!Bare(Cwd) = Cwd
    BY DEF V!PathsProper
  <2>2. <<>> \o full = full /\ <<>> \o r = r
    BY <1>1
  <2> QED BY <1>3, <1>5, <2>1, <2>2 DEF V!Join
<1>7. served \in Seq(V!Component) /\ from \in Seq(V!Component)
  BY <1>1, Concatenated
<1>8. /\ V!Normal(served) \in Files /\ V!Normal(served) = V!Walk(served)
      /\ served[Len(served)] # ""
  <2>1. V!Normal(served) \in Files
    BY <1>6 DEF full
  <2> HIDE DEF served
  <2> QED BY <1>7, <2>1, FilesAreWalked
<1>9. full = out
  <2>1. full = out \/ full = Append(out, "")
    BY NormalForms DEF full, out
  <2>2. Len(full) \in 1 .. Len(full) /\ Len(base) \in Nat
    BY <1>1, <1>3
  <2>3. /\ Len(served) = Len(base) + Len(full)
        /\ \A i \in 1 .. Len(full) : served[Len(base) + i] = full[i]
    BY <1>1, Concatenated
  <2>4. full[Len(full)] # ""
    BY <1>8, <2>2, <2>3
  <2>6. Append(out, "")[Len(Append(out, ""))] = ""
    BY <1>1, WithSlash
  <2> QED BY <2>1, <2>4, <2>6
<1>10. /\ rest \in Seq(V!Component) /\ full = r \o rest
       /\ \A i \in 1 .. Len(rest) : rest[i] \notin Special
  <2>1. Len(r) \in Nat /\ Len(full) \in Nat
    BY <1>1
  <2>2. /\ rest \in Seq(V!Component) /\ Len(rest) = Len(full) - Len(r)
        /\ \A i \in 1 .. Len(full) - Len(r) : rest[i] = full[Len(r) + i]
    BY <1>1, <1>3, <2>1, PartOfSeq
  <2>3. SubSeq(full, 1, Len(r)) \o rest = full
    BY <1>1, <1>3, PartsOfSeq
  <2>4. IsClean(full)
    BY <1>9, WalkClean DEF out
  <2>5. ASSUME NEW i \in 1 .. Len(rest) PROVE rest[i] \notin Special
    <3>1. Len(r) + i \in 1 .. Len(full) /\ k \in 1 .. Len(r) + i
      BY <1>2, <1>3, <2>1, <2>2
    <3>2. full[Len(r) + i] \notin {"", "."}
      BY <2>4, <3>1, Zenon DEF IsClean
    <3>3. full[Len(r) + i] # ".."
      <4>1. full[k] # ".."
        BY <1>2, <1>4
      <4> QED BY <2>4, <3>1, <4>1, Zenon DEF IsClean
    <3> QED BY <2>2, <3>2, <3>3 DEF Special
  <2> QED BY <1>3, <2>2, <2>3, <2>5
<1> HIDE DEF rest
<1>11. V!Walk(served) = V!Walk(from) \o rest
  <2>1. (base \o r) \o rest = base \o (r \o rest)
    <3>1. \A s, t, u \in Seq(V!Component) : (s \o t) \o u = s \o (t \o u)
      BY ConcatAssoc
    <3>2. rest \in Seq(V!Component)
      BY <1>10
    <3>3. base \in Seq(V!Component) /\ r \in Seq(V!Component)
      BY <1>1
    <3> HIDE DEF base, from, served
    <3> QED BY <3>1, <3>2, <3>3, Zenon
  <2>2. served = from \o rest
    BY <1>10, <2>1
  <2> HIDE DEF from, served
  <2> QED BY <1>7, <1>10, <2>2, WalkRest
<1>12. V!Bare(V!Normal(from)) = V!Walk(from) /\ V!Walk(from) \in Seq(V!Component)
  BY <1>7, NormalForms, WalkClean DEF IsClean
<1> DEFINE w == V!Walk(from)
<1> HIDE DEF from, served, w
<1>13. V!IsPrefix(w, w \o rest)
  <2>1. w \in Seq(V!Component)
    BY <1>12 DEF w
  <2>2. w \o rest \in Seq(V!Component) /\ Len(w \o rest) = Len(w) + Len(rest)
        /\ \A i \in 1 .. Len(w) : (w \o rest)[i] = w[i]
    BY <1>10, <2>1, Concatenated
  <2> DEFINE all == w \o rest
             front == SubSeq(all, 1, Len(w))
  <2>3. Len(w) \in 0 .. Len(all) /\ Len(w) <= Len(all)
    BY <1>10, <2>1, <2>2
  <2>4. front \in Seq(V!Component) /\ Len(front) = Len(w)
        /\ \A i \in 1 .. Len(w) : front[i] = all[i]
    BY <2>2, <2>3, PrefixOfSeq
  <2> HIDE DEF front
  <2>5. front = w
    BY <2>1, <2>2, <2>4, SeqEqual
  <2>6. SubSeq(w, 1, Len(w)) = w
    BY <2>1, WholeSeq
  <2> QED BY <2>3, <2>5, <2>6 DEF V!IsPrefix, front
<1> QED BY <1>6, <1>8, <1>11, <1>12, <1>13 DEF w, full

-----------------------------------------------------------------------------
LEMMA BareType == ASSUME NEW p \in Seq(V!Component) PROVE V!Bare(p) \in Seq(V!Component)
<1>1. CASE p # <<>> /\ V!Last(p) = ""
  <2>0. p # <<>>
    BY <1>1
  <2>1. Len(p) - 1 \in 0 .. Len(p)
    BY <2>0
  <2>2. SubSeq(p, 1, Len(p) - 1) \in Seq(V!Component)
    BY <2>1, PrefixOfSeq
  <2> QED BY <1>1, <2>2 DEF V!Bare, V!Front
<1>2. CASE ~(p # <<>> /\ V!Last(p) = "")
  BY <1>2 DEF V!Bare
<1> QED BY <1>1, <1>2

LEMMA JoinType ==
    ASSUME NEW base \in Seq(V!Component), NEW rel \in Seq(V!Component)
    PROVE  V!Join(base, rel) \in Seq(V!Component)
<1>1. V!Bare(base) \in Seq(V!Component)
  BY BareType
<1>2. V!Bare(base) \o rel \in Seq(V!Component)
  BY <1>1, Concatenated
<1>3. Append(V!Bare(base), "") \in Seq(V!Component)
  BY <1>1, WithSlash
<1> QED BY <1>2, <1>3 DEF V!Join

\* A path is a prefix of itself with a name behind it.
LEMMA IsPrefixOf ==
    ASSUME NEW s \in Seq(V!Component), NEW t \in Seq(V!Component)
    PROVE  V!IsPrefix(s, s \o t) /\ (t # <<>> => ~V!IsStrictPrefix(s \o t, s))
<1> DEFINE all == s \o t
           front == SubSeq(all, 1, Len(s))
<1>1. /\ all \in Seq(V!Component) /\ Len(all) = Len(s) + Len(t)
      /\ \A i \in 1 .. Len(s) : all[i] = s[i]
  BY Concatenated
<1> HIDE DEF all
<1>2. Len(s) \in 0 .. Len(all) /\ Len(s) <= Len(all) /\ (t # <<>> => Len(all) > Len(s))
  BY <1>1
<1>3. /\ front \in Seq(V!Component) /\ Len(front) = Len(s)
      /\ \A i \in 1 .. Len(s) : front[i] = all[i]
  BY <1>1, <1>2, PrefixOfSeq
<1> HIDE DEF front
<1>4. front = s
  BY <1>1, <1>3, SeqEqual
<1>5. SubSeq(s, 1, Len(s)) = s
  BY WholeSeq
<1>6. V!IsPrefix(s, all)
  BY <1>2, <1>4, <1>5 DEF V!IsPrefix, front
<1>7. t # <<>> => ~V!IsPrefix(all, s)
  BY <1>1, <1>2 DEF V!IsPrefix
<1> QED BY <1>6, <1>7 DEF V!IsStrictPrefix, all

LEMMA RootNamed ==
    ASSUME V!PathsProper, NEW r \in Roots
    PROVE  r \in Seq(V!Component) /\ r # <<>>
<1>1. r \in Seq(V!Component)
  BY DEF V!PathsProper
<1>2. PICK i \in 1 .. Len(r) : r[i] # ".."
  BY DEF V!PathsProper
<1>3. r # <<>>
  BY <1>1
<1> QED BY <1>1, <1>3

\* In the path of a file there is no "..".
LEMMA NoParents ==
    ASSUME V!PathsProper, NEW r \in Seq(V!Component), NEW name \in Seq(V!Component),
           r \o name \in Files
    PROVE  \A i \in 1 .. Len(name) : name[i] # ".."
<1> DEFINE file == r \o name
<1>1. /\ file \in Seq(V!Component) /\ Len(file) = Len(r) + Len(name)
      /\ \A i \in 1 .. Len(name) : file[Len(r) + i] = name[i]
  BY Concatenated
<1>2. V!Normal(file) = file /\ file[1] = "/"
  BY DEF V!PathsProper, V!Absolute
<1>3. file \in Files
  OBVIOUS
<1> HIDE DEF file
<1>4. IsClean(file)
  <2>1. V!Normal(file) \in Files /\ file \in Seq(V!Component)
    BY <1>1, <1>2, <1>3
  <2>2. V!Normal(file) = V!Walk(file)
    BY <2>1, FilesAreWalked
  <2> QED BY <1>2, <2>1, <2>2, WalkClean
<1>5. ASSUME NEW i \in 1 .. Len(name) PROVE name[i] # ".."
  <2>1. Len(r) + i \in 1 .. Len(file) /\ 1 \in 1 .. Len(r) + i
    BY <1>1
  <2>2. "/" # ".."
    OBVIOUS
  <2>3. file[Len(r) + i] # ".."
    BY <1>2, <1>4, <2>1, <2>2, Zenon DEF IsClean
  <2> QED BY <1>1, <2>3
<1> QED BY <1>5

(***************************************************************************)
(* What a name stands for that leads to a file when it is put behind a     *)
(* root in its normal form.                                                *)
(***************************************************************************)
LEMMA NamedFile ==
    ASSUME V!PathsProper, NEW r \in Roots, V!Last(r) # "",
           NEW name \in Seq(V!Component), ~V!Absolute(name), V!Join(r, name) \in Files
    PROVE  /\ V!Normal(V!Join(r, name)) = V!Join(r, name)
           /\ V!Normal(V!Join(Cwd, V!Join(r, name))) = V!Join(r, name)
           /\ V!IsPrefix(r, V!Join(r, name)) /\ ~V!IsStrictPrefix(V!Join(r, name), r)
           /\ \A i \in 1 .. Len(name) : name[i] # ".."
<1> DEFINE file == V!Join(r, name)
<1>1. /\ r \in Seq(V!Component) /\ r # <<>> /\ V!Bare(r) = r
  <2>1. r \in Seq(V!Component) /\ r # <<>>
    BY RootNamed
  <2> QED BY <2>1 DEF V!Bare
<1>2. /\ file \in Seq(V!Component) /\ V!Absolute(file) /\ V!Normal(file) = file
      /\ file # <<>> /\ file[Len(file)] # ""
  BY DEF V!PathsProper, V!Absolute
<1>3. name # <<>>
  <2>1. Append(r, "")[Len(Append(r, ""))] = ""
    BY <1>1, WithSlash
  <2> QED BY <1>1, <1>2, <2>1 DEF V!Join
<1>4. file = r \o name
  BY <1>1, <1>3 DEF V!Join
<1>5. V!Join(Cwd, file) = file
  <2> HIDE DEF file
  <2> QED BY <1>2 DEF V!Join
<1>6. V!IsPrefix(r, file) /\ ~V!IsStrictPrefix(file, r)
  BY <1>1, <1>3, <1>4, IsPrefixOf
<1>7. \A i \in 1 .. Len(name) : name[i] # ".."
  BY <1>1, <1>4, NoParents
<1> QED BY <1>2, <1>5, <1>6, <1>7

\* What is no file's path.
LEMMA NoFile ==
    ASSUME V!PathsProper
    PROVE  V!Forbidden \notin Files /\ V!NotFound \notin Files /\ V!Undefined \notin Files
<1>1. \A f \in Files : f[1] = "/"
  BY DEF V!PathsProper, V!Absolute
<1>2. V!Forbidden[1] # "/" /\ V!NotFound[1] # "/" /\ V!Undefined[1] # "/"
  BY DEF V!Forbidden, V!NotFound, V!Undefined
<1> QED BY <1>1, <1>2

(***************************************************************************)
(* What the callback of WebKitGTK answers, and what the one of macOS does. *)
(***************************************************************************)
LEMMA LinuxServes ==
    ASSUME V!PathsProper, root \in Roots, NEW url \in Requests, NEW result \in V!ServeLinux(url)
    PROVE  /\ result \in Files => V!IsPrefix(V!Bare(V!Normal(V!Join(Cwd, root))), result)
           /\ V!Last(root) # "" /\ V!Join(root, url.host \o url.path) \in Files /\ url.host # <<>>
              => result = V!Join(root, url.host \o url.path)
<1> DEFINE name == V!LinuxName(url)
           path == V!Join(root, name)
           full == V!Normal(path)
<1>1. /\ url.host \in Seq(V!Component) /\ url.path \in Seq(V!Component)
      /\ ~V!Absolute(url.host) /\ root \in Seq(V!Component) /\ root # <<>>
  <2>1. root \in Seq(V!Component) /\ root # <<>>
    BY RootNamed
  <2> QED BY <2>1 DEF V!PathsProper
<1>2. name \in Seq(V!Component) /\ url.host \o url.path \in Seq(V!Component)
  <2>1. <<"/">> \in Seq(V!Component)
    BY DEF V!Component
  <2>2. <<"/">> \o url.path \in Seq(V!Component) /\ url.host \o url.path \in Seq(V!Component)
    BY <1>1, <2>1, Concatenated
  <2> QED BY <2>2 DEF V!LinuxName
<1> HIDE DEF name
<1>3. path \in Seq(V!Component)
  BY <1>1, <1>2, JoinType
<1>4. result \in {V!NotFound, V!Forbidden, V!Undefined}
      \/ /\ V!IsPrefix(root, full) /\ V!IsRegularFile(full)
         /\ result = V!Normal(V!Join(Cwd, full))
  BY DEF V!ServeLinux, name
<1> HIDE DEF path
<1>5. result \in Files => V!IsPrefix(V!Bare(V!Normal(V!Join(Cwd, root))), result)
  BY <1>3, <1>4, NoFile, ServedBeneath DEF V!IsRegularFile
<1>6. ASSUME V!Last(root) # "", V!Join(root, url.host \o url.path) \in Files, url.host # <<>>
      PROVE  result = V!Join(root, url.host \o url.path)
  <2> DEFINE plain == url.host \o url.path
  <2>1. name = plain
    BY <1>6 DEF V!LinuxName, name
  <2>2. ~V!Absolute(plain)
    <3>1. url.host \in Seq(V!Component) /\ url.path \in Seq(V!Component) /\ url.host # <<>>
      BY <1>1, <1>6
    <3>2. 1 \in 1 .. Len(url.host)
      BY <3>1
    <3>3. \A i \in 1 .. Len(url.host) : plain[i] = url.host[i]
      BY <3>1, Concatenated
    <3>4. plain[1] = url.host[1]
      BY <3>2, <3>3
    <3> QED BY <1>1, <1>6, <3>4 DEF V!Absolute
  <2>3. plain \in Seq(V!Component)
    BY <1>2
  <2> HIDE DEF plain
  <2>4. /\ V!Normal(V!Join(root, plain)) = V!Join(root, plain)
        /\ V!Normal(V!Join(Cwd, V!Join(root, plain))) = V!Join(root, plain)
        /\ V!IsPrefix(root, V!Join(root, plain)) /\ ~V!IsStrictPrefix(V!Join(root, plain), root)
    BY <1>6, <2>2, <2>3, NamedFile DEF plain
  <2>5. full = V!Join(root, plain) /\ V!Normal(V!Join(Cwd, full)) = full /\ full \in Files
    BY <1>6, <2>1, <2>4 DEF path, plain
  <2>6. result = full
    BY <1>1, <2>1, <2>4, <2>5 DEF V!ServeLinux, V!IsRegularFile, path, name
  <2> QED BY <2>5, <2>6 DEF plain
<1> QED BY <1>5, <1>6

LEMMA MacServes ==
    ASSUME V!PathsProper, root \in Roots, NEW url \in Requests, NEW result \in V!ServeMac(url)
    PROVE  /\ result \in Files => V!IsPrefix(V!Bare(V!Normal(V!Join(Cwd, root))), result)
           /\ V!Last(root) # "" /\ V!Join(root, url.path) \in Files
              /\ (\A i \in DOMAIN url.path : url.path[i] \notin Dotted)
              => result = V!Join(root, url.path)
<1> DEFINE path == V!Join(root, url.path)
           full == V!Normal(path)
<1>1. url.path \in Seq(V!Component) /\ ~V!Absolute(url.path) /\ root \in Seq(V!Component)
  BY DEF V!PathsProper
<1>2. path \in Seq(V!Component)
  BY <1>1, JoinType
<1>3. result \in {V!NotFound, V!Forbidden, V!Undefined}
      \/ /\ V!IsPrefix(root, full) /\ V!IsRegularFile(full)
         /\ result = V!Normal(V!Join(Cwd, full))
  BY DEF V!ServeMac
<1>4. result \in Files => V!IsPrefix(V!Bare(V!Normal(V!Join(Cwd, root))), result)
  <2> HIDE DEF path
  <2> QED BY <1>2, <1>3, NoFile, ServedBeneath DEF V!IsRegularFile
<1>5. ASSUME V!Last(root) # "", path \in Files,
             \A i \in DOMAIN url.path : url.path[i] \notin Dotted
      PROVE  result = path
  <2>1. /\ full = path /\ V!Normal(V!Join(Cwd, path)) = path
        /\ V!IsPrefix(root, path) /\ ~V!IsStrictPrefix(path, root)
    BY <1>1, <1>5, NamedFile
  <2> HIDE DEF path
  <2> QED BY <1>5, <2>1 DEF V!ServeMac, V!IsRegularFile, path
<1> QED BY <1>4, <1>5

(***************************************************************************)
(* However the name in a URL is written, and whatever the root, the current *)
(* directory and the files are, the scheme app serves only files beneath   *)
(* the root, as far as names say (there are no symbolic links here); and   *)
(* each of them under its own name, if the root is written in its normal   *)
(* form and, on macOS, the name has no two dots in a row.                  *)
(***************************************************************************)
RootInv == root \in Roots /\ ServedFromRoot

THEOREM AppServesItsRoot ==
    V!Init /\ [][V!Next]_(V!webviewVars) => []ServedFromRoot
<1>1. V!Init => RootInv
  BY DEF V!Init, RootInv, ServedFromRoot, V!ServedFromRoot
<1>2. RootInv /\ [V!Next]_(V!webviewVars) => RootInv'
  <2> SUFFICES ASSUME RootInv, [V!Next]_(V!webviewVars) PROVE RootInv'
    OBVIOUS
  <2>1. CASE V!Request
    <3>1. V!PathsProper /\ root \in Roots /\ UNCHANGED <<root, platformV>>
      BY <2>1, PathsAssumption DEF RootInv, V!Request
    <3>2. PICK url \in Requests : \E result \in IF platformV = "mac" THEN V!ServeMac(url)
                                               ELSE V!ServeLinux(url) :
                                     reply' = [url |-> url, result |-> result]
      BY <2>1 DEF V!Request
    <3>3. PICK result \in IF platformV = "mac" THEN V!ServeMac(url) ELSE V!ServeLinux(url) :
              reply' = [url |-> url, result |-> result]
      BY <3>2
    <3>4. reply'.url = url /\ reply'.result = result
      BY <3>3
    <3>5. CASE platformV = "mac"
      <4>1. result \in V!ServeMac(url)
        BY <3>3, <3>5
      <4>2. /\ result \in Files => V!IsPrefix(V!Bare(V!Normal(V!Join(Cwd, root))), result)
            /\ V!Last(root) # "" /\ V!Join(root, url.path) \in Files
               /\ (\A i \in DOMAIN url.path : url.path[i] \notin Dotted)
               => result = V!Join(root, url.path)
        BY <3>1, <4>1, MacServes
      <4> QED BY <3>1, <3>4, <3>5, <4>2 DEF RootInv, ServedFromRoot, V!ServedFromRoot
    <3>6. CASE platformV # "mac"
      <4>1. result \in V!ServeLinux(url)
        BY <3>3, <3>6
      <4>2. /\ result \in Files => V!IsPrefix(V!Bare(V!Normal(V!Join(Cwd, root))), result)
            /\ V!Last(root) # "" /\ V!Join(root, url.host \o url.path) \in Files
               /\ url.host # <<>> => result = V!Join(root, url.host \o url.path)
        BY <3>1, <4>1, LinuxServes
      <4> QED BY <3>1, <3>4, <3>6, <4>2 DEF RootInv, ServedFromRoot, V!ServedFromRoot
    <3> QED BY <3>5, <3>6
  <2>2. CASE UNCHANGED <<platformV, root, reply>>
    BY <2>2 DEF RootInv, ServedFromRoot, V!ServedFromRoot, V!NoReply
  <2>3. V!Request \/ UNCHANGED <<platformV, root, reply>>
    BY DEF V!Next, V!webviewVars, V!InitCommon, V!CreateFails, V!OnControllerReady,
           V!ControllerFails, V!Destroy, V!Navigate, V!UserResizes, V!EvalJS, V!EvalDone
  <2> QED BY <2>1, <2>2, <2>3
<1>3. RootInv => ServedFromRoot
  BY DEF RootInv
<1> QED BY <1>1, <1>2, <1>3, PTL
=============================================================================
