----------------------- MODULE WindowLifecycleProofs -----------------------
(***************************************************************************)
(* Proofs about WindowLifecycle (W in MCWindows), for any number of        *)
(* windows, close requests and events.  The pages are assumed to use no    *)
(* event named "closed" (NoPageCloses): with one, the kernel takes the     *)
(* window out of the map and deletes its object while the window is up.    *)
(***************************************************************************)
EXTENDS MCWindows, FiniteSetTheorems, Induction, TLAPS

NoPageCloses == "closed" \notin PageEvents

\* The registry counts as everybody does.
LEMMA SameCount == \A X : W!Cardinality(X) = Cardinality(X)
BY DEF W!Cardinality, Cardinality

-----------------------------------------------------------------------------
(***************************************************************************)
(* The windows of a flush can be put in ascending order.                   *)
(***************************************************************************)
IsAscending(ids, ws) ==
    /\ ids \in [1 .. Cardinality(ws) -> ws]
    /\ \A j, k \in 1 .. Cardinality(ws) : j < k => ids[j] < ids[k]

LEMMA AscendingExists ==
    ASSUME NEW m \in Nat, NEW ws \in SUBSET (1 .. m)
    PROVE  \E ids : IsAscending(ids, ws)
<1> DEFINE T == {n \in Nat : \A vs \in SUBSET (1 .. n) : \E ids : IsAscending(ids, vs)}
<1>1. 0 \in T
  <2> SUFFICES ASSUME NEW vs \in SUBSET (1 .. 0)
               PROVE  \E ids : IsAscending(ids, vs)
    OBVIOUS
  <2>0. vs = {}
    OBVIOUS
  <2>1. vs = {} /\ Cardinality(vs) = 0
    BY <2>0, FS_EmptySet
  <2>2. IsAscending([k \in 1 .. 0 |-> k], vs)
    BY <2>1 DEF IsAscending
  <2> QED BY <2>2
<1>2. ASSUME NEW n \in T
      PROVE  n + 1 \in T
  <2>1. n \in Nat /\ \A vs \in SUBSET (1 .. n) : \E ids : IsAscending(ids, vs)
    OBVIOUS
  <2> SUFFICES ASSUME NEW vs \in SUBSET (1 .. n + 1)
               PROVE  \E ids : IsAscending(ids, vs)
    BY <2>1
  <2> DEFINE us == vs \ {n + 1}
  <2>2. us \in SUBSET (1 .. n)
    BY <2>1
  <2>3. PICK ids : IsAscending(ids, us)
    BY <2>1, <2>2
  <2>4. CASE n + 1 \notin vs
    BY <2>3, <2>4
  <2>5. CASE n + 1 \in vs
    <3> DEFINE c == Cardinality(us)
               longer == [k \in 1 .. c + 1 |-> IF k = c + 1 THEN n + 1 ELSE ids[k]]
    <3>1. IsFiniteSet(us)
      <4>1. IsFiniteSet(1 .. n)
        BY <2>1, FS_Interval
      <4> HIDE DEF us
      <4> QED BY <2>2, <4>1, FS_Subset
    <3>2. c \in Nat /\ Cardinality(vs) = c + 1
      <4>1. vs = us \cup {n + 1}
        BY <2>5
      <4> HIDE DEF us
      <4> QED BY <3>1, <4>1, <2>1, <2>2, FS_AddElement, FS_CardinalityType
    <3>3. /\ ids \in [1 .. c -> us]
          /\ \A j, k \in 1 .. c : j < k => ids[j] < ids[k]
      BY <2>3 DEF IsAscending
    <3>4. \A k \in 1 .. c : ids[k] \in us /\ ids[k] < n + 1
      <4>1. \A w \in us : w \in Nat /\ w < n + 1
        BY <2>1, <2>2
      <4> QED BY <3>3, <4>1
    <3> HIDE DEF c, us
    <3>5. longer \in [1 .. c + 1 -> vs]
      BY <2>5, <3>2, <3>4 DEF us
    <3>6. \A j, k \in 1 .. c + 1 : j < k => longer[j] < longer[k]
      BY <3>2, <3>3, <3>4
    <3>7. IsAscending(longer, vs)
      BY <3>2, <3>5, <3>6 DEF IsAscending
    <3> QED BY <3>7
  <2> QED BY <2>4, <2>5
<1> HIDE DEF T
<1>3. T \subseteq Nat
  BY DEF T
<1>4. m \in T
  BY <1>1, <1>2, <1>3, NatSetInduction
<1> QED BY <1>4 DEF T

(***************************************************************************)
(* What a flush posts: callbacks that flush, of windows.                   *)
(***************************************************************************)
LEMMA FlushPostsTypes ==
    ASSUME W!Bounds, NEW ws \in SUBSET W!Window
    PROVE  /\ W!FlushPosts(ws) \in Seq(W!Callback)
           /\ \A k \in 1 .. Len(W!FlushPosts(ws)) : W!FlushPosts(ws)[k].do = "flush"
<1> DEFINE us == {w \in ws : ~outboxScheduled[w]}
           ids == W!Ascending(us)
           n == Cardinality(us)
<1>1. us \in SUBSET (1 .. MaxWindows)
  BY DEF W!Window
<1>2. n \in Nat
  <2>1. IsFiniteSet(1 .. MaxWindows)
    BY FS_Interval DEF W!Bounds
  <2> HIDE DEF us
  <2>2. IsFiniteSet(us)
    BY <1>1, <2>1, FS_Subset
  <2> QED BY <2>2, FS_CardinalityType
<1>3. \E f : IsAscending(f, us)
  BY <1>1, AscendingExists DEF W!Bounds
<1>4. ids \in [1 .. n -> us]
  <2> HIDE DEF us
  <2>1. \E f : /\ f \in [1 .. W!Cardinality(us) -> us]
               /\ \A j, k \in 1 .. W!Cardinality(us) : j < k => f[j] < f[k]
    BY <1>3, SameCount DEF IsAscending
  <2>2. ids \in [1 .. W!Cardinality(us) -> us]
    BY <2>1, Zenon DEF W!Ascending
  <2> QED BY <2>2, SameCount
<1>5. W!FlushPosts(ws) = [k \in 1 .. n |-> [do |-> "flush", win |-> ids[k]]]
  BY <1>4 DEF W!FlushPosts
<1>6. \A k \in 1 .. n : ids[k] \in W!Window
  BY <1>1, <1>4 DEF W!Window
<1> HIDE DEF ids, n
<1>7. \A k \in 1 .. n : [do |-> "flush", win |-> ids[k]] \in W!Callback
  BY <1>6 DEF W!Callback
<1> QED BY <1>2, <1>5, <1>7

-----------------------------------------------------------------------------
(***************************************************************************)
(* The deletions in a queue of callbacks, when D is the set of windows     *)
(* that are gone and whose object still exists: one for each of them, and  *)
(* no other.                                                               *)
(***************************************************************************)
DeletesFor(p, D) ==
    /\ \A k \in 1 .. Len(p) : p[k].do = "delete" => p[k].win \in D
    /\ \A j, k \in 1 .. Len(p) :
          p[j].do = "delete" /\ p[k].do = "delete" /\ p[j].win = p[k].win => j = k
    /\ \A w \in D : \E k \in 1 .. Len(p) : p[k] = W!DeletePost(w)

\* Posting callbacks that delete nothing.
LEMMA PostsNoDelete ==
    ASSUME NEW p \in Seq(W!Callback), NEW q \in Seq(W!Callback), NEW D, DeletesFor(p, D),
           \A k \in 1 .. Len(q) : q[k].do # "delete"
    PROVE  p \o q \in Seq(W!Callback) /\ DeletesFor(p \o q, D)
<1>1. /\ p \o q \in Seq(W!Callback) /\ Len(p \o q) = Len(p) + Len(q)
      /\ Len(p) \in Nat /\ Len(q) \in Nat
      /\ \A k \in 1 .. Len(p) : (p \o q)[k] = p[k]
      /\ \A k \in Len(p) + 1 .. Len(p) + Len(q) : (p \o q)[k] = q[k - Len(p)]
  OBVIOUS
<1> DEFINE r == p \o q
<1> HIDE DEF r
<1>2. \A k \in 1 .. Len(r) : r[k].do = "delete" => k \in 1 .. Len(p) /\ r[k] = p[k]
  <2> SUFFICES ASSUME NEW k \in 1 .. Len(r), k \notin 1 .. Len(p)
               PROVE  r[k].do # "delete"
    BY <1>1 DEF r
  <2>1. k - Len(p) \in 1 .. Len(q) /\ r[k] = q[k - Len(p)]
    BY <1>1 DEF r
  <2> QED BY <2>1
<1>3. \A k \in 1 .. Len(p) : k \in 1 .. Len(r) /\ r[k] = p[k]
  BY <1>1 DEF r
<1>4. DeletesFor(r, D)
  BY <1>2, <1>3 DEF DeletesFor
<1> QED BY <1>1, <1>4 DEF r

\* Posting a callback of a module.
LEMMA PostsOneNoDelete ==
    ASSUME NEW p \in Seq(W!Callback), NEW c \in W!Callback, NEW D, DeletesFor(p, D),
           c.do # "delete"
    PROVE  Append(p, c) \in Seq(W!Callback) /\ DeletesFor(Append(p, c), D)
<1>1. /\ Append(p, c) \in Seq(W!Callback) /\ Len(Append(p, c)) = Len(p) + 1
      /\ Len(p) \in Nat
      /\ \A k \in 1 .. Len(p) : Append(p, c)[k] = p[k]
      /\ Append(p, c)[Len(p) + 1] = c
  OBVIOUS
<1> QED BY <1>1 DEF DeletesFor

\* Posting the deletion of a window that was up.
LEMMA PostsDelete ==
    ASSUME NEW p \in Seq(W!Callback), NEW D, DeletesFor(p, D),
           NEW w \in W!Window, w \notin D
    PROVE  /\ Append(p, W!DeletePost(w)) \in Seq(W!Callback)
           /\ DeletesFor(Append(p, W!DeletePost(w)), D \cup {w})
<1> DEFINE c == W!DeletePost(w)
           r == Append(p, c)
<1>1. c \in W!Callback /\ c.do = "delete" /\ c.win = w
  BY DEF W!DeletePost, W!Callback
<1> HIDE DEF c
<1>2. /\ r \in Seq(W!Callback) /\ Len(r) = Len(p) + 1 /\ Len(p) \in Nat
      /\ \A k \in 1 .. Len(p) : r[k] = p[k]
      /\ r[Len(p) + 1] = c
  BY <1>1
<1> HIDE DEF r
<1>3. \A k \in 1 .. Len(r) : k \in 1 .. Len(p) \/ k = Len(p) + 1
  BY <1>2
<1>4. \A k \in 1 .. Len(r) : r[k].do = "delete" => r[k].win \in D \cup {w}
  BY <1>1, <1>2, <1>3 DEF DeletesFor
<1>5. \A j, k \in 1 .. Len(r) :
         r[j].do = "delete" /\ r[k].do = "delete" /\ r[j].win = r[k].win => j = k
  <2> SUFFICES ASSUME NEW j \in 1 .. Len(r), NEW k \in 1 .. Len(r), r[j].do = "delete",
                      r[k].do = "delete", r[j].win = r[k].win
               PROVE  j = k
    OBVIOUS
  <2>1. CASE j \in 1 .. Len(p) /\ k \in 1 .. Len(p)
    BY <1>2, <2>1 DEF DeletesFor
  <2>2. CASE j = Len(p) + 1 /\ k \in 1 .. Len(p)
    BY <1>1, <1>2, <2>2 DEF DeletesFor
  <2>3. CASE k = Len(p) + 1 /\ j \in 1 .. Len(p)
    BY <1>1, <1>2, <2>3 DEF DeletesFor
  <2> QED BY <1>3, <2>1, <2>2, <2>3
<1>6. \A v \in D \cup {w} : \E k \in 1 .. Len(r) : r[k] = W!DeletePost(v)
  <2>1. Len(p) + 1 \in 1 .. Len(r) /\ \A k \in 1 .. Len(p) : k \in 1 .. Len(r)
    BY <1>2
  <2>2. \A v \in D : \E k \in 1 .. Len(p) : r[k] = W!DeletePost(v)
    BY <1>2 DEF DeletesFor
  <2> QED BY <1>2, <2>1, <2>2 DEF c
<1> QED BY <1>2, <1>4, <1>5, <1>6 DEF r, c, DeletesFor

\* Running the first callback.
LEMMA RunsFirst ==
    ASSUME NEW p \in Seq(W!Callback), p # <<>>, NEW D, DeletesFor(p, D)
    PROVE  /\ Tail(p) \in Seq(W!Callback) /\ Head(p) \in W!Callback
           /\ Head(p).do # "delete" => DeletesFor(Tail(p), D)
           /\ Head(p).do = "delete" =>
                 Head(p).win \in D /\ DeletesFor(Tail(p), D \ {Head(p).win})
<1> DEFINE r == Tail(p)
           h == Head(p)
<1>1. /\ r \in Seq(W!Callback) /\ h \in W!Callback /\ h = p[1]
      /\ Len(p) \in Nat /\ Len(p) > 0 /\ Len(r) = Len(p) - 1
      /\ \A k \in 1 .. Len(r) : r[k] = p[k + 1]
  OBVIOUS
<1> HIDE DEF r, h
<1>2. \A k \in 1 .. Len(r) : k + 1 \in 1 .. Len(p) /\ r[k] = p[k + 1] /\ k + 1 # 1
  BY <1>1
<1>3. \A k \in 1 .. Len(p) : k # 1 => k - 1 \in 1 .. Len(r) /\ r[k - 1] = p[k]
  BY <1>1
<1>4. 1 \in 1 .. Len(p)
  BY <1>1
<1>5. \A j, k \in 1 .. Len(r) :
         r[j].do = "delete" /\ r[k].do = "delete" /\ r[j].win = r[k].win => j = k
  <2> SUFFICES ASSUME NEW j \in 1 .. Len(r), NEW k \in 1 .. Len(r), r[j].do = "delete",
                      r[k].do = "delete", r[j].win = r[k].win
               PROVE  j = k
    OBVIOUS
  <2>1. j + 1 = k + 1
    BY <1>2 DEF DeletesFor
  <2> QED BY <1>1, <2>1
<1>6. ASSUME h.do # "delete"
      PROVE  DeletesFor(r, D)
  <2>1. \A w \in D : \E k \in 1 .. Len(r) : r[k] = W!DeletePost(w)
    <3> SUFFICES ASSUME NEW w \in D PROVE \E k \in 1 .. Len(r) : r[k] = W!DeletePost(w)
      OBVIOUS
    <3>1. PICK k \in 1 .. Len(p) : p[k] = W!DeletePost(w)
      BY DEF DeletesFor
    <3>2. k # 1
      BY <1>1, <1>6, <3>1 DEF W!DeletePost
    <3> QED BY <1>3, <3>1, <3>2
  <2> QED BY <1>2, <1>5, <2>1 DEF DeletesFor
<1>7. ASSUME h.do = "delete"
      PROVE  h.win \in D /\ DeletesFor(r, D \ {h.win})
  <2>1. h.win \in D
    BY <1>1, <1>4, <1>7 DEF DeletesFor
  <2>2. \A k \in 1 .. Len(r) : r[k].do = "delete" => r[k].win \in D \ {h.win}
    <3> SUFFICES ASSUME NEW k \in 1 .. Len(r), r[k].do = "delete"
                 PROVE  r[k].win \in D \ {h.win}
      OBVIOUS
    <3>1. r[k].win \in D
      BY <1>2 DEF DeletesFor
    <3>2. r[k].win # h.win
      BY <1>1, <1>2, <1>4, <1>7 DEF DeletesFor
    <3> QED BY <3>1, <3>2
  <2>3. \A w \in D \ {h.win} : \E k \in 1 .. Len(r) : r[k] = W!DeletePost(w)
    <3> SUFFICES ASSUME NEW w \in D \ {h.win}
                 PROVE  \E k \in 1 .. Len(r) : r[k] = W!DeletePost(w)
      OBVIOUS
    <3>1. PICK k \in 1 .. Len(p) : p[k] = W!DeletePost(w)
      BY DEF DeletesFor
    <3>2. k # 1
      BY <1>1, <3>1 DEF W!DeletePost
    <3> QED BY <1>3, <3>1, <3>2
  <2> QED BY <1>5, <2>1, <2>2, <2>3 DEF DeletesFor
<1> QED BY <1>1, <1>6, <1>7 DEF r, h

-----------------------------------------------------------------------------
(***************************************************************************)
(* The lines the SDK was sent, when C is the set of windows that have been *)
(* created and G the set of those that are gone.                           *)
(***************************************************************************)
LinesFor(s, C, G) ==
    /\ \A k \in 1 .. Len(s) : s[k][2] \in C
    /\ \A w \in C : \E k \in 1 .. Len(s) : s[k][2] = w
    /\ \A k \in 1 .. Len(s) :
          /\ s[k][1] = "created" <=> \A j \in 1 .. k - 1 : s[j][2] # s[k][2]
          /\ s[k][1] = "closed" =>
                s[k][2] \in G /\ \A j \in k + 1 .. Len(s) : s[j][2] # s[k][2]

\* The answer to window.create.
LEMMA CreatedLine ==
    ASSUME NEW s \in Seq(W!Line), NEW C, NEW G, LinesFor(s, C, G),
           NEW w \in W!Window, w \notin C
    PROVE  /\ Append(s, <<"created", w>>) \in Seq(W!Line)
           /\ LinesFor(Append(s, <<"created", w>>), C \cup {w}, G)
<1> DEFINE r == Append(s, <<"created", w>>)
           n == Len(s)
<1>1. <<"created", w>> \in W!Line
  BY DEF W!Line
<1>2. /\ r \in Seq(W!Line) /\ Len(r) = n + 1 /\ n \in Nat
      /\ \A k \in 1 .. n : r[k] = s[k]
      /\ r[n + 1] = <<"created", w>>
  BY <1>1
<1> HIDE DEF r
<1>3. \A k \in 1 .. Len(r) : k \in 1 .. n \/ k = n + 1
  BY <1>2
<1>4. \A k \in 1 .. Len(r) : r[k][2] \in C \cup {w}
  BY <1>2, <1>3 DEF LinesFor
<1>5. \A v \in C \cup {w} : \E k \in 1 .. Len(r) : r[k][2] = v
  <2>1. n + 1 \in 1 .. Len(r) /\ \A k \in 1 .. n : k \in 1 .. Len(r)
    BY <1>2
  <2>2. \A v \in C : \E k \in 1 .. n : r[k][2] = v
    BY <1>2 DEF LinesFor
  <2> QED BY <1>2, <2>1, <2>2
<1>6. ASSUME NEW k \in 1 .. n
      PROVE  /\ r[k][1] = "created" <=> \A j \in 1 .. k - 1 : r[j][2] # r[k][2]
             /\ r[k][1] = "closed" =>
                  r[k][2] \in G /\ \A j \in k + 1 .. Len(r) : r[j][2] # r[k][2]
  <2>1. \A j \in 1 .. k - 1 : r[j] = s[j]
    BY <1>2
  <2>2. \A j \in k + 1 .. Len(r) : j \in k + 1 .. n \/ j = n + 1
    BY <1>2
  <2>3. r[n + 1][2] # r[k][2]
    BY <1>2 DEF LinesFor
  <2>4. \A j \in k + 1 .. n : r[j] = s[j]
    BY <1>2
  <2>5. r[k] = s[k]
    BY <1>2
  <2>6. s[k][1] = "created" <=> \A j \in 1 .. k - 1 : s[j][2] # s[k][2]
    BY DEF LinesFor
  <2>7. s[k][1] = "closed" =>
           s[k][2] \in G /\ \A j \in k + 1 .. n : s[j][2] # s[k][2]
    BY DEF LinesFor
  <2>8. r[k][1] = "created" <=> \A j \in 1 .. k - 1 : r[j][2] # r[k][2]
    BY <2>1, <2>5, <2>6
  <2> QED BY <2>2, <2>3, <2>4, <2>5, <2>7, <2>8
<1>7. \A j \in 1 .. (n + 1) - 1 : r[j][2] # w
  BY <1>2 DEF LinesFor
<1> QED BY <1>2, <1>3, <1>4, <1>5, <1>6, <1>7 DEF r, LinesFor

\* An event, or the end, of a window that is up.
LEMMA LaterLine ==
    ASSUME NEW s \in Seq(W!Line), NEW C, NEW G, LinesFor(s, C, G),
           NEW w \in W!Window, w \in C, w \notin G, NEW what \in {"event", "closed"}
    PROVE  /\ Append(s, <<what, w>>) \in Seq(W!Line)
           /\ LinesFor(Append(s, <<what, w>>), C, IF what = "closed" THEN G \cup {w} ELSE G)
<1> DEFINE r == Append(s, <<what, w>>)
           n == Len(s)
           H == IF what = "closed" THEN G \cup {w} ELSE G
<1>1. <<what, w>> \in W!Line
  BY DEF W!Line
<1>2. /\ r \in Seq(W!Line) /\ Len(r) = n + 1 /\ n \in Nat
      /\ \A k \in 1 .. n : r[k] = s[k]
      /\ r[n + 1] = <<what, w>>
  BY <1>1
<1> HIDE DEF r
<1>3. \A k \in 1 .. Len(r) : k \in 1 .. n \/ k = n + 1
  BY <1>2
<1>4. \A k \in 1 .. Len(r) : r[k][2] \in C
  BY <1>2, <1>3 DEF LinesFor
<1>5. \A v \in C : \E k \in 1 .. Len(r) : r[k][2] = v
  <2>1. \A k \in 1 .. n : k \in 1 .. Len(r)
    BY <1>2
  <2>2. \A v \in C : \E k \in 1 .. n : r[k][2] = v
    BY <1>2 DEF LinesFor
  <2> QED BY <2>1, <2>2
<1>6. ASSUME NEW k \in 1 .. n
      PROVE  /\ r[k][1] = "created" <=> \A j \in 1 .. k - 1 : r[j][2] # r[k][2]
             /\ r[k][1] = "closed" =>
                  r[k][2] \in H /\ \A j \in k + 1 .. Len(r) : r[j][2] # r[k][2]
  <2>1. \A j \in 1 .. k - 1 : r[j] = s[j]
    BY <1>2
  <2>2. \A j \in k + 1 .. Len(r) : j \in k + 1 .. n \/ j = n + 1
    BY <1>2
  <2>3. ASSUME r[k][1] = "closed"
        PROVE  r[n + 1][2] # r[k][2] /\ r[k][2] \in H
    <3>1. r[k][2] \in G
      BY <1>2, <2>3 DEF LinesFor
    <3> QED BY <1>2, <3>1
  <2>4. \A j \in k + 1 .. n : r[j] = s[j]
    BY <1>2
  <2>5. r[k] = s[k]
    BY <1>2
  <2>6. s[k][1] = "created" <=> \A j \in 1 .. k - 1 : s[j][2] # s[k][2]
    BY DEF LinesFor
  <2>7. s[k][1] = "closed" =>
           s[k][2] \in G /\ \A j \in k + 1 .. n : s[j][2] # s[k][2]
    BY DEF LinesFor
  <2>8. r[k][1] = "created" <=> \A j \in 1 .. k - 1 : r[j][2] # r[k][2]
    BY <2>1, <2>5, <2>6
  <2> HIDE DEF H
  <2> QED BY <2>2, <2>3, <2>4, <2>5, <2>7, <2>8
<1>7. ~ \A j \in 1 .. (n + 1) - 1 : r[j][2] # w
  <2>1. (n + 1) - 1 = n
    BY <1>2
  <2>2. \E j \in 1 .. n : r[j][2] = w
    BY <1>2 DEF LinesFor
  <2> QED BY <2>1, <2>2
<1>8. \A j \in (n + 1) + 1 .. Len(r) : FALSE
  BY <1>2
<1>9. LinesFor(r, C, H)
  <2> DEFINE Good(k) ==
        /\ r[k][1] = "created" <=> \A j \in 1 .. k - 1 : r[j][2] # r[k][2]
        /\ r[k][1] = "closed" => r[k][2] \in H /\ \A j \in k + 1 .. Len(r) : r[j][2] # r[k][2]
  <2>1. \A k \in 1 .. n : Good(k)
    BY <1>6
  <2>2. r[n + 1][1] = what /\ r[n + 1][2] = w
    BY <1>2
  <2>3. what = "closed" => w \in H
    OBVIOUS
  <2>4. Good(n + 1)
    BY <1>7, <1>8, <2>2, <2>3
  <2> HIDE DEF Good
  <2>5. \A k \in 1 .. Len(r) : Good(k)
    BY <1>3, <2>1, <2>4
  <2> QED BY <1>4, <1>5, <2>5 DEF LinesFor, Good
<1> QED BY <1>2, <1>9 DEF r

-----------------------------------------------------------------------------
(***************************************************************************)
(* The inductive invariant.  Windows are numbered as they are created and  *)
(* live through "none", "up", "gone"; their objects follow.  The queue of  *)
(* callbacks holds the deletion of every object whose window is gone, and  *)
(* what the SDK was sent agrees with which windows exist and which are     *)
(* gone.                                                                   *)
(***************************************************************************)
Made == {w \in W!Window : widget[w] # "none"}
Gone == {w \in W!Window : widget[w] = "gone"}
Dying == {w \in W!Window : widget[w] = "gone" /\ object[w] = "alive"}

Types ==
    /\ created \in 0 .. MaxWindows
    /\ live \in SUBSET W!Window
    /\ widget \in [W!Window -> {"none", "up", "gone"}]
    /\ object \in [W!Window -> {"none", "alive", "deleted"}]
    /\ causeOf \in [W!Window -> {"none", "destroy", "allowed", "timeout"}]
    /\ queued \in [W!Window -> Nat]
    /\ outboxScheduled \in [W!Window -> BOOLEAN]
    /\ posts \in Seq(W!Callback)
    /\ toSdk \in Seq(W!Line)
    /\ faults \in SUBSET W!Fault

CloseTypes ==
    /\ seqOf \in [W!Window -> 0 .. CloseRequests]
    /\ requestId \in [W!Window -> 0 .. CloseRequests]
    /\ responded \in [W!Window -> BOOLEAN]
    /\ closeTimers \in Seq(W!Window)

Life ==
    \A w \in W!Window :
        /\ widget[w] = "none" <=> w > created
        /\ widget[w] = "none" <=> object[w] = "none"
        /\ widget[w] = "up" => object[w] = "alive"

Orderly ==
    /\ Types
    /\ Life
    /\ W!LiveIsUsable
    /\ DeletesFor(posts, Dying)
    /\ LinesFor(toSdk, Made, Gone)
    /\ W!NoUseAfterDelete

IInv == Orderly /\ CloseTypes /\ batch \in 0 .. Len(posts) /\ events \in 0 .. MaxEvents

LEMMA TypesSplit == IInv => W!TypeOK
BY DEF IInv, Orderly, Types, CloseTypes, W!TypeOK

\* A window of the map is up, and none beyond the last one made is.
LEMMA LifeFacts ==
    ASSUME W!Bounds, Orderly, NEW w \in W!Window
    PROVE  /\ w \in Nat /\ w > 0 /\ w <= MaxWindows
           /\ w \in live => widget[w] = "up"
           /\ widget[w] = "up" => w \in live /\ w \in Made /\ w \notin Gone /\ w \notin Dying
           /\ widget[w] \in {"none", "up", "gone"}
           /\ object[w] \in {"none", "alive", "deleted"}
BY DEF W!Bounds, Orderly, Types, Life, W!LiveIsUsable, W!Window, Made, Gone, Dying

\* EmitToJS keeps the outboxes typed and posts nothing but flushes.
LEMMA EmitPosts ==
    ASSUME W!Bounds, Types, NEW ws \in SUBSET W!Window, NEW rest \in Seq(W!Callback),
           NEW D, DeletesFor(rest, D), W!EmitToJS(ws, rest)
    PROVE  /\ queued' \in [W!Window -> Nat]
           /\ outboxScheduled' \in [W!Window -> BOOLEAN]
           /\ posts' \in Seq(W!Callback)
           /\ DeletesFor(posts', D)
           /\ Len(rest) <= Len(posts')
<1> DEFINE q == W!FlushPosts(ws)
<1>1. q \in Seq(W!Callback) /\ \A k \in 1 .. Len(q) : q[k].do # "delete"
  BY FlushPostsTypes
<1>2. posts' = rest \o q
  BY DEF W!EmitToJS
<1> HIDE DEF q
<1>3. posts' \in Seq(W!Callback) /\ DeletesFor(posts', D)
  BY <1>1, <1>2, PostsNoDelete
<1>4. Len(posts') = Len(rest) + Len(q) /\ Len(rest) \in Nat /\ Len(q) \in Nat
  BY <1>1, <1>2
<1>5. queued' \in [W!Window -> Nat]
  BY DEF W!EmitToJS, Types
<1>6. outboxScheduled' \in [W!Window -> BOOLEAN]
  BY DEF W!EmitToJS, Types
<1> QED BY <1>3, <1>4, <1>5, <1>6

(***************************************************************************)
(* PDestroy, whatever it is called for.                                    *)
(***************************************************************************)
LEMMA PDestroyKeeps ==
    ASSUME W!Bounds, Orderly, NEW w \in W!Window, NEW why \in {"destroy", "allowed", "timeout"},
           W!PDestroy(w, why)
    PROVE  Orderly' /\ Len(posts) <= Len(posts')
<1>1. CASE widget[w] = "up"
  <2>1. /\ widget' = [widget EXCEPT ![w] = "gone"]
        /\ causeOf' = [causeOf EXCEPT ![w] = why]
        /\ live' = live \ {w}
        /\ toSdk' = Append(toSdk, <<"closed", w>>)
        /\ W!EmitToJS({w}, Append(posts, W!DeletePost(w)))
        /\ UNCHANGED <<created, object, faults>>
    BY <1>1 DEF W!PDestroy
  <2>2. /\ Types /\ Life /\ W!LiveIsUsable /\ W!NoUseAfterDelete
        /\ DeletesFor(posts, Dying) /\ LinesFor(toSdk, Made, Gone)
    BY DEF Orderly
  <2>3. w \in Made /\ w \notin Gone /\ w \notin Dying
    BY <1>1 DEF Made, Gone, Dying
  <2>4. Made' = Made /\ Gone' = Gone \cup {w} /\ Dying' = Dying \cup {w}
    BY <1>1, <2>1, <2>2 DEF Types, Life, Made, Gone, Dying
  <2>5. /\ Append(posts, W!DeletePost(w)) \in Seq(W!Callback)
        /\ DeletesFor(Append(posts, W!DeletePost(w)), Dying')
    BY <2>2, <2>3, <2>4, PostsDelete DEF Types
  <2>6. /\ queued' \in [W!Window -> Nat] /\ outboxScheduled' \in [W!Window -> BOOLEAN]
        /\ posts' \in Seq(W!Callback) /\ DeletesFor(posts', Dying')
        /\ Len(Append(posts, W!DeletePost(w))) <= Len(posts')
    BY <2>1, <2>2, <2>5, EmitPosts
  <2>7. Len(posts) <= Len(posts')
    <3>1. Len(Append(posts, W!DeletePost(w))) = Len(posts) + 1 /\ Len(posts) \in Nat
      BY <2>2 DEF Types
    <3>2. Len(posts') \in Nat
      BY <2>6
    <3> QED BY <2>6, <3>1, <3>2
  <2>8. toSdk' \in Seq(W!Line) /\ LinesFor(toSdk', Made', Gone')
    <3>1. toSdk \in Seq(W!Line)
      BY <2>2 DEF Types
    <3>2. "closed" \in {"event", "closed"}
      OBVIOUS
    <3>3. /\ Append(toSdk, <<"closed", w>>) \in Seq(W!Line)
          /\ LinesFor(Append(toSdk, <<"closed", w>>), Made,
                      IF "closed" = "closed" THEN Gone \cup {w} ELSE Gone)
      BY <2>2, <2>3, <3>1, <3>2, LaterLine
    <3> QED BY <2>1, <2>4, <3>3
  <2>9. Types'
    BY <2>1, <2>2, <2>6, <2>8 DEF Types
  <2>10. Life'
    BY <1>1, <2>1, <2>2 DEF Types, Life
  <2>11. W!LiveIsUsable'
    BY <1>1, <2>1, <2>2 DEF Types, W!LiveIsUsable
  <2>12. W!NoUseAfterDelete'
    BY <2>1, <2>2 DEF W!NoUseAfterDelete
  <2> QED BY <2>6, <2>7, <2>8, <2>9, <2>10, <2>11, <2>12 DEF Orderly
<1>2. CASE widget[w] # "up"
  <2>1. /\ faults' = faults \cup {"destroyTwice"}
        /\ UNCHANGED <<W!windowVars, toSdk, W!outboxVars, posts>>
    BY <1>2 DEF W!PDestroy
  <2>2. UNCHANGED <<created, live, widget, object, causeOf, toSdk, queued, outboxScheduled, posts>>
    BY <2>1 DEF W!windowVars, W!outboxVars
  <2>3. Made' = Made /\ Gone' = Gone /\ Dying' = Dying
    BY <2>2 DEF Made, Gone, Dying
  <2>4. Len(posts) \in Nat
    BY DEF Orderly, Types
  <2>5. Types' /\ W!NoUseAfterDelete'
    BY <2>1, <2>2 DEF Orderly, Types, W!NoUseAfterDelete, W!Fault
  <2>6. Life' /\ W!LiveIsUsable'
    BY <2>2 DEF Orderly, Life, W!LiveIsUsable
  <2> QED BY <2>2, <2>3, <2>4, <2>5, <2>6 DEF Orderly
<1> QED BY <1>1, <1>2

\* Steps that leave the windows alone.
LEMMA SameWindows ==
    ASSUME Orderly, UNCHANGED <<created, live, widget, object>>
    PROVE  Made' = Made /\ Gone' = Gone /\ Dying' = Dying /\ Life' /\ W!LiveIsUsable'
BY DEF Orderly, Made, Gone, Dying, Life, W!LiveIsUsable

LEMMA InitIInv == ASSUME W!Bounds, W!Init PROVE IInv
<1>1. Types
  <2>1. <<>> \in Seq(W!Callback) /\ <<>> \in Seq(W!Line)
    OBVIOUS
  <2>2. 0 \in 0 .. MaxWindows
    BY DEF W!Bounds
  <2> QED BY <2>1, <2>2 DEF W!Init, Types
<1>2. CloseTypes
  <2>1. <<>> \in Seq(W!Window)
    OBVIOUS
  <2>2. 0 \in 0 .. CloseRequests
    BY DEF W!Bounds
  <2> QED BY <2>1, <2>2 DEF W!Init, CloseTypes
<1>3. Life /\ W!LiveIsUsable
  BY DEF W!Init, Life, W!LiveIsUsable, W!Window, W!Bounds
<1>4. Made = {} /\ Gone = {} /\ Dying = {}
  BY DEF W!Init, Made, Gone, Dying
<1>5. Len(posts) = 0 /\ Len(toSdk) = 0
  BY DEF W!Init
<1>6. DeletesFor(posts, Dying)
  BY <1>4, <1>5 DEF DeletesFor
<1>7. LinesFor(toSdk, Made, Gone)
  BY <1>4, <1>5 DEF LinesFor
<1>8. W!NoUseAfterDelete
  BY DEF W!Init, W!NoUseAfterDelete
<1>9. batch \in 0 .. Len(posts) /\ events \in 0 .. MaxEvents
  BY <1>5 DEF W!Init, W!Bounds
<1> QED BY <1>1, <1>2, <1>3, <1>6, <1>7, <1>8, <1>9 DEF IInv, Orderly

\* A step that changes neither the windows nor the close requests, and posts
\* no deletion.
LEMMA QuietStep ==
    ASSUME W!Bounds, IInv, UNCHANGED W!windowVars, UNCHANGED W!closeVars, UNCHANGED toSdk,
           NEW D, D = Dying, posts' \in Seq(W!Callback), DeletesFor(posts', D),
           queued' \in [W!Window -> Nat], outboxScheduled' \in [W!Window -> BOOLEAN],
           faults' \in SUBSET W!Fault, "deletedObject" \notin faults'
    PROVE  Orderly' /\ CloseTypes'
<1>1. UNCHANGED <<created, live, widget, object, causeOf, toSdk, closeTimers,
                  seqOf, requestId, responded>>
  BY DEF W!windowVars, W!closeVars
<1>2. Orderly /\ CloseTypes
  BY DEF IInv
<1>3. Made' = Made /\ Gone' = Gone /\ Dying' = Dying /\ Life' /\ W!LiveIsUsable'
  BY <1>1, <1>2, SameWindows
<1>4. Types'
  BY <1>1, <1>2 DEF Orderly, Types
<1>5. CloseTypes'
  BY <1>1, <1>2 DEF CloseTypes
<1>6. LinesFor(toSdk', Made', Gone')
  BY <1>1, <1>2, <1>3 DEF Orderly
<1> QED BY <1>3, <1>4, <1>5, <1>6 DEF Orderly, W!NoUseAfterDelete

\* PDestroy, called by a handler of the main thread.
LEMMA DestroyStep ==
    ASSUME W!Bounds, IInv, NEW w \in W!Window, NEW why \in {"destroy", "allowed", "timeout"},
           W!PDestroy(w, why), CloseTypes', UNCHANGED <<batch, events>>
    PROVE  IInv'
<1>1. Orderly' /\ Len(posts) <= Len(posts')
  BY PDestroyKeeps DEF IInv
<1>2. Len(posts) \in Nat /\ Len(posts') \in Nat
  BY <1>1 DEF IInv, Orderly, Types
<1> QED BY <1>1, <1>2 DEF IInv

LEMMA WindowCreateKeeps == ASSUME W!Bounds, IInv, W!WindowCreate PROVE IInv'
<1> DEFINE w == created + 1
<1>0. /\ Types /\ Life /\ W!LiveIsUsable /\ W!NoUseAfterDelete
      /\ DeletesFor(posts, Dying) /\ LinesFor(toSdk, Made, Gone)
  BY DEF IInv, Orderly
<1>1. /\ created < MaxWindows /\ created' = w
      /\ live' = live \cup {w}
      /\ widget' = [widget EXCEPT ![w] = "up"]
      /\ object' = [object EXCEPT ![w] = "alive"]
      /\ toSdk' = Append(toSdk, <<"created", w>>)
      /\ UNCHANGED <<causeOf, closeTimers, seqOf, requestId, responded,
                     queued, outboxScheduled, posts, batch, events, faults>>
  BY DEF W!WindowCreate, W!closeVars, W!outboxVars, W!loopVars
<1>2. w \in W!Window /\ w \in 0 .. MaxWindows /\ w > created /\ created \in Nat
  BY <1>0, <1>1 DEF Types, W!Bounds, W!Window
<1>3. widget[w] = "none" /\ object[w] = "none"
  BY <1>0, <1>2 DEF Life
<1>4. w \notin Made /\ w \notin Gone /\ w \notin Dying
  BY <1>3 DEF Made, Gone, Dying
<1> HIDE DEF w
<1>5. Made' = Made \cup {w} /\ Gone' = Gone /\ Dying' = Dying
  BY <1>0, <1>1, <1>2, <1>3 DEF Types, Made, Gone, Dying
<1>6. toSdk' \in Seq(W!Line) /\ LinesFor(toSdk', Made', Gone')
  <2>1. toSdk \in Seq(W!Line)
    BY <1>0 DEF Types
  <2> QED BY <1>0, <1>1, <1>2, <1>4, <1>5, <2>1, CreatedLine
<1>7. Types'
  BY <1>0, <1>1, <1>2, <1>6 DEF Types
<1>8. Life'
  <2>1. \A v \in W!Window : v > created' <=> v > created /\ v # w
    BY <1>0, <1>1, <1>2 DEF w, W!Window, W!Bounds
  <2> QED BY <1>0, <1>1, <1>2, <1>3, <2>1 DEF Types, Life
<1>9. W!LiveIsUsable'
  BY <1>0, <1>1, <1>2, <1>3 DEF Types, W!LiveIsUsable
<1>10. CloseTypes'
  BY <1>1 DEF IInv, CloseTypes
<1> QED BY <1>0, <1>1, <1>5, <1>6, <1>7, <1>8, <1>9, <1>10
        DEF IInv, Orderly, W!NoUseAfterDelete

LEMMA WindowDestroyKeeps ==
    ASSUME W!Bounds, IInv, NEW w \in W!Window, W!WindowDestroy(w) PROVE IInv'
<1>1. W!PDestroy(w, "destroy") /\ UNCHANGED <<W!closeVars, batch, events>>
  BY DEF W!WindowDestroy
<1>2. CloseTypes'
  BY <1>1 DEF IInv, CloseTypes, W!closeVars
<1> QED BY <1>1, <1>2, DestroyStep

LEMMA RespondKeeps ==
    ASSUME W!Bounds, IInv, NEW w \in W!Window, NEW allow \in BOOLEAN,
           W!RespondCloseRequest(w, allow)
    PROVE  IInv'
<1>1. /\ responded' = [responded EXCEPT ![w] = TRUE]
      /\ requestId' = [requestId EXCEPT ![w] = 0]
      /\ UNCHANGED <<seqOf, closeTimers, batch, events>>
      /\ allow => W!PDestroy(w, "allowed")
      /\ ~allow => UNCHANGED <<W!windowVars, toSdk, W!outboxVars, posts, faults>>
  BY DEF W!RespondCloseRequest
<1>2. CloseTypes'
  <2>1. 0 \in 0 .. CloseRequests
    BY DEF W!Bounds
  <2> QED BY <1>1, <2>1 DEF IInv, CloseTypes
<1>3. CASE allow
  BY <1>1, <1>2, <1>3, DestroyStep
<1>4. CASE ~allow
  <2>1. UNCHANGED <<created, live, widget, object, causeOf, toSdk, queued,
                    outboxScheduled, posts, faults>>
    BY <1>1, <1>4 DEF W!windowVars, W!outboxVars
  <2>2. Orderly
    BY DEF IInv
  <2>3. Made' = Made /\ Gone' = Gone /\ Dying' = Dying /\ Life' /\ W!LiveIsUsable'
    BY <2>1, <2>2, SameWindows
  <2>4. Types' /\ W!NoUseAfterDelete'
    BY <2>1, <2>2 DEF Orderly, Types, W!NoUseAfterDelete
  <2>5. Orderly'
    BY <2>1, <2>2, <2>3, <2>4 DEF Orderly
  <2> QED BY <1>1, <1>2, <2>1, <2>5 DEF IInv
<1> QED BY <1>3, <1>4

LEMMA BeginCloseKeeps ==
    ASSUME W!Bounds, IInv, NEW w \in W!Window, W!BeginCloseFlow(w) PROVE IInv'
<1>0. Orderly /\ Types /\ DeletesFor(posts, Dying)
  BY DEF IInv, Orderly
<1>1. /\ seqOf[w] < CloseRequests
      /\ seqOf' = [seqOf EXCEPT ![w] = @ + 1]
      /\ requestId' = [requestId EXCEPT ![w] = seqOf'[w]]
      /\ responded' = [responded EXCEPT ![w] = FALSE]
      /\ closeTimers' = Append(closeTimers, w)
      /\ W!EmitToJS({w}, posts)
      /\ UNCHANGED <<created, live, widget, object, causeOf, batch, toSdk, events, faults>>
  BY DEF W!BeginCloseFlow, W!windowVars
<1>2. posts \in Seq(W!Callback) /\ {w} \in SUBSET W!Window
  BY <1>0 DEF Types
<1>3. /\ queued' \in [W!Window -> Nat] /\ outboxScheduled' \in [W!Window -> BOOLEAN]
      /\ posts' \in Seq(W!Callback) /\ DeletesFor(posts', Dying) /\ Len(posts) <= Len(posts')
  BY <1>0, <1>1, <1>2, EmitPosts
<1>4. CloseTypes'
  <2>1. CloseTypes
    BY DEF IInv
  <2>2. seqOf[w] + 1 \in 0 .. CloseRequests
    BY <1>1, <2>1 DEF CloseTypes, W!Bounds
  <2>3. seqOf' \in [W!Window -> 0 .. CloseRequests] /\ seqOf'[w] \in 0 .. CloseRequests
    BY <1>1, <2>1, <2>2 DEF CloseTypes
  <2>4. Append(closeTimers, w) \in Seq(W!Window)
    BY <2>1 DEF CloseTypes
  <2> QED BY <1>1, <2>1, <2>3, <2>4 DEF CloseTypes
<1>5. Made' = Made /\ Gone' = Gone /\ Dying' = Dying /\ Life' /\ W!LiveIsUsable'
  BY <1>0, <1>1, SameWindows
<1>6. Types'
  BY <1>0, <1>1, <1>3 DEF Types
<1>7. Orderly'
  BY <1>0, <1>1, <1>3, <1>5, <1>6 DEF Orderly, W!NoUseAfterDelete
<1>8. batch' \in 0 .. Len(posts')
  BY <1>1, <1>2, <1>3 DEF IInv
<1> QED BY <1>1, <1>4, <1>7, <1>8 DEF IInv

LEMMA CloseTimerKeeps == ASSUME W!Bounds, IInv, W!CloseTimerFired PROVE IInv'
<1> DEFINE w == Head(closeTimers)
<1>1. /\ closeTimers # <<>> /\ closeTimers' = Tail(closeTimers)
      /\ UNCHANGED <<seqOf, requestId, responded, batch, events>>
      /\ \/ W!PDestroy(w, "timeout")
         \/ UNCHANGED <<W!windowVars, toSdk, W!outboxVars, posts, faults>>
  BY DEF W!CloseTimerFired
<1>2. closeTimers \in Seq(W!Window)
  BY DEF IInv, CloseTypes
<1>3. w \in W!Window /\ Tail(closeTimers) \in Seq(W!Window)
  BY <1>1, <1>2
<1>4. CloseTypes'
  BY <1>1, <1>3 DEF IInv, CloseTypes
<1> HIDE DEF w
<1>5. CASE W!PDestroy(w, "timeout")
  BY <1>1, <1>3, <1>4, <1>5, DestroyStep
<1>6. CASE UNCHANGED <<W!windowVars, toSdk, W!outboxVars, posts, faults>>
  <2>1. UNCHANGED <<created, live, widget, object, causeOf, toSdk, queued,
                    outboxScheduled, posts, faults>>
    BY <1>6 DEF W!windowVars, W!outboxVars
  <2>2. Orderly
    BY DEF IInv
  <2>3. Made' = Made /\ Gone' = Gone /\ Dying' = Dying /\ Life' /\ W!LiveIsUsable'
    BY <2>1, <2>2, SameWindows
  <2>4. Types' /\ W!NoUseAfterDelete'
    BY <2>1, <2>2 DEF Orderly, Types, W!NoUseAfterDelete
  <2>5. Orderly'
    BY <2>1, <2>2, <2>3, <2>4 DEF Orderly
  <2> QED BY <1>1, <1>4, <2>1, <2>5 DEF IInv
<1> QED BY <1>1, <1>5, <1>6

LEMMA CountsEvent ==
    ASSUME W!Bounds, IInv, W!CountEvent PROVE events' \in 0 .. MaxEvents
BY DEF IInv, W!Bounds, W!CountEvent

\* A line about a window that is up is an event of its.
LEMMA EventLine ==
    ASSUME W!Bounds, Orderly, NEW w \in W!Window, widget[w] = "up",
           toSdk' = Append(toSdk, <<"event", w>>)
    PROVE  toSdk' \in Seq(W!Line) /\ LinesFor(toSdk', Made, Gone)
<1>1. w \in Made /\ w \notin Gone /\ toSdk \in Seq(W!Line)
  BY DEF Orderly, Types, Made, Gone
<1>2. "event" \in {"event", "closed"} /\ "event" # "closed"
  OBVIOUS
<1>3. /\ Append(toSdk, <<"event", w>>) \in Seq(W!Line)
      /\ LinesFor(Append(toSdk, <<"event", w>>), Made,
                  IF "event" = "closed" THEN Gone \cup {w} ELSE Gone)
  BY <1>1, <1>2, LaterLine DEF Orderly
<1> QED BY <1>2, <1>3

LEMMA PlatformEventKeeps ==
    ASSUME W!Bounds, IInv, NEW w \in W!Window, W!EmitPlatformEvent(w) PROVE IInv'
<1>0. Orderly /\ Types /\ DeletesFor(posts, Dying)
  BY DEF IInv, Orderly
<1>1. /\ widget[w] = "up"
      /\ W!CountEvent
      /\ toSdk' = Append(toSdk, <<"event", w>>)
      /\ W!EmitToJS({w}, posts)
      /\ faults' = IF object[w] = "alive" THEN faults ELSE faults \cup {"deletedObject"}
      /\ UNCHANGED <<created, live, widget, object, causeOf, closeTimers,
                     seqOf, requestId, responded, batch>>
  BY DEF W!EmitPlatformEvent, W!windowVars, W!closeVars
<1>2. faults' = faults
  BY <1>0, <1>1 DEF Orderly, Life
<1>3. posts \in Seq(W!Callback) /\ {w} \in SUBSET W!Window
  BY <1>0 DEF Types
<1>4. /\ queued' \in [W!Window -> Nat] /\ outboxScheduled' \in [W!Window -> BOOLEAN]
      /\ posts' \in Seq(W!Callback) /\ DeletesFor(posts', Dying) /\ Len(posts) <= Len(posts')
  BY <1>0, <1>1, <1>3, EmitPosts
<1>5. toSdk' \in Seq(W!Line) /\ LinesFor(toSdk', Made, Gone)
  BY <1>0, <1>1, EventLine
<1>6. Made' = Made /\ Gone' = Gone /\ Dying' = Dying /\ Life' /\ W!LiveIsUsable'
  BY <1>0, <1>1, SameWindows
<1>7. Types'
  BY <1>0, <1>1, <1>2, <1>4, <1>5 DEF Types
<1>8. Orderly'
  BY <1>0, <1>2, <1>4, <1>5, <1>6, <1>7 DEF Orderly, W!NoUseAfterDelete
<1>9. batch' \in 0 .. Len(posts')
  BY <1>1, <1>3, <1>4 DEF IInv
<1>10. CloseTypes'
  BY <1>1 DEF IInv, CloseTypes
<1> QED BY <1>1, <1>8, <1>9, <1>10, CountsEvent DEF IInv

LEMMA EmitToKeeps ==
    ASSUME W!Bounds, IInv, NEW from \in W!Window, NEW to \in W!Window, W!EmitTo(from, to)
    PROVE  IInv'
<1>0. Orderly /\ Types /\ DeletesFor(posts, Dying)
  BY DEF IInv, Orderly
<1>1. /\ W!CountEvent
      /\ W!EmitToJS({to} \cap live, posts)
      /\ UNCHANGED <<W!windowVars, W!closeVars, batch, toSdk, faults>>
  BY DEF W!EmitTo
<1>2. posts \in Seq(W!Callback) /\ {to} \cap live \in SUBSET W!Window
  BY <1>0 DEF Types
<1>3. /\ queued' \in [W!Window -> Nat] /\ outboxScheduled' \in [W!Window -> BOOLEAN]
      /\ posts' \in Seq(W!Callback) /\ DeletesFor(posts', Dying) /\ Len(posts) <= Len(posts')
  BY <1>0, <1>1, <1>2, EmitPosts
<1>4. faults' \in SUBSET W!Fault /\ "deletedObject" \notin faults'
  BY <1>0, <1>1 DEF Orderly, Types, W!NoUseAfterDelete
<1>5. Orderly' /\ CloseTypes'
  BY <1>1, <1>3, <1>4, QuietStep
<1>6. batch' \in 0 .. Len(posts')
  BY <1>1, <1>2, <1>3 DEF IInv
<1> QED BY <1>1, <1>5, <1>6, CountsEvent DEF IInv

LEMMA PageEventKeeps ==
    ASSUME W!Bounds, NoPageCloses, IInv, NEW w \in W!Window, NEW name \in PageEvents,
           W!PageEvent(w, name)
    PROVE  IInv'
<1>0. Orderly /\ Types /\ DeletesFor(posts, Dying)
  BY DEF IInv, Orderly
<1>1. name # "closed"
  BY DEF NoPageCloses
<1>2. /\ widget[w] = "up"
      /\ W!CountEvent
      /\ toSdk' = IF name = "forwarded" THEN Append(toSdk, <<"event", w>>) ELSE toSdk
      /\ UNCHANGED <<created, live, widget, object, causeOf, closeTimers, posts,
                     seqOf, requestId, responded,
                     queued, outboxScheduled, batch, faults>>
  BY <1>1 DEF W!PageEvent, W!closeVars, W!outboxVars
<1>3. toSdk' \in Seq(W!Line) /\ LinesFor(toSdk', Made, Gone)
  <2>1. CASE name = "forwarded"
    BY <1>0, <1>2, <2>1, EventLine
  <2>2. CASE name # "forwarded"
    BY <1>0, <1>2, <2>2 DEF Orderly, Types
  <2> QED BY <2>1, <2>2
<1>4. Made' = Made /\ Gone' = Gone /\ Dying' = Dying /\ Life' /\ W!LiveIsUsable'
  BY <1>0, <1>2, SameWindows
<1>5. Types'
  BY <1>0, <1>2, <1>3 DEF Types
<1>6. Orderly'
  BY <1>0, <1>2, <1>3, <1>4, <1>5 DEF Orderly, W!NoUseAfterDelete
<1>7. CloseTypes'
  BY <1>2 DEF IInv, CloseTypes
<1> QED BY <1>2, <1>6, <1>7, CountsEvent DEF IInv

LEMMA HostEmitKeeps ==
    ASSUME W!Bounds, IInv, NEW win \in W!Window \cup {0}, W!HostEmitEvent(win) PROVE IInv'
<1> DEFINE c == [do |-> "emit", win |-> win]
<1>0. Orderly /\ Types /\ DeletesFor(posts, Dying)
  BY DEF IInv, Orderly
<1>1. /\ W!CountEvent
      /\ posts' = Append(posts, c)
      /\ UNCHANGED <<W!windowVars, W!closeVars, W!outboxVars, batch, toSdk, faults>>
  BY DEF W!HostEmitEvent
<1>2. c \in W!Callback /\ c.do # "delete"
  BY DEF W!Callback
<1> HIDE DEF c
<1>3. posts \in Seq(W!Callback)
  BY <1>0 DEF Types
<1>4. posts' \in Seq(W!Callback) /\ DeletesFor(posts', Dying)
  BY <1>0, <1>1, <1>2, <1>3, PostsOneNoDelete
<1>5. /\ queued' \in [W!Window -> Nat] /\ outboxScheduled' \in [W!Window -> BOOLEAN]
      /\ faults' \in SUBSET W!Fault /\ "deletedObject" \notin faults'
  BY <1>0, <1>1 DEF Orderly, Types, W!NoUseAfterDelete, W!outboxVars
<1>6. Orderly' /\ CloseTypes'
  BY <1>1, <1>4, <1>5, QuietStep
<1>7. Len(posts') = Len(posts) + 1 /\ Len(posts) \in Nat
  BY <1>1, <1>2, <1>3
<1>8. batch' \in 0 .. Len(posts')
  BY <1>1, <1>7 DEF IInv
<1> QED BY <1>1, <1>6, <1>8, CountsEvent DEF IInv

LEMMA OnIdleKeeps == ASSUME W!Bounds, IInv, W!OnIdle PROVE IInv'
<1>0. Orderly /\ Types /\ DeletesFor(posts, Dying)
  BY DEF IInv, Orderly
<1>1. /\ batch' = Len(posts)
      /\ UNCHANGED <<W!windowVars, W!closeVars, W!outboxVars, posts, toSdk, events, faults>>
  BY DEF W!OnIdle
<1>2. /\ queued' \in [W!Window -> Nat] /\ outboxScheduled' \in [W!Window -> BOOLEAN]
      /\ posts' \in Seq(W!Callback) /\ DeletesFor(posts', Dying)
      /\ faults' \in SUBSET W!Fault /\ "deletedObject" \notin faults'
  BY <1>0, <1>1 DEF Orderly, Types, W!NoUseAfterDelete, W!outboxVars
<1>3. Orderly' /\ CloseTypes'
  BY <1>1, <1>2, QuietStep
<1>4. batch' \in 0 .. Len(posts')
  BY <1>1, <1>2
<1> QED BY <1>1, <1>3, <1>4 DEF IInv

\* What the next callback of a batch is.
LEMMA NextPost ==
    ASSUME W!Bounds, IInv, NEW do, W!NextPostIs(do)
    PROVE  /\ posts # <<>> /\ posts \in Seq(W!Callback) /\ Head(posts) \in W!Callback
           /\ Tail(posts) \in Seq(W!Callback)
           /\ Head(posts).do = do
           /\ batch' \in 0 .. Len(Tail(posts))
<1>1. posts \in Seq(W!Callback) /\ batch \in 0 .. Len(posts)
  BY DEF IInv, Orderly, Types
<1>2. batch > 0 /\ Head(posts).do = do /\ batch' = batch - 1
  BY DEF W!NextPostIs
<1>3. Len(posts) \in Nat /\ Len(posts) > 0
  BY <1>1, <1>2
<1>4. posts # <<>>
  BY <1>3
<1>5. /\ Head(posts) \in W!Callback /\ Tail(posts) \in Seq(W!Callback)
      /\ Len(Tail(posts)) = Len(posts) - 1
  BY <1>1, <1>4
<1> QED BY <1>1, <1>2, <1>3, <1>4, <1>5

LEMMA RunFlushKeeps == ASSUME W!Bounds, IInv, W!RunFlush PROVE IInv'
<1> DEFINE w == Head(posts).win
<1>0. Orderly /\ Types /\ DeletesFor(posts, Dying)
  BY DEF IInv, Orderly
<1>1. /\ W!NextPostIs("flush")
      /\ posts' = Tail(posts)
      /\ IF object[w] = "alive"
         THEN /\ queued' = [queued EXCEPT ![w] = 0]
              /\ outboxScheduled' = [outboxScheduled EXCEPT ![w] = FALSE]
              /\ faults' = IF widget[w] = "gone" /\ queued[w] > 0
                           THEN faults \cup {"evalOnDeadView"} ELSE faults
         ELSE UNCHANGED <<W!outboxVars, faults>>
      /\ UNCHANGED <<W!windowVars, W!closeVars, toSdk, events>>
  BY DEF W!RunFlush
<1>2. /\ posts # <<>> /\ posts \in Seq(W!Callback) /\ Head(posts) \in W!Callback
      /\ Head(posts).do = "flush" /\ batch' \in 0 .. Len(Tail(posts))
  BY <1>1, NextPost
<1>3. w \in W!Window
  BY <1>2 DEF W!Callback
<1> HIDE DEF w
<1>4. posts' \in Seq(W!Callback) /\ DeletesFor(posts', Dying)
  BY <1>0, <1>1, <1>2, RunsFirst
<1>5. queued' \in [W!Window -> Nat] /\ outboxScheduled' \in [W!Window -> BOOLEAN]
  <2>1. queued \in [W!Window -> Nat] /\ outboxScheduled \in [W!Window -> BOOLEAN]
    BY <1>0 DEF Types
  <2>2. CASE object[w] = "alive"
    <3>1. queued' \in [W!Window -> Nat]
      BY <1>1, <1>3, <2>1, <2>2
    <3>2. outboxScheduled' \in [W!Window -> BOOLEAN]
      BY <1>1, <1>3, <2>1, <2>2
    <3> QED BY <3>1, <3>2
  <2>3. CASE object[w] # "alive"
    BY <1>1, <2>1, <2>3 DEF W!outboxVars
  <2> QED BY <2>2, <2>3
<1>6. faults' \in SUBSET W!Fault /\ "deletedObject" \notin faults'
  <2>1. faults \in SUBSET W!Fault /\ "deletedObject" \notin faults
    BY <1>0 DEF Orderly, Types, W!NoUseAfterDelete
  <2>2. faults' \subseteq faults \cup {"evalOnDeadView"}
    BY <1>1
  <2>3. "evalOnDeadView" \in W!Fault /\ "evalOnDeadView" # "deletedObject"
    BY DEF W!Fault
  <2> QED BY <2>1, <2>2, <2>3
<1>7. Orderly' /\ CloseTypes'
  BY <1>1, <1>4, <1>5, <1>6, QuietStep
<1> QED BY <1>1, <1>2, <1>7 DEF IInv

LEMMA RunDeleteKeeps == ASSUME W!Bounds, IInv, W!RunDelete PROVE IInv'
<1> DEFINE w == Head(posts).win
<1>0. Orderly /\ Types /\ DeletesFor(posts, Dying)
  BY DEF IInv, Orderly
<1>1. /\ W!NextPostIs("delete")
      /\ posts' = Tail(posts)
      /\ object' = [object EXCEPT ![w] = "deleted"]
      /\ UNCHANGED <<created, live, widget, causeOf, queued, outboxScheduled, toSdk, events,
                     faults, closeTimers, seqOf, requestId, responded>>
  BY DEF W!RunDelete, W!closeVars, W!outboxVars
<1>2. /\ posts # <<>> /\ posts \in Seq(W!Callback) /\ Head(posts) \in W!Callback
      /\ Head(posts).do = "delete" /\ batch' \in 0 .. Len(Tail(posts))
  BY <1>1, NextPost
<1>3. /\ posts' \in Seq(W!Callback)
      /\ w \in Dying /\ DeletesFor(posts', Dying \ {w})
  BY <1>0, <1>1, <1>2, RunsFirst
<1> HIDE DEF w
<1>4. w \in W!Window /\ widget[w] = "gone" /\ object[w] = "alive"
  BY <1>3 DEF Dying
<1>5. Made' = Made /\ Gone' = Gone /\ Dying' = Dying \ {w}
  BY <1>0, <1>1, <1>4 DEF Types, Made, Gone, Dying
<1>6. Types'
  BY <1>0, <1>1, <1>3 DEF Types
<1>7. Life' /\ W!LiveIsUsable'
  BY <1>0, <1>1, <1>4 DEF Orderly, Types, Life, W!LiveIsUsable
<1>8. Orderly'
  BY <1>0, <1>1, <1>3, <1>5, <1>6, <1>7 DEF Orderly, W!NoUseAfterDelete
<1>9. CloseTypes'
  BY <1>1 DEF IInv, CloseTypes
<1> QED BY <1>1, <1>2, <1>8, <1>9 DEF IInv

LEMMA RunEmitKeeps == ASSUME W!Bounds, IInv, W!RunEmit PROVE IInv'
<1> DEFINE w == Head(posts).win
           ws == IF w = 0 THEN live ELSE {w} \cap live
<1>0. Orderly /\ Types /\ DeletesFor(posts, Dying)
  BY DEF IInv, Orderly
<1>1. /\ W!NextPostIs("emit")
      /\ W!EmitToJS(ws, Tail(posts))
      /\ UNCHANGED <<W!windowVars, W!closeVars, toSdk, events, faults>>
  BY DEF W!RunEmit
<1>2. /\ posts # <<>> /\ posts \in Seq(W!Callback) /\ Head(posts) \in W!Callback
      /\ Head(posts).do = "emit" /\ batch' \in 0 .. Len(Tail(posts))
  BY <1>1, NextPost
<1>3. Tail(posts) \in Seq(W!Callback) /\ DeletesFor(Tail(posts), Dying)
  BY <1>0, <1>2, RunsFirst
<1>4. ws \in SUBSET W!Window
  BY <1>0 DEF Types
<1> HIDE DEF ws
<1>5. /\ queued' \in [W!Window -> Nat] /\ outboxScheduled' \in [W!Window -> BOOLEAN]
      /\ posts' \in Seq(W!Callback) /\ DeletesFor(posts', Dying)
      /\ Len(Tail(posts)) <= Len(posts')
  BY <1>0, <1>1, <1>3, <1>4, EmitPosts
<1>6. faults' \in SUBSET W!Fault /\ "deletedObject" \notin faults'
  BY <1>0, <1>1 DEF Orderly, Types, W!NoUseAfterDelete
<1>7. Orderly' /\ CloseTypes'
  BY <1>1, <1>5, <1>6, QuietStep
<1>8. Len(Tail(posts)) \in Nat /\ Len(posts') \in Nat
  <2>1. Len(Tail(posts)) \in Nat
    BY <1>3
  <2>2. Len(posts') \in Nat
    BY <1>5
  <2> QED BY <2>1, <2>2
<1>9. batch' \in 0 .. Len(posts')
  BY <1>2, <1>5, <1>8
<1> QED BY <1>1, <1>7, <1>9 DEF IInv

LEMMA StutterKeeps == ASSUME IInv, UNCHANGED W!vars PROVE IInv'
<1>1. UNCHANGED <<created, live, widget, object, causeOf, closeTimers, seqOf,
                  requestId, responded, queued, outboxScheduled,
                  posts, batch, toSdk, events, faults>>
  BY DEF W!vars, W!windowVars, W!closeVars, W!outboxVars, W!loopVars
<1>2. Orderly
  BY DEF IInv
<1>3. Made' = Made /\ Gone' = Gone /\ Dying' = Dying /\ Life' /\ W!LiveIsUsable'
  BY <1>1, <1>2, SameWindows
<1>4. Types' /\ W!NoUseAfterDelete' /\ CloseTypes'
  BY <1>1 DEF IInv, Orderly, Types, W!NoUseAfterDelete, CloseTypes
<1>5. Orderly'
  BY <1>1, <1>2, <1>3, <1>4 DEF Orderly
<1> QED BY <1>1, <1>4, <1>5 DEF IInv

LEMMA StepKeeps == ASSUME W!Bounds, NoPageCloses, IInv, [W!Next]_(W!vars) PROVE IInv'
<1>1. CASE W!WindowCreate
  BY <1>1, WindowCreateKeeps
<1>2. ASSUME NEW w \in W!Window, W!WindowDestroy(w) PROVE IInv'
  BY <1>2, WindowDestroyKeeps
<1>3. ASSUME NEW w \in W!Window, W!BeginCloseFlow(w) PROVE IInv'
  BY <1>3, BeginCloseKeeps
<1>4. ASSUME NEW w \in W!Window, W!EmitPlatformEvent(w) PROVE IInv'
  BY <1>4, PlatformEventKeeps
<1>5. ASSUME NEW w \in W!Window, W!HostEmitEvent(w) PROVE IInv'
  <2>1. w \in W!Window \cup {0}
    OBVIOUS
  <2> QED BY <1>5, <2>1, HostEmitKeeps
<1>6. ASSUME NEW w \in W!Window, NEW allow \in BOOLEAN, W!RespondCloseRequest(w, allow)
      PROVE  IInv'
  BY <1>6, RespondKeeps
<1>7. ASSUME NEW w \in W!Window, NEW to \in W!Window, W!EmitTo(w, to) PROVE IInv'
  BY <1>7, EmitToKeeps
<1>8. ASSUME NEW w \in W!Window, NEW name \in PageEvents, W!PageEvent(w, name) PROVE IInv'
  BY <1>8, PageEventKeeps
<1>9. CASE W!HostEmitEvent(0)
  <2>1. 0 \in W!Window \cup {0}
    OBVIOUS
  <2> QED BY <1>9, <2>1, HostEmitKeeps
<1>10. CASE W!CloseTimerFired
  BY <1>10, CloseTimerKeeps
<1>11. CASE W!OnIdle
  BY <1>11, OnIdleKeeps
<1>12. CASE W!RunFlush
  BY <1>12, RunFlushKeeps
<1>13. CASE W!RunDelete
  BY <1>13, RunDeleteKeeps
<1>14. CASE W!RunEmit
  BY <1>14, RunEmitKeeps
<1>15. CASE UNCHANGED W!vars
  BY <1>15, StutterKeeps
<1> QED BY <1>1, <1>2, <1>3, <1>4, <1>5, <1>6, <1>7, <1>8, <1>9, <1>10, <1>11, <1>12,
           <1>13, <1>14, <1>15 DEF W!Next

-----------------------------------------------------------------------------
LEMMA AlwaysIInv == ASSUME W!Bounds, NoPageCloses PROVE W!Spec => []IInv
<1>1. W!Init => IInv
  BY InitIInv
<1>2. IInv /\ [W!Next]_(W!vars) => IInv'
  BY StepKeeps
<1> QED BY <1>1, <1>2, PTL DEF W!Spec

(***************************************************************************)
(* Every variable of the windows module keeps to its type; in particular   *)
(* OnIdle never runs more callbacks than are posted.                       *)
(***************************************************************************)
THEOREM WindowsTypeCorrect == ASSUME W!Bounds, NoPageCloses PROVE W!Spec => []W!TypeOK
<1>1. IInv => W!TypeOK
  BY TypesSplit
<1> QED BY <1>1, AlwaysIInv, PTL

(***************************************************************************)
(* The raw pointers of LiveWindows are good: an entry is a window that is  *)
(* up and whose object exists, and every such window has its entry, so     *)
(* that no command, event or broadcast reaches a window through a dangling *)
(* pointer.                                                                *)
(***************************************************************************)
THEOREM LiveWindowsUsable == ASSUME W!Bounds, NoPageCloses PROVE W!Spec => []W!LiveIsUsable
<1>1. IInv => W!LiveIsUsable
  BY DEF IInv, Orderly
<1> QED BY <1>1, AlwaysIInv, PTL

(***************************************************************************)
(* No flush, close timer or event handler touches the object of a window   *)
(* after the deletion that PDestroy posted has run.                        *)
(***************************************************************************)
THEOREM NeverUsedAfterDelete ==
    ASSUME W!Bounds, NoPageCloses PROVE W!Spec => []NoUseAfterDelete
<1>1. IInv => NoUseAfterDelete
  BY DEF IInv, Orderly, NoUseAfterDelete
<1> QED BY <1>1, AlwaysIInv, PTL

(***************************************************************************)
(* The SDK is told of a window first that it was created, last that it is  *)
(* closed, and closed only once and when the window is out of LiveWindows. *)
(***************************************************************************)
THEOREM SdkSeesLifeInOrder ==
    ASSUME W!Bounds, NoPageCloses PROVE W!Spec => []SdkSeesOrderedLife
<1>1. IInv => SdkSeesOrderedLife
  <2> SUFFICES ASSUME IInv PROVE W!SdkSeesOrderedLife
    BY DEF SdkSeesOrderedLife
  <2>1. LinesFor(toSdk, Made, Gone) /\ W!LiveIsUsable
    BY DEF IInv, Orderly
  <2>2. \A w \in Gone : w \notin live
    BY <2>1 DEF Gone, W!LiveIsUsable
  <2> QED BY <2>1, <2>2 DEF LinesFor, W!SdkSeesOrderedLife
<1> QED BY <1>1, AlwaysIInv, PTL

(***************************************************************************)
(* The object of a destroyed window has exactly one deletion posted until  *)
(* it is deleted, and none before or after.                                *)
(***************************************************************************)
THEOREM ObjectsDeletedOnce ==
    ASSUME W!Bounds, NoPageCloses PROVE W!Spec => []W!DeletedExactlyOnce
<1>1. IInv => W!DeletedExactlyOnce
  <2> SUFFICES ASSUME IInv, NEW w \in W!Window
               PROVE  Cardinality(W!Posted("delete", w)) = IF w \in Dying THEN 1 ELSE 0
    BY SameCount DEF W!DeletedExactlyOnce, Dying
  <2>1. DeletesFor(posts, Dying)
    BY DEF IInv, Orderly
  <2>2. \A k \in W!Posted("delete", w) : posts[k].do = "delete" /\ posts[k].win = w
    BY DEF W!Posted
  <2>3. CASE w \in Dying
    <3>1. PICK k \in 1 .. Len(posts) : posts[k] = W!DeletePost(w)
      BY <2>1, <2>3 DEF DeletesFor
    <3>2. k \in W!Posted("delete", w)
      BY <3>1 DEF W!DeletePost, W!Posted
    <3>3. \A j \in W!Posted("delete", w) : j = k
      BY <2>1, <2>2, <3>2 DEF DeletesFor, W!Posted
    <3>4. W!Posted("delete", w) = {k}
      BY <3>2, <3>3
    <3> QED BY <2>3, <3>4, FS_Singleton
  <2>4. CASE w \notin Dying
    <3>1. W!Posted("delete", w) = {}
      BY <2>1, <2>2, <2>4 DEF DeletesFor, W!Posted
    <3> QED BY <2>4, <3>1, FS_EmptySet
  <2> QED BY <2>3, <2>4
<1> QED BY <1>1, AlwaysIInv, PTL

-----------------------------------------------------------------------------
(***************************************************************************)
(* The contract of closing, window by window.                              *)
(***************************************************************************)
ContractStep(w) == W!Contract(w)!Next \/ UNCHANGED W!Contract(w)!vars

\* A step that leaves what the contract is about alone.
LEMMA ContractStutters ==
    ASSUME NEW w \in W!Window, widget'[w] = "gone" <=> widget[w] = "gone",
           requestId'[w] = requestId[w],
           seqOf'[w] = seqOf[w], causeOf'[w] = causeOf[w]
    PROVE  ContractStep(w)
<1>1. W!Phase(w)' = W!Phase(w)
  BY DEF W!Phase
<1> QED BY <1>1 DEF ContractStep, W!Contract!vars

\* PDestroy destroys a window that is up for the reason given, and no other.
LEMMA PDestroyCause ==
    ASSUME W!Bounds, Orderly, NEW w \in W!Window, NEW why, W!PDestroy(w, why), NEW v \in W!Window
    PROVE  /\ v # w \/ widget[w] # "up" =>
                 (widget'[v] = "gone" <=> widget[v] = "gone") /\ causeOf'[v] = causeOf[v]
           /\ v = w /\ widget[w] = "up" => widget'[v] = "gone" /\ causeOf'[v] = why
<1>1. /\ widget \in [W!Window -> {"none", "up", "gone"}]
      /\ causeOf \in [W!Window -> {"none", "destroy", "allowed", "timeout"}]
  BY DEF Orderly, Types
<1>2. CASE widget[w] = "up"
  <2>1. widget' = [widget EXCEPT ![w] = "gone"] /\ causeOf' = [causeOf EXCEPT ![w] = why]
    BY <1>2 DEF W!PDestroy
  <2> QED BY <1>1, <1>2, <2>1
<1>3. CASE widget[w] # "up"
  <2>1. widget' = widget /\ causeOf' = causeOf
    BY <1>3 DEF W!PDestroy, W!windowVars
  <2> QED BY <1>3, <2>1
<1> QED BY <1>2, <1>3

LEMMA ContractKept ==
    ASSUME W!Bounds, NoPageCloses, IInv, W!Next, NEW v \in W!Window PROVE ContractStep(v)
<1>0. Orderly /\ Types /\ CloseTypes
  BY DEF IInv, Orderly
<1>1. CASE W!WindowCreate
  <2>1. /\ widget' = [widget EXCEPT ![created + 1] = "up"]
        /\ UNCHANGED <<causeOf, seqOf, requestId>>
    BY <1>1 DEF W!WindowCreate, W!closeVars
  <2>2. widget[created + 1] # "gone" \/ created + 1 \notin W!Window
    BY <1>0 DEF Orderly, Life, Types, W!Window, W!Bounds
  <2>3. widget'[v] = "gone" <=> widget[v] = "gone"
    BY <1>0, <2>1, <2>2 DEF Types
  <2> QED BY <2>1, <2>3, ContractStutters
<1>2. ASSUME NEW w \in W!Window, W!WindowDestroy(w) PROVE ContractStep(v)
  <2>1. W!PDestroy(w, "destroy") /\ UNCHANGED <<seqOf, requestId>> /\ w \in live
    BY <1>2 DEF W!WindowDestroy, W!closeVars
  <2>2. widget[w] = "up"
    BY <1>0, <2>1, LifeFacts
  <2>3. CASE v = w
    <3>1. widget'[v] = "gone" /\ causeOf'[v] = "destroy"
      BY <1>0, <2>1, <2>2, <2>3, PDestroyCause
    <3>2. W!Phase(v) # "gone" /\ W!Phase(v)' = "gone"
      BY <2>2, <2>3, <3>1 DEF W!Phase
    <3>3. W!Contract(v)!Destroy
      BY <2>1, <3>1, <3>2 DEF W!Contract!Destroy
    <3> QED BY <3>3 DEF ContractStep, W!Contract!Next
  <2>4. CASE v # w
    <3>1. (widget'[v] = "gone" <=> widget[v] = "gone") /\ causeOf'[v] = causeOf[v]
      BY <1>0, <2>1, <2>4, PDestroyCause
    <3> QED BY <2>1, <3>1, ContractStutters
  <2> QED BY <2>3, <2>4
<1>3. ASSUME NEW w \in W!Window, W!BeginCloseFlow(w) PROVE ContractStep(v)
  <2>1. /\ widget[w] = "up" /\ requestId[w] = 0 /\ seqOf[w] < CloseRequests
        /\ seqOf' = [seqOf EXCEPT ![w] = @ + 1]
        /\ requestId' = [requestId EXCEPT ![w] = seqOf'[w]]
        /\ UNCHANGED <<widget, causeOf>>
    BY <1>3 DEF W!BeginCloseFlow, W!windowVars
  <2>2. /\ seqOf \in [W!Window -> 0 .. CloseRequests]
        /\ requestId \in [W!Window -> 0 .. CloseRequests]
    BY <1>0 DEF CloseTypes
  <2>3. CASE v = w
    <3>1. /\ seqOf'[v] = seqOf[v] + 1 /\ seqOf[v] \in Nat
          /\ requestId'[v] = seqOf'[v]
      BY <2>1, <2>2, <2>3 DEF W!Bounds
    <3>2. W!Phase(v) = "open"
      BY <2>1, <2>3 DEF W!Phase
    <3>3. requestId'[v] # 0
      BY <3>1
    <3>4. W!Phase(v)' = "asking"
      BY <2>1, <2>3, <3>3 DEF W!Phase
    <3>5. W!Contract(v)!Ask
      BY <2>1, <2>3, <3>1, <3>2, <3>4 DEF W!Contract!Ask, W!Contract!Request
    <3> QED BY <3>5 DEF ContractStep, W!Contract!Next
  <2>4. CASE v # w
    BY <2>1, <2>2, <2>4, ContractStutters
  <2> QED BY <2>3, <2>4
<1>4. ASSUME NEW w \in W!Window, NEW allow \in BOOLEAN, W!RespondCloseRequest(w, allow)
      PROVE  ContractStep(v)
  <2>1. /\ w \in live /\ requestId[w] # 0
        /\ requestId' = [requestId EXCEPT ![w] = 0]
        /\ seqOf' = seqOf
        /\ allow => W!PDestroy(w, "allowed")
        /\ ~allow => widget' = widget /\ causeOf' = causeOf
    BY <1>4 DEF W!RespondCloseRequest, W!windowVars
  <2>2. widget[w] = "up"
    BY <1>0, <2>1, LifeFacts
  <2>3. requestId \in [W!Window -> 0 .. CloseRequests]
    BY <1>0 DEF CloseTypes
  <2>4. CASE v # w
    <3>1. (widget'[v] = "gone" <=> widget[v] = "gone") /\ causeOf'[v] = causeOf[v]
      BY <1>0, <2>1, <2>4, PDestroyCause
    <3> QED BY <2>1, <2>3, <2>4, <3>1, ContractStutters
  <2>5. CASE v = w /\ allow
    <3>1. widget'[v] = "gone" /\ causeOf'[v] = "allowed"
      BY <1>0, <2>1, <2>2, <2>5, PDestroyCause
    <3>2. W!Phase(v) = "asking" /\ W!Phase(v)' = "gone"
      BY <2>1, <2>2, <2>5, <3>1 DEF W!Phase
    <3>3. W!Contract(v)!Close("allowed")
      BY <2>1, <3>1, <3>2 DEF W!Contract!Close
    <3> QED BY <3>3 DEF ContractStep, W!Contract!Next, W!Contract!Decide
  <2>6. CASE v = w /\ ~allow
    <3>1. requestId'[v] = 0 /\ widget'[v] = "up" /\ causeOf'[v] = causeOf[v]
      BY <2>1, <2>2, <2>3, <2>6
    <3>2. W!Phase(v) = "asking" /\ W!Phase(v)' = "open"
      BY <2>1, <2>2, <2>6, <3>1 DEF W!Phase
    <3>3. W!Contract(v)!Deny
      BY <2>1, <3>1, <3>2 DEF W!Contract!Deny
    <3> QED BY <3>3 DEF ContractStep, W!Contract!Next, W!Contract!Decide
  <2> QED BY <2>4, <2>5, <2>6
<1>5. CASE W!CloseTimerFired
  <2> DEFINE w == Head(closeTimers)
  <2>1. /\ closeTimers # <<>> /\ UNCHANGED <<seqOf, requestId>>
        /\ \/ W!PDestroy(w, "timeout") /\ requestId[w] # 0
           \/ widget' = widget /\ causeOf' = causeOf
    BY <1>5 DEF W!CloseTimerFired, W!windowVars
  <2>2. w \in W!Window
    BY <1>0, <2>1 DEF CloseTypes
  <2> HIDE DEF w
  <2>3. CASE widget' = widget /\ causeOf' = causeOf
    BY <2>1, <2>3, ContractStutters
  <2>4. CASE W!PDestroy(w, "timeout") /\ requestId[w] # 0 /\ v = w /\ widget[w] = "up"
    <3>1. widget'[v] = "gone" /\ causeOf'[v] = "timeout"
      BY <1>0, <2>2, <2>4, PDestroyCause
    <3>2. W!Phase(v) = "asking" /\ W!Phase(v)' = "gone"
      BY <2>4, <3>1 DEF W!Phase
    <3>3. W!Contract(v)!Close("timeout")
      BY <2>1, <3>1, <3>2 DEF W!Contract!Close
    <3> QED BY <3>3 DEF ContractStep, W!Contract!Next, W!Contract!Decide
  <2>5. CASE W!PDestroy(w, "timeout") /\ (v # w \/ widget[w] # "up")
    <3>1. (widget'[v] = "gone" <=> widget[v] = "gone") /\ causeOf'[v] = causeOf[v]
      BY <1>0, <2>2, <2>5, PDestroyCause
    <3> QED BY <2>1, <3>1, ContractStutters
  <2> QED BY <2>1, <2>3, <2>4, <2>5
<1>6. CASE UNCHANGED <<widget, causeOf, seqOf, requestId>>
  BY <1>6, ContractStutters
<1>7. ASSUME NEW w \in W!Window, \/ W!EmitPlatformEvent(w)
                                 \/ W!HostEmitEvent(w)
                                 \/ \E to \in W!Window : W!EmitTo(w, to)
                                 \/ \E name \in PageEvents : W!PageEvent(w, name)
      PROVE  UNCHANGED <<widget, causeOf, seqOf, requestId>>
  BY <1>7 DEF W!EmitPlatformEvent, W!HostEmitEvent, W!EmitTo, W!PageEvent, W!windowVars,
       W!closeVars
<1>8. ASSUME W!HostEmitEvent(0) \/ W!OnIdle \/ W!RunFlush \/ W!RunDelete \/ W!RunEmit
      PROVE  UNCHANGED <<widget, causeOf, seqOf, requestId>>
  BY <1>8 DEF W!HostEmitEvent, W!OnIdle, W!RunFlush, W!RunDelete, W!RunEmit, W!windowVars,
       W!closeVars
<1> QED BY <1>1, <1>2, <1>3, <1>4, <1>5, <1>6, <1>7, <1>8 DEF W!Next

(***************************************************************************)
(* Every window keeps the contract of CloseContract, whatever the others   *)
(* do: it asks the page once at a time, and goes away because a request    *)
(* was allowed or timed out, or by an explicit destroy, and for no other   *)
(* reason.                                                                 *)
(***************************************************************************)
THEOREM WindowsKeepContract ==
    ASSUME W!Bounds, NoPageCloses PROVE W!Spec => W!KeepsContract
<1> DEFINE Step == \A w \in W!Window : ContractStep(w)
<1>1. W!Init => \A w \in W!Window : W!Contract(w)!Init
  BY DEF W!Init, W!Phase, W!Contract!Init
<1>2. IInv /\ [W!Next]_(W!vars) => [Step]_(W!vars)
  BY ContractKept
<1>3. Step <=> \A w \in W!Window : W!Contract(w)!Next \/ UNCHANGED W!Contract(w)!vars
  BY DEF ContractStep
<1>4. W!Spec => []IInv
  BY AlwaysIInv
<1> HIDE DEF Step
<1>5. W!Spec => [][Step]_(W!vars)
  BY <1>2, <1>4, PTL DEF W!Spec
<1>6. W!Spec => W!Init
  BY PTL DEF W!Spec
<1> QED BY <1>1, <1>3, <1>5, <1>6, PTL DEF W!KeepsContract
=============================================================================
