----------------------------- MODULE Induction -----------------------------
(***************************************************************************)
(* Induction for a set of numbers instead of a predicate, and what folds   *)
(* over sequences need of it.                                              *)
(***************************************************************************)
EXTENDS Integers, SequencesExt, SequenceTheorems, WellFoundedInduction, TLAPS

LEMMA NatSetInduction ==
    ASSUME NEW T \in SUBSET Nat, 0 \in T, \A n \in T : n + 1 \in T
    PROVE  T = Nat
<1> DEFINE R == OpToRel(<, Nat)
           U == Nat \ T
<1>1. \A m, n \in Nat : <<m, n>> \in R <=> m < n
  BY DEF OpToRel
<1>2. IsWellFoundedOn(R, Nat)
  BY NatLessThanWellFounded
<1> HIDE DEF R
<1> SUFFICES ASSUME U # {} PROVE FALSE
  OBVIOUS
<1>3. U \subseteq Nat
  OBVIOUS
<1>4. \E x \in U : \A y \in U : ~(<<y, x>> \in R)
  <2> HIDE DEF U
  <2> QED BY <1>2, <1>3, WFMin
<1>5. PICK x \in U : \A y \in U : ~(y < x)
  BY <1>1, <1>4
<1>6. x # 0 /\ x - 1 \in Nat /\ x - 1 < x
  BY <1>5
<1>7. x - 1 \in T
  BY <1>5, <1>6
<1>8. (x - 1) + 1 \in T
  BY <1>7
<1> QED BY <1>5, <1>6, <1>8

(***************************************************************************)
(* A set of numbers has a least one, and a greatest one if it has a bound. *)
(***************************************************************************)
LEMMA LeastNumber ==
    ASSUME NEW V \in SUBSET Nat, V # {}
    PROVE  \E x \in V : \A y \in V : x <= y
<1> DEFINE R == OpToRel(<, Nat)
<1>1. \A m, n \in Nat : <<m, n>> \in R <=> m < n
  BY DEF OpToRel
<1>2. IsWellFoundedOn(R, Nat)
  BY NatLessThanWellFounded
<1> HIDE DEF R
<1>3. \E x \in V : \A y \in V : ~(<<y, x>> \in R)
  BY <1>2, WFMin
<1>4. PICK x \in V : \A y \in V : ~(y < x)
  BY <1>1, <1>3
<1> QED BY <1>4

LEMMA GreatestNumber ==
    ASSUME NEW n \in Nat, NEW V \in SUBSET (0 .. n), V # {}
    PROVE  \E x \in V : \A y \in V : y <= x
<1> DEFINE W == {n - y : y \in V}
<1>1. W \in SUBSET Nat /\ W # {}
  <2>1. \A y \in V : y \in 0 .. n
    OBVIOUS
  <2>2. \A y \in 0 .. n : n - y \in Nat
    OBVIOUS
  <2> QED BY <2>1, <2>2
<1>2. PICK w \in W : \A y \in W : w <= y
  <2> HIDE DEF W
  <2> QED BY <1>1, LeastNumber
<1>3. PICK x \in V : w = n - x
  OBVIOUS
<1>4. \A y \in V : n - x <= n - y /\ y \in 0 .. n /\ x \in 0 .. n
  BY <1>2, <1>3
<1> QED BY <1>4

(***************************************************************************)
(* What holds of 0 and of the successor of every number below n at which   *)
(* it holds, holds up to n.                                                *)
(***************************************************************************)
LEMMA UpToInduction ==
    ASSUME NEW n \in Nat, NEW T, 0 \in T, \A i \in 0 .. n - 1 : i \in T => i + 1 \in T
    PROVE  \A i \in 0 .. n : i \in T
<1> DEFINE V == {i \in Nat : i <= n => i \in T}
<1>1. 0 \in V
  OBVIOUS
<1>2. ASSUME NEW i \in V PROVE i + 1 \in V
  <2>1. CASE i < n
    BY <2>1
  <2>2. CASE ~(i < n)
    BY <2>2
  <2> QED BY <2>1, <2>2
<1>3. V \in SUBSET Nat
  OBVIOUS
<1> HIDE DEF V
<1>4. V = Nat
  BY <1>1, <1>2, <1>3, NatSetInduction
<1> QED BY <1>4 DEF V

(***************************************************************************)
(* There is a function that starts with base and makes a step for each     *)
(* number up to n: a fold has the values its recursion says.               *)
(***************************************************************************)
IsFold(f, base, step, n) ==
    f = [i \in 0 .. n |-> IF i = 0 THEN base ELSE step[<<f[i - 1], i>>]]

LEMMA FoldExists ==
    ASSUME NEW S, NEW base \in S, NEW n \in Nat, NEW step \in [S \X (1 .. n) -> S]
    PROVE  \E f \in [0 .. n -> S] : IsFold(f, base, step, n)
<1> DEFINE T == {m \in Nat : \E f \in [0 .. m -> S] : IsFold(f, base, step, m)}
<1>1. 0 \in T
  <2> DEFINE f == [i \in 0 .. 0 |-> base]
  <2>1. f \in [0 .. 0 -> S] /\ IsFold(f, base, step, 0)
    BY DEF IsFold
  <2> QED BY <2>1
<1>2. ASSUME NEW m \in 0 .. n - 1, m \in T PROVE m + 1 \in T
  <2>1. PICK f \in [0 .. m -> S] : IsFold(f, base, step, m)
    BY <1>2
  <2> DEFINE g == [i \in 0 .. m + 1 |-> IF i = m + 1 THEN step[<<f[m], m + 1>>] ELSE f[i]]
  <2>2. \A i \in 0 .. m : f[i] = IF i = 0 THEN base ELSE step[<<f[i - 1], i>>]
    BY <2>1 DEF IsFold
  <2>3. g \in [0 .. m + 1 -> S]
    BY <2>1
  <2>4. \A i \in 0 .. m + 1 : g[i] = IF i = 0 THEN base ELSE step[<<g[i - 1], i>>]
    <3> TAKE i \in 0 .. m + 1
    <3>1. CASE i = m + 1
      <4>1. g[i - 1] = f[m] /\ i # 0
        BY <3>1
      <4> QED BY <3>1, <4>1
    <3>2. CASE i \in 0 .. m
      <4>1. g[i] = f[i] /\ (i # 0 => i - 1 \in 0 .. m /\ g[i - 1] = f[i - 1])
        BY <3>2
      <4> QED BY <2>2, <3>2, <4>1
    <3> QED BY <3>1, <3>2
  <2> HIDE DEF g
  <2>5. IsFold(g, base, step, m + 1)
    BY <2>3, <2>4 DEF IsFold
  <2> QED BY <2>3, <2>5
<1> HIDE DEF T
<1>3. n \in 0 .. n
  OBVIOUS
<1>4. n \in T
  BY <1>1, <1>2, <1>3, UpToInduction
<1> QED BY <1>4 DEF T

(***************************************************************************)
(* A part of a sequence, and one with an element at its end.               *)
(***************************************************************************)
LEMMA PartOfSeq ==
    ASSUME NEW S, NEW s \in Seq(S), NEW a \in Nat, NEW b \in Nat, a <= b, b <= Len(s)
    PROVE  /\ SubSeq(s, a + 1, b) \in Seq(S) /\ Len(SubSeq(s, a + 1, b)) = b - a
           /\ \A i \in 1 .. b - a : SubSeq(s, a + 1, b)[i] = s[a + i]
<1>1. \A i \in a + 1 .. b : s[i] \in S
  OBVIOUS
<1>2. /\ SubSeq(s, a + 1, b) \in Seq(S)
      /\ Len(SubSeq(s, a + 1, b)) = IF a + 1 <= b THEN b - (a + 1) + 1 ELSE 0
      /\ \A i \in 1 .. b - (a + 1) + 1 : SubSeq(s, a + 1, b)[i] = s[a + 1 + i - 1]
  BY <1>1, SubSeqProperties
<1>3. b - (a + 1) + 1 = b - a /\ \A i \in Nat : a + 1 + i - 1 = a + i
  OBVIOUS
<1> QED BY <1>2, <1>3

LEMMA PrefixOfSeq ==
    ASSUME NEW S, NEW s \in Seq(S), NEW n \in 0 .. Len(s)
    PROVE  /\ SubSeq(s, 1, n) \in Seq(S) /\ Len(SubSeq(s, 1, n)) = n
           /\ \A i \in 1 .. n : SubSeq(s, 1, n)[i] = s[i]
<1>1. n \in Nat /\ 0 + 1 = 1 /\ n - 0 = n /\ 0 <= n /\ n <= Len(s) /\ \A i \in 1 .. n : 0 + i = i
  OBVIOUS
<1>2. /\ SubSeq(s, 0 + 1, n) \in Seq(S) /\ Len(SubSeq(s, 0 + 1, n)) = n - 0
      /\ \A i \in 1 .. n - 0 : SubSeq(s, 0 + 1, n)[i] = s[0 + i]
  BY <1>1, PartOfSeq
<1> QED BY <1>1, <1>2

LEMMA AppendedTo ==
    ASSUME NEW S, NEW s \in Seq(S), NEW c \in S
    PROVE  /\ Append(s, c) \in Seq(S) /\ Len(Append(s, c)) = Len(s) + 1
           /\ Append(s, c)[Len(s) + 1] = c
           /\ \A i \in 1 .. Len(s) : Append(s, c)[i] = s[i]
BY AppendProperties

LEMMA PrefixGrows ==
    ASSUME NEW S, NEW s \in Seq(S), NEW n \in 0 .. Len(s) - 1
    PROVE  SubSeq(s, 1, n + 1) = Append(SubSeq(s, 1, n), s[n + 1])
<1> DEFINE front == SubSeq(s, 1, n)
           more  == SubSeq(s, 1, n + 1)
<1>1. n \in 0 .. Len(s) /\ n + 1 \in 0 .. Len(s) /\ n \in Nat /\ s[n + 1] \in S
  OBVIOUS
<1>2. front \in Seq(S) /\ Len(front) = n /\ \A i \in 1 .. n : front[i] = s[i]
  BY <1>1, PrefixOfSeq
<1>3. more \in Seq(S) /\ Len(more) = n + 1 /\ \A i \in 1 .. n + 1 : more[i] = s[i]
  BY <1>1, PrefixOfSeq
<1> HIDE DEF front, more
<1>4. /\ Append(front, s[n + 1]) \in Seq(S) /\ Len(Append(front, s[n + 1])) = n + 1
      /\ \A i \in 1 .. n : Append(front, s[n + 1])[i] = front[i]
      /\ Append(front, s[n + 1])[n + 1] = s[n + 1]
  BY <1>1, <1>2, AppendProperties
<1>5. \A i \in 1 .. Len(more) : more[i] = Append(front, s[n + 1])[i]
  BY <1>1, <1>2, <1>3, <1>4
<1>6. more = Append(front, s[n + 1])
  BY <1>3, <1>4, <1>5, SeqEqual
<1> QED BY <1>6 DEF front, more

LEMMA Concatenated ==
    ASSUME NEW S, NEW s \in Seq(S), NEW t \in Seq(S)
    PROVE  /\ s \o t \in Seq(S) /\ Len(s \o t) = Len(s) + Len(t)
           /\ \A i \in 1 .. Len(s) : (s \o t)[i] = s[i]
           /\ \A i \in 1 .. Len(t) : (s \o t)[Len(s) + i] = t[i]
<1>1. /\ s \o t \in Seq(S) /\ Len(s \o t) = Len(s) + Len(t)
      /\ \A i \in 1 .. Len(s) + Len(t) :
             (s \o t)[i] = IF i <= Len(s) THEN s[i] ELSE t[i - Len(s)]
  BY ConcatProperties
<1> QED BY <1>1

LEMMA ConcatAppend ==
    ASSUME NEW S, NEW s \in Seq(S), NEW t \in Seq(S), NEW c \in S
    PROVE  s \o Append(t, c) = Append(s \o t, c)
<1> DEFINE tc == Append(t, c)
           st == s \o t
           left == s \o tc
           right == Append(st, c)
<1>1. /\ tc \in Seq(S) /\ Len(tc) = Len(t) + 1 /\ tc[Len(t) + 1] = c
      /\ \A i \in 1 .. Len(t) : tc[i] = t[i]
  BY AppendedTo
<1>2. /\ st \in Seq(S) /\ Len(st) = Len(s) + Len(t)
      /\ \A i \in 1 .. Len(s) : st[i] = s[i]
      /\ \A i \in 1 .. Len(t) : st[Len(s) + i] = t[i]
  BY Concatenated
<1> HIDE DEF tc, st
<1>3. /\ left \in Seq(S) /\ Len(left) = Len(s) + Len(tc)
      /\ \A i \in 1 .. Len(s) : left[i] = s[i]
      /\ \A i \in 1 .. Len(tc) : left[Len(s) + i] = tc[i]
  <2>1. tc \in Seq(S)
    BY <1>1
  <2> QED BY <2>1, Concatenated
<1>4. /\ right \in Seq(S) /\ Len(right) = Len(st) + 1 /\ right[Len(st) + 1] = c
      /\ \A i \in 1 .. Len(st) : right[i] = st[i]
  BY <1>2, AppendedTo
<1> HIDE DEF left, right
<1>5. ASSUME NEW i \in 1 .. Len(left) PROVE left[i] = right[i]
  <2>1. CASE i <= Len(s)
    BY <1>2, <1>3, <1>4, <2>1
  <2>2. CASE i > Len(s) /\ i <= Len(st)
    <3> DEFINE j == i - Len(s)
    <3>1. j \in 1 .. Len(t) /\ j \in 1 .. Len(tc) /\ i = Len(s) + j
      BY <1>1, <1>2, <2>2
    <3> HIDE DEF j
    <3> QED BY <1>1, <1>2, <1>3, <1>4, <2>2, <3>1
  <2>3. CASE i = Len(st) + 1
    <3>1. i = Len(s) + (Len(t) + 1) /\ Len(t) + 1 \in 1 .. Len(tc)
      BY <1>1, <1>2, <2>3
    <3>2. left[Len(s) + (Len(t) + 1)] = tc[Len(t) + 1]
      BY <1>3, <3>1
    <3> QED BY <1>1, <1>4, <2>3, <3>1, <3>2
  <2>4. Len(left) = Len(st) + 1 /\ Len(st) \in Nat /\ Len(s) \in Nat /\ i \in Nat
    BY <1>1, <1>2, <1>3
  <2>5. i <= Len(s) \/ (i > Len(s) /\ i <= Len(st)) \/ i = Len(st) + 1
    BY <2>4
  <2> QED BY <2>1, <2>2, <2>3, <2>5
<1>6. left = right
  <2>1. Len(left) = Len(right)
    BY <1>1, <1>2, <1>3, <1>4
  <2> QED BY <1>3, <1>4, <1>5, <2>1, SeqEqual
<1> QED BY <1>6 DEF left, right, tc, st

LEMMA WholeSeq == ASSUME NEW S, NEW s \in Seq(S) PROVE SubSeq(s, 1, Len(s)) = s
<1> DEFINE all == SubSeq(s, 1, Len(s))
<1>1. Len(s) \in 0 .. Len(s)
  OBVIOUS
<1>2. all \in Seq(S) /\ Len(all) = Len(s) /\ \A i \in 1 .. Len(s) : all[i] = s[i]
  BY <1>1, PrefixOfSeq
<1> HIDE DEF all
<1>3. all = s
  BY <1>2, SeqEqual
<1> QED BY <1>3 DEF all

LEMMA ConcatAssoc ==
    ASSUME NEW S, NEW s \in Seq(S), NEW t \in Seq(S), NEW u \in Seq(S)
    PROVE  (s \o t) \o u = s \o (t \o u)
BY ConcatAssociative

LEMMA PartsOfSeq ==
    ASSUME NEW S, NEW s \in Seq(S), NEW n \in 0 .. Len(s)
    PROVE  SubSeq(s, 1, n) \o SubSeq(s, n + 1, Len(s)) = s
<1> DEFINE left == SubSeq(s, 1, n)
           right == SubSeq(s, n + 1, Len(s))
<1>1. n \in Nat /\ Len(s) \in Nat /\ n <= Len(s)
  OBVIOUS
<1>2. left \in Seq(S) /\ Len(left) = n /\ \A i \in 1 .. n : left[i] = s[i]
  BY PrefixOfSeq
<1>3. /\ right \in Seq(S) /\ Len(right) = Len(s) - n
      /\ \A i \in 1 .. Len(s) - n : right[i] = s[n + i]
  BY <1>1, PartOfSeq
<1> HIDE DEF left, right
<1>4. /\ left \o right \in Seq(S) /\ Len(left \o right) = Len(left) + Len(right)
      /\ \A i \in 1 .. Len(left) : (left \o right)[i] = left[i]
      /\ \A i \in 1 .. Len(right) : (left \o right)[Len(left) + i] = right[i]
  BY <1>2, <1>3, Concatenated
<1>5. ASSUME NEW i \in 1 .. Len(s) PROVE (left \o right)[i] = s[i]
  <2>1. CASE i <= n
    BY <1>2, <1>4, <2>1
  <2>2. CASE i > n
    <3> DEFINE j == i - n
    <3>1. j \in 1 .. Len(s) - n /\ n + j = i
      BY <1>1, <2>2
    <3> HIDE DEF j
    <3>2. j \in 1 .. Len(right)
      BY <1>3, <3>1
    <3>3. (left \o right)[Len(left) + j] = right[j] /\ right[j] = s[n + j]
      BY <1>3, <1>4, <3>1, <3>2
    <3> QED BY <1>2, <3>1, <3>3
  <2>3. i <= n \/ i > n
    BY <1>1
  <2> QED BY <2>1, <2>2, <2>3
<1>6. left \o right = s
  <2>1. Len(left \o right) = Len(s)
    BY <1>1, <1>2, <1>3, <1>4
  <2> QED BY <1>4, <1>5, <2>1, SeqEqual
<1> QED BY <1>6 DEF left, right

LEMMA PrefixAndNext ==
    ASSUME NEW S, NEW s \in Seq(S), NEW n \in Nat, NEW b \in Nat, n <= b, b <= Len(s)
    PROVE  SubSeq(s, 1, b) = SubSeq(s, 1, n) \o SubSeq(s, n + 1, b)
<1> DEFINE all == SubSeq(s, 1, b)
           left == SubSeq(s, 1, n)
           right == SubSeq(s, n + 1, b)
<1>1. n \in 0 .. Len(s) /\ b \in 0 .. Len(s)
  OBVIOUS
<1>2. left \in Seq(S) /\ Len(left) = n /\ \A i \in 1 .. n : left[i] = s[i]
  BY <1>1, PrefixOfSeq
<1>3. all \in Seq(S) /\ Len(all) = b /\ \A i \in 1 .. b : all[i] = s[i]
  BY <1>1, PrefixOfSeq
<1>4. right \in Seq(S) /\ Len(right) = b - n /\ \A i \in 1 .. b - n : right[i] = s[n + i]
  BY PartOfSeq
<1> HIDE DEF left, right, all
<1>5. /\ left \o right \in Seq(S) /\ Len(left \o right) = Len(left) + Len(right)
      /\ \A i \in 1 .. Len(left) : (left \o right)[i] = left[i]
      /\ \A i \in 1 .. Len(right) : (left \o right)[Len(left) + i] = right[i]
  <2>1. left \in Seq(S) /\ right \in Seq(S)
    BY <1>2, <1>4
  <2> QED BY <2>1, Concatenated
<1>6. ASSUME NEW i \in 1 .. b PROVE (left \o right)[i] = all[i]
  <2>1. CASE i <= n
    BY <1>2, <1>3, <1>5, <2>1
  <2>2. CASE i > n
    <3> DEFINE j == i - n
    <3>1. j \in 1 .. b - n /\ n + j = i
      BY <2>2
    <3> HIDE DEF j
    <3>2. j \in 1 .. Len(right)
      BY <1>4, <3>1
    <3>3. (left \o right)[Len(left) + j] = right[j] /\ right[j] = s[n + j]
      BY <1>4, <1>5, <3>1, <3>2
    <3> QED BY <1>2, <1>3, <3>1, <3>3
  <2>3. i <= n \/ i > n
    OBVIOUS
  <2> QED BY <2>1, <2>2, <2>3
<1>7. Len(left \o right) = b
  BY <1>2, <1>4, <1>5
<1>8. left \o right = all
  BY <1>3, <1>5, <1>6, <1>7, SeqEqual
<1> QED BY <1>8 DEF left, right, all

(***************************************************************************)
(* What holds of the empty sequence, and of every sequence to which an     *)
(* element is appended if it holds of that, holds of all sequences.        *)
(***************************************************************************)
LEMMA SeqInduction ==
    ASSUME NEW S, NEW T, <<>> \in T,
           \A s \in Seq(S), c \in S : s \in T => Append(s, c) \in T
    PROVE  \A s \in Seq(S) : s \in T
<1> DEFINE V == {n \in Nat : \A s \in Seq(S) : Len(s) = n => s \in T}
<1>1. 0 \in V
  OBVIOUS
<1>2. ASSUME NEW n \in V PROVE n + 1 \in V
  <2> SUFFICES ASSUME NEW s \in Seq(S), Len(s) = n + 1 PROVE s \in T
    OBVIOUS
  <2> DEFINE front == SubSeq(s, 1, n)
  <2>1. n \in 0 .. Len(s) - 1 /\ n \in 0 .. Len(s) /\ s[n + 1] \in S /\ n + 1 = Len(s)
    OBVIOUS
  <2>2. front \in Seq(S) /\ Len(front) = n
    BY <2>1, PrefixOfSeq
  <2>3. Append(front, s[n + 1]) = SubSeq(s, 1, n + 1)
    BY <2>1, PrefixGrows
  <2>4. SubSeq(s, 1, n + 1) = s
    BY <2>1, WholeSeq
  <2>5. front \in T
    BY <2>2
  <2> HIDE DEF front
  <2> QED BY <2>1, <2>2, <2>3, <2>4, <2>5
<1>3. V \in SUBSET Nat
  OBVIOUS
<1> HIDE DEF V
<1>4. V = Nat
  BY <1>1, <1>2, <1>3, NatSetInduction
<1> QED BY <1>4 DEF V

(***************************************************************************)
(* FlattenSeq, from one sequence to the next.                              *)
(***************************************************************************)
LEMMA FlattenIsFold ==
    ASSUME NEW S, NEW seqs \in Seq(Seq(S))
    PROVE  \E g \in [0 .. Len(seqs) -> Seq(S)] :
              /\ g[0] = <<>> /\ \A i \in 1 .. Len(seqs) : g[i] = g[i - 1] \o seqs[i]
              /\ FlattenSeq(seqs) = g[Len(seqs)]
<1> DEFINE n == Len(seqs)
           turn == [p \in Seq(S) \X (1 .. n) |-> p[1] \o seqs[p[2]]]
           Flat(f) == f = [i \in 1 .. n |-> IF i = 1 THEN seqs[i] ELSE f[i - 1] \o seqs[i]]
           f == CHOOSE h : Flat(h)
<1>1. n \in Nat /\ <<>> \in Seq(S) /\ 0 \in 0 .. n
  OBVIOUS
<1>2. turn \in [Seq(S) \X (1 .. n) -> Seq(S)]
  <2>1. \A p \in Seq(S) \X (1 .. n) : p[1] \in Seq(S) /\ seqs[p[2]] \in Seq(S)
    OBVIOUS
  <2>2. \A p \in Seq(S) \X (1 .. n) : p[1] \o seqs[p[2]] \in Seq(S)
    BY <2>1, Concatenated
  <2> QED BY <2>2
<1>3. PICK g \in [0 .. n -> Seq(S)] : IsFold(g, <<>>, turn, n)
  <2> HIDE DEF turn, n
  <2> QED BY <1>1, <1>2, FoldExists
<1>4. ASSUME NEW i \in 1 .. n PROVE g[i] = g[i - 1] \o seqs[i]
  <2>1. i - 1 \in 0 .. n /\ i \in 0 .. n /\ i # 0
    BY <1>1
  <2>2. <<g[i - 1], i>> \in Seq(S) \X (1 .. n)
    BY <1>3, <2>1
  <2>3. turn[<<g[i - 1], i>>] = g[i - 1] \o seqs[i]
    BY <2>2
  <2> HIDE DEF turn
  <2> QED BY <1>3, <2>1, <2>3 DEF IsFold
<1>5. g[0] = <<>>
  <2> HIDE DEF turn
  <2> QED BY <1>1, <1>3 DEF IsFold
<1> HIDE DEF turn
<1>6. CASE n = 0
  <2>1. FlattenSeq(seqs) = <<>>
    BY <1>6 DEF FlattenSeq
  <2> QED BY <1>3, <1>4, <1>5, <1>6, <2>1
<1>7. CASE n # 0
  <2> DEFINE h == [i \in 1 .. n |-> g[i]]
  <2>1. \A i \in 1 .. n : h[i] = IF i = 1 THEN seqs[i] ELSE h[i - 1] \o seqs[i]
    <3> TAKE i \in 1 .. n
    <3>1. CASE i = 1
      <4>0. 1 \in 1 .. n /\ 1 - 1 = 0
        BY <1>1, <1>7
      <4>1. g[1] = <<>> \o seqs[1] /\ 1 \in 1 .. n
        <5>1. g[1] = g[1 - 1] \o seqs[1]
          BY <1>4, <4>0
        <5> QED BY <1>5, <4>0, <5>1, Zenon
      <4>2. seqs[1] \in Seq(S)
        BY <4>1
      <4>3. <<>> \o seqs[1] = seqs[1]
        BY <4>2
      <4> QED BY <3>1, <4>1, <4>3
    <3>2. CASE i # 1
      <4>1. i - 1 \in 1 .. n
        BY <3>2
      <4> QED BY <1>4, <3>2, <4>1
    <3> QED BY <3>1, <3>2
  <2>2. h = [i \in 1 .. n |-> IF i = 1 THEN seqs[i] ELSE h[i - 1] \o seqs[i]]
    <3>1. h = [i \in 1 .. n |-> h[i]]
      OBVIOUS
    <3> HIDE DEF h
    <3> QED BY <2>1, <3>1
  <2>3. Flat(h)
    BY <2>2
  <2>4. Flat(f)
    <3> HIDE DEF h, Flat
    <3> QED BY <2>3
  <2>5. FlattenSeq(seqs) = f[n]
    BY <1>7 DEF FlattenSeq
  <2> HIDE DEF f
  <2>6. \A i \in 1 .. n : f[i] = IF i = 1 THEN seqs[i] ELSE f[i - 1] \o seqs[i]
    BY <2>4
  <2> HIDE DEF Flat
  <2>7. \A i \in 1 .. n : h[i] = g[i]
    OBVIOUS
  <2> HIDE DEF h
  <2> DEFINE V == {i \in 0 .. n : i # 0 => f[i] = g[i]}
  <2>8. 0 \in V
    BY <1>1
  <2>9. ASSUME NEW i \in 0 .. n - 1, i \in V PROVE i + 1 \in V
    <3>1. i + 1 \in 1 .. n /\ i + 1 \in 0 .. n /\ (i + 1) - 1 = i /\ (i = 0 <=> i + 1 = 1)
      OBVIOUS
    <3>2. /\ f[i + 1] = IF i = 0 THEN seqs[i + 1] ELSE f[i] \o seqs[i + 1]
          /\ g[i + 1] = IF i = 0 THEN seqs[i + 1] ELSE h[i] \o seqs[i + 1]
      BY <2>1, <2>6, <2>7, <3>1
    <3>3. i # 0 => i \in 1 .. n
      OBVIOUS
    <3> QED BY <2>7, <2>9, <3>1, <3>2, <3>3
  <2> HIDE DEF V
  <2>10. n \in 0 .. n
    BY <1>1
  <2>11. n \in V
    BY <1>1, <2>8, <2>9, <2>10, UpToInduction
  <2>12. f[n] = g[n]
    BY <1>7, <2>11 DEF V
  <2> QED BY <1>3, <1>4, <1>5, <2>5, <2>12
<1> QED BY <1>6, <1>7

LEMMA FlattenAppend ==
    ASSUME NEW S, NEW seqs \in Seq(Seq(S)), NEW c \in Seq(S)
    PROVE  /\ FlattenSeq(seqs) \in Seq(S)
           /\ FlattenSeq(Append(seqs, c)) = FlattenSeq(seqs) \o c
<1> DEFINE n == Len(seqs)
           more == Append(seqs, c)
<1>1. /\ n \in Nat /\ more \in Seq(Seq(S)) /\ Len(more) = n + 1 /\ more[n + 1] = c
      /\ \A i \in 1 .. n : more[i] = seqs[i]
  <2>1. n \in Nat
    OBVIOUS
  <2>2. /\ Append(seqs, c) \in Seq(Seq(S)) /\ Len(Append(seqs, c)) = Len(seqs) + 1
        /\ Append(seqs, c)[Len(seqs) + 1] = c
        /\ \A i \in 1 .. Len(seqs) : Append(seqs, c)[i] = seqs[i]
    BY AppendedTo
  <2> QED BY <2>1, <2>2, Zenon
<1>2. PICK f \in [0 .. n -> Seq(S)] :
          /\ f[0] = <<>> /\ \A i \in 1 .. n : f[i] = f[i - 1] \o seqs[i]
          /\ FlattenSeq(seqs) = f[n]
  BY FlattenIsFold
<1> HIDE DEF more
<1>3. PICK g \in [0 .. Len(more) -> Seq(S)] :
          /\ g[0] = <<>> /\ \A i \in 1 .. Len(more) : g[i] = g[i - 1] \o more[i]
          /\ FlattenSeq(more) = g[Len(more)]
  BY <1>1, FlattenIsFold
<1> DEFINE V == {i \in 0 .. n : f[i] = g[i]}
<1>4. 0 \in V
  BY <1>1, <1>2, <1>3
<1>5. ASSUME NEW i \in 0 .. n - 1, i \in V PROVE i + 1 \in V
  <2>1. i + 1 \in 1 .. n /\ i + 1 \in 0 .. n /\ (i + 1) - 1 = i /\ i + 1 \in 1 .. Len(more)
    BY <1>1
  <2>2. /\ f[i + 1] = f[i] \o seqs[i + 1] /\ g[i + 1] = g[i] \o more[i + 1]
        /\ more[i + 1] = seqs[i + 1] /\ f[i] = g[i]
    BY <1>1, <1>2, <1>3, <1>5, <2>1
  <2> QED BY <2>1, <2>2
<1> HIDE DEF V
<1>6. n \in 0 .. n
  BY <1>1
<1>7. n \in V
  BY <1>1, <1>4, <1>5, <1>6, UpToInduction
<1>8. f[n] = g[n] /\ f[n] \in Seq(S)
  BY <1>2, <1>6, <1>7 DEF V
<1>9. g[n + 1] = g[n] \o c
  <2>1. n + 1 \in 1 .. Len(more) /\ (n + 1) - 1 = n
    BY <1>1
  <2> QED BY <1>1, <1>3, <2>1
<1> QED BY <1>1, <1>2, <1>3, <1>8, <1>9 DEF more

LEMMA FlattenEmpty == FlattenSeq(<<>>) = <<>>
BY DEF FlattenSeq

(***************************************************************************)
(* Of sequences that each continue the one before, each is a prefix of the *)
(* last.                                                                   *)
(***************************************************************************)
Chain(f, n, S) ==
    /\ f \in [0 .. n -> Seq(S)]
    /\ \A i \in 0 .. n - 1 : \E t \in Seq(S) : f[i + 1] = f[i] \o t

Within(s, t) == Len(s) <= Len(t) /\ \A j \in 1 .. Len(s) : t[j] = s[j]

LEMMA PrefixesNest ==
    ASSUME NEW S, NEW n \in Nat, NEW f, Chain(f, n, S)
    PROVE  \A k \in 0 .. n : Within(f[k], f[n])
<1> USE DEF Chain, Within
<1> DEFINE V == {i \in 0 .. n : \A k \in 0 .. i : Within(f[k], f[i])}
<1>1. n \in 0 .. n /\ 0 \in 0 .. n /\ \A i \in 0 .. n : f[i] \in Seq(S) /\ Len(f[i]) \in Nat
  OBVIOUS
<1>2. 0 \in V
  <2>1. \A k \in 0 .. 0 : k = 0
    OBVIOUS
  <2> QED BY <1>1, <2>1
<1>3. ASSUME NEW i \in 0 .. n - 1, i \in V PROVE i + 1 \in V
  <2>1. /\ i + 1 \in 0 .. n /\ i \in 0 .. n
        /\ \A k \in 0 .. i + 1 : (k \in 0 .. i /\ k \in 0 .. n) \/ k = i + 1
    OBVIOUS
  <2>2. PICK t \in Seq(S) : f[i + 1] = f[i] \o t
    OBVIOUS
  <2> DEFINE here == f[i]
             next == f[i + 1]
  <2>3. here \in Seq(S) /\ Len(here) \in Nat /\ next = here \o t /\ Len(next) \in Nat /\ Len(t) \in Nat
    BY <1>1, <2>1, <2>2
  <2> HIDE DEF here, next
  <2>4. Len(next) = Len(here) + Len(t) /\ \A j \in 1 .. Len(here) : next[j] = here[j]
    BY <2>3, Concatenated
  <2>5. ASSUME NEW k \in 0 .. i, k \in 0 .. n PROVE Within(f[k], next)
    <3> DEFINE s == f[k]
    <3>1. Len(s) \in Nat
      BY <1>1, <2>5
    <3>2. Len(s) <= Len(here) /\ \A j \in 1 .. Len(s) : here[j] = s[j]
      BY <1>3 DEF here
    <3> HIDE DEF s
    <3>3. Len(s) <= Len(next) /\ \A j \in 1 .. Len(s) : j \in 1 .. Len(here)
      BY <2>3, <2>4, <3>1, <3>2
    <3>4. \A j \in 1 .. Len(s) : next[j] = s[j]
      BY <2>4, <3>2, <3>3
    <3> QED BY <3>3, <3>4 DEF s
  <2>6. Within(next, next)
    BY <2>3
  <2>7. \A k \in 0 .. i + 1 : Within(f[k], next)
    <3> HIDE DEF Within
    <3> QED BY <2>1, <2>5, <2>6 DEF next
  <2> HIDE DEF Within
  <2> QED BY <2>1, <2>7 DEF next
<1> HIDE DEF V
<1>4. n \in V
  BY <1>1, <1>2, <1>3, UpToInduction
<1> HIDE DEF Within
<1> QED BY <1>1, <1>4 DEF V
=============================================================================
