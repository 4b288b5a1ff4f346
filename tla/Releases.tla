------------------------------ MODULE Releases ------------------------------
(***************************************************************************)
(* The choice of a Node release (FetchIndex, SemverCompare and Pick in     *)
(* src/src/Runtime/NodeManager.cpp) and the test for a newer version of    *)
(* the application (SemverCompare in src/api/updater/src/updater.cpp).     *)
(*                                                                         *)
(* A version is a sequence of characters, written as numbers: a digit is   *)
(* its value, VV the letter `v', Dot a dot, Other any other character.  A  *)
(* release has a version and whether it is a long-term one.  The ranges    *)
(* "latest" and "lts" are the words Latest and Lts.                        *)
(***************************************************************************)
EXTENDS Integers, SequencesExt

VV == 118
Dot == 46
Other == 45
Latest == <<200>>
Lts == <<201>>

IsDigitOf(c) == c \in 0 .. 9

\* The lambda `parse': up to three numbers; every other character is skipped,
\* so that "1.0.0-b2" reads as 1.0.2.
ReadChar(s, c) ==
    CASE c = Dot -> [out |-> IF Len(s.out) < 3 THEN Append(s.out, s.num) ELSE s.out, num |-> 0]
      [] IsDigitOf(c) -> [s EXCEPT !.num = @ * 10 + c]
      [] OTHER -> s

Numbers(version) ==
    LET read[n \in 0 .. Len(version)] ==
            IF n = 0 THEN [out |-> <<>>, num |-> 0] ELSE ReadChar(read[n - 1], version[n])
        end == read[Len(version)]
    IN SubSeq(Append(end.out, end.num) \o <<0, 0, 0>>, 1, 3)

\* Fault: the first number that differs decides only when it is smaller.
SemverCompareLast(a, b) ==
    LET differ == {i \in 1 .. 3 : Numbers(a)[i] # Numbers(b)[i]}
        last == CHOOSE i \in differ : \A j \in differ : i >= j
    IN IF differ = {} THEN 0 ELSE IF Numbers(a)[last] < Numbers(b)[last] THEN -1 ELSE 1

SemverCompare(a, b) ==
    LET differ == {i \in 1 .. 3 : Numbers(a)[i] # Numbers(b)[i]}
        first == CHOOSE i \in differ : \A j \in differ : i <= j
    IN IF differ = {} THEN 0 ELSE IF Numbers(a)[first] < Numbers(b)[first] THEN -1 ELSE 1

\* An entry of index.json: its members `version' and `lts', each a sequence of
\* at most one value.  A member `lts' that is false counts as long-term: only
\* null does not.
AtMostOne(values) == {s \in Seq(values) : Len(s) <= 1}

Entry == [version : AtMostOne(Seq(Int)), lts : AtMostOne(STRING)]

ReleaseOf(e) == [version |-> IF e.version # <<>> THEN e.version[1] ELSE <<>>,
                 lts |-> e.lts # <<>> /\ e.lts # <<"null">>]

AddRelease(list, r) == IF r.version = <<>> THEN list ELSE Append(list, r)

FetchIndex(entries) ==
    LET list[n \in 0 .. Len(entries)] ==
            IF n = 0 THEN <<>> ELSE AddRelease(list[n - 1], ReleaseOf(entries[n]))
    IN list[Len(entries)]

\* An exact range also matches every other release of its major version.
Matches(version, range) ==
    LET want   == IF range[1] # VV THEN <<VV>> \o range ELSE range
        dots   == {i \in 2 .. Len(want) : want[i] = Dot}
        prefix == IF dots = {} THEN want
                  ELSE SubSeq(want, 1, (CHOOSE i \in dots : \A j \in dots : i <= j) - 1)
    IN \/ version = want
       \/ /\ IsPrefix(prefix, version)
          /\ \/ Len(version) = Len(prefix)
             \/ version[Len(prefix) + 1] = Dot

Eligible(r, range) ==
    CASE range \in {<<>>, Latest} -> TRUE
      [] range = Lts -> r.lts
      [] OTHER -> Matches(r.version, range)

\* The release picked, at most one: of equal ones the first in the list.
Better(best, r, range) ==
    IF Eligible(r, range) /\ (best = <<>> \/ SemverCompare(r.version, best[1].version) > 0)
    THEN <<r>> ELSE best

Pick(list, range) ==
    LET best[n \in 0 .. Len(list)] ==
            IF n = 0 THEN <<>> ELSE Better(best[n - 1], list[n], range)
    IN best[Len(list)]

-----------------------------------------------------------------------------
(***************************************************************************)
(* What a range asks for, by the index as nodejs.org writes it: `lts' is   *)
(* the codename of a long-term release and null or false otherwise; any    *)
(* other range names a major version, by itself or by one of its versions. *)
(***************************************************************************)
Codename(e) == e.lts # <<>> /\ e.lts[1] \notin {"null", "false"}

\* The text before the first dot, each character at its place.
Major(text) ==
    {<<i, text[i]>> : i \in {j \in 1 .. Len(text) : \A k \in 2 .. j : text[k] # Dot}}

WithV(range) == IF range[1] = VV THEN range ELSE <<VV>> \o range

Named(e) == e.version # <<>> /\ e.version[1] # <<>>

Asked(e, range) ==
    /\ Named(e)
    /\ range = Lts => Codename(e)
    /\ range \notin {<<>>, Latest, Lts} => Major(e.version[1]) = Major(WithV(range))

Newer(a, b) ==
    \E i \in 1 .. 3 : /\ Numbers(a)[i] > Numbers(b)[i]
                      /\ \A j \in 1 .. i - 1 : Numbers(a)[j] = Numbers(b)[j]

(***************************************************************************)
(* From the text of the index to the release: FetchIndex and Pick give a   *)
(* version exactly when some entry is asked for, that of such an entry,    *)
(* and no entry asked for has a newer one, number by number, wherever it   *)
(* stands in the index.  An exact version is no exception: v1.0.9 gives    *)
(* the newest v1 of the index.  For "lts" this is said only of indexes     *)
(* that write null, and nowhere false, for a release that is not           *)
(* long-term: see FalseIsNotLongTerm.                                      *)
(***************************************************************************)
PicksNewest(entries, range) ==
    LET best  == Pick(FetchIndex(entries), range)
        asked == {entries[i].version[1] : i \in {j \in 1 .. Len(entries) : Asked(entries[j], range)}}
    IN (range = Lts => \A i \in 1 .. Len(entries) : entries[i].lts # <<"false">>)
       => IF asked = {} THEN best = <<>>
          ELSE /\ best # <<>> /\ best[1].version \in asked
               /\ \A v \in asked : ~Newer(v, best[1].version)

(***************************************************************************)
(* NodeManager.cpp:78: "lts es codename string cuando aplica, null si no": *)
(* what "lts" picks has a codename.  Violated by an index that says false. *)
(***************************************************************************)
FalseIsNotLongTerm(entries) ==
    LET best == Pick(FetchIndex(entries), Lts)
    IN best # <<>> => \E i \in 1 .. Len(entries) :
                          /\ Named(entries[i]) /\ Codename(entries[i])
                          /\ entries[i].version[1] = best[1].version

(***************************************************************************)
(* NodeManager.cpp:121: "exacto o prefijo de major: "v22" | "22" |         *)
(* "v22.4.0"": an exact version that the index has is the one picked.      *)
(* Violated: v1.0.9 picks v1.3.0.                                          *)
(***************************************************************************)
ExactIsPicked(entries, version) ==
    LET best == Pick(FetchIndex(entries), version)
    IN (\E i \in 1 .. Len(entries) : Named(entries[i]) /\ entries[i].version[1] = version)
       => best[1].version = version
=============================================================================
