---------------------------- MODULE StartupProofs ----------------------------
(***************************************************************************)
(* Proofs about what happens around the life of a kernel: the cache of the *)
(* Node runtime with any number of kernels, releases and crashes           *)
(* (NodeCache), the update of the program (Updater), the modules with      *)
(* their calls, threads and regions (Modules), the choice of a release     *)
(* (Releases), its download (Http) and its extraction (TarGz).             *)
(***************************************************************************)
EXTENDS MCStartup, Induction, TLAPS

-----------------------------------------------------------------------------
(***************************************************************************)
(* NodeCache.  As long as a release is not tainted, at most one kernel is  *)
(* inside its tree, every other one that has picked it has not looked yet, *)
(* and the files are those of the step that kernel is at; before that the  *)
(* tree is empty, and after it whole.                                      *)
(***************************************************************************)
Extracting == {"nodeOpen", "nodeDone", "check", "permissions"}
Unset == {"idle", "start", "failed"}
Step == Unset \cup Extracting \cup
        {"picked", "ok", "download", "write", "sums", "extract", "clean"}

CacheTyped ==
    /\ published \in Versions
    /\ tree \in [Versions -> SUBSET Parts]
    /\ runnable \in [Versions -> BOOLEAN]
    /\ step \in [Kernels -> Step]
    /\ rel \in [Kernels -> Versions \cup {0}]
    /\ sidecar \in [Kernels -> {"none", "running", "exited"}]
    /\ tainted \subseteq Versions

\* The tree of a release while kernel k is at its step, alone.
TreeFits(k) ==
    /\ step[k] = "nodeOpen" => tree[rel[k]] = {"node"}
    /\ step[k] = "nodeDone" => tree[rel[k]] = {"node", "nodeData"}
    /\ step[k] = "check" => tree[rel[k]] \in {{}, Parts}
    /\ step[k] = "permissions" => tree[rel[k]] = Parts

OthersWait(k) == \A j \in Kernels : j # k /\ rel[j] = rel[k] => step[j] = "picked"

\* What a kernel that works with an untainted release has.
CleanFor(k) ==
    /\ step[k] \in {"download", "write", "sums", "extract"} => tree[rel[k]] = {}
    /\ step[k] \in Extracting => TreeFits(k) /\ OthersWait(k)
    /\ step[k] \in {"clean", "ok"} => Installed(rel[k])

KernelOk(k) ==
    /\ step[k] \in Unset <=> rel[k] = 0
    /\ sidecar[k] # "none" => step[k] = "ok"
    /\ sidecar[k] = "exited" => rel[k] \in tainted
    /\ rel[k] \in Versions \ tainted => CleanFor(k)

InHand(v) == \E k \in Kernels : rel[k] = v /\ step[k] \in Extracting

VersionOk(v) == tree[v] = {} \/ Installed(v) \/ InHand(v)

CacheInv ==
    /\ CacheTyped
    /\ \A k \in Kernels : KernelOk(k)
    /\ \A v \in Versions \ tainted : VersionOk(v)

LEMMA CacheInit == ASSUME MaxVersion \in Nat, Init PROVE CacheInv
<1>1. 0 \notin Versions
  BY DEF Versions
<1>2. CacheTyped
  BY DEF Init, CacheTyped, Step, Unset
<1>3. \A k \in Kernels : KernelOk(k)
  BY <1>1 DEF Init, KernelOk, Unset
<1>4. \A v \in Versions : VersionOk(v)
  BY DEF Init, VersionOk
<1> QED BY <1>2, <1>3, <1>4 DEF CacheInv

LEMMA CacheImplies == CacheInv => SidecarRuns
<1> SUFFICES ASSUME CacheInv, NEW k \in Kernels
             PROVE  /\ sidecar[k] = "exited" => rel[k] \in tainted
                    /\ step[k] = "ok" /\ rel[k] \notin tainted => Installed(rel[k])
  BY DEF SidecarRuns
<1>1. KernelOk(k) /\ rel[k] \in Versions \cup {0}
  BY DEF CacheInv, CacheTyped
<1>2. step[k] = "ok" => rel[k] \in Versions
  BY <1>1 DEF KernelOk, Unset
<1> QED BY <1>1, <1>2 DEF KernelOk, CleanFor

(***************************************************************************)
(* A step of kernel k that touches nothing but its own release; and that   *)
(* one only if nobody has looked at it yet, or taints it.                  *)
(***************************************************************************)
LEMMA KernelStepKeeps ==
    ASSUME CacheInv, CacheTyped', NEW k \in Kernels,
           \A j \in Kernels : j # k =>
               step'[j] = step[j] /\ rel'[j] = rel[j] /\ sidecar'[j] = sidecar[j],
           tainted \subseteq tainted',
           \A v \in Versions \ tainted' :
               \/ tree'[v] = tree[v] /\ runnable'[v] = runnable[v]
               \/ rel[k] = v /\ OthersWait(k),
           KernelOk(k)',
           \A j \in Kernels :
               j # k /\ step[j] \in Extracting /\ rel[j] = rel'[k] /\ rel[j] \notin tainted'
                   => step'[k] = "picked",
           \A v \in Versions \ tainted' : v = rel[k] => VersionOk(v)'
    PROVE  CacheInv'
<1>1. ASSUME NEW j \in Kernels, j # k PROVE KernelOk(j)'
  <2>1. /\ KernelOk(j) /\ step'[j] = step[j] /\ rel'[j] = rel[j] /\ sidecar'[j] = sidecar[j]
        /\ rel[j] \in Versions \cup {0}
    BY <1>1 DEF CacheInv, CacheTyped
  <2>2. /\ step'[j] \in Unset <=> rel'[j] = 0
        /\ sidecar'[j] # "none" => step'[j] = "ok"
        /\ sidecar'[j] = "exited" => rel'[j] \in tainted'
    BY <2>1 DEF KernelOk
  <2>3. ASSUME rel'[j] \in Versions \ tainted' PROVE CleanFor(j)'
    <3>1. rel[j] \in Versions \ tainted /\ rel[j] \notin tainted' /\ CleanFor(j)
      BY <2>1, <2>3 DEF KernelOk
    <3>2. CASE tree'[rel[j]] = tree[rel[j]] /\ runnable'[rel[j]] = runnable[rel[j]]
      <4>1. step[j] \in Extracting => OthersWait(j)'
        <5> SUFFICES ASSUME step[j] \in Extracting, NEW i \in Kernels, i # j,
                            rel'[i] = rel[j]
                     PROVE  step'[i] = "picked"
          BY <2>1 DEF OthersWait
        <5>1. CASE i = k
          BY <1>1, <3>1, <5>1
        <5>2. CASE i # k
          BY <3>1, <5>2 DEF CleanFor, OthersWait
        <5> QED BY <5>1, <5>2
      <4>2. step[j] \in Extracting => TreeFits(j)'
        BY <2>1, <3>1, <3>2 DEF CleanFor, TreeFits
      <4> QED BY <2>1, <3>1, <3>2, <4>1, <4>2 DEF CleanFor, Installed
    <3>3. CASE rel[k] = rel[j] /\ OthersWait(k)
      <4>1. step'[j] = "picked"
        BY <1>1, <2>1, <3>3 DEF OthersWait
      <4> QED BY <4>1 DEF CleanFor, Extracting
    <3> QED BY <3>1, <3>2, <3>3
  <2> QED BY <2>2, <2>3 DEF KernelOk
<1>2. ASSUME NEW v \in Versions \ tainted' PROVE VersionOk(v)'
  <2>1. CASE v = rel[k]
    BY <1>2, <2>1
  <2>2. CASE v # rel[k]
    <3>1. tree'[v] = tree[v] /\ runnable'[v] = runnable[v] /\ VersionOk(v)
      BY <2>2 DEF CacheInv
    <3>2. CASE tree[v] = {} \/ Installed(v)
      BY <3>1, <3>2 DEF VersionOk, Installed
    <3>3. CASE InHand(v)
      <4>1. PICK j \in Kernels : rel[j] = v /\ step[j] \in Extracting
        BY <3>3 DEF InHand
      <4>2. rel'[j] = v /\ step'[j] \in Extracting
        BY <2>2, <4>1
      <4> QED BY <4>2 DEF VersionOk, InHand
    <3> QED BY <3>1, <3>2, <3>3 DEF VersionOk
  <2> QED BY <2>1, <2>2
<1> QED BY <1>1, <1>2 DEF CacheInv

\* What is known of kernel k before its step.
LEMMA Known ==
    ASSUME CacheInv, NEW k \in Kernels
    PROVE  /\ KernelOk(k) /\ CacheTyped
           /\ rel[k] \in Versions \cup {0}
           /\ step[k] \notin Unset => rel[k] \in Versions
           /\ 0 \notin Versions
           /\ \A v \in Versions \ tainted : VersionOk(v)
BY DEF CacheInv, CacheTyped, KernelOk, Versions

\* What Taint leaves untainted has nobody else near it.
LEMMA TaintTells ==
    ASSUME CacheInv, NEW k \in Kernels, NEW v \in Versions, Taint(k, v)
    PROVE  /\ tainted \subseteq tainted' /\ tainted' \subseteq Versions
           /\ v \notin tainted' => ~Beside(k, v)
BY DEF CacheInv, CacheTyped, Taint

LEMMA NobodyBeside ==
    ASSUME NEW k \in Kernels, NEW v, step[k] \in InTree, ~Beside(k, v)
    PROVE  \A j \in Kernels : j # k => rel[j] # v
<1>1. \A j \in Kernels : step[k] \in {step[j], step[k]} \cap InTree
  OBVIOUS
<1> QED BY <1>1 DEF Beside

LEMMA FetchIndexKeeps == ASSUME CacheInv, NEW k \in Kernels, FetchIndex(k) PROVE CacheInv'
<1>1. /\ step[k] = "start"
      /\ step' = [step EXCEPT ![k] = "picked"]
      /\ rel' = [rel EXCEPT ![k] = published]
      /\ UNCHANGED <<published, tree, runnable, sidecar, tainted>>
  BY DEF FetchIndex, disk
<1>2. KernelOk(k) /\ CacheTyped /\ 0 \notin Versions /\ rel[k] = 0
  BY <1>1, Known DEF KernelOk, Unset
<1>3. CacheTyped'
  BY <1>1, <1>2 DEF CacheTyped, Step
<1>4. /\ \A j \in Kernels : step'[j] = IF j = k THEN "picked" ELSE step[j]
      /\ \A j \in Kernels : rel'[j] = IF j = k THEN published ELSE rel[j]
      /\ published \in Versions
  BY <1>1, <1>2 DEF CacheTyped
<1>5. KernelOk(k)'
  BY <1>1, <1>2, <1>4 DEF KernelOk, CleanFor, Unset, Extracting
<1> QED BY <1>1, <1>2, <1>3, <1>4, <1>5, KernelStepKeeps

\* A kernel gives up: it has no release then.
LEMMA FailTells ==
    ASSUME CacheTyped, NEW k \in Kernels, Fail(k)
    PROVE  /\ step' \in [Kernels -> Step] /\ rel' \in [Kernels -> Versions \cup {0}]
           /\ \A j \in Kernels : step'[j] = IF j = k THEN "failed" ELSE step[j]
           /\ \A j \in Kernels : rel'[j] = IF j = k THEN 0 ELSE rel[j]
BY DEF CacheTyped, Fail, Step, Unset

LEMMA FindCachedKeeps == ASSUME CacheInv, NEW k \in Kernels, FindCached(k) PROVE CacheInv'
<1>1. step[k] = "start" /\ UNCHANGED <<published, tree, runnable, sidecar>>
  BY DEF FindCached, disk
<1>2. KernelOk(k) /\ CacheTyped /\ 0 \notin Versions /\ rel[k] = 0 /\ sidecar[k] = "none"
  BY <1>1, Known DEF KernelOk, Unset
<1>3. CASE Fail(k) /\ UNCHANGED tainted
  <2>1. CacheTyped'
    BY <1>1, <1>2, <1>3, FailTells DEF CacheTyped
  <2>2. KernelOk(k)'
    BY <1>1, <1>2, <1>3, FailTells DEF KernelOk, CleanFor, Unset, Extracting
  <2>3. \A j \in Kernels : j # k => step'[j] = step[j] /\ rel'[j] = rel[j]
    BY <1>2, <1>3, FailTells
  <2>4. \A j \in Kernels : rel[j] = rel'[k] /\ step[j] \in Extracting => FALSE
    BY <1>2, <1>3, FailTells, Known DEF KernelOk, Unset, Extracting
  <2> QED BY <1>1, <1>2, <1>3, <2>1, <2>2, <2>3, <2>4, KernelStepKeeps
<1>4. ASSUME NEW v \in Versions, NodeExists(v), Taint(k, v),
             step' = [step EXCEPT ![k] = "ok"], rel' = [rel EXCEPT ![k] = v]
      PROVE  CacheInv'
  <2>1. /\ tainted \subseteq tainted' /\ tainted' \subseteq Versions
        /\ v \notin tainted' => ~Beside(k, v)
    BY <1>4, TaintTells
  <2>2. CacheTyped'
    BY <1>1, <1>2, <1>4, <2>1 DEF CacheTyped, Step
  <2>3. /\ \A j \in Kernels : step'[j] = IF j = k THEN "ok" ELSE step[j]
        /\ \A j \in Kernels : rel'[j] = IF j = k THEN v ELSE rel[j]
    BY <1>2, <1>4 DEF CacheTyped
  <2>4. ASSUME v \notin tainted'
        PROVE  Installed(v) /\ \A j \in Kernels : j # k /\ rel[j] = v => step[j] \notin Extracting
    <3>1. \A j \in Kernels : j # k /\ rel[j] = v => step[j] \notin Extracting
      BY <2>1, <2>4 DEF Beside, InTree, Extracting
    <3>2. ~InHand(v)
      BY <1>1, <3>1 DEF InHand, Extracting
    <3>3. VersionOk(v)
      BY <2>1, <2>4, Known
    <3> QED BY <1>4, <3>1, <3>2, <3>3 DEF VersionOk, NodeExists
  <2>5. KernelOk(k)'
    BY <1>1, <1>2, <2>3, <2>4 DEF KernelOk, CleanFor, Unset, Extracting, Installed
  <2> QED BY <1>1, <1>2, <2>1, <2>2, <2>3, <2>4, <2>5, KernelStepKeeps
<1> QED BY <1>3, <1>4 DEF FindCached

LEMMA TestExistsKeeps == ASSUME CacheInv, NEW k \in Kernels, TestExists(k) PROVE CacheInv'
<1> DEFINE v == rel[k]
           next == IF NodeExists(v) THEN "ok" ELSE "download"
<1>1. /\ step[k] = "picked" /\ step' = [step EXCEPT ![k] = next] /\ Taint(k, v)
      /\ UNCHANGED <<published, tree, runnable, rel, sidecar>>
  BY DEF TestExists, disk
<1>2. KernelOk(k) /\ CacheTyped /\ 0 \notin Versions /\ v \in Versions
  BY <1>1, Known DEF KernelOk, Unset
<1>3. /\ tainted \subseteq tainted' /\ tainted' \subseteq Versions
      /\ v \notin tainted' => ~Beside(k, v)
  BY <1>1, <1>2, TaintTells
<1>4. CacheTyped'
  BY <1>1, <1>2, <1>3 DEF CacheTyped, Step
<1>5. /\ \A j \in Kernels : step'[j] = IF j = k THEN next ELSE step[j]
  BY <1>1, <1>2 DEF CacheTyped
<1>6. ASSUME v \notin tainted'
      PROVE  /\ VersionOk(v) /\ ~InHand(v)
             /\ \A j \in Kernels : j # k /\ rel[j] = v => step[j] \notin Extracting
  <2>1. \A j \in Kernels : j # k /\ rel[j] = v => step[j] \notin Extracting
    BY <1>3, <1>6 DEF Beside, InTree, Extracting
  <2>2. ~InHand(v)
    BY <1>1, <2>1 DEF InHand, Extracting
  <2>3. VersionOk(v)
    BY <1>2, <1>3, <1>6, Known
  <2> QED BY <2>1, <2>2, <2>3
<1>7. v \notin tainted' => (next = "ok" => Installed(v)) /\ (next = "download" => tree[v] = {})
  BY <1>6 DEF VersionOk, NodeExists, Installed, Parts
<1>8. KernelOk(k)'
  <2>1. next \in {"ok", "download"}
    OBVIOUS
  <2> HIDE DEF next
  <2> QED BY <1>1, <1>2, <1>5, <1>7, <2>1 DEF KernelOk, CleanFor, Unset, Extracting, Installed
<1>9. \A j \in Kernels :
          j # k /\ step[j] \in Extracting /\ rel[j] = rel'[k] /\ rel[j] \notin tainted' => FALSE
  BY <1>1, <1>6
<1>10. \A u \in Versions \ tainted' : u = v => VersionOk(u)'
  BY <1>1, <1>6 DEF VersionOk, Installed
<1> HIDE DEF next
<1> QED BY <1>1, <1>3, <1>4, <1>5, <1>8, <1>9, <1>10, KernelStepKeeps

\* A kernel goes on with its archive, and the tree of the release is empty still.
LEMMA ArchiveStepKeeps ==
    ASSUME CacheInv, NEW k \in Kernels,
           step[k] \in {"download", "write", "sums"},
           NEW next \in {"write", "sums", "extract"},
           step' = [step EXCEPT ![k] = next],
           UNCHANGED <<published, tree, runnable, rel, sidecar, tainted>>
    PROVE  CacheInv'
<1>1. KernelOk(k) /\ CacheTyped /\ 0 \notin Versions /\ rel[k] \in Versions
  BY Known DEF Unset
<1>2. CacheTyped'
  BY <1>1 DEF CacheTyped, Step
<1>3. \A j \in Kernels : step'[j] = IF j = k THEN next ELSE step[j]
  BY <1>1 DEF CacheTyped
<1>4. KernelOk(k)'
  BY <1>1, <1>3 DEF KernelOk, CleanFor, Unset, Extracting
<1>5. ASSUME NEW j \in Kernels, j # k, step[j] \in Extracting, rel[j] = rel[k],
             rel[j] \notin tainted
      PROVE  FALSE
  BY <1>1, <1>5, Known DEF KernelOk, CleanFor, OthersWait
<1>6. \A v \in Versions \ tainted' : v = rel[k] => VersionOk(v)'
  BY <1>1 DEF KernelOk, CleanFor, VersionOk
<1> QED BY <1>2, <1>3, <1>4, <1>5, <1>6, KernelStepKeeps

\* A kernel gives up, and its release is as it was, or emptied.
LEMMA GivingUpKeeps ==
    ASSUME CacheInv, NEW k \in Kernels, Fail(k), sidecar' = sidecar, published' = published,
           step[k] \notin {"ok", "start"}, rel[k] \in Versions,
           tainted \subseteq tainted', tainted' \subseteq Versions,
           tree' \in [Versions -> SUBSET Parts], runnable' \in [Versions -> BOOLEAN],
           \A v \in Versions : v # rel[k] => tree'[v] = tree[v] /\ runnable'[v] = runnable[v],
           \/ rel[k] \in tainted'
           \/ tree' = tree /\ runnable' = runnable /\ step[k] \notin Extracting
           \/ tree'[rel[k]] = {} /\ OthersWait(k)
    PROVE  CacheInv'
<1>1. KernelOk(k) /\ CacheTyped /\ 0 \notin Versions /\ sidecar[k] = "none"
  BY Known DEF KernelOk
<1>2. CacheTyped'
  BY <1>1, FailTells DEF CacheTyped
<1>3. /\ \A j \in Kernels : step'[j] = IF j = k THEN "failed" ELSE step[j]
      /\ \A j \in Kernels : rel'[j] = IF j = k THEN 0 ELSE rel[j]
  BY <1>1, FailTells
<1>4. KernelOk(k)'
  BY <1>1, <1>3 DEF KernelOk, CleanFor, Unset, Extracting
<1>5. \A j \in Kernels : rel[j] = 0 => step[j] \notin Extracting
  BY Known DEF KernelOk, Unset, Extracting
<1>6. ASSUME NEW v \in Versions \ tainted', v = rel[k] PROVE VersionOk(v)'
  <2>1. CASE tree'[v] = {}
    BY <2>1 DEF VersionOk
  <2>2. CASE tree' = tree /\ runnable' = runnable /\ step[k] \notin Extracting
    <3>1. VersionOk(v)
      BY <1>6, Known
    <3>2. CASE InHand(v)
      <4>1. PICK j \in Kernels : rel[j] = v /\ step[j] \in Extracting
        BY <3>2 DEF InHand
      <4>2. rel'[j] = v /\ step'[j] \in Extracting
        BY <1>3, <2>2, <4>1
      <4> QED BY <4>2 DEF VersionOk, InHand
    <3> QED BY <2>2, <3>1, <3>2 DEF VersionOk, Installed
  <2> QED BY <1>6, <2>1, <2>2
<1>7. \A v \in Versions \ tainted' :
          \/ tree'[v] = tree[v] /\ runnable'[v] = runnable[v]
          \/ rel[k] = v /\ OthersWait(k)
  OBVIOUS
<1> QED BY <1>1, <1>2, <1>3, <1>4, <1>5, <1>6, <1>7, KernelStepKeeps

LEMMA TruncateKeeps == ASSUME CacheInv, NEW k \in Kernels, Truncate(k) PROVE CacheInv'
BY ArchiveStepKeeps DEF Truncate

LEMMA WriteArchiveKeeps == ASSUME CacheInv, NEW k \in Kernels, WriteArchive(k) PROVE CacheInv'
BY ArchiveStepKeeps DEF WriteArchive

LEMMA DownloadFailsKeeps == ASSUME CacheInv, NEW k \in Kernels, DownloadFails(k) PROVE CacheInv'
<1>1. /\ step[k] \in {"download", "write", "sums"} /\ Fail(k)
      /\ UNCHANGED <<published, tree, runnable, sidecar, tainted>>
  BY DEF DownloadFails
<1>2. CacheTyped /\ rel[k] \in Versions
  BY <1>1, Known DEF Unset
<1> QED BY <1>1, <1>2, GivingUpKeeps DEF CacheTyped, Extracting

LEMMA VerifyKeeps == ASSUME CacheInv, NEW k \in Kernels, Verify(k) PROVE CacheInv'
<1>1. step[k] = "sums" /\ UNCHANGED <<published, tree, runnable, sidecar, tainted>>
  BY DEF Verify
<1>2. CacheTyped /\ rel[k] \in Versions
  BY <1>1, Known DEF Unset
<1>3. CASE step' = [step EXCEPT ![k] = "extract"] /\ rel' = rel
  BY <1>1, <1>3, ArchiveStepKeeps
<1>4. CASE Fail(k)
  BY <1>1, <1>2, <1>4, GivingUpKeeps DEF CacheTyped, Extracting
<1> QED BY <1>3, <1>4 DEF Verify

LEMMA CrashKeeps == ASSUME CacheInv, NEW k \in Kernels, Crash(k) PROVE CacheInv'
<1>1. /\ step[k] \notin {"idle", "start", "failed", "ok"} /\ Fail(k)
      /\ tainted' = IF step[k] \in Extracting THEN tainted \cup {rel[k]} ELSE tainted
      /\ UNCHANGED <<published, tree, runnable, sidecar>>
  BY DEF Crash, Extracting
<1>2. CacheTyped /\ rel[k] \in Versions
  BY <1>1, Known DEF Unset
<1>3. tainted \subseteq tainted' /\ tainted' \subseteq Versions
  BY <1>1, <1>2 DEF CacheTyped
<1>4. step[k] \in Extracting => rel[k] \in tainted'
  BY <1>1
<1> QED BY <1>1, <1>2, <1>3, <1>4, GivingUpKeeps DEF CacheTyped

LEMMA FailedExtractionKeeps == ASSUME CacheInv, NEW k \in Kernels, ExtractFails(k) PROVE CacheInv'
<1>1. /\ step[k] \in {"extract", "nodeOpen", "nodeDone"} /\ Fail(k) /\ Taint(k, rel[k])
      /\ tree' = [tree EXCEPT ![rel[k]] = {}]
      /\ runnable' = [runnable EXCEPT ![rel[k]] = FALSE]
      /\ UNCHANGED <<published, sidecar>>
  BY DEF ExtractFails
<1>2. CacheTyped /\ rel[k] \in Versions
  BY <1>1, Known DEF Unset
<1>3. /\ tainted \subseteq tainted' /\ tainted' \subseteq Versions
      /\ rel[k] \notin tainted' => ~Beside(k, rel[k])
  BY <1>1, <1>2, TaintTells
<1>4. rel[k] \notin tainted' => OthersWait(k)
  BY <1>1, <1>3, NobodyBeside DEF InTree, OthersWait
<1>5. /\ tree' \in [Versions -> SUBSET Parts] /\ runnable' \in [Versions -> BOOLEAN]
      /\ tree'[rel[k]] = {}
      /\ \A v \in Versions : v # rel[k] => tree'[v] = tree[v] /\ runnable'[v] = runnable[v]
  BY <1>1, <1>2 DEF CacheTyped
<1> QED BY <1>1, <1>2, <1>3, <1>4, <1>5, GivingUpKeeps

LEMMA CheckNodeKeeps == ASSUME CacheInv, NEW k \in Kernels, CheckNode(k) PROVE CacheInv'
<1>1. step[k] = "check" /\ UNCHANGED <<published, sidecar, tainted>>
  BY DEF CheckNode
<1>2. KernelOk(k) /\ CacheTyped /\ rel[k] \in Versions /\ 0 \notin Versions
  BY <1>1, Known DEF Unset
<1>3. rel[k] \notin tainted => TreeFits(k) /\ OthersWait(k)
  BY <1>1, <1>2 DEF KernelOk, CleanFor, Extracting
<1>4. CASE /\ NodeExists(rel[k]) /\ step' = [step EXCEPT ![k] = "permissions"]
           /\ UNCHANGED <<tree, runnable, rel>>
  <2>1. CacheTyped'
    BY <1>1, <1>2, <1>4 DEF CacheTyped, Step, Extracting
  <2>2. \A j \in Kernels : step'[j] = IF j = k THEN "permissions" ELSE step[j]
    BY <1>2, <1>4 DEF CacheTyped
  <2>3. rel[k] \notin tainted => tree[rel[k]] = Parts
    BY <1>1, <1>3, <1>4 DEF TreeFits, NodeExists
  <2>4. rel[k] \notin tainted => TreeFits(k)' /\ OthersWait(k)'
    BY <1>3, <1>4, <2>2, <2>3 DEF TreeFits, OthersWait
  <2>5. KernelOk(k)'
    BY <1>1, <1>2, <1>4, <2>2, <2>4 DEF KernelOk, CleanFor, Unset, Extracting
  <2>6. ASSUME NEW j \in Kernels, j # k, step[j] \in Extracting, rel[j] = rel[k],
               rel[j] \notin tainted
        PROVE  FALSE
    BY <1>3, <2>6 DEF OthersWait, Extracting
  <2>7. \A v \in Versions : v = rel[k] => VersionOk(v)'
    BY <1>4, <2>2 DEF VersionOk, InHand, Extracting
  <2> QED BY <1>1, <1>4, <2>1, <2>2, <2>5, <2>6, <2>7, KernelStepKeeps
<1>5. CASE /\ tree' = [tree EXCEPT ![rel[k]] = {}]
           /\ runnable' = [runnable EXCEPT ![rel[k]] = FALSE]
           /\ Fail(k)
  <2>1. /\ tree' \in [Versions -> SUBSET Parts] /\ runnable' \in [Versions -> BOOLEAN]
        /\ tree'[rel[k]] = {}
        /\ \A v \in Versions : v # rel[k] => tree'[v] = tree[v] /\ runnable'[v] = runnable[v]
    BY <1>2, <1>5 DEF CacheTyped
  <2>2. tainted \subseteq tainted' /\ tainted' \subseteq Versions
    BY <1>1, <1>2 DEF CacheTyped
  <2> QED BY <1>1, <1>2, <1>3, <1>5, <2>1, <2>2, GivingUpKeeps
<1> QED BY <1>4, <1>5 DEF CheckNode

LEMMA WriteIsLostKeeps == ASSUME CacheInv, NEW k \in Kernels, WriteIsLost(k) PROVE CacheInv'
<1> DEFINE v == rel[k]
           next == CASE step[k] = "extract"  -> "nodeOpen"
                     [] step[k] = "nodeOpen" -> "nodeDone"
                     [] step[k] = "nodeDone" -> "check"
           runs == runnable[v] /\ step[k] # "nodeOpen"
<1>1. /\ step[k] \in {"extract", "nodeOpen", "nodeDone"}
      /\ tainted' = tainted \cup {v}
      /\ step' = [step EXCEPT ![k] = next]
      /\ runnable' = [runnable EXCEPT ![v] = runs]
      /\ UNCHANGED <<published, tree, rel, sidecar>>
  BY DEF WriteIsLost, GoesOn
<1>2. KernelOk(k) /\ CacheTyped /\ v \in Versions /\ 0 \notin Versions
  BY <1>1, Known DEF Unset
<1>3. next \in {"nodeOpen", "nodeDone", "check"} /\ runs \in BOOLEAN
  BY <1>1
<1> HIDE DEF next, runs
<1>4. CacheTyped'
  BY <1>1, <1>2, <1>3 DEF CacheTyped, Step, Extracting
<1>5. /\ \A j \in Kernels : step'[j] = IF j = k THEN next ELSE step[j]
      /\ \A u \in Versions : u # v => tree'[u] = tree[u] /\ runnable'[u] = runnable[u]
  BY <1>1, <1>2 DEF CacheTyped
<1>6. KernelOk(k)'
  BY <1>1, <1>2, <1>3, <1>5 DEF KernelOk, Unset
<1> HIDE DEF v
<1> QED BY <1>1, <1>2, <1>4, <1>5, <1>6, KernelStepKeeps DEF v

LEMMA ExtractPartKeeps == ASSUME CacheInv, NEW k \in Kernels, ExtractPart(k) PROVE CacheInv'
<1> DEFINE v == rel[k]
           files == (tree[v] \cup PartOf(k)) \ (IF step[k] = "extract" THEN {"nodeData"} ELSE {})
           next == CASE step[k] = "extract"  -> "nodeOpen"
                     [] step[k] = "nodeOpen" -> "nodeDone"
                     [] step[k] = "nodeDone" -> "check"
           runs == runnable[v] /\ step[k] # "nodeOpen"
<1>1. /\ step[k] \in {"extract", "nodeOpen", "nodeDone"} /\ Taint(k, v)
      /\ tree' = [tree EXCEPT ![v] = files]
      /\ step' = [step EXCEPT ![k] = next]
      /\ runnable' = [runnable EXCEPT ![v] = runs]
      /\ UNCHANGED <<published, rel, sidecar>>
  BY DEF ExtractPart, GoesOn
<1>2. KernelOk(k) /\ CacheTyped /\ v \in Versions /\ 0 \notin Versions
  BY <1>1, Known DEF Unset
<1>3. /\ tainted \subseteq tainted' /\ tainted' \subseteq Versions
      /\ v \notin tainted' => ~Beside(k, v)
  BY <1>1, <1>2, TaintTells
<1>4. \A j \in Kernels : j # k /\ rel[j] = v => v \in tainted'
  BY <1>1, <1>3, NobodyBeside DEF InTree
<1>5. /\ step[k] = "extract" => files = (tree[v] \cup {"node"}) \ {"nodeData"} /\ next = "nodeOpen"
      /\ step[k] = "nodeOpen" => files = tree[v] \cup {"nodeData"} /\ next = "nodeDone"
      /\ step[k] = "nodeDone" => files = tree[v] \cup {"rest"} /\ next = "check"
      /\ runs \in BOOLEAN
  <2>1. /\ step[k] = "extract" => PartOf(k) = {"node"}
        /\ step[k] = "nodeOpen" => PartOf(k) = {"nodeData"}
        /\ step[k] = "nodeDone" => PartOf(k) = {"rest"}
    BY DEF PartOf
  <2> QED BY <2>1
<1> HIDE DEF files, next, runs
<1>6. files \subseteq Parts
  <2>1. tree[v] \subseteq Parts
    BY <1>2 DEF CacheTyped
  <2> QED BY <1>1, <1>5, <2>1 DEF Parts
<1>7. next \in {"nodeOpen", "nodeDone", "check"}
  BY <1>1, <1>5
<1>8. CacheTyped'
  BY <1>1, <1>2, <1>3, <1>5, <1>6, <1>7 DEF CacheTyped, Step, Extracting
<1>9. /\ \A j \in Kernels : step'[j] = IF j = k THEN next ELSE step[j]
      /\ tree'[v] = files
      /\ \A u \in Versions : u # v => tree'[u] = tree[u] /\ runnable'[u] = runnable[u]
  BY <1>1, <1>2 DEF CacheTyped
<1>10. ASSUME v \notin tainted' PROVE CleanFor(k)'
  <2>1. CleanFor(k)
    BY <1>2, <1>3, <1>10 DEF KernelOk
  <2>2. /\ step[k] = "extract" => tree[v] = {}
        /\ step[k] = "nodeOpen" => tree[v] = {"node"}
        /\ step[k] = "nodeDone" => tree[v] = {"node", "nodeData"}
    BY <2>1 DEF CleanFor, TreeFits, Extracting
  <2>3. /\ next = "nodeOpen" => files = {"node"}
        /\ next = "nodeDone" => files = {"node", "nodeData"}
        /\ next = "check" => files = Parts
    BY <1>1, <1>5, <2>2 DEF Parts
  <2>4. TreeFits(k)'
    BY <1>1, <1>7, <1>9, <2>3 DEF TreeFits
  <2>5. OthersWait(k)'
    BY <1>1, <1>4, <1>10 DEF OthersWait
  <2> QED BY <1>7, <1>9, <2>4, <2>5 DEF CleanFor
<1>11. KernelOk(k)'
  BY <1>1, <1>2, <1>7, <1>9, <1>10 DEF KernelOk, Unset
<1>12. OthersWait(k) \/ v \in tainted'
  BY <1>4 DEF OthersWait
<1>13. \A u \in Versions : u = v => VersionOk(u)'
  BY <1>1, <1>7, <1>9 DEF VersionOk, InHand, Extracting
<1> QED BY <1>1, <1>3, <1>4, <1>8, <1>9, <1>11, <1>12, <1>13, KernelStepKeeps

LEMMA ExtractEmptyKeeps == ASSUME CacheInv, NEW k \in Kernels, ExtractEmpty(k) PROVE CacheInv'
<1> DEFINE v == rel[k]
<1>1. /\ step[k] = "extract" /\ Taint(k, v)
      /\ step' = [step EXCEPT ![k] = "check"]
      /\ UNCHANGED <<published, tree, runnable, rel, sidecar>>
  BY DEF ExtractEmpty
<1>2. KernelOk(k) /\ CacheTyped /\ v \in Versions /\ 0 \notin Versions
  BY <1>1, Known DEF Unset
<1>3. /\ tainted \subseteq tainted' /\ tainted' \subseteq Versions
      /\ v \notin tainted' => ~Beside(k, v)
  BY <1>1, <1>2, TaintTells
<1>4. \A j \in Kernels : j # k /\ rel[j] = v => v \in tainted'
  BY <1>1, <1>3, NobodyBeside DEF InTree
<1>5. CacheTyped'
  BY <1>1, <1>2, <1>3 DEF CacheTyped, Step, Extracting
<1>6. \A j \in Kernels : step'[j] = IF j = k THEN "check" ELSE step[j]
  BY <1>1, <1>2 DEF CacheTyped
<1>7. v \notin tainted' => tree[v] = {} /\ OthersWait(k)'
  BY <1>1, <1>2, <1>3, <1>4 DEF KernelOk, CleanFor, OthersWait
<1>8. v \notin tainted' => CleanFor(k)'
  BY <1>1, <1>6, <1>7 DEF CleanFor, TreeFits
<1>9. KernelOk(k)'
  BY <1>1, <1>2, <1>6, <1>8 DEF KernelOk, Unset
<1>10. \A u \in Versions : u = v => VersionOk(u)'
  BY <1>1, <1>6 DEF VersionOk, InHand, Extracting
<1> QED BY <1>1, <1>3, <1>4, <1>5, <1>6, <1>9, <1>10, KernelStepKeeps

LEMMA SetPermissionsKeeps ==
    ASSUME CacheInv, NEW k \in Kernels, SetPermissions(k) PROVE CacheInv'
<1> DEFINE v == rel[k]
<1>1. /\ step[k] = "permissions"
      /\ runnable' = [runnable EXCEPT ![v] = NodeExists(v)]
      /\ step' = [step EXCEPT ![k] = "clean"]
      /\ UNCHANGED <<published, tree, rel, sidecar, tainted>>
  BY DEF SetPermissions
<1>2. KernelOk(k) /\ CacheTyped /\ v \in Versions /\ 0 \notin Versions
  BY <1>1, Known DEF Unset
<1>3. v \notin tainted => tree[v] = Parts /\ OthersWait(k)
  BY <1>1, <1>2 DEF KernelOk, CleanFor, Extracting, TreeFits
<1>4. CacheTyped'
  BY <1>1, <1>2 DEF CacheTyped, Step, NodeExists
<1>5. /\ \A j \in Kernels : step'[j] = IF j = k THEN "clean" ELSE step[j]
      /\ runnable'[v] = NodeExists(v)
      /\ \A u \in Versions : u # v => runnable'[u] = runnable[u]
  BY <1>1, <1>2 DEF CacheTyped
<1>6. v \notin tainted => Installed(v)'
  BY <1>1, <1>3, <1>5 DEF Installed, NodeExists, Parts
<1>7. KernelOk(k)'
  <2>1. v \notin tainted => CleanFor(k)'
    BY <1>1, <1>5, <1>6 DEF CleanFor, Extracting
  <2> QED BY <1>1, <1>2, <1>5, <2>1 DEF KernelOk, Unset
<1>8. ASSUME NEW j \in Kernels, j # k, step[j] \in Extracting, rel[j] = v, rel[j] \notin tainted
      PROVE  FALSE
  BY <1>3, <1>8 DEF OthersWait, Extracting
<1>9. \A u \in Versions \ tainted : u = v => VersionOk(u)'
  BY <1>1, <1>6 DEF VersionOk, Installed
<1> QED BY <1>1, <1>3, <1>4, <1>5, <1>7, <1>8, <1>9, KernelStepKeeps

LEMMA RemoveArchiveKeeps ==
    ASSUME CacheInv, NEW k \in Kernels, RemoveArchive(k) PROVE CacheInv'
<1>1. /\ step[k] = "clean" /\ step' = [step EXCEPT ![k] = "ok"]
      /\ UNCHANGED <<published, tree, runnable, rel, sidecar, tainted>>
  BY DEF RemoveArchive
<1>2. KernelOk(k) /\ CacheTyped /\ rel[k] \in Versions /\ 0 \notin Versions
  BY <1>1, Known DEF Unset
<1>3. CacheTyped'
  BY <1>1, <1>2 DEF CacheTyped, Step
<1>4. \A j \in Kernels : step'[j] = IF j = k THEN "ok" ELSE step[j]
  BY <1>1, <1>2 DEF CacheTyped
<1>5. rel[k] \notin tainted => Installed(rel[k])
  BY <1>1, <1>2 DEF KernelOk, CleanFor
<1>6. KernelOk(k)'
  BY <1>1, <1>2, <1>4, <1>5 DEF KernelOk, CleanFor, Unset, Extracting, Installed
<1>7. ASSUME NEW j \in Kernels, j # k, step[j] \in Extracting, rel[j] = rel[k],
             rel[j] \notin tainted
      PROVE  FALSE
  BY <1>1, <1>2, <1>7, Known DEF KernelOk, CleanFor, OthersWait
<1>8. \A v \in Versions \ tainted : v = rel[k] => VersionOk(v)'
  BY <1>1, <1>5 DEF VersionOk, Installed
<1> QED BY <1>1, <1>3, <1>4, <1>6, <1>7, <1>8, KernelStepKeeps

LEMMA SpawnKeeps == ASSUME CacheInv, NEW k \in Kernels, Spawn(k) PROVE CacheInv'
<1> DEFINE result == IF {"node", "nodeData"} \subseteq tree[rel[k]] /\ runnable[rel[k]]
                     THEN "running" ELSE "exited"
<1>1. /\ step[k] = "ok"
      /\ sidecar' = [sidecar EXCEPT ![k] = result]
      /\ UNCHANGED <<published, tree, runnable, step, rel, tainted>>
  BY DEF Spawn, disk
<1>2. KernelOk(k) /\ CacheTyped /\ rel[k] \in Versions
  BY <1>1, Known DEF Unset
<1>3. \A j \in Kernels : j # k => sidecar'[j] = sidecar[j]
  BY <1>1
<1>4. rel[k] \notin tainted => result = "running"
  BY <1>1, <1>2 DEF KernelOk, CleanFor, Installed, Parts
<1>5. result \in {"running", "exited"} /\ sidecar'[k] = result
  BY <1>1, <1>2 DEF CacheTyped
<1> HIDE DEF result
<1>6. CacheTyped'
  BY <1>1, <1>2, <1>5 DEF CacheTyped
<1>7. KernelOk(k)'
  <2>1. rel[k] \in Versions \ tainted => CleanFor(k)'
    BY <1>1, <1>2 DEF KernelOk, CleanFor, Extracting, Installed
  <2>2. sidecar'[k] = "exited" => rel[k] \in tainted
    BY <1>4, <1>5
  <2> QED BY <1>1, <1>2, <2>1, <2>2 DEF KernelOk
<1>8. ASSUME NEW j \in Kernels, step[j] \in Extracting, rel[j] = rel[k], j # k,
             rel[j] \notin tainted
      PROVE  FALSE
  BY <1>1, <1>2, <1>8, Known DEF KernelOk, CleanFor, OthersWait
<1>9. \A v \in Versions \ tainted : v = rel[k] => VersionOk(v)'
  BY <1>1, <1>2 DEF KernelOk, CleanFor, VersionOk, Installed
<1> QED BY <1>1, <1>3, <1>6, <1>7, <1>8, <1>9, KernelStepKeeps

LEMMA StartAgainKeeps == ASSUME CacheInv, NEW k \in Kernels, StartAgain(k) PROVE CacheInv'
<1>1. /\ step[k] \in {"idle", "failed"} \/ sidecar[k] # "none"
      /\ step' = [step EXCEPT ![k] = "start"]
      /\ rel' = [rel EXCEPT ![k] = 0]
      /\ sidecar' = [sidecar EXCEPT ![k] = "none"]
      /\ UNCHANGED <<published, tree, runnable, tainted>>
  BY DEF StartAgain, disk
<1>2. KernelOk(k) /\ CacheTyped /\ 0 \notin Versions
  BY Known
<1>3. CacheTyped'
  BY <1>1, <1>2 DEF CacheTyped, Step, Unset
<1>4. /\ \A j \in Kernels : step'[j] = IF j = k THEN "start" ELSE step[j]
      /\ \A j \in Kernels : rel'[j] = IF j = k THEN 0 ELSE rel[j]
      /\ \A j \in Kernels : sidecar'[j] = IF j = k THEN "none" ELSE sidecar[j]
  BY <1>1, <1>2 DEF CacheTyped
<1>5. KernelOk(k)'
  BY <1>1, <1>2, <1>4 DEF KernelOk, Unset
<1>6. \A j \in Kernels : rel[j] = 0 => step[j] \notin Extracting
  BY Known DEF KernelOk, Unset, Extracting
<1>7. ASSUME NEW v \in Versions \ tainted, v = rel[k] PROVE VersionOk(v)'
  <2>1. Installed(v)
    BY <1>1, <1>2, <1>7 DEF KernelOk, CleanFor, Unset
  <2> QED BY <1>1, <2>1 DEF VersionOk, Installed
<1> QED BY <1>1, <1>2, <1>3, <1>4, <1>5, <1>6, <1>7, KernelStepKeeps

LEMMA CacheNext ==
    ASSUME MaxVersion \in Nat, CacheInv, [Next]_cacheVars
    PROVE  CacheInv'
<1>1. CASE Publish \/ Heal \/ UNCHANGED cacheVars
  <2>1. published' \in Versions
    BY <1>1 DEF CacheInv, CacheTyped, Publish, Heal, cacheVars, Versions
  <2>2. UNCHANGED <<tree, runnable, step, rel, sidecar, tainted>>
    BY <1>1 DEF Publish, Heal, cacheVars
  <2> QED BY <2>1, <2>2 DEF CacheInv, CacheTyped, KernelOk, CleanFor, TreeFits, OthersWait,
                           VersionOk, InHand, Installed, Versions
<1>2. ASSUME NEW k \in Kernels, Ensure(k) \/ Spawn(k) \/ StartAgain(k) \/ Crash(k)
      PROVE  CacheInv'
  <2>1. ASSUME Ensure(k) PROVE CacheInv'
    BY <2>1, FetchIndexKeeps, FindCachedKeeps, TestExistsKeeps, TruncateKeeps,
       WriteArchiveKeeps, DownloadFailsKeeps, VerifyKeeps, ExtractPartKeeps,
       WriteIsLostKeeps, FailedExtractionKeeps, ExtractEmptyKeeps, CheckNodeKeeps, SetPermissionsKeeps,
       RemoveArchiveKeeps DEF Ensure
  <2> QED BY <1>2, <2>1, SpawnKeeps, StartAgainKeeps, CrashKeeps
<1> QED BY <1>1, <1>2 DEF Next

(***************************************************************************)
(* Of any number of kernels that share the cache, without a lock, with     *)
(* crashes and with writes that the disk refuses and nobody notices, no    *)
(* sidecar fails to start from a release whose extraction was neither cut  *)
(* short nor run into and lost no write, and what Ensure returns of such a *)
(* release is whole.                                                       *)
(***************************************************************************)
THEOREM SidecarStarts ==
    ASSUME MaxVersion \in Nat
    PROVE  Init /\ [][Next]_cacheVars => []SidecarRuns
<1>1. Init => CacheInv
  BY CacheInit
<1>2. CacheInv /\ [Next]_cacheVars => CacheInv'
  BY CacheNext
<1> QED BY <1>1, <1>2, CacheImplies, PTL

-----------------------------------------------------------------------------
(***************************************************************************)
(* Updater.  A download that counts as checked is the announced program or *)
(* has become the program file; what is copied beside the program takes    *)
(* its place only when it is whole.                                        *)
(***************************************************************************)
Files == {"none", "empty", "good", "bad"}

UpdateInv ==
    /\ temp \in Files /\ copy \in Files \cup {"part"}
    /\ exe \in {"old", "empty", "good", "bad"}
    /\ origin \in {"others", "own", "checked"}
    /\ origin = "own" => temp # "empty" \/ at_ = "write" \/ (at_ = "idle" /\ ~downloaded)
    /\ origin = "checked" => temp \in {"none", "good"} /\ at_ \notin {"write", "verify"}
    /\ at_ = "renameCopy" =>
          /\ copy \in Files \ {"none"}
          /\ origin = "own" => copy # "empty"
          /\ origin = "checked" => copy = "good"
    /\ U!ProgramStaysWhole

LEMMA UpdateNext == ASSUME UpdateInv, [U!Next]_updVars PROVE UpdateInv'
<1> USE DEF UpdateInv, Files, U!ProgramStaysWhole, U!program
<1>1. CASE U!CheckForUpdates
  BY <1>1 DEF U!CheckForUpdates
<1>2. CASE U!Truncate
  BY <1>2 DEF U!Truncate
<1>3. CASE U!WriteUpdate
  BY <1>3 DEF U!WriteUpdate
<1>4. CASE U!Verify
  BY <1>4 DEF U!Verify
<1>5. CASE U!Rename
  BY <1>5 DEF U!Rename
<1>6. CASE U!Copy
  BY <1>6 DEF U!Copy
<1>7. CASE U!CopyEnds
  BY <1>7 DEF U!CopyEnds
<1>8. CASE U!RenameCopy
  BY <1>8 DEF U!RenameCopy
<1>9. CASE U!SetPermissions
  BY <1>9 DEF U!SetPermissions
<1>10. CASE U!Exec
  BY <1>10 DEF U!Exec
<1>11. CASE U!Crash
  BY <1>11 DEF U!Crash
<1>12. CASE U!StartAgain
  BY <1>12 DEF U!StartAgain
<1>13. CASE U!OtherInstance
  BY <1>13 DEF U!OtherInstance
<1>14. CASE UNCHANGED updVars
  BY <1>14 DEF updVars
<1> QED BY <1>1, <1>2, <1>3, <1>4, <1>5, <1>6, <1>7, <1>8, <1>9, <1>10, <1>11, <1>12,
           <1>13, <1>14 DEF U!Next

(***************************************************************************)
(* Whatever is cut short, the program file is never a part of a file, and  *)
(* can be executed but for a crash before its permissions.  As long as no  *)
(* other instance has written the download since this one did, it is the   *)
(* old program or what was downloaded, never the file another has just     *)
(* truncated, and the announced program if its sum was checked.            *)
(***************************************************************************)
THEOREM ProgramIsWhole == U!Init /\ [][U!Next]_updVars => []ProgramStaysWhole
<1>1. U!Init => UpdateInv
  BY DEF U!Init, UpdateInv, Files, U!ProgramStaysWhole
<1>2. UpdateInv /\ [U!Next]_updVars => UpdateInv'
  BY UpdateNext
<1>3. UpdateInv => ProgramStaysWhole
  BY DEF UpdateInv, ProgramStaysWhole
<1> QED BY <1>1, <1>2, <1>3, PTL

-----------------------------------------------------------------------------
(***************************************************************************)
(* Modules.                                                                *)
(***************************************************************************)
Owner == Libs \cup {Builtin}

ModulesTyped ==
    /\ phase \in {"boot", "running", "unloaded", "ended"}
    /\ fns \in [Keys -> Owner \cup {M!None}]
    /\ mapped \subseteq Libs
    /\ calls \in Seq(Owner) /\ threads \subseteq Owner
    /\ regions \in [Ids -> Contents \cup {M!None}]
    /\ given \subseteq Ids \X Contents

ModulesInv == ModulesTyped /\ M!CodeIsMapped /\ M!RegionsStay

LEMMA ModulesInit == M!Init => ModulesInv
<1> SUFFICES ASSUME M!Init PROVE ModulesInv
  OBVIOUS
<1>1. ModulesTyped
  BY DEF M!Init, ModulesTyped, Owner
<1>2. M!CodeIsMapped
  BY DEF M!Init, M!CodeIsMapped
<1> QED BY <1>1, <1>2 DEF M!Init, ModulesInv, M!RegionsStay

\* Functions are registered for code that is mapped, or become so.
LEMMA RegisteredKeeps ==
    ASSUME ModulesInv, NEW desc \in SUBSET Keys, NEW owner \in Owner,
           phase = "boot", fns' = M!Registered(desc, owner),
           mapped \subseteq mapped', mapped' \subseteq Libs,
           desc # {} => owner = Builtin \/ owner \in mapped',
           UNCHANGED <<phase, calls, threads, regions, given>>
    PROVE  ModulesInv'
<1>1. ModulesTyped'
  BY DEF ModulesInv, ModulesTyped, M!Registered
<1>2. \A o : M!Mapped(o) => M!Mapped(o)'
  BY DEF M!Mapped
<1>3. ASSUME NEW k \in Keys, NEW o, fns'[k] = o, o # M!None PROVE M!Mapped(o)'
  <2>1. CASE k \in desc
    <3>1. o = owner /\ desc # {}
      BY <1>3, <2>1 DEF M!Registered
    <3> QED BY <3>1 DEF M!Mapped
  <2>2. CASE k \notin desc
    <3>1. fns[k] = o
      BY <1>3, <2>2 DEF M!Registered
    <3> QED BY <1>2, <1>3, <3>1 DEF ModulesInv, M!CodeIsMapped
  <2> QED BY <2>1, <2>2
<1>4. M!CodeIsMapped'
  <2>1. /\ \A k \in Keys : fns'[k] # M!None => M!Mapped(fns[k])'
        /\ \A n \in 1 .. Len(calls) : M!Mapped(calls[n])'
        /\ \A o \in threads : M!Mapped(o)'
    BY <1>2, <1>3 DEF ModulesInv, M!CodeIsMapped
  <2> QED BY <2>1 DEF M!CodeIsMapped
<1> QED BY <1>1, <1>4 DEF ModulesInv, M!RegionsStay

\* Calls and threads come and go.
LEMMA CallsKeep ==
    ASSUME ModulesInv, UNCHANGED <<phase, mapped, fns, regions, given>>,
           calls' \in Seq(Owner), threads' \subseteq Owner,
           phase \in {"boot", "running"} =>
               /\ \A n \in 1 .. Len(calls') : M!Mapped(calls'[n])
               /\ \A owner \in threads' : M!Mapped(owner)
    PROVE  ModulesInv'
<1>1. ModulesTyped'
  BY DEF ModulesInv, ModulesTyped
<1>2. M!CodeIsMapped'
  BY DEF ModulesInv, M!CodeIsMapped, M!Mapped
<1> QED BY <1>1, <1>2 DEF ModulesInv, M!RegionsStay

LEMMA ExecuteKeeps == ASSUME ModulesInv, NEW key \in Keys, M!Execute(key) PROVE ModulesInv'
<1>1. /\ phase = "running" /\ fns[key] # M!None
      /\ calls' = Append(calls, fns[key])
      /\ UNCHANGED <<phase, mapped, fns, threads, regions, given>>
  BY DEF M!Execute
<1>2. calls \in Seq(Owner) /\ fns[key] \in Owner /\ threads \subseteq Owner
  BY <1>1 DEF ModulesInv, ModulesTyped
<1>3. /\ M!Mapped(fns[key])
      /\ \A n \in 1 .. Len(calls) : M!Mapped(calls[n])
      /\ \A owner \in threads : M!Mapped(owner)
  BY <1>1 DEF ModulesInv, M!CodeIsMapped
<1>4. /\ calls' \in Seq(Owner) /\ Len(calls) \in Nat /\ Len(calls') = Len(calls) + 1
      /\ \A n \in 1 .. Len(calls) : calls'[n] = calls[n]
      /\ calls'[Len(calls) + 1] = fns[key]
  BY <1>1, <1>2
<1>5. \A n \in 1 .. Len(calls') : n \in 1 .. Len(calls) \/ n = Len(calls) + 1
  BY <1>4
<1>6. \A n \in 1 .. Len(calls') : M!Mapped(calls'[n])
  BY <1>3, <1>4, <1>5
<1> QED BY <1>1, <1>2, <1>3, <1>4, <1>6, CallsKeep

LEMMA ReturnKeeps == ASSUME ModulesInv, M!Return PROVE ModulesInv'
<1>1. /\ calls # <<>> /\ calls' = SubSeq(calls, 1, Len(calls) - 1)
      /\ UNCHANGED <<phase, mapped, fns, threads, regions, given>>
  BY DEF M!Return
<1>2. calls \in Seq(Owner) /\ threads \subseteq Owner
  BY DEF ModulesInv, ModulesTyped
<1>3. /\ calls' \in Seq(Owner) /\ Len(calls) \in Nat /\ Len(calls') = Len(calls) - 1
      /\ \A n \in 1 .. Len(calls') : n \in 1 .. Len(calls) /\ calls'[n] = calls[n]
  <2> DEFINE last == Len(calls) - 1
  <2>1. last \in Nat /\ Len(calls) \in Nat /\ \A i \in 1 .. last : calls[i] \in Owner
    BY <1>1, <1>2
  <2>2. \A i \in 1 .. last - 1 + 1 : i \in 1 .. last /\ i \in 1 .. Len(calls) /\ 1 + i - 1 = i
    BY <2>1
  <2> HIDE DEF last
  <2>3. /\ SubSeq(calls, 1, last) \in Seq(Owner)
        /\ Len(SubSeq(calls, 1, last)) = IF 1 <= last THEN last - 1 + 1 ELSE 0
        /\ \A i \in 1 .. last - 1 + 1 : SubSeq(calls, 1, last)[i] = calls[1 + i - 1]
    BY <2>1, SubSeqProperties
  <2>4. Len(SubSeq(calls, 1, last)) = last
    BY <2>1, <2>3
  <2>5. calls' = SubSeq(calls, 1, last) /\ last - 1 + 1 = last
    BY <1>1, <2>1 DEF last
  <2>6. last = Len(calls) - 1
    BY DEF last
  <2> QED BY <2>1, <2>2, <2>3, <2>4, <2>5, <2>6
<1>4. phase \in {"boot", "running"} =>
          /\ \A n \in 1 .. Len(calls') : M!Mapped(calls'[n])
          /\ \A owner \in threads : M!Mapped(owner)
  BY <1>3 DEF ModulesInv, M!CodeIsMapped
<1> QED BY <1>1, <1>2, <1>3, <1>4, CallsKeep

LEMMA ThreadsKeep ==
    ASSUME ModulesInv, M!StartThread \/ \E owner \in Owner : M!EndThread(owner)
    PROVE  ModulesInv'
<1>1. calls \in Seq(Owner) /\ threads \subseteq Owner /\ Len(calls) \in Nat
  BY DEF ModulesInv, ModulesTyped
<1>2. CASE M!StartThread
  <2>1. calls # <<>> /\ threads' = threads \cup {calls[Len(calls)]}
        /\ UNCHANGED <<phase, mapped, fns, calls, regions, given>>
    BY <1>2 DEF M!StartThread, M!Running
  <2>2. Len(calls) \in 1 .. Len(calls) /\ calls[Len(calls)] \in Owner
    BY <1>1, <2>1
  <2>3. phase \in {"boot", "running"} =>
            /\ \A n \in 1 .. Len(calls) : M!Mapped(calls[n])
            /\ \A owner \in threads' : M!Mapped(owner)
    BY <2>1, <2>2 DEF ModulesInv, M!CodeIsMapped
  <2> QED BY <1>1, <2>1, <2>2, <2>3, CallsKeep
<1>3. ASSUME NEW owner \in Owner, M!EndThread(owner) PROVE ModulesInv'
  <2>1. threads' = threads \ {owner} /\ UNCHANGED <<phase, mapped, fns, calls, regions, given>>
    BY <1>3 DEF M!EndThread
  <2>2. phase \in {"boot", "running"} =>
            /\ \A n \in 1 .. Len(calls) : M!Mapped(calls[n])
            /\ \A o \in threads' : M!Mapped(o)
    BY <2>1 DEF ModulesInv, M!CodeIsMapped
  <2> QED BY <1>1, <2>1, <2>2, CallsKeep
<1> QED BY <1>2, <1>3

LEMMA PutRegionKeeps ==
    ASSUME M!None \notin Contents, ModulesInv, M!PutRegion
    PROVE  ModulesInv'
<1>1. PICK id \in Ids, content \in Contents :
          /\ regions[id] = M!None /\ regions' = [regions EXCEPT ![id] = content]
          /\ given' = given \cup {<<id, content>>}
  BY DEF M!PutRegion, M!Put
<1>2. UNCHANGED <<phase, mapped, fns, calls, threads>>
  BY DEF M!PutRegion
<1>3. ModulesTyped'
  BY <1>1, <1>2 DEF ModulesInv, ModulesTyped
<1>4. \A i \in Ids : regions'[i] = IF i = id THEN content ELSE regions[i]
  BY <1>1 DEF ModulesInv, ModulesTyped
<1>5. ASSUME NEW g \in given' PROVE regions'[g[1]] = g[2]
  <2>1. CASE g = <<id, content>>
    BY <1>4, <2>1
  <2>2. CASE g \in given
    <3>1. g[1] \in Ids /\ g[2] \in Contents /\ regions[g[1]] = g[2]
      BY <2>2 DEF ModulesInv, ModulesTyped, M!RegionsStay
    <3>2. g[1] # id
      BY <1>1, <3>1
    <3> QED BY <1>4, <3>1, <3>2
  <2> QED BY <1>1, <1>5, <2>1, <2>2
<1>6. M!CodeIsMapped'
  BY <1>2 DEF ModulesInv, M!CodeIsMapped, M!Mapped
<1> QED BY <1>3, <1>5, <1>6 DEF ModulesInv, M!RegionsStay

LEMMA ModulesNext ==
    ASSUME M!None \notin Contents, ModulesInv, [M!Next]_moduleVars
    PROVE  ModulesInv'
<1>1. CASE M!RegisterStatic
  <2>1. PICK desc \in SUBSET Keys : fns' = M!Registered(desc, Builtin)
    BY <1>1 DEF M!RegisterStatic
  <2> QED BY <1>1, <2>1, RegisteredKeeps DEF M!RegisterStatic, Owner, ModulesInv, ModulesTyped
<1>2. ASSUME NEW lib \in Libs, M!LoadFile(lib) PROVE ModulesInv'
  <2>1. PICK desc \in SUBSET Keys :
            /\ fns' = M!Registered(desc, lib)
            /\ mapped' = IF desc # {} THEN mapped \cup {lib} ELSE mapped
    BY <1>2 DEF M!LoadFile, M!Kept
  <2>2. mapped \subseteq mapped' /\ mapped' \subseteq Libs /\ (desc # {} => lib \in mapped')
    BY <2>1 DEF ModulesInv, ModulesTyped
  <2> QED BY <1>2, <2>1, <2>2, RegisteredKeeps DEF M!LoadFile, Owner
<1>3. CASE M!Shutdown \/ M!StopServer
  BY <1>3 DEF M!Shutdown, M!StopServer, ModulesInv, ModulesTyped, M!CodeIsMapped, M!RegionsStay
<1>4. CASE M!RunMainLoop
  <2>1. ModulesTyped'
    BY <1>4 DEF M!RunMainLoop, ModulesInv, ModulesTyped
  <2>2. M!CodeIsMapped'
    BY <1>4 DEF M!RunMainLoop, ModulesInv, M!CodeIsMapped, M!Mapped
  <2> QED BY <1>4, <2>1, <2>2 DEF M!RunMainLoop, ModulesInv, M!RegionsStay
<1>5. CASE \/ M!Deliver \/ UNCHANGED moduleVars
           \/ \E owner \in Libs \cup {Builtin} : M!HostEmitEvent(owner)
  <2>1. UNCHANGED <<phase, mapped, fns, calls, threads, regions, given>>
    BY <1>5 DEF M!Deliver, M!HostEmitEvent, moduleVars
  <2>2. ModulesTyped'
    BY <2>1 DEF ModulesInv, ModulesTyped
  <2>3. M!CodeIsMapped'
    BY <2>1 DEF ModulesInv, M!CodeIsMapped, M!Mapped
  <2> QED BY <2>1, <2>2, <2>3 DEF ModulesInv, M!RegionsStay
<1> QED BY <1>1, <1>2, <1>3, <1>4, <1>5, ExecuteKeeps, ReturnKeeps, ThreadsKeep,
           PutRegionKeeps DEF M!Next, Owner

(***************************************************************************)
(* With any libraries, functions and depth of calls: until the main loop   *)
(* has ended no code is unmapped that a function, a call or a thread leads *)
(* to, and an id of shared memory keeps the bytes it was given for.        *)
(***************************************************************************)
THEOREM NothingInUseGoes ==
    ASSUME M!None \notin Contents
    PROVE  M!Init /\ [][M!Next]_moduleVars => []NothingIsPulledAway
<1>1. M!Init => ModulesInv
  BY ModulesInit
<1>2. ModulesInv /\ [M!Next]_moduleVars => ModulesInv'
  BY ModulesNext
<1>3. ModulesInv => NothingIsPulledAway
  BY DEF ModulesInv, NothingIsPulledAway, M!NothingIsPulledAway
<1> QED BY <1>1, <1>2, <1>3, PTL

-----------------------------------------------------------------------------
(***************************************************************************)
(* Releases.  The numbers of a version, and the list of the releases that  *)
(* could be read, are built one character and one entry at a time.         *)
(***************************************************************************)
\* What the lambda parse has of a version.
Reading == [out : Seq(Int), num : Int]

LEMMA ReadCharType ==
    ASSUME NEW s \in Reading, NEW c
    PROVE  R!ReadChar(s, c) \in Reading
<1>1. CASE c = R!Dot
  <2>0. s.out \in Seq(Int) /\ s.num \in Int
    BY DEF Reading
  <2>1. Append(s.out, s.num) \in Seq(Int)
    BY <2>0, AppendedTo
  <2>2. ~R!IsDigitOf(c)
    BY <1>1 DEF R!Dot, R!IsDigitOf
  <2>3. (IF Len(s.out) < 3 THEN Append(s.out, s.num) ELSE s.out) \in Seq(Int)
    BY <2>0, <2>1
  <2>4. R!ReadChar(s, c)
        = [out |-> IF Len(s.out) < 3 THEN Append(s.out, s.num) ELSE s.out, num |-> 0]
    BY <1>1, <2>2 DEF R!ReadChar
  <2> QED BY <2>3, <2>4 DEF Reading
<1>2. CASE c # R!Dot /\ R!IsDigitOf(c)
  <2>1. c \in Int /\ s.num * 10 + c \in Int
    BY <1>2 DEF R!IsDigitOf, Reading
  <2> QED BY <1>2, <2>1 DEF R!ReadChar, Reading
<1>3. CASE c # R!Dot /\ ~R!IsDigitOf(c)
  BY <1>3 DEF R!ReadChar
<1> QED BY <1>1, <1>2, <1>3

ReadSoFar(version, f) ==
    f = [n \in 0 .. Len(version) |-> IF n = 0 THEN [out |-> <<>>, num |-> 0]
                                     ELSE R!ReadChar(f[n - 1], version[n])]

LEMMA NumbersType ==
    ASSUME NEW version \in Seq(Int)
    PROVE  \A i \in 1 .. 3 : R!Numbers(version)[i] \in Int
<1> DEFINE n == Len(version)
           base == [out |-> <<>>, num |-> 0]
           turn == [p \in Reading \X (1 .. n) |-> R!ReadChar(p[1], version[p[2]])]
           f == CHOOSE g : ReadSoFar(version, g)
           end == f[n]
           three == Append(end.out, end.num) \o <<0, 0, 0>>
<1>1. n \in Nat /\ n \in 0 .. n /\ base \in Reading
  BY DEF Reading
<1>2. turn \in [Reading \X (1 .. n) -> Reading]
  <2>1. \A p \in Reading \X (1 .. n) : p[1] \in Reading
    OBVIOUS
  <2>2. \A p \in Reading \X (1 .. n) : R!ReadChar(p[1], version[p[2]]) \in Reading
    BY <2>1, ReadCharType
  <2> QED BY <2>2
<1>3. PICK g \in [0 .. n -> Reading] : IsFold(g, base, turn, n)
  <2> HIDE DEF turn, n, base
  <2> QED BY <1>1, <1>2, FoldExists
<1>4. \A i \in 1 .. n : turn[<<g[i - 1], i>>] = R!ReadChar(g[i - 1], version[i])
  <2> TAKE i \in 1 .. n
  <2>1. i - 1 \in 0 .. n
    BY <1>1
  <2>2. <<g[i - 1], i>> \in Reading \X (1 .. n)
    BY <1>3, <2>1
  <2> QED BY <2>2
<1>5. ReadSoFar(version, g)
  <2> HIDE DEF turn
  <2>1. \A i \in 0 .. n : i # 0 => i \in 1 .. n
    BY <1>1
  <2>2. [i \in 0 .. n |-> IF i = 0 THEN base ELSE turn[<<g[i - 1], i>>]]
        = [i \in 0 .. n |-> IF i = 0 THEN base ELSE R!ReadChar(g[i - 1], version[i])]
    BY <1>4, <2>1
  <2> QED BY <1>3, <2>2 DEF IsFold, ReadSoFar
<1>6. ReadSoFar(version, f)
  BY <1>5
<1>7. R!Numbers(version) = SubSeq(three, 1, 3)
  BY DEF R!Numbers, ReadSoFar
<1> HIDE DEF f, base
<1>8. \A i \in 0 .. n : f[i] = IF i = 0 THEN base ELSE R!ReadChar(f[i - 1], version[i])
  BY <1>6 DEF ReadSoFar, base
<1>9. end \in Reading
  <2> DEFINE V == {i \in 0 .. n : f[i] \in Reading}
  <2>1. 0 \in V
    BY <1>1, <1>8
  <2>2. ASSUME NEW i \in 0 .. n - 1, i \in V PROVE i + 1 \in V
    <3>1. i + 1 \in 0 .. n /\ i + 1 # 0 /\ (i + 1) - 1 = i
      OBVIOUS
    <3>2. f[i + 1] = R!ReadChar(f[i], version[i + 1])
      BY <1>8, <3>1
    <3> QED BY <2>2, <3>1, <3>2, ReadCharType
  <2> HIDE DEF V
  <2>3. \A i \in 0 .. n : i \in V
    BY <1>1, <2>1, <2>2, UpToInduction
  <2> QED BY <1>1, <2>3 DEF V
<1> HIDE DEF end
<1>10. three \in Seq(Int) /\ Len(three) >= 3
  <2>1. end.out \in Seq(Int) /\ end.num \in Int
    BY <1>9 DEF Reading
  <2>2. Append(end.out, end.num) \in Seq(Int)
    BY <2>1, AppendProperties
  <2>3. <<0, 0, 0>> \in Seq(Int) /\ Len(<<0, 0, 0>>) = 3
    OBVIOUS
  <2>4. /\ three \in Seq(Int)
        /\ Len(three) = Len(Append(end.out, end.num)) + Len(<<0, 0, 0>>)
    BY <2>2, <2>3, ConcatProperties
  <2> QED BY <2>2, <2>3, <2>4
<1> HIDE DEF three
<1>11. 3 \in 0 .. Len(three)
  BY <1>10
<1>12. \A i \in 1 .. 3 : SubSeq(three, 1, 3)[i] = three[i]
  BY <1>10, <1>11, PrefixOfSeq
<1>13. \A i \in 1 .. 3 : three[i] \in Int
  BY <1>10
<1> QED BY <1>7, <1>12, <1>13

(***************************************************************************)
(* SemverCompare finds the newer version, and newer is an order.           *)
(***************************************************************************)
LEMMA CompareFindsNewer ==
    ASSUME NEW a \in Seq(Int), NEW b \in Seq(Int)
    PROVE  R!SemverCompare(a, b) > 0 <=> R!Newer(a, b)
<1> DEFINE x == R!Numbers(a)
           y == R!Numbers(b)
           differ == {i \in 1 .. 3 : x[i] # y[i]}
           IsFirst(i) == i \in differ /\ \A j \in differ : i <= j
           first == CHOOSE i \in differ : \A j \in differ : i <= j
<1>1. \A i \in 1 .. 3 : x[i] \in Int /\ y[i] \in Int
  BY NumbersType
<1>2. R!SemverCompare(a, b) = IF differ = {} THEN 0 ELSE IF x[first] < y[first] THEN -1 ELSE 1
  BY DEF R!SemverCompare
<1>3. R!Newer(a, b) <=> \E i \in 1 .. 3 : x[i] > y[i] /\ \A j \in 1 .. i - 1 : x[j] = y[j]
  BY DEF R!Newer
<1> HIDE DEF x, y
<1>4. CASE differ = {}
  BY <1>1, <1>2, <1>3, <1>4
<1>5. CASE differ # {}
  <2>1. \E i \in differ : \A j \in differ : i <= j
    <3>1. 1 \in differ \/ (1 \notin differ /\ 2 \in differ)
          \/ (1 \notin differ /\ 2 \notin differ /\ 3 \in differ)
      BY <1>5
    <3>2. \A i \in differ : i \in 1 .. 3
      OBVIOUS
    <3> HIDE DEF differ
    <3> QED BY <3>1, <3>2
  <2>2. first \in differ /\ \A j \in differ : first <= j
    BY <2>1
  <2> HIDE DEF first
  <2>3. first \in 1 .. 3 /\ x[first] # y[first]
    BY <2>2
  <2>4. \A j \in 1 .. 3 : j < first => x[j] = y[j]
    BY <2>2
  <2>5. CASE x[first] < y[first]
    <3> SUFFICES ASSUME NEW i \in 1 .. 3, x[i] > y[i], \A j \in 1 .. i - 1 : x[j] = y[j]
                 PROVE  FALSE
      BY <1>2, <1>3, <1>5, <2>5
    <3>1. i # first /\ ~(i < first)
      BY <1>1, <2>3, <2>4, <2>5
    <3>2. first \in 1 .. i - 1
      BY <2>3, <3>1
    <3> QED BY <2>3, <3>2
  <2>6. CASE ~(x[first] < y[first])
    <3>1. x[first] > y[first]
      BY <1>1, <2>3, <2>6
    <3>2. \A j \in 1 .. first - 1 : x[j] = y[j]
      BY <2>3, <2>4
    <3>3. R!Newer(a, b)
      BY <1>3, <2>3, <3>1, <3>2
    <3> QED BY <1>2, <1>5, <2>6, <3>3
  <2> QED BY <2>5, <2>6
<1> QED BY <1>4, <1>5

LEMMA NewerIsOrder ==
    ASSUME NEW a \in Seq(Int), NEW b \in Seq(Int), NEW c \in Seq(Int)
    PROVE  ~R!Newer(a, a) /\ (R!Newer(a, b) /\ R!Newer(b, c) => R!Newer(a, c))
<1> DEFINE x == R!Numbers(a)
           y == R!Numbers(b)
           z == R!Numbers(c)
<1>1. \A i \in 1 .. 3 : x[i] \in Int /\ y[i] \in Int /\ z[i] \in Int
  BY NumbersType
<1>2. ~R!Newer(a, a)
  BY <1>1 DEF R!Newer
<1>3. ASSUME R!Newer(a, b), R!Newer(b, c) PROVE R!Newer(a, c)
  <2>1. PICK i \in 1 .. 3 : x[i] > y[i] /\ \A j \in 1 .. i - 1 : x[j] = y[j]
    BY <1>3 DEF R!Newer
  <2>2. PICK k \in 1 .. 3 : y[k] > z[k] /\ \A j \in 1 .. k - 1 : y[j] = z[j]
    BY <1>3 DEF R!Newer
  <2> HIDE DEF x, y, z
  <2>3. CASE i <= k
    <3>1. x[i] > z[i]
      <4>1. CASE i = k
        BY <1>1, <2>1, <2>2, <4>1
      <4>2. CASE i < k
        <5>1. i \in 1 .. k - 1
          BY <4>2
        <5> QED BY <1>1, <2>1, <2>2, <5>1
      <4> QED BY <2>3, <4>1, <4>2
    <3>2. \A j \in 1 .. i - 1 : x[j] = z[j]
      <4>1. \A j \in 1 .. i - 1 : j \in 1 .. k - 1
        BY <2>3
      <4> QED BY <2>1, <2>2, <4>1
    <3> QED BY <3>1, <3>2 DEF R!Newer, x, z
  <2>4. CASE k < i
    <3>1. x[k] > z[k]
      <4>1. k \in 1 .. i - 1
        BY <2>4
      <4> QED BY <1>1, <2>1, <2>2, <4>1
    <3>2. \A j \in 1 .. k - 1 : x[j] = z[j]
      <4>1. \A j \in 1 .. k - 1 : j \in 1 .. i - 1
        BY <2>4
      <4> QED BY <2>1, <2>2, <4>1
    <3> QED BY <3>1, <3>2 DEF R!Newer, x, z
  <2> QED BY <2>3, <2>4
<1> QED BY <1>2, <1>3

(***************************************************************************)
(* A range that is not a word matches the versions of its major version:   *)
(* the text before the first dot is the same.                              *)
(***************************************************************************)
LEMMA MajorIs ==
    ASSUME NEW text \in Seq(Int), NEW p \in 1 .. Len(text),
           \A j \in 2 .. p : text[j] # R!Dot,
           p = Len(text) \/ text[p + 1] = R!Dot
    PROVE  R!Major(text) = {<<i, text[i]>> : i \in 1 .. p}
<1>1. Len(text) \in Nat
  OBVIOUS
<1>2. ASSUME NEW i \in 1 .. Len(text)
      PROVE  (\A k \in 2 .. i : text[k] # R!Dot) <=> i \in 1 .. p
  <2>1. CASE i <= p
    BY <1>1, <2>1
  <2>2. CASE i > p
    <3>1. p + 1 \in 2 .. i /\ text[p + 1] = R!Dot
      BY <1>1, <2>2
    <3> QED BY <2>2, <3>1
  <2> QED BY <2>1, <2>2
<1>3. {i \in 1 .. Len(text) : \A k \in 2 .. i : text[k] # R!Dot} = 1 .. p
  BY <1>1, <1>2
<1>4. R!Major(text)
      = {<<i, text[i]>> : i \in {j \in 1 .. Len(text) : \A k \in 2 .. j : text[k] # R!Dot}}
  BY DEF R!Major
<1> QED BY <1>3, <1>4

LEMMA MajorEnds ==
    ASSUME NEW text \in Seq(Int), text # <<>>
    PROVE  \E p \in 1 .. Len(text) :
               /\ \A j \in 2 .. p : text[j] # R!Dot
               /\ p = Len(text) \/ text[p + 1] = R!Dot
               /\ LET dots == {i \in 2 .. Len(text) : text[i] = R!Dot}
                  IN p = IF dots = {} THEN Len(text)
                         ELSE (CHOOSE i \in dots : \A j \in dots : i <= j) - 1
<1> DEFINE dots == {i \in 2 .. Len(text) : text[i] = R!Dot}
           first == CHOOSE i \in dots : \A j \in dots : i <= j
<1>1. Len(text) \in Nat /\ Len(text) >= 1
  OBVIOUS
<1>2. CASE dots = {}
  <2>1. \A j \in 2 .. Len(text) : text[j] # R!Dot
    BY <1>2
  <2> QED BY <1>1, <1>2, <2>1
<1>3. CASE dots # {}
  <2>1. first \in dots /\ \A j \in dots : first <= j
    <3>1. dots \in SUBSET Nat /\ dots # {}
      BY <1>1, <1>3
    <3>2. \E i \in dots : \A j \in dots : i <= j
      <4> HIDE DEF dots
      <4> QED BY <3>1, LeastNumber
    <3> QED BY <3>2
  <2> HIDE DEF first
  <2>2. first \in 2 .. Len(text) /\ text[first] = R!Dot
    BY <2>1
  <2>3. \A j \in 2 .. first - 1 : j \in 2 .. Len(text) /\ ~(first <= j)
    BY <1>1, <2>2
  <2>4. \A j \in 2 .. first - 1 : text[j] # R!Dot
    BY <2>1, <2>3
  <2>5. first - 1 \in 1 .. Len(text) /\ (first - 1) + 1 = first
    BY <1>1, <2>2
  <2>6. first - 1 = IF dots = {} THEN Len(text)
                    ELSE (CHOOSE i \in dots : \A j \in dots : i <= j) - 1
    BY <1>3 DEF first
  <2> HIDE DEF dots
  <2>7. /\ \A j \in 2 .. first - 1 : text[j] # R!Dot
        /\ first - 1 = Len(text) \/ text[(first - 1) + 1] = R!Dot
    BY <2>2, <2>4, <2>5
  <2> first - 1 \in 1 .. Len(text)
    BY <2>5
  <2> WITNESS first - 1 \in 1 .. Len(text)
  <2> QED BY <2>6, <2>7 DEF dots
<1> QED BY <1>2, <1>3

LEMMA MatchesIsMajor ==
    ASSUME NEW version \in Seq(Int), version # <<>>, NEW range \in Seq(Int), range # <<>>
    PROVE  R!Matches(version, range) <=> R!Major(version) = R!Major(R!WithV(range))
<1> DEFINE want == R!WithV(range)
           dots == {i \in 2 .. Len(want) : want[i] = R!Dot}
           prefix == IF dots = {} THEN want
                     ELSE SubSeq(want, 1, (CHOOSE i \in dots : \A j \in dots : i <= j) - 1)
<1>1. want \in Seq(Int) /\ want # <<>>
  <2>1. <<R!VV>> \in Seq(Int) /\ Len(<<R!VV>>) = 1 /\ Len(range) \in Nat
    BY DEF R!VV
  <2>2. <<R!VV>> \o range \in Seq(Int) /\ Len(<<R!VV>> \o range) = 1 + Len(range)
    BY <2>1, ConcatProperties
  <2>3. <<R!VV>> \o range # <<>>
    BY <2>1, <2>2
  <2> QED BY <2>2, <2>3 DEF R!WithV
<1>2. want = IF range[1] # R!VV THEN <<R!VV>> \o range ELSE range
  BY DEF R!WithV
<1>3. R!Matches(version, range)
      <=> \/ version = want
          \/ /\ R!IsPrefix(prefix, version)
             /\ Len(version) = Len(prefix) \/ version[Len(prefix) + 1] = R!Dot
  BY <1>2 DEF R!Matches
<1> HIDE DEF want
<1>4. PICK p \in 1 .. Len(want) :
          /\ \A j \in 2 .. p : want[j] # R!Dot
          /\ p = Len(want) \/ want[p + 1] = R!Dot
          /\ p = IF dots = {} THEN Len(want)
                 ELSE (CHOOSE i \in dots : \A j \in dots : i <= j) - 1
  BY <1>1, MajorEnds
<1> HIDE DEF dots
<1>5. PICK m \in 1 .. Len(version) :
          /\ \A j \in 2 .. m : version[j] # R!Dot
          /\ m = Len(version) \/ version[m + 1] = R!Dot
  BY MajorEnds
<1>6. R!Major(want) = {<<i, want[i]>> : i \in 1 .. p}
  BY <1>1, <1>4, MajorIs
<1>7. R!Major(version) = {<<i, version[i]>> : i \in 1 .. m}
  BY <1>5, MajorIs
<1>8. /\ Len(want) \in Nat /\ Len(version) \in Nat /\ p \in Nat /\ p >= 1 /\ p <= Len(want)
      /\ m \in Nat /\ m >= 1 /\ m <= Len(version)
  BY <1>1, <1>4, <1>5
<1>9. prefix \in Seq(Int) /\ Len(prefix) = p /\ \A i \in 1 .. p : prefix[i] = want[i]
  <2>1. CASE dots = {}
    <3>1. prefix = want /\ p = Len(want)
      BY <1>4, <2>1
    <3> HIDE DEF prefix
    <3> QED BY <1>1, <3>1
  <2>2. CASE dots # {}
    <3> DEFINE first == CHOOSE i \in dots : \A j \in dots : i <= j
    <3>1. p = first - 1
      BY <1>4, <2>2
    <3>2. prefix = SubSeq(want, 1, first - 1)
      BY <2>2
    <3> HIDE DEF first, prefix
    <3>3. prefix = SubSeq(want, 1, p)
      BY <3>1, <3>2
    <3>4. p \in 0 .. Len(want)
      BY <1>8
    <3> QED BY <1>1, <3>3, <3>4, PrefixOfSeq
  <2> QED BY <2>1, <2>2
<1> HIDE DEF prefix
<1>10. R!IsPrefix(prefix, version)
       <=> p <= Len(version) /\ \A i \in 1 .. p : version[i] = want[i]
  <2>1. R!IsPrefix(prefix, version)
        <=> p <= Len(version) /\ SubSeq(prefix, 1, p) = SubSeq(version, 1, p)
    BY <1>9 DEF R!IsPrefix
  <2>2. ASSUME p <= Len(version)
        PROVE  SubSeq(prefix, 1, p) = SubSeq(version, 1, p)
               <=> \A i \in 1 .. p : version[i] = want[i]
    <3>1. p \in 0 .. Len(version) /\ p \in 0 .. Len(prefix)
      BY <1>8, <1>9, <2>2
    <3>2. /\ SubSeq(prefix, 1, p) \in Seq(Int) /\ Len(SubSeq(prefix, 1, p)) = p
          /\ \A i \in 1 .. p : SubSeq(prefix, 1, p)[i] = prefix[i]
      BY <1>9, <3>1, PrefixOfSeq
    <3>3. /\ SubSeq(version, 1, p) \in Seq(Int) /\ Len(SubSeq(version, 1, p)) = p
          /\ \A i \in 1 .. p : SubSeq(version, 1, p)[i] = version[i]
      BY <3>1, PrefixOfSeq
    <3>4. (\A i \in 1 .. p : version[i] = want[i])
          => SubSeq(prefix, 1, p) = SubSeq(version, 1, p)
      BY <1>9, <3>2, <3>3, SeqEqual
    <3>5. SubSeq(prefix, 1, p) = SubSeq(version, 1, p)
          => \A i \in 1 .. p : version[i] = want[i]
      BY <1>9, <3>2, <3>3
    <3> QED BY <3>4, <3>5
  <2> QED BY <2>1, <2>2
<1>11. ASSUME R!Matches(version, range) PROVE R!Major(version) = R!Major(want)
  <2>1. CASE version = want
    BY <2>1
  <2>2. CASE /\ p <= Len(version) /\ \A i \in 1 .. p : version[i] = want[i]
             /\ Len(version) = p \/ version[p + 1] = R!Dot
    <3>1. p \in 1 .. Len(version) /\ \A j \in 2 .. p : j \in 1 .. p
      BY <1>8, <2>2
    <3>2. \A j \in 2 .. p : version[j] # R!Dot
      BY <1>4, <2>2, <3>1
    <3>3. R!Major(version) = {<<i, version[i]>> : i \in 1 .. p}
      BY <2>2, <3>1, <3>2, MajorIs
    <3> QED BY <1>6, <2>2, <3>3
  <2> QED BY <1>3, <1>9, <1>10, <1>11, <2>1, <2>2
<1>12. ASSUME R!Major(version) = R!Major(want) PROVE R!Matches(version, range)
  <2>1. \A i \in 1 .. p : <<i, want[i]>> \in {<<j, version[j]>> : j \in 1 .. m}
    BY <1>6, <1>7, <1>12
  <2>2. \A i \in 1 .. m : <<i, version[i]>> \in {<<j, want[j]>> : j \in 1 .. p}
    BY <1>6, <1>7, <1>12
  <2>3. \A i \in 1 .. p : i \in 1 .. m /\ version[i] = want[i]
    BY <2>1
  <2>4. \A i \in 1 .. m : i \in 1 .. p
    BY <2>2
  <2>5. p = m
    <3>1. p \in 1 .. p /\ m \in 1 .. m
      BY <1>8
    <3>2. p \in 1 .. m /\ m \in 1 .. p
      BY <2>3, <2>4, <3>1
    <3> QED BY <1>8, <3>2
  <2> QED BY <1>3, <1>5, <1>8, <1>9, <1>10, <2>3, <2>5
<1> QED BY <1>11, <1>12 DEF want

(***************************************************************************)
(* FetchIndex gives a list of releases: those of the entries with a        *)
(* version.                                                                *)
(***************************************************************************)
Release == [version : Seq(Int), lts : BOOLEAN]

KeptSoFar(entries, f) ==
    f = [n \in 0 .. Len(entries) |-> IF n = 0 THEN <<>>
                                     ELSE R!AddRelease(f[n - 1], R!ReleaseOf(entries[n]))]

LEMMA ReleaseRead ==
    ASSUME NEW e \in R!Entry
    PROVE  /\ R!ReleaseOf(e) \in Release
           /\ R!ReleaseOf(e).version # <<>> <=> R!Named(e)
           /\ R!Named(e) => R!ReleaseOf(e).version = e.version[1]
<1>1. e.version \in Seq(Seq(Int)) /\ <<>> \in Seq(Int)
  BY DEF R!Entry, R!AtMostOne
<1>2. e.version # <<>> => e.version[1] \in Seq(Int)
  BY <1>1
<1>3. (IF e.version # <<>> THEN e.version[1] ELSE <<>>) \in Seq(Int)
  BY <1>1, <1>2
<1>4. R!ReleaseOf(e) \in Release
  BY <1>3 DEF R!ReleaseOf, Release
<1>5. R!ReleaseOf(e).version = IF e.version # <<>> THEN e.version[1] ELSE <<>>
  BY DEF R!ReleaseOf
<1> QED BY <1>4, <1>5 DEF R!Named

LEMMA AddReleaseType ==
    ASSUME NEW list \in Seq(Release), NEW e \in R!Entry
    PROVE  R!AddRelease(list, R!ReleaseOf(e)) \in Seq(Release)
<1>1. R!ReleaseOf(e) \in Release
  BY ReleaseRead
<1>2. Append(list, R!ReleaseOf(e)) \in Seq(Release)
  BY <1>1, AppendedTo
<1> QED BY <1>2 DEF R!AddRelease

LEMMA IndexType ==
    ASSUME NEW entries \in Seq(R!Entry)
    PROVE  /\ R!FetchIndex(entries) \in Seq(Release)
           /\ \A r : (\E j \in 1 .. Len(R!FetchIndex(entries)) : R!FetchIndex(entries)[j] = r)
                  <=> \E i \in 1 .. Len(entries) :
                         R!Named(entries[i]) /\ r = R!ReleaseOf(entries[i])
<1> DEFINE n == Len(entries)
           turn == [p \in Seq(Release) \X (1 .. n) |->
                       R!AddRelease(p[1], R!ReleaseOf(entries[p[2]]))]
           f == CHOOSE g : KeptSoFar(entries, g)
<1>1. n \in Nat /\ n \in 0 .. n /\ <<>> \in Seq(Release)
  OBVIOUS
<1>2. turn \in [Seq(Release) \X (1 .. n) -> Seq(Release)]
  <2>1. \A p \in Seq(Release) \X (1 .. n) : p[1] \in Seq(Release) /\ entries[p[2]] \in R!Entry
    OBVIOUS
  <2>2. \A p \in Seq(Release) \X (1 .. n) :
            R!AddRelease(p[1], R!ReleaseOf(entries[p[2]])) \in Seq(Release)
    BY <2>1, AddReleaseType
  <2> QED BY <2>2
<1>3. PICK g \in [0 .. n -> Seq(Release)] : IsFold(g, <<>>, turn, n)
  <2> HIDE DEF turn, n
  <2> QED BY <1>1, <1>2, FoldExists
<1>4. \A i \in 1 .. n : turn[<<g[i - 1], i>>]
                        = R!AddRelease(g[i - 1], R!ReleaseOf(entries[i]))
  <2> TAKE i \in 1 .. n
  <2>1. i - 1 \in 0 .. n
    BY <1>1
  <2>2. <<g[i - 1], i>> \in Seq(Release) \X (1 .. n)
    BY <1>3, <2>1
  <2> QED BY <2>2
<1>5. KeptSoFar(entries, g)
  <2> HIDE DEF turn
  <2>1. \A i \in 0 .. n : i # 0 => i \in 1 .. n
    BY <1>1
  <2>2. [i \in 0 .. n |-> IF i = 0 THEN <<>> ELSE turn[<<g[i - 1], i>>]]
        = [i \in 0 .. n |-> IF i = 0 THEN <<>>
                            ELSE R!AddRelease(g[i - 1], R!ReleaseOf(entries[i]))]
    BY <1>4, <2>1
  <2> QED BY <1>3, <2>2 DEF IsFold, KeptSoFar
<1>6. KeptSoFar(entries, f)
  BY <1>5
<1>7. R!FetchIndex(entries) = f[n]
  BY DEF R!FetchIndex, KeptSoFar
<1> HIDE DEF f
<1>8. \A i \in 0 .. n : f[i] = IF i = 0 THEN <<>>
                               ELSE R!AddRelease(f[i - 1], R!ReleaseOf(entries[i]))
  BY <1>6 DEF KeptSoFar
<1> DEFINE InList(list, r) == \E j \in 1 .. Len(list) : list[j] = r
           InIndex(i, r) == \E j \in 1 .. i : R!Named(entries[j]) /\ r = R!ReleaseOf(entries[j])
           V == {i \in 0 .. n : /\ f[i] \in Seq(Release)
                                /\ \A r : InList(f[i], r) <=> InIndex(i, r)}
<1>9. 0 \in V
  <2>1. 0 \in 0 .. n
    BY <1>1
  <2>2. f[0] = <<>>
    BY <1>8, <2>1
  <2>3. \A r : ~InList(f[0], r) /\ ~InIndex(0, r)
    BY <2>2
  <2> HIDE DEF InList, InIndex
  <2> QED BY <1>1, <2>1, <2>2, <2>3
<1>10. ASSUME NEW i \in 0 .. n - 1, i \in V PROVE i + 1 \in V
  <2> DEFINE e == entries[i + 1]
  <2>1. /\ i + 1 \in 0 .. n /\ i + 1 # 0 /\ (i + 1) - 1 = i /\ i + 1 \in 1 .. n
        /\ \A j : j \in 1 .. i + 1 <=> j \in 1 .. i \/ j = i + 1
    OBVIOUS
  <2>2. f[i + 1] = R!AddRelease(f[i], R!ReleaseOf(e)) /\ e \in R!Entry
    BY <1>8, <2>1
  <2>3. f[i] \in Seq(Release) /\ \A r : InList(f[i], r) <=> InIndex(i, r)
    BY <1>10
  <2>4. f[i + 1] \in Seq(Release)
    BY <2>2, <2>3, AddReleaseType
  <2>5. \A r : InIndex(i + 1, r) <=> InIndex(i, r) \/ (R!Named(e) /\ r = R!ReleaseOf(e))
    BY <2>1
  <2>6. \A r : InList(f[i + 1], r) <=> InList(f[i], r) \/ (R!Named(e) /\ r = R!ReleaseOf(e))
    <3>1. R!ReleaseOf(e) \in Release /\ (R!ReleaseOf(e).version # <<>> <=> R!Named(e))
      BY <2>2, ReleaseRead
    <3>2. CASE R!Named(e)
      <4>1. f[i + 1] = Append(f[i], R!ReleaseOf(e))
        BY <2>2, <3>1, <3>2 DEF R!AddRelease
      <4>2. /\ Len(f[i + 1]) = Len(f[i]) + 1 /\ Len(f[i]) \in Nat
            /\ f[i + 1][Len(f[i]) + 1] = R!ReleaseOf(e)
            /\ \A j \in 1 .. Len(f[i]) : f[i + 1][j] = f[i][j]
        <5> HIDE DEF V, InList, InIndex, e
        <5> QED BY <2>3, <3>1, <4>1
      <4>3. \A j : j \in 1 .. Len(f[i + 1]) <=> j \in 1 .. Len(f[i]) \/ j = Len(f[i]) + 1
        BY <4>2
      <4> HIDE DEF e
      <4> QED BY <3>2, <4>2, <4>3
    <3>3. CASE ~R!Named(e)
      <4>1. f[i + 1] = f[i]
        BY <2>2, <3>1, <3>3 DEF R!AddRelease
      <4> HIDE DEF InList
      <4> QED BY <3>3, <4>1
    <3> QED BY <3>2, <3>3
  <2> HIDE DEF InList, InIndex
  <2> QED BY <2>1, <2>3, <2>4, <2>5, <2>6
<1> HIDE DEF V
<1>11. n \in V
  BY <1>1, <1>9, <1>10, UpToInduction
<1> QED BY <1>7, <1>11 DEF V

(***************************************************************************)
(* After each release, the best is the first of the newest so far.         *)
(***************************************************************************)
BestSoFar(list, range, f) ==
    f = [n \in 0 .. Len(list) |-> IF n = 0 THEN <<>> ELSE R!Better(f[n - 1], list[n], range)]

AtMostOne == {<<>>} \cup {<<r>> : r \in Release}

LEMMA BestIsFold ==
    ASSUME NEW list \in Seq(Release), NEW range
    PROVE  \E f : /\ \A i \in 0 .. Len(list) :
                        f[i] = IF i = 0 THEN <<>> ELSE R!Better(f[i - 1], list[i], range)
                  /\ R!Pick(list, range) = f[Len(list)]
<1> DEFINE n == Len(list)
           turn == [p \in AtMostOne \X (1 .. n) |-> R!Better(p[1], list[p[2]], range)]
           f == CHOOSE g : BestSoFar(list, range, g)
<1>1. n \in Nat /\ <<>> \in AtMostOne
  BY DEF AtMostOne
<1>2. turn \in [AtMostOne \X (1 .. n) -> AtMostOne]
  <2>1. \A p \in AtMostOne \X (1 .. n) : p[1] \in AtMostOne /\ <<list[p[2]]>> \in AtMostOne
    BY DEF AtMostOne
  <2>2. \A p \in AtMostOne \X (1 .. n) : R!Better(p[1], list[p[2]], range) \in AtMostOne
    BY <2>1 DEF R!Better
  <2> QED BY <2>2
<1>3. PICK g \in [0 .. n -> AtMostOne] : IsFold(g, <<>>, turn, n)
  <2> HIDE DEF turn, n
  <2> QED BY <1>1, <1>2, FoldExists
<1>4. \A i \in 1 .. n : turn[<<g[i - 1], i>>] = R!Better(g[i - 1], list[i], range)
  <2> TAKE i \in 1 .. n
  <2>1. i - 1 \in 0 .. n
    BY <1>1
  <2>2. <<g[i - 1], i>> \in AtMostOne \X (1 .. n)
    BY <1>3, <2>1
  <2> QED BY <2>2
<1>5. BestSoFar(list, range, g)
  <2> HIDE DEF turn
  <2>1. \A i \in 0 .. n : i # 0 => i \in 1 .. n
    BY <1>1
  <2>2. [i \in 0 .. n |-> IF i = 0 THEN <<>> ELSE turn[<<g[i - 1], i>>]]
        = [i \in 0 .. n |-> IF i = 0 THEN <<>> ELSE R!Better(g[i - 1], list[i], range)]
    BY <1>4, <2>1
  <2> QED BY <1>3, <2>2 DEF IsFold, BestSoFar
<1>6. BestSoFar(list, range, f)
  BY <1>5
<1>7. R!Pick(list, range) = f[n]
  BY DEF R!Pick, BestSoFar
<1> HIDE DEF f
<1>8. \A i \in 0 .. n : f[i] = IF i = 0 THEN <<>> ELSE R!Better(f[i - 1], list[i], range)
  BY <1>6 DEF BestSoFar
<1> QED BY <1>7, <1>8

LEMMA NewestOfEligible ==
    ASSUME NEW list \in Seq(Release), NEW range
    PROVE  LET best == R!Pick(list, range)
               fit  == {list[i] : i \in {j \in 1 .. Len(list) : R!Eligible(list[j], range)}}
           IN IF fit = {} THEN best = <<>>
              ELSE /\ best # <<>> /\ best[1] \in fit
                   /\ \A r \in fit : ~R!Newer(r.version, best[1].version)
<1> DEFINE n == Len(list)
           Fit(k) == {list[i] : i \in {j \in 1 .. k : R!Eligible(list[j], range)}}
           Right(best, k) ==
               IF Fit(k) = {} THEN best = <<>>
               ELSE /\ best # <<>> /\ best[1] \in Fit(k)
                    /\ \A r \in Fit(k) : ~R!Newer(r.version, best[1].version)
<1>1. PICK f : /\ \A i \in 0 .. Len(list) :
                     f[i] = IF i = 0 THEN <<>> ELSE R!Better(f[i - 1], list[i], range)
               /\ R!Pick(list, range) = f[Len(list)]
  BY BestIsFold
<1>2. n \in Nat /\ n \in 0 .. n
  OBVIOUS
<1> DEFINE V == {k \in 0 .. n : Right(f[k], k)}
<1>3. 0 \in V
  <2>1. Fit(0) = {}
    OBVIOUS
  <2>2. f[0] = <<>>
    BY <1>1, <1>2
  <2> QED BY <1>2, <2>1, <2>2
<1>4. ASSUME NEW k \in 0 .. n - 1, k \in V PROVE k + 1 \in V
  <2> DEFINE r == list[k + 1]
             best == f[k]
             new == f[k + 1]
  <2>1. /\ k + 1 \in 0 .. n /\ k + 1 # 0 /\ (k + 1) - 1 = k /\ k + 1 \in 1 .. n
        /\ \A j \in 1 .. k : j \in 1 .. k + 1
        /\ \A j \in 1 .. k + 1 : j \in 1 .. k \/ j = k + 1
    BY <1>2
  <2>2. new = R!Better(best, r, range) /\ r \in Release
    BY <1>1, <2>1
  <2>3. Right(best, k)
    BY <1>4
  <2>4. \A s \in Fit(k) : s \in Release /\ s.version \in Seq(Int)
    <3>1. \A j \in 1 .. k : j \in 1 .. n
      BY <1>2
    <3>2. \A j \in 1 .. k : list[j] \in Release
      BY <3>1
    <3>3. \A s \in Release : s.version \in Seq(Int)
      BY DEF Release
    <3> QED BY <3>2, <3>3
  <2>5. r.version \in Seq(Int)
    BY <2>2 DEF Release
  <2>6. ~R!Eligible(r, range) => Fit(k + 1) = Fit(k)
    BY <2>1
  <2>7. R!Eligible(r, range) => Fit(k + 1) = Fit(k) \cup {r}
    BY <2>1
  <2> HIDE DEF Fit, r, best, new
  <2>8. Right(new, k + 1)
    <3>1. CASE ~R!Eligible(r, range)
      <4>1. new = best
        BY <2>2, <3>1 DEF R!Better
      <4> QED BY <2>3, <2>6, <3>1, <4>1
    <3>2. CASE R!Eligible(r, range) /\ Fit(k) = {}
      <4>1. new = <<r>>
        BY <2>2, <2>3, <3>2 DEF R!Better
      <4>2. ~R!Newer(r.version, r.version)
        BY <2>5, NewerIsOrder
      <4>3. new # <<>> /\ new[1] = r
        BY <4>1
      <4> QED BY <2>7, <3>2, <4>2, <4>3
    <3>3. CASE R!Eligible(r, range) /\ Fit(k) # {}
      <4>1. /\ best # <<>> /\ best[1] \in Fit(k) /\ best[1].version \in Seq(Int)
            /\ \A s \in Fit(k) : ~R!Newer(s.version, best[1].version)
        BY <2>3, <2>4, <3>3
      <4>2. CASE R!Newer(r.version, best[1].version)
        <5>1. R!SemverCompare(r.version, best[1].version) > 0
          BY <2>5, <4>1, <4>2, CompareFindsNewer
        <5>2. new = <<r>>
          BY <2>2, <3>3, <5>1 DEF R!Better
        <5>3. new # <<>> /\ new[1] = r
          BY <5>2
        <5>4. \A s \in Fit(k) : ~R!Newer(s.version, r.version)
          BY <2>4, <2>5, <4>1, <4>2, NewerIsOrder
        <5>5. ~R!Newer(r.version, r.version)
          BY <2>5, NewerIsOrder
        <5> QED BY <2>7, <3>3, <5>3, <5>4, <5>5
      <4>3. CASE ~R!Newer(r.version, best[1].version)
        <5>1. ~(R!SemverCompare(r.version, best[1].version) > 0)
          BY <2>5, <4>1, <4>3, CompareFindsNewer
        <5>2. new = best
          BY <2>2, <4>1, <5>1 DEF R!Better
        <5> QED BY <2>7, <3>3, <4>1, <4>3, <5>2
      <4> QED BY <4>2, <4>3
    <3> QED BY <3>1, <3>2, <3>3
  <2> QED BY <2>1, <2>8 DEF new
<1> HIDE DEF V
<1>5. n \in V
  BY <1>2, <1>3, <1>4, UpToInduction
<1>6. Right(R!Pick(list, range), n)
  BY <1>1, <1>5 DEF V
<1> QED BY <1>6

(***************************************************************************)
(* A release is eligible when its entry is asked for.                      *)
(***************************************************************************)
LEMMA EligibleIsAsked ==
    ASSUME NEW e \in R!Entry, R!Named(e), NEW range \in Seq(Int),
           range = R!Lts => e.lts # <<"false">>
    PROVE  R!Eligible(R!ReleaseOf(e), range) <=> R!Asked(e, range)
<1> DEFINE r == R!ReleaseOf(e)
<1>1. r.version = e.version[1] /\ r.version \in Seq(Int) /\ r.version # <<>>
  BY ReleaseRead DEF Release
<1>2. CASE range \in {<<>>, R!Latest}
  <2>1. range # R!Lts
    <3>1. R!Latest # R!Lts /\ <<>> # R!Lts
      BY DEF R!Latest, R!Lts
    <3> QED BY <1>2, <3>1
  <2> QED BY <1>2, <2>1 DEF R!Eligible, R!Asked
<1>3. CASE range = R!Lts /\ range \notin {<<>>, R!Latest}
  <2>1. R!Eligible(r, range) <=> r.lts
    BY <1>3 DEF R!Eligible
  <2>2. r.lts <=> e.lts # <<>> /\ e.lts # <<"null">>
    BY DEF R!ReleaseOf
  <2>3. e.lts \in Seq(STRING) /\ Len(e.lts) <= 1 /\ e.lts # <<"false">>
    BY <1>3 DEF R!Entry, R!AtMostOne
  <2>4. R!Asked(e, range) <=> e.lts # <<>> /\ e.lts[1] \notin {"null", "false"}
    BY <1>3 DEF R!Asked, R!Codename
  <2> QED BY <2>1, <2>2, <2>3, <2>4
<1>4. CASE range \notin {<<>>, R!Latest, R!Lts}
  <2>1. R!Eligible(r, range) <=> R!Matches(r.version, range)
    BY <1>4 DEF R!Eligible
  <2>2. R!Matches(r.version, range) <=> R!Major(r.version) = R!Major(R!WithV(range))
    BY <1>1, <1>4, MatchesIsMajor
  <2> QED BY <1>1, <1>4, <2>1, <2>2 DEF R!Asked
<1> QED BY <1>2, <1>3, <1>4

LEMMA PicksTheNewest ==
    ASSUME NEW entries \in Seq(R!Entry), NEW range \in Seq(Int)
    PROVE  R!PicksNewest(entries, range)
<1> DEFINE list == R!FetchIndex(entries)
           best == R!Pick(list, range)
           fit == {list[i] : i \in {j \in 1 .. Len(list) : R!Eligible(list[j], range)}}
           asked == {entries[i].version[1] :
                        i \in {j \in 1 .. Len(entries) : R!Asked(entries[j], range)}}
<1> SUFFICES ASSUME range = R!Lts => \A i \in 1 .. Len(entries) : entries[i].lts # <<"false">>
             PROVE  IF asked = {} THEN best = <<>>
                    ELSE /\ best # <<>> /\ best[1].version \in asked
                         /\ \A v \in asked : ~R!Newer(v, best[1].version)
  BY DEF R!PicksNewest
<1>1. /\ list \in Seq(Release)
      /\ \A r : (\E j \in 1 .. Len(list) : list[j] = r)
             <=> \E i \in 1 .. Len(entries) : R!Named(entries[i]) /\ r = R!ReleaseOf(entries[i])
  BY IndexType
<1>2. IF fit = {} THEN best = <<>>
      ELSE /\ best # <<>> /\ best[1] \in fit
           /\ \A r \in fit : ~R!Newer(r.version, best[1].version)
  BY <1>1, NewestOfEligible
<1> HIDE DEF list, best
<1>3. \A i \in 1 .. Len(entries) :
          R!Named(entries[i]) =>
              /\ R!ReleaseOf(entries[i]).version = entries[i].version[1]
              /\ R!Eligible(R!ReleaseOf(entries[i]), range) <=> R!Asked(entries[i], range)
  BY ReleaseRead, EligibleIsAsked
<1>4. \A i \in 1 .. Len(entries) : R!Asked(entries[i], range) => R!Named(entries[i])
  BY DEF R!Asked
<1>5. \A r \in fit : r.version \in asked
  <2> SUFFICES ASSUME NEW j \in 1 .. Len(list), R!Eligible(list[j], range)
               PROVE  list[j].version \in asked
    OBVIOUS
  <2>1. PICK i \in 1 .. Len(entries) : R!Named(entries[i]) /\ list[j] = R!ReleaseOf(entries[i])
    BY <1>1
  <2> QED BY <1>3, <2>1
<1>6. \A v \in asked : \E r \in fit : r.version = v
  <2> SUFFICES ASSUME NEW i \in 1 .. Len(entries), R!Asked(entries[i], range)
               PROVE  \E r \in fit : r.version = entries[i].version[1]
    OBVIOUS
  <2>1. PICK j \in 1 .. Len(list) : list[j] = R!ReleaseOf(entries[i])
    BY <1>1, <1>4
  <2> QED BY <1>3, <1>4, <2>1
<1> HIDE DEF fit, asked
<1> QED BY <1>2, <1>5, <1>6

(***************************************************************************)
(* Whatever index.json has and whatever the range is, a release is picked  *)
(* exactly when an entry is asked for, and no entry asked for is newer: of *)
(* the whole major version when the range is an exact one, and for "lts"   *)
(* when the index says false of no release.                                *)
(***************************************************************************)
THEOREM NewestIsPicked == Spec => []PickIsNewest
<1> DEFINE IndexInv == index \in Seq(R!Entry)
<1>1. StartInit => IndexInv
  <2>1. <<>> \in Seq(R!Entry)
    OBVIOUS
  <2> QED BY <2>1, IndexesAssumption DEF StartInit
<1>2. IndexInv /\ [StartNext]_allVars => IndexInv'
  BY DEF StartNext, allVars
<1>3. IndexInv => PickIsNewest
  <2>1. \A range \in Ranges : range \in Seq(Int)
    BY IndexesAssumption
  <2> QED BY <2>1, PicksTheNewest DEF PickIsNewest
<1> QED BY <1>1, <1>2, <1>3, PTL DEF Spec

-----------------------------------------------------------------------------
(***************************************************************************)
(* A chunked body on its way: where the cells of its chunks are.           *)
(***************************************************************************)
LEMMA FlattenHere == \A s : H!FlattenSeq(s) = FlattenSeq(s)
BY DEF H!FlattenSeq, FlattenSeq

LEMMA ChunkCells ==
    ASSUME NEW c \in Seq(Int)
    PROVE  /\ H!Chunk(c) \in Seq(Int) /\ Len(H!Chunk(c)) = Len(c) + 5
           /\ H!Chunk(c)[1] = Len(c) /\ H!Chunk(c)[2] = 13 /\ H!Chunk(c)[3] = 10
           /\ \A j \in 1 .. Len(c) : H!Chunk(c)[3 + j] = c[j]
<1> DEFINE eol == <<13, 10>>
           data == c \o eol
           rest == eol \o data
           size == <<Len(c)>>
           all == size \o rest
<1>1. /\ eol \in Seq(Int) /\ Len(eol) = 2 /\ eol[1] = 13 /\ eol[2] = 10
      /\ size \in Seq(Int) /\ Len(size) = 1 /\ size[1] = Len(c) /\ Len(c) \in Nat
  OBVIOUS
<1>2. H!Chunk(c) = all
  BY DEF H!Chunk, H!Eol, H!Cr, H!Lf
<1> HIDE DEF eol, size
<1>3. /\ data \in Seq(Int) /\ Len(data) = Len(c) + Len(eol)
      /\ \A j \in 1 .. Len(c) : data[j] = c[j]
  <2>1. c \in Seq(Int) /\ eol \in Seq(Int)
    BY <1>1
  <2> QED BY <2>1, Concatenated
<1> HIDE DEF data
<1>4. /\ rest \in Seq(Int) /\ Len(rest) = Len(eol) + Len(data)
      /\ \A j \in 1 .. Len(eol) : rest[j] = eol[j]
      /\ \A j \in 1 .. Len(data) : rest[Len(eol) + j] = data[j]
  <2>1. eol \in Seq(Int) /\ data \in Seq(Int)
    BY <1>1, <1>3
  <2> QED BY <2>1, Concatenated
<1> HIDE DEF rest
<1>5. /\ all \in Seq(Int) /\ Len(all) = Len(size) + Len(rest)
      /\ \A j \in 1 .. Len(size) : all[j] = size[j]
      /\ \A j \in 1 .. Len(rest) : all[Len(size) + j] = rest[j]
  <2>1. size \in Seq(Int) /\ rest \in Seq(Int)
    BY <1>1, <1>4
  <2> QED BY <2>1, Concatenated
<1> HIDE DEF all
<1>6. all[1] = Len(c)
  <2>1. 1 \in 1 .. Len(size)
    BY <1>1
  <2> QED BY <1>1, <1>5, <2>1
<1>7. all[1 + 1] = 13 /\ all[1 + 2] = 10
  <2>1. /\ 1 \in 1 .. Len(rest) /\ 2 \in 1 .. Len(rest)
        /\ 1 \in 1 .. Len(eol) /\ 2 \in 1 .. Len(eol)
    BY <1>1, <1>3, <1>4
  <2> QED BY <1>1, <1>4, <1>5, <2>1
<1>8. ASSUME NEW j \in 1 .. Len(c) PROVE all[3 + j] = c[j]
  <2>1. j \in 1 .. Len(data) /\ 2 + j \in 1 .. Len(rest) /\ 3 + j = 1 + (2 + j)
    BY <1>1, <1>3, <1>4
  <2>2. all[1 + (2 + j)] = rest[2 + j] /\ rest[2 + j] = data[j]
    BY <1>1, <1>4, <1>5, <2>1
  <2> QED BY <1>3, <2>1, <2>2
<1>9. Len(all) = Len(c) + 5
  BY <1>1, <1>3, <1>4, <1>5
<1> QED BY <1>2, <1>5, <1>6, <1>7, <1>8, <1>9

LEMMA FramedAppend ==
    ASSUME NEW cs \in Seq(Seq(Int)), NEW c \in Seq(Int)
    PROVE  /\ H!Framed(cs) \in Seq(Int)
           /\ H!Framed(Append(cs, c)) = H!Framed(cs) \o H!Chunk(c)
<1> DEFINE more == Append(cs, c)
           these == [i \in 1 .. Len(cs) |-> H!Chunk(cs[i])]
           those == [i \in 1 .. Len(more) |-> H!Chunk(more[i])]
           both == Append(these, H!Chunk(c))
<1>1. /\ more \in Seq(Seq(Int)) /\ Len(more) = Len(cs) + 1 /\ more[Len(cs) + 1] = c
      /\ \A i \in 1 .. Len(cs) : more[i] = cs[i]
  <2>1. /\ Append(cs, c) \in Seq(Seq(Int)) /\ Len(Append(cs, c)) = Len(cs) + 1
        /\ Append(cs, c)[Len(cs) + 1] = c
        /\ \A i \in 1 .. Len(cs) : Append(cs, c)[i] = cs[i]
    BY AppendedTo
  <2> QED BY <2>1, Zenon
<1> HIDE DEF more
<1>2. \A i \in 1 .. Len(cs) : H!Chunk(cs[i]) \in Seq(Int)
  <2>1. \A i \in 1 .. Len(cs) : cs[i] \in Seq(Int)
    OBVIOUS
  <2> QED BY <2>1, ChunkCells
<1>3. \A i \in 1 .. Len(more) : H!Chunk(more[i]) \in Seq(Int)
  BY <1>1, ChunkCells
<1>4. these \in Seq(Seq(Int)) /\ Len(these) = Len(cs) /\ Len(cs) \in Nat
      /\ \A i \in 1 .. Len(cs) : these[i] = H!Chunk(cs[i])
  BY <1>2
<1>5. those \in Seq(Seq(Int)) /\ Len(those) = Len(more)
      /\ \A i \in 1 .. Len(more) : those[i] = H!Chunk(more[i])
  BY <1>1, <1>3
<1> HIDE DEF these, those
<1>6. H!Chunk(c) \in Seq(Int)
  BY ChunkCells
<1>7. /\ both \in Seq(Seq(Int)) /\ Len(both) = Len(these) + 1
      /\ both[Len(these) + 1] = H!Chunk(c)
      /\ \A i \in 1 .. Len(these) : both[i] = these[i]
  BY <1>4, <1>6, AppendedTo
<1> HIDE DEF both
<1>8. those = both
  <2>1. \A i \in 1 .. Len(those) : i \in 1 .. Len(cs) \/ i = Len(cs) + 1
    BY <1>1, <1>4, <1>5
  <2>2. \A i \in 1 .. Len(those) : those[i] = both[i]
    BY <1>1, <1>4, <1>5, <1>7, <2>1
  <2>3. Len(those) = Len(both)
    BY <1>1, <1>4, <1>5, <1>7
  <2> QED BY <1>5, <1>7, <2>2, <2>3, SeqEqual
<1>9. FlattenSeq(these) \in Seq(Int) /\ FlattenSeq(both) = FlattenSeq(these) \o H!Chunk(c)
  BY <1>4, <1>6, FlattenAppend DEF both
<1>10. H!Framed(cs) = FlattenSeq(these) /\ H!Framed(more) = FlattenSeq(those)
  BY FlattenHere DEF H!Framed, these, those
<1> QED BY <1>8, <1>9, <1>10 DEF more

\* The first k chunks, with their frames and without.
Up(cs, k) == H!Framed(SubSeq(cs, 1, k))
Data(cs, k) == FlattenSeq(SubSeq(cs, 1, k))

LEMMA UpGrows ==
    ASSUME NEW cs \in Seq(Seq(Int)), NEW k \in 0 .. Len(cs) - 1
    PROVE  /\ cs[k + 1] \in Seq(Int)
           /\ Up(cs, k) \in Seq(Int) /\ Up(cs, k + 1) = Up(cs, k) \o H!Chunk(cs[k + 1])
           /\ Data(cs, k) \in Seq(Int) /\ Data(cs, k + 1) = Data(cs, k) \o cs[k + 1]
<1>1. cs[k + 1] \in Seq(Int) /\ k \in 0 .. Len(cs)
  OBVIOUS
<1>2. SubSeq(cs, 1, k + 1) = Append(SubSeq(cs, 1, k), cs[k + 1])
  BY PrefixGrows
<1>3. SubSeq(cs, 1, k) \in Seq(Seq(Int))
  BY <1>1, PrefixOfSeq
<1> QED BY <1>1, <1>2, <1>3, FramedAppend, FlattenAppend DEF Up, Data

LEMMA UpTypes ==
    ASSUME NEW cs \in Seq(Seq(Int)), NEW k \in 0 .. Len(cs)
    PROVE  Up(cs, k) \in Seq(Int) /\ Data(cs, k) \in Seq(Int) /\ Len(Up(cs, k)) \in Nat
<1>1. SubSeq(cs, 1, k) \in Seq(Seq(Int)) /\ <<>> \in Seq(Int)
  BY PrefixOfSeq
<1>2. Up(cs, k) \in Seq(Int) /\ Data(cs, k) \in Seq(Int)
  BY <1>1, FramedAppend, FlattenAppend DEF Up, Data
<1> QED BY <1>2

LEMMA UpStart == ASSUME NEW cs \in Seq(Seq(Int)) PROVE Up(cs, 0) = <<>> /\ Data(cs, 0) = <<>>
<1>1. SubSeq(cs, 1, 0) = <<>>
  OBVIOUS
<1>2. [i \in 1 .. Len(<<>>) |-> H!Chunk(<<>>[i])] = <<>>
  OBVIOUS
<1> QED BY <1>1, <1>2, FlattenEmpty, FlattenHere DEF Up, Data, H!Framed

LEMMA UpIsPrefix ==
    ASSUME NEW cs \in Seq(Seq(Int)), NEW n \in 0 .. Len(cs)
    PROVE  \A k \in 0 .. n : /\ Len(Up(cs, k)) <= Len(Up(cs, n))
                             /\ \A j \in 1 .. Len(Up(cs, k)) : Up(cs, n)[j] = Up(cs, k)[j]
<1> DEFINE Above(i) == \A k \in 0 .. i :
                           /\ Len(Up(cs, k)) <= Len(Up(cs, i))
                           /\ \A j \in 1 .. Len(Up(cs, k)) : Up(cs, i)[j] = Up(cs, k)[j]
           V == {i \in 0 .. n : Above(i)}
<1>1. n \in Nat /\ n \in 0 .. n /\ 0 \in 0 .. n /\ \A i \in 0 .. n : i \in 0 .. Len(cs)
  OBVIOUS
<1>2. \A i \in 0 .. n : Len(Up(cs, i)) \in Nat
  BY <1>1, UpTypes
<1>3. 0 \in V
  <2>1. \A k \in 0 .. 0 : k = 0
    OBVIOUS
  <2> QED BY <1>1, <1>2, <2>1
<1>4. ASSUME NEW i \in 0 .. n - 1, i \in V PROVE i + 1 \in V
  <2>1. /\ i + 1 \in 0 .. n /\ i \in 0 .. Len(cs) - 1 /\ i \in 0 .. n
        /\ \A k \in 0 .. i + 1 : (k \in 0 .. i /\ k \in 0 .. n) \/ k = i + 1
    OBVIOUS
  <2> DEFINE here == Up(cs, i)
             chunk == H!Chunk(cs[i + 1])
             next == Up(cs, i + 1)
  <2>2. cs[i + 1] \in Seq(Int) /\ here \in Seq(Int) /\ next = here \o chunk
    BY <2>1, UpGrows
  <2>3. chunk \in Seq(Int)
    BY <2>2, ChunkCells
  <2>4. /\ Len(here \o chunk) = Len(here) + Len(chunk)
        /\ \A j \in 1 .. Len(here) : (here \o chunk)[j] = here[j]
    <3> HIDE DEF here, chunk
    <3> QED BY <2>2, <2>3, Concatenated
  <2>5. Len(here) <= Len(next) /\ \A j \in 1 .. Len(here) : next[j] = here[j]
    <3> HIDE DEF here, chunk, next
    <3>1. Len(here) \in Nat /\ Len(chunk) \in Nat
      BY <2>2, <2>3
    <3> QED BY <2>2, <2>4, <3>1
  <2>6. Above(i)
    BY <1>4
  <2>7. ASSUME NEW k \in 0 .. i, k \in 0 .. n
        PROVE  /\ Len(Up(cs, k)) <= Len(next)
               /\ \A j \in 1 .. Len(Up(cs, k)) : next[j] = Up(cs, k)[j]
    <3>1. /\ Len(Up(cs, k)) <= Len(here)
          /\ \A j \in 1 .. Len(Up(cs, k)) : here[j] = Up(cs, k)[j]
      BY <2>6
    <3>2. Len(here) \in Nat /\ Len(next) \in Nat /\ Len(Up(cs, k)) \in Nat
      BY <1>2, <2>1, <2>7
    <3> HIDE DEF here, next
    <3>3. \A j \in 1 .. Len(Up(cs, k)) : j \in 1 .. Len(here)
      BY <3>1, <3>2
    <3> QED BY <2>5, <3>1, <3>2, <3>3
  <2>8. Len(next) <= Len(next)
    BY <1>2, <2>1
  <2>9. Above(i + 1)
    <3> SUFFICES ASSUME NEW k \in 0 .. i + 1
                 PROVE  /\ Len(Up(cs, k)) <= Len(next)
                        /\ \A j \in 1 .. Len(Up(cs, k)) : next[j] = Up(cs, k)[j]
      OBVIOUS
    <3> HIDE DEF here, next
    <3> QED BY <2>1, <2>7, <2>8 DEF next
  <2> HIDE DEF Above
  <2> QED BY <2>1, <2>9
<1> HIDE DEF V
<1>5. n \in V
  BY <1>1, <1>3, <1>4, UpToInduction
<1> QED BY <1>5 DEF V

\* Where the chunk after the first k is in the body as it was sent.
LEMMA ChunkPlace ==
    ASSUME NEW cs \in Seq(Seq(Int)), NEW k \in 0 .. Len(cs) - 1
    PROVE  /\ Len(Up(cs, k)) \in Nat /\ Len(cs[k + 1]) \in Nat
           /\ Len(Up(cs, k + 1)) = Len(Up(cs, k)) + Len(cs[k + 1]) + 5
           /\ Up(cs, k + 1)[Len(Up(cs, k)) + 1] = Len(cs[k + 1])
           /\ Up(cs, k + 1)[Len(Up(cs, k)) + 2] = 13
           /\ Up(cs, k + 1)[Len(Up(cs, k)) + 3] = 10
           /\ \A j \in 1 .. Len(cs[k + 1]) :
                  Up(cs, k + 1)[Len(Up(cs, k)) + (3 + j)] = cs[k + 1][j]
<1> DEFINE l == Len(Up(cs, k))
           n == Len(cs[k + 1])
           here == Up(cs, k)
           c == cs[k + 1]
           chunk == H!Chunk(c)
           next == Up(cs, k + 1)
<1>1. c \in Seq(Int) /\ here \in Seq(Int) /\ next = here \o chunk
  BY UpGrows
<1>2. /\ chunk \in Seq(Int) /\ Len(chunk) = Len(c) + 5
      /\ chunk[1] = Len(c) /\ chunk[2] = 13 /\ chunk[3] = 10
      /\ \A j \in 1 .. Len(c) : chunk[3 + j] = c[j]
  <2>1. c \in Seq(Int)
    BY <1>1
  <2> HIDE DEF c
  <2> QED BY <2>1, ChunkCells
<1> HIDE DEF here, c, chunk, next
<1>3. /\ here \o chunk \in Seq(Int) /\ Len(here \o chunk) = Len(here) + Len(chunk)
      /\ \A i \in 1 .. Len(here) : (here \o chunk)[i] = here[i]
      /\ \A i \in 1 .. Len(chunk) : (here \o chunk)[Len(here) + i] = chunk[i]
  <2>1. here \in Seq(Int) /\ chunk \in Seq(Int)
    BY <1>1, <1>2
  <2> QED BY <2>1, Concatenated
<1>4. l = Len(here) /\ n = Len(c) /\ l \in Nat /\ n \in Nat
  BY <1>1 DEF here, c
<1> HIDE DEF l, n
<1>5. /\ 1 \in 1 .. Len(chunk) /\ 2 \in 1 .. Len(chunk) /\ 3 \in 1 .. Len(chunk)
      /\ \A j \in 1 .. n : 3 + j \in 1 .. Len(chunk)
  BY <1>2, <1>4
<1>6. next[l + 1] = n /\ next[l + 2] = 13 /\ next[l + 3] = 10
  BY <1>1, <1>2, <1>3, <1>4, <1>5
<1>7. \A j \in 1 .. n : next[l + (3 + j)] = c[j]
  BY <1>1, <1>2, <1>3, <1>4, <1>5
<1>8. Len(next) = l + n + 5
  BY <1>1, <1>2, <1>3, <1>4
<1> QED BY <1>4, <1>6, <1>7, <1>8 DEF next, c, l, n

LEMMA UpIsLong ==
    ASSUME NEW cs \in Seq(Seq(Int)), NEW n \in 0 .. Len(cs)
    PROVE  Len(Up(cs, n)) >= 5 * n
<1> DEFINE V == {i \in 0 .. n : Len(Up(cs, i)) >= 5 * i}
<1>1. n \in Nat /\ n \in 0 .. n /\ 0 \in 0 .. n
  OBVIOUS
<1>2. 0 \in V
  BY <1>1, UpStart
<1>3. ASSUME NEW i \in 0 .. n - 1, i \in V PROVE i + 1 \in V
  <2>1. i \in 0 .. Len(cs) - 1 /\ i + 1 \in 0 .. n
    OBVIOUS
  <2> DEFINE l == Len(Up(cs, i))
             c == Len(cs[i + 1])
             next == Len(Up(cs, i + 1))
  <2>2. l \in Nat /\ c \in Nat /\ next = l + c + 5
    <3>1. /\ Len(Up(cs, i)) \in Nat /\ Len(cs[i + 1]) \in Nat
          /\ Len(Up(cs, i + 1)) = Len(Up(cs, i)) + Len(cs[i + 1]) + 5
      BY <2>1, ChunkPlace
    <3> QED BY <3>1, Zenon
  <2>3. l >= 5 * i
    BY <1>3
  <2> HIDE DEF l, c, next
  <2>4. next >= 5 * (i + 1)
    BY <2>2, <2>3
  <2> QED BY <2>1, <2>4 DEF next
<1> HIDE DEF V
<1>4. n \in V
  BY <1>1, <1>2, <1>3, UpToInduction
<1> QED BY <1>4 DEF V

\* The number that is read at the beginning of the chunk after the first k.
Ahead(cs, k) == IF k < Len(cs) THEN Len(cs[k + 1]) ELSE 0

Sent(W, cs) ==
    /\ W \in Seq(Int) /\ Len(W) = Len(Up(cs, Len(cs))) + 5
    /\ \A j \in 1 .. Len(Up(cs, Len(cs))) : W[j] = Up(cs, Len(cs))[j]
    /\ W[Len(Up(cs, Len(cs))) + 1] = 0

LastChunk == <<0>> \o (<<13, 10>> \o <<13, 10>>)

LEMMA WireCells ==
    ASSUME NEW cs \in Seq(Seq(Int)), NEW W, W = H!Framed(cs) \o LastChunk
    PROVE  Sent(W, cs)
<1> DEFINE up == Up(cs, Len(cs))
           eol == <<13, 10>>
           ends == eol \o eol
           rest == <<0>> \o ends
           end == <<0>>
<1>1. Len(cs) \in 0 .. Len(cs) /\ cs \in Seq(Seq(Int))
  OBVIOUS
<1>2. up \in Seq(Int) /\ Len(up) \in Nat
  BY <1>1, UpTypes
<1>3. SubSeq(cs, 1, Len(cs)) = cs
  BY <1>1, WholeSeq
<1>4. W = up \o rest
  BY <1>3 DEF Up, LastChunk
<1>5. rest \in Seq(Int) /\ Len(rest) = 5 /\ rest[1] = 0
  OBVIOUS
<1> HIDE DEF up, rest
<1>6. /\ up \o rest \in Seq(Int) /\ Len(up \o rest) = Len(up) + Len(rest)
      /\ \A i \in 1 .. Len(up) : (up \o rest)[i] = up[i]
      /\ \A i \in 1 .. Len(rest) : (up \o rest)[Len(up) + i] = rest[i]
  <2>1. up \in Seq(Int) /\ rest \in Seq(Int)
    BY <1>2, <1>5
  <2> QED BY <2>1, Concatenated
<1>7. 1 \in 1 .. Len(rest)
  BY <1>5
<1> QED BY <1>4, <1>5, <1>6, <1>7 DEF up, Sent

ProperBody(cs) == cs \in Seq(Seq(Int)) /\ \A i \in 1 .. Len(cs) : Len(cs[i]) \in 1 .. 9

\* What the loop over the chunks finds where the chunk after the first k begins.
LEMMA WireAt ==
    ASSUME NEW cs, ProperBody(cs), NEW W, Sent(W, cs), NEW k \in 0 .. Len(cs)
    PROVE  /\ Len(Up(cs, k)) \in Nat /\ Len(W) \in Nat /\ Len(Up(cs, k)) + 5 <= Len(W)
           /\ Ahead(cs, k) \in 0 .. 9 /\ W[Len(Up(cs, k)) + 1] = Ahead(cs, k)
           /\ k < Len(cs) =>
                 /\ Ahead(cs, k) = Len(cs[k + 1]) /\ Ahead(cs, k) # 0
                 /\ W[Len(Up(cs, k)) + 2] = 13 /\ W[Len(Up(cs, k)) + 3] = 10
                 /\ Len(Up(cs, k + 1)) = Len(Up(cs, k)) + Ahead(cs, k) + 5
                 /\ Len(Up(cs, k + 1)) <= Len(W)
                 /\ \A j \in 1 .. Ahead(cs, k) : W[Len(Up(cs, k)) + (3 + j)] = cs[k + 1][j]
<1> DEFINE m == Len(cs)
           l == Len(Up(cs, k))
           all == Len(Up(cs, m))
<1>1. cs \in Seq(Seq(Int)) /\ m \in Nat /\ m \in 0 .. m /\ k \in 0 .. m
  BY DEF ProperBody
<1>2. /\ W \in Seq(Int) /\ Len(W) = all + 5
      /\ \A j \in 1 .. all : W[j] = Up(cs, m)[j]
      /\ W[all + 1] = 0
  BY DEF Sent
<1>3. l \in Nat /\ all \in Nat
  BY <1>1, UpTypes
<1>4. l <= all
  BY <1>1, UpIsPrefix
<1>5. CASE k = m
  <2>1. Ahead(cs, k) = 0
    BY <1>1, <1>5 DEF Ahead
  <2>2. l = all
    BY <1>5
  <2> HIDE DEF l, all
  <2>3. l + 5 <= Len(W) /\ Len(W) \in Nat /\ ~(k < Len(cs)) /\ 0 \in 0 .. 9
    BY <1>1, <1>2, <1>3, <1>5, <2>2
  <2> QED BY <1>2, <1>3, <2>1, <2>2, <2>3, Zenon DEF l
<1>6. CASE k < m
  <2> DEFINE c == cs[k + 1]
             next == Len(Up(cs, k + 1))
  <2>1. k \in 0 .. Len(cs) - 1 /\ k + 1 \in 0 .. m /\ k + 1 \in 1 .. m
    BY <1>1, <1>6
  <2>2. /\ Len(c) \in Nat /\ next = l + Len(c) + 5
        /\ Up(cs, k + 1)[l + 1] = Len(c)
        /\ Up(cs, k + 1)[l + 2] = 13
        /\ Up(cs, k + 1)[l + 3] = 10
        /\ \A j \in 1 .. Len(c) : Up(cs, k + 1)[l + (3 + j)] = c[j]
    BY <1>1, <2>1, ChunkPlace
  <2>3. /\ next <= all
        /\ \A j \in 1 .. next : Up(cs, m)[j] = Up(cs, k + 1)[j]
    BY <1>1, <2>1, UpIsPrefix
  <2>4. Len(c) \in 1 .. 9
    BY <2>1 DEF ProperBody
  <2>5. Ahead(cs, k) = Len(c)
    BY <1>6 DEF Ahead
  <2> HIDE DEF l, next, all, c, m
  <2>6. \A j \in 1 .. next : W[j] = Up(cs, k + 1)[j]
    <3>1. \A j \in 1 .. next : j \in 1 .. all
      BY <1>3, <2>2, <2>3
    <3> QED BY <1>2, <2>3, <3>1
  <2>7. /\ l + 1 \in 1 .. next /\ l + 2 \in 1 .. next /\ l + 3 \in 1 .. next
        /\ \A j \in 1 .. Len(c) : l + (3 + j) \in 1 .. next
    BY <1>3, <2>2
  <2>8. W[l + 1] = Len(c) /\ W[l + 2] = 13 /\ W[l + 3] = 10
    BY <2>2, <2>6, <2>7
  <2>9. \A j \in 1 .. Len(c) : W[l + (3 + j)] = c[j]
    BY <2>2, <2>6, <2>7
  <2>10. next <= Len(W) /\ l + 5 <= Len(W) /\ Len(W) \in Nat /\ Len(c) \in 0 .. 9 /\ Len(c) # 0
    <3>1. Len(c) \in 0 .. 9 /\ Len(c) # 0 /\ Len(c) \in Nat
      BY <2>4
    <3>2. Len(W) = all + 5 /\ next <= all /\ next = l + Len(c) + 5
      BY <1>2, <2>2, <2>3
    <3> DEFINE n == Len(c)
               w == Len(W)
    <3> HIDE DEF n, w
    <3>3. next <= w /\ l + 5 <= w /\ w \in Nat
      <4>1. n \in Nat /\ w = all + 5 /\ next <= all /\ next = l + n + 5
        BY <3>1, <3>2 DEF n, w
      <4> QED BY <1>3, <4>1
    <3> QED BY <3>1, <3>3, Zenon DEF w
  <2> QED BY <1>3, <2>2, <2>5, <2>8, <2>9, <2>10, Zenon DEF l, next, c
<1> QED BY <1>1, <1>5, <1>6

(***************************************************************************)
(* One turn of the loop.                                                   *)
(***************************************************************************)
LEMMA EolIsFound ==
    ASSUME NEW t \in Seq(Int), NEW pos \in Nat, pos >= 1, pos + 2 <= Len(t),
           t[pos] # 13, t[pos + 1] = 13, t[pos + 2] = 10
    PROVE  H!FindEol(t, pos) = pos + 1
<1> DEFINE found == {i \in pos .. Len(t) - 1 : t[i] = 13 /\ t[i + 1] = 10}
<1>1. pos + 1 \in found
  <2>1. (pos + 1) + 1 = pos + 2 /\ pos + 1 \in pos .. Len(t) - 1
    OBVIOUS
  <2> QED BY <2>1
<1>2. \A i \in found : i \in Int /\ pos + 1 <= i
  OBVIOUS
<1>3. H!FindEol(t, pos) = IF found = {} THEN 0 ELSE CHOOSE i \in found : \A j \in found : i <= j
  BY DEF H!FindEol, H!Cr, H!Lf
<1> HIDE DEF found
<1>4. \A i \in found : (\A j \in found : i <= j) => i = pos + 1
  BY <1>1, <1>2
<1>5. (CHOOSE i \in found : \A j \in found : i <= j) = pos + 1
  BY <1>1, <1>2, <1>4
<1> QED BY <1>1, <1>3, <1>5

LEMMA EolIsAfter ==
    ASSUME NEW t \in Seq(Int), NEW pos \in Nat, H!FindEol(t, pos) # 0
    PROVE  H!FindEol(t, pos) \in pos .. Len(t) - 1
<1> DEFINE found == {i \in pos .. Len(t) - 1 : t[i] = 13 /\ t[i + 1] = 10}
           least == CHOOSE i \in found : \A j \in found : i <= j
<1>1. H!FindEol(t, pos) = IF found = {} THEN 0 ELSE least
  BY DEF H!FindEol, H!Cr, H!Lf
<1>2. found \in SUBSET Nat /\ found \subseteq pos .. Len(t) - 1
  OBVIOUS
<1> HIDE DEF found
<1>3. found # {}
  BY <1>1
<1>4. \E i \in found : \A j \in found : i <= j
  BY <1>2, <1>3, LeastNumber
<1>5. least \in found
  BY <1>4
<1> QED BY <1>1, <1>2, <1>3, <1>5

\* A whole chunk.
LEMMA StepTakes ==
    ASSUME NEW t, NEW s, s.at = "loop", NEW eol, NEW size, H!FindEol(t, s.pos) = eol,
           H!SizeAt(t, s.pos, H!FindEol(t, s.pos)) = size,
           ~(s.pos > Len(t)), eol # 0, size # 0, ~(eol + 1 + size > Len(t))
    PROVE  H!DechunkStep(t, s) = [s EXCEPT !.pos = eol + 2 + size + 2,
                                           !.out = @ \o SubSeq(t, eol + 2, eol + 1 + size)]
BY Zenon DEF H!DechunkStep

\* The end of the loop, or a whole chunk.
LEMMA StepEnds ==
    ASSUME NEW t, NEW s, s.at = "loop"
    PROVE  \/ H!DechunkStep(t, s) = [s EXCEPT !.at = "done"]
           \/ H!DechunkStep(t, s) = [s EXCEPT !.at = "failed"]
           \/ /\ H!FindEol(t, s.pos) # 0 /\ H!SizeAt(t, s.pos, H!FindEol(t, s.pos)) # 0
              /\ ~(H!FindEol(t, s.pos) + 1 + H!SizeAt(t, s.pos, H!FindEol(t, s.pos)) > Len(t))
BY Zenon DEF H!DechunkStep

LEMMA StepStays ==
    ASSUME NEW t, NEW s, s.at # "loop" PROVE H!DechunkStep(t, s) = s
BY Zenon DEF H!DechunkStep

(***************************************************************************)
(* The loop: a whole chunk at each turn as long as there is one, and then  *)
(* the end.                                                                *)
(***************************************************************************)
Turns == [at : {"loop", "done", "failed"}, pos : Nat, out : Seq(Int)]

\* After k whole chunks.
Taken(s, cs, k) ==
    s \in Turns /\ s.at = "loop" /\ s.pos = Len(Up(cs, k)) + 1 /\ s.out = Data(cs, k)

\* The first n cells of W.
Arrived(t, n, W) ==
    n \in 0 .. Len(W) /\ t \in Seq(Int) /\ Len(t) = n /\ \A i \in 1 .. n : t[i] = W[i]

LEMMA TurnTakes ==
    ASSUME NEW cs, ProperBody(cs), NEW W, Sent(W, cs),
           NEW t, NEW n, Arrived(t, n, W),
           NEW k \in 0 .. Len(cs) - 1, Len(Up(cs, k + 1)) - 2 <= n,
           NEW s, Taken(s, cs, k)
    PROVE  Taken(H!DechunkStep(t, s), cs, k + 1)
<1> DEFINE l == Len(Up(cs, k))
           c == cs[k + 1]
           size == Ahead(cs, k)
           pos == l + 1
           eol == l + 2
           next == Len(Up(cs, k + 1))
<1>1. /\ cs \in Seq(Seq(Int)) /\ k \in 0 .. Len(cs) /\ k < Len(cs) /\ n \in Nat
  BY DEF ProperBody, Arrived, Sent
<1>2. l \in Nat /\ size \in 0 .. 9 /\ size # 0 /\ next = l + size + 5
  BY <1>1, WireAt
<1>3. /\ W[l + 1] = size /\ W[l + 2] = 13 /\ W[l + 3] = 10
      /\ size = Len(c) /\ \A j \in 1 .. size : W[l + (3 + j)] = c[j]
  BY <1>1, WireAt
<1>4. t \in Seq(Int) /\ Len(t) = n /\ \A i \in 1 .. n : t[i] = W[i]
  BY DEF Arrived
<1>5. c \in Seq(Int) /\ Data(cs, k + 1) = Data(cs, k) \o c
  BY <1>1, UpGrows
<1>6. next - 2 <= n
  OBVIOUS
<1> HIDE DEF l, c, size, next
<1>7. /\ size \in Nat /\ size < 10 /\ size # 13 /\ l + 3 + size <= n /\ n \in Nat
      /\ pos \in Nat /\ pos >= 1 /\ pos + 2 <= n /\ pos < eol /\ eol # 0 /\ eol = pos + 1
      /\ ~(eol + 1 + size > n) /\ ~(pos > n) /\ eol + 2 + size + 2 = next + 1
  BY <1>1, <1>2, <1>6
<1>8. t[pos] = size /\ t[pos + 1] = 13 /\ t[pos + 2] = 10
  <2>1. /\ l + 1 \in 1 .. n /\ l + 2 \in 1 .. n /\ l + 3 \in 1 .. n
        /\ pos + 1 = l + 2 /\ pos + 2 = l + 3
    BY <1>2, <1>7
  <2>2. t[l + 1] = W[l + 1] /\ t[l + 2] = W[l + 2] /\ t[l + 3] = W[l + 3]
    BY <1>4, <2>1, Zenon
  <2> QED BY <1>3, <2>1, <2>2, Zenon
<1> HIDE DEF pos, eol
<1>9. H!FindEol(t, pos) = eol
  <2>1. t[pos] # 13 /\ pos + 2 <= Len(t)
    BY <1>4, <1>7, <1>8, Zenon
  <2>2. t \in Seq(Int) /\ pos \in Nat /\ pos >= 1
    BY <1>4, <1>7
  <2>3. H!FindEol(t, pos) = pos + 1
    BY <1>8, <2>1, <2>2, EolIsFound
  <2> QED BY <1>7, <2>3, Zenon
<1>10. H!SizeAt(t, pos, eol) = size
  <2>1. t[pos] < 10
    BY <1>7, <1>8, Zenon
  <2> QED BY <1>7, <1>8, <2>1, Zenon DEF H!SizeAt, H!Lf
<1>11. ~(pos > Len(t)) /\ eol # 0 /\ size # 0 /\ ~(eol + 1 + size > Len(t))
  BY <1>2, <1>4, <1>7, Zenon
<1>12. SubSeq(t, eol + 2, eol + 1 + size) = c
  <2> DEFINE from == l + 3
             b == from + size
             piece == SubSeq(t, from + 1, b)
  <2>1. from \in Nat /\ b \in Nat /\ from <= b /\ b <= n /\ b - from = size
    BY <1>2, <1>7
  <2>2. eol + 2 = from + 1 /\ eol + 1 + size = b
    BY <1>2, <1>7 DEF eol, pos
  <2>3. \A i \in 1 .. size : from + i \in 1 .. n /\ from + i = l + (3 + i)
    BY <1>2, <1>7
  <2> HIDE DEF b, from
  <2>4. b <= Len(t)
    BY <1>4, <2>1, Zenon
  <2>5. /\ piece \in Seq(Int) /\ Len(piece) = b - from
        /\ \A i \in 1 .. b - from : piece[i] = t[from + i]
    BY <1>4, <2>1, <2>4, PartOfSeq
  <2> HIDE DEF piece
  <2>6. \A i \in 1 .. size : piece[i] = c[i]
    BY <1>3, <1>4, <2>1, <2>3, <2>5, Zenon
  <2>7. piece = c
    <3>1. Len(piece) = Len(c) /\ \A i \in 1 .. Len(piece) : piece[i] = c[i]
      BY <1>3, <2>1, <2>5, <2>6, Zenon
    <3> QED BY <1>5, <2>5, <3>1, SeqEqual
  <2> QED BY <2>2, <2>7, Zenon DEF piece
<1>13. eol + 2 + size + 2 = next + 1
  BY <1>7
<1>14. s \in Turns /\ s.at = "loop" /\ s.pos = pos /\ s.out = Data(cs, k)
  BY Zenon DEF Taken, l, pos
<1> DEFINE o == Data(cs, k) \o c
<1>15. H!DechunkStep(t, s) = [s EXCEPT !.pos = eol + 2 + size + 2,
                                       !.out = @ \o SubSeq(t, eol + 2, eol + 1 + size)]
  <2>1. H!FindEol(t, s.pos) = eol /\ H!SizeAt(t, s.pos, H!FindEol(t, s.pos)) = size
    BY <1>9, <1>10, <1>14, Zenon
  <2>2. ~(s.pos > Len(t))
    BY <1>11, <1>14, Zenon
  <2> QED BY <1>11, <1>14, <2>1, <2>2, Zenon DEF H!DechunkStep
<1>16. H!DechunkStep(t, s) = [s EXCEPT !.pos = next + 1, !.out = o]
  BY <1>12, <1>13, <1>14, <1>15, Zenon
<1>17. o = Data(cs, k + 1) /\ o \in Seq(Int)
  <2>1. Data(cs, k) \in Seq(Int)
    BY <1>1, UpTypes
  <2>2. o \in Seq(Int)
    BY <1>5, <2>1, Concatenated
  <2> QED BY <1>5, <2>2
<1>18. next + 1 \in Nat
  BY <1>2
<1> HIDE DEF o
<1> DEFINE u == H!DechunkStep(t, s)
<1>19. u \in Turns /\ u.at = s.at /\ u.pos = next + 1 /\ u.out = o
  <2> DEFINE after == next + 1
             Out == Seq(Int)
  <2>1. /\ s \in [at : {"loop", "done", "failed"}, pos : Nat, out : Out]
        /\ Turns = [at : {"loop", "done", "failed"}, pos : Nat, out : Out]
    BY <1>14, Zenon DEF Turns
  <2>2. o \in Out /\ after \in Nat
    BY <1>17, <1>18
  <2> HIDE DEF u, after, Out
  <2>3. u = [s EXCEPT !.pos = after, !.out = o]
    BY <1>16, Zenon DEF u, after
  <2>4. u \in Turns /\ u.at = s.at /\ u.pos = after /\ u.out = o
    BY <2>1, <2>2, <2>3
  <2> QED BY <2>4 DEF after
<1> QED BY <1>14, <1>17, <1>19, Zenon DEF Taken, next

\* The loop is over, with the data of k whole chunks or none.
Over(s, cs, k) == s \in Turns /\ s.at \in {"done", "failed"} /\ s.out = Data(cs, k)

LEMMA TurnEnds ==
    ASSUME NEW cs, ProperBody(cs), NEW W, Sent(W, cs),
           NEW t, NEW n, Arrived(t, n, W),
           NEW k \in 0 .. Len(cs), k < Len(cs) => n < Len(Up(cs, k + 1)) - 2,
           NEW s, Taken(s, cs, k)
    PROVE  Over(H!DechunkStep(t, s), cs, k)
<1> DEFINE l == Len(Up(cs, k))
           eol == H!FindEol(t, s.pos)
           size == H!SizeAt(t, s.pos, eol)
           u == H!DechunkStep(t, s)
<1>1. /\ l \in Nat /\ Ahead(cs, k) \in 0 .. 9 /\ W[l + 1] = Ahead(cs, k)
      /\ k < Len(cs) => Len(Up(cs, k + 1)) = l + Ahead(cs, k) + 5
  BY WireAt
<1>2. s \in Turns /\ s.at = "loop" /\ s.pos = l + 1 /\ s.out = Data(cs, k)
  BY Zenon DEF Taken
<1>3. n \in Nat /\ t \in Seq(Int) /\ Len(t) = n /\ \A i \in 1 .. n : t[i] = W[i]
  <2>1. Len(W) \in Nat
    BY WireAt
  <2> QED BY <2>1 DEF Arrived
<1>4. k \in Nat /\ Len(cs) \in Nat
  BY DEF ProperBody
<1>5. k < Len(cs) => n < l + Ahead(cs, k) + 3
  <2> SUFFICES ASSUME k < Len(cs) PROVE n < l + Ahead(cs, k) + 3
    OBVIOUS
  <2> DEFINE next == Len(Up(cs, k + 1))
             c == Ahead(cs, k)
  <2>1. n < next - 2 /\ next = l + c + 5 /\ l \in Nat /\ c \in 0 .. 9
    BY <1>1
  <2> HIDE DEF next, l, c
  <2>2. n < l + c + 3
    BY <1>3, <2>1
  <2> QED BY <2>2 DEF c
<1>6. ~(k < Len(cs)) => Ahead(cs, k) = 0
  BY Zenon DEF Ahead
<1> HIDE DEF l
<1>7. ASSUME eol # 0, size # 0, ~(eol + 1 + size > Len(t)) PROVE FALSE
  <2> DEFINE pos == l + 1
             c == Ahead(cs, k)
  <2>1. pos \in Nat /\ pos = l + 1 /\ s.pos = pos
    BY <1>1, <1>2
  <2>2. /\ c \in 0 .. 9 /\ W[pos] = c
        /\ (k < Len(cs) => n < l + c + 3) /\ (~(k < Len(cs)) => c = 0)
    BY <1>1, <1>5, <1>6, Zenon
  <2> HIDE DEF pos, c
  <2>3. H!FindEol(t, pos) \in pos .. Len(t) - 1
    BY <1>3, <1>7, <2>1, EolIsAfter
  <2>4. eol \in pos .. n - 1
    BY <1>3, <2>1, <2>3, Zenon
  <2>5. pos < eol /\ size = t[pos]
    BY <1>7, <2>1, Zenon DEF H!SizeAt
  <2> HIDE DEF eol, size
  <2>6. pos \in 1 .. n
    BY <1>1, <1>3, <2>1, <2>4
  <2>7. size = c
    BY <1>3, <2>2, <2>5, <2>6, Zenon
  <2>8. k < Len(cs)
    BY <1>7, <2>2, <2>7, Zenon
  <2>9. ~(eol + 1 + c > n) /\ n < l + c + 3
    BY <1>3, <1>7, <2>2, <2>7, <2>8, Zenon
  <2>10. l \in Nat /\ n \in Nat
    BY <1>1, <1>3
  <2> QED BY <2>1, <2>2, <2>4, <2>5, <2>9, <2>10
<1>8. u = [s EXCEPT !.at = "done"] \/ u = [s EXCEPT !.at = "failed"]
  <2>1. s.at = "loop"
    BY <1>2
  <2>2. \/ u = [s EXCEPT !.at = "done"]
        \/ u = [s EXCEPT !.at = "failed"]
        \/ eol # 0 /\ size # 0 /\ ~(eol + 1 + size > Len(t))
    BY <2>1, StepEnds
  <2> HIDE DEF u, eol, size
  <2> QED BY <1>7, <2>2, Zenon
<1> HIDE DEF u
<1>9. u \in Turns /\ u.at \in {"done", "failed"} /\ u.out = s.out
  <2> DEFINE Out == Seq(Int)
  <2>1. /\ s \in [at : {"loop", "done", "failed"}, pos : Nat, out : Out]
        /\ Turns = [at : {"loop", "done", "failed"}, pos : Nat, out : Out]
    BY <1>2, Zenon DEF Turns
  <2> HIDE DEF Out
  <2> QED BY <1>8, <2>1
<1>10. Over(u, cs, k)
  BY <1>2, <1>9, Zenon DEF Over
<1> QED BY <1>10 DEF u

LEMMA TurnStays ==
    ASSUME NEW cs, NEW t, NEW s, NEW k, Over(s, cs, k)
    PROVE  Over(H!DechunkStep(t, s), cs, k)
<1>1. s.at # "loop"
  BY DEF Over
<1> QED BY <1>1, StepStays, Zenon

\* A turn from a state that the loop reaches: the chunks up to d are all there.
Reached(s, cs, d, k) == (k <= d /\ Taken(s, cs, k)) \/ Over(s, cs, d)

LEMMA TurnReaches ==
    ASSUME NEW cs, ProperBody(cs), NEW W, Sent(W, cs),
           NEW t, NEW n, Arrived(t, n, W), NEW d \in 0 .. Len(cs),
           Len(Up(cs, d)) - 2 <= n, d < Len(cs) => n < Len(Up(cs, d + 1)) - 2,
           NEW k \in Nat, NEW s, Reached(s, cs, d, k)
    PROVE  Reached(H!DechunkStep(t, s), cs, d, k + 1)
<1> DEFINE u == H!DechunkStep(t, s)
<1>1. CASE Over(s, cs, d)
  BY <1>1, TurnStays, Zenon DEF Reached
<1>2. CASE d = k /\ Taken(s, cs, k)
  <2>1. Over(u, cs, d)
    BY <1>2, TurnEnds
  <2> QED BY <2>1, Zenon DEF Reached
<1>3. CASE k < d /\ Taken(s, cs, k)
  <2>1. cs \in Seq(Seq(Int)) /\ n \in Int
    BY WireAt DEF ProperBody, Arrived, Sent
  <2>2. /\ k \in 0 .. Len(cs) - 1 /\ k + 1 \in 0 .. d /\ k + 1 <= d
        /\ k + 1 \in 0 .. Len(cs) /\ d \in 0 .. Len(cs)
    BY <1>3, <2>1
  <2> DEFINE next == Len(Up(cs, k + 1))
             last == Len(Up(cs, d))
  <2>3. next <= last
    BY <2>1, <2>2, UpIsPrefix
  <2>4. next \in Nat /\ last \in Nat /\ last - 2 <= n
    BY <2>1, <2>2, UpTypes
  <2>5. next - 2 <= n
    <3> HIDE DEF next, last
    <3> QED BY <2>1, <2>3, <2>4
  <2>6. Taken(u, cs, k + 1)
    <3>1. Taken(s, cs, k)
      BY <1>3
    <3> HIDE DEF u
    <3> QED BY <2>2, <2>5, <3>1, TurnTakes DEF u
  <2> QED BY <2>2, <2>6, Zenon DEF Reached
<1>4. k \in Nat /\ d \in Nat
  BY DEF ProperBody
<1>5. Over(s, cs, d) \/ (d = k /\ Taken(s, cs, k)) \/ (k < d /\ Taken(s, cs, k))
  <2>1. k <= d => k < d \/ d = k
    BY <1>4
  <2> QED BY <2>1, Zenon DEF Reached
<1> QED BY <1>1, <1>2, <1>3, <1>5

LEMMA DechunkTakesChunks ==
    ASSUME NEW cs, ProperBody(cs), NEW W, Sent(W, cs),
           NEW t, NEW n, Arrived(t, n, W), NEW d \in 0 .. Len(cs),
           Len(Up(cs, d)) - 2 <= n, d < Len(cs) => n < Len(Up(cs, d + 1)) - 2
    PROVE  H!Dechunk(t) = <<>> \/ H!Dechunk(t) = <<Data(cs, d)>>
<1> DEFINE start == [at |-> "loop", pos |-> 1, out |-> <<>>]
           AfterTurns(k) == {s \in Turns : Reached(s, cs, d, k)}
           U1 == UNION {AfterTurns(k) : k \in Nat}
           turn == [p \in U1 \X (1 .. n) |-> H!DechunkStep(t, p[1])]
           Run(f) == f = [i \in 0 .. Len(t) |-> IF i = 0 THEN start
                                                ELSE H!DechunkStep(t, f[i - 1])]
           f == CHOOSE g : Run(g)
<1>1. /\ cs \in Seq(Seq(Int)) /\ n \in Nat /\ Len(t) = n /\ d \in Nat
      /\ 0 \in 0 .. n /\ n \in 0 .. n
  <2>1. cs \in Seq(Seq(Int)) /\ Len(W) \in Nat
    BY WireAt DEF ProperBody, Sent
  <2> QED BY <2>1 DEF Arrived
<1>2. Reached(start, cs, d, 0)
  <2>1. start \in Turns /\ start.at = "loop" /\ start.pos = 1 /\ start.out = <<>>
    BY DEF Turns
  <2>2. Up(cs, 0) = <<>> /\ Data(cs, 0) = <<>> /\ 0 <= d
    BY <1>1, UpStart
  <2>3. Len(Up(cs, 0)) + 1 = 1
    BY <2>2
  <2> HIDE DEF start
  <2>4. Taken(start, cs, 0)
    BY <2>1, <2>2, <2>3, Zenon DEF Taken
  <2> QED BY <2>2, <2>4, Zenon DEF Reached
<1> HIDE DEF start
<1>3. ASSUME NEW k \in Nat, NEW s, Reached(s, cs, d, k)
      PROVE  Reached(H!DechunkStep(t, s), cs, d, k + 1)
  BY <1>3, TurnReaches
<1>4. \A s, k : Reached(s, cs, d, k) => s \in Turns
  BY Zenon DEF Reached, Taken, Over
<1>5. start \in U1
  BY <1>2, <1>4
<1>6. turn \in [U1 \X (1 .. n) -> U1]
  <2>1. ASSUME NEW p \in U1 \X (1 .. n) PROVE H!DechunkStep(t, p[1]) \in U1
    <3>1. PICK k \in Nat : p[1] \in AfterTurns(k)
      OBVIOUS
    <3>2. k + 1 \in Nat
      OBVIOUS
    <3>3. H!DechunkStep(t, p[1]) \in AfterTurns(k + 1)
      BY <1>3, <1>4, <3>1
    <3> QED BY <3>2, <3>3
  <2> QED BY <2>1
<1>7. PICK g \in [0 .. n -> U1] : IsFold(g, start, turn, n)
  <2> HIDE DEF turn, U1
  <2> QED BY <1>1, <1>5, <1>6, FoldExists
<1>8. \A i \in 0 .. n : g[i] = IF i = 0 THEN start ELSE H!DechunkStep(t, g[i - 1])
  <2> TAKE i \in 0 .. n
  <2>1. g[i] = IF i = 0 THEN start ELSE turn[<<g[i - 1], i>>]
    <3> HIDE DEF turn, U1
    <3> QED BY <1>7 DEF IsFold
  <2>2. CASE i # 0
    <3>1. i - 1 \in 0 .. n /\ i \in 1 .. n
      BY <1>1, <2>2
    <3>2. g[i - 1] \in U1
      <4> HIDE DEF U1
      <4> QED BY <1>7, <3>1
    <3>3. turn[<<g[i - 1], i>>] = H!DechunkStep(t, g[i - 1])
      <4> HIDE DEF U1
      <4> QED BY <3>1, <3>2
    <3> QED BY <2>1, <2>2, <3>3, Zenon
  <2> QED BY <2>1, <2>2
<1> HIDE DEF turn, U1
<1>9. Run(g)
  <2>1. g = [i \in 0 .. n |-> g[i]]
    BY <1>7
  <2>2. g = [i \in 0 .. n |-> IF i = 0 THEN start ELSE H!DechunkStep(t, g[i - 1])]
    BY <1>8, <2>1
  <2> QED BY <1>1, <2>2, Zenon
<1>10. Run(f)
  <2> HIDE DEF Run
  <2> QED BY <1>9
<1>11. H!Dechunk(t) = IF f[Len(t)].at = "failed" THEN <<>> ELSE <<f[Len(t)].out>>
  BY DEF H!Dechunk, start
<1> HIDE DEF f
<1>12. /\ f[0] = start
       /\ \A i \in 0 .. n : i # 0 => f[i] = H!DechunkStep(t, f[i - 1])
  BY <1>1, <1>10
<1> HIDE DEF Run
<1> DEFINE V == {i \in 0 .. n : Reached(f[i], cs, d, i)}
<1>13. 0 \in V
  BY <1>1, <1>2, <1>12, Zenon
<1>14. ASSUME NEW i \in 0 .. n - 1, i \in V PROVE i + 1 \in V
  <2>1. i + 1 \in 0 .. n /\ i + 1 # 0 /\ (i + 1) - 1 = i /\ i \in Nat
    <3> HIDE DEF V
    <3> QED BY <1>1
  <2>2. Reached(f[i], cs, d, i)
    BY <1>14
  <2>3. Reached(H!DechunkStep(t, f[i]), cs, d, i + 1)
    BY <1>3, <2>1, <2>2
  <2> QED BY <1>12, <2>1, <2>3
<1> HIDE DEF V
<1>15. Reached(f[n], cs, d, n)
  BY <1>1, <1>13, <1>14, UpToInduction DEF V
<1>16. CASE Over(f[n], cs, d)
  BY <1>1, <1>11, <1>16, Zenon DEF Over
<1>17. CASE n <= d /\ Taken(f[n], cs, n)
  <2>1. d <= n
    <3> DEFINE l == Len(Up(cs, d))
    <3>1. l >= 5 * d /\ l \in Nat /\ l - 2 <= n
      BY <1>1, UpIsLong, UpTypes
    <3> HIDE DEF l
    <3> QED BY <1>1, <3>1
  <2>2. n = d
    BY <1>1, <1>17, <2>1
  <2>3. f[Len(t)].out = Data(cs, d) /\ f[Len(t)].at = "loop"
    BY <1>1, <1>17, <2>2, Zenon DEF Taken
  <2> QED BY <1>11, <2>3
<1> QED BY <1>15, <1>16, <1>17 DEF Reached

(***************************************************************************)
(* The last chunk that is there as a whole, and what that makes of a body. *)
(***************************************************************************)
Whole(cs, n) == {i \in 0 .. Len(cs) : Len(Up(cs, i)) - 2 <= n}
LastWhole(cs, n) == CHOOSE i \in Whole(cs, n) : \A j \in Whole(cs, n) : j <= i

LEMMA DataIsOfWhole == \A a, n : H!DataIn(a, n) = Data(a.chunks, LastWhole(a.chunks, n))
BY FlattenHere, Zenon DEF H!DataIn, Data, LastWhole, Whole, Up

LEMMA LastIsWhole ==
    ASSUME NEW cs, ProperBody(cs), NEW n \in Nat
    PROVE  /\ LastWhole(cs, n) \in 0 .. Len(cs) /\ Len(Up(cs, LastWhole(cs, n))) - 2 <= n
           /\ LastWhole(cs, n) < Len(cs) => n < Len(Up(cs, LastWhole(cs, n) + 1)) - 2
           /\ n >= Len(Up(cs, Len(cs))) => LastWhole(cs, n) = Len(cs)
<1> DEFINE m == Len(cs)
           V == Whole(cs, n)
           d == LastWhole(cs, n)
<1>1. cs \in Seq(Seq(Int)) /\ m \in Nat /\ 0 \in 0 .. m /\ m \in 0 .. m
  BY DEF ProperBody
<1>2. \A i \in 0 .. m : Len(Up(cs, i)) \in Nat
  BY <1>1, UpTypes
<1>3. V \subseteq 0 .. m /\ \A i \in 0 .. m : i \in V <=> Len(Up(cs, i)) - 2 <= n
  BY DEF Whole
<1>4. Len(Up(cs, 0)) = 0
  BY <1>1, UpStart
<1>5. 0 \in V
  BY <1>1, <1>3, <1>4
<1>6. d = CHOOSE i \in V : \A j \in V : j <= i
  BY DEF LastWhole
<1> HIDE DEF V, d, m
<1>7. \E i \in V : \A j \in V : j <= i
  BY <1>1, <1>3, <1>5, GreatestNumber
<1>8. d \in V /\ \A j \in V : j <= d
  BY <1>6, <1>7
<1>9. d \in 0 .. m /\ Len(Up(cs, d)) - 2 <= n
  BY <1>3, <1>8
<1>10. ASSUME d < m PROVE n < Len(Up(cs, d + 1)) - 2
  <2> DEFINE next == Len(Up(cs, d + 1))
  <2>1. d + 1 \in 0 .. m /\ ~(d + 1 <= d)
    BY <1>1, <1>9, <1>10
  <2>2. ~(next - 2 <= n)
    BY <1>3, <1>8, <2>1
  <2>3. next \in Nat
    BY <1>2, <2>1
  <2> HIDE DEF next
  <2>4. n < next - 2
    BY <2>2, <2>3
  <2> QED BY <2>4 DEF next
<1>11. ASSUME n >= Len(Up(cs, m)) PROVE d = m
  <2> DEFINE all == Len(Up(cs, m))
  <2>1. all \in Nat /\ n >= all
    BY <1>1, <1>2, <1>11
  <2>2. all - 2 <= n
    <3> HIDE DEF all
    <3> QED BY <2>1
  <2>3. m \in V
    BY <1>1, <1>3, <2>2
  <2>4. m <= d
    BY <1>8, <2>3
  <2> QED BY <1>1, <1>9, <2>4
<1> QED BY <1>9, <1>10, <1>11 DEF m, d

LEMMA ChunkedBody ==
    ASSUME NEW cs, ProperBody(cs), NEW W, Sent(W, cs), NEW n \in 0 .. Len(W)
    PROVE  /\ \/ H!Dechunk(SubSeq(W, 1, n)) = <<>>
              \/ H!Dechunk(SubSeq(W, 1, n)) = <<Data(cs, LastWhole(cs, n))>>
           /\ n = Len(W) => Data(cs, LastWhole(cs, n)) = FlattenSeq(cs)
<1> DEFINE t == SubSeq(W, 1, n)
           d == LastWhole(cs, n)
           all == Len(Up(cs, Len(cs)))
<1>1. W \in Seq(Int) /\ n \in Nat /\ Len(W) = all + 5
  BY DEF Sent
<1>2. Arrived(t, n, W)
  <2>1. t \in Seq(Int) /\ Len(t) = n /\ \A i \in 1 .. n : t[i] = W[i]
    BY <1>1, PrefixOfSeq
  <2> QED BY <2>1 DEF Arrived
<1>3. /\ d \in 0 .. Len(cs) /\ Len(Up(cs, d)) - 2 <= n
      /\ d < Len(cs) => n < Len(Up(cs, d + 1)) - 2
      /\ n >= all => d = Len(cs)
  BY <1>1, LastIsWhole
<1> HIDE DEF t, d
<1>4. H!Dechunk(t) = <<>> \/ H!Dechunk(t) = <<Data(cs, d)>>
  BY <1>2, <1>3, DechunkTakesChunks
<1>5. ASSUME n = Len(W) PROVE Data(cs, d) = FlattenSeq(cs)
  <2>1. cs \in Seq(Seq(Int)) /\ Len(cs) \in 0 .. Len(cs)
    BY DEF ProperBody
  <2>2. all \in Nat
    BY <2>1, UpTypes
  <2>3. n >= all
    <3> HIDE DEF all
    <3> QED BY <1>1, <1>5, <2>2
  <2>4. d = Len(cs)
    BY <1>3, <2>3
  <2>5. SubSeq(cs, 1, Len(cs)) = cs
    BY <2>1, WholeSeq
  <2> QED BY <2>4, <2>5 DEF Data
<1> QED BY <1>4, <1>5 DEF t, d

(***************************************************************************)
(* The body that is taken out of an answer is right.                       *)
(***************************************************************************)
LEMMA AnswersAreProper ==
    ASSUME NEW a \in H!Answers
    PROVE  a.chunked \in BOOLEAN /\ ProperBody(a.chunks)
<1>1. a.chunked \in BOOLEAN /\ (a.chunks \in Bodies \/ a.chunks = <<>>)
  BY DEF H!Answers
<1>2. ProperBody(<<>>)
  BY DEF ProperBody
<1>3. \A b \in Bodies : ProperBody(b)
  BY BodiesAssumption DEF H!ProperBodies, ProperBody
<1> QED BY <1>1, <1>2, <1>3, Zenon

\* What DownloadIsWhatWasSent says of the body b of the answer a, of which n cells arrived.
BodyRight(a, n, b) ==
    /\ a.chunked => a.last = "transfer-encoding" \/ b = H!DataIn(a, n)
    /\ ~a.chunked => b = SubSeq(H!FlattenSeq(a.chunks), 1, n)
    /\ n = Len(H!Wire(a)) /\ a.last # "transfer-encoding" => b = H!FlattenSeq(a.chunks)

LEMMA BodyTaken ==
    ASSUME NEW a \in H!Answers, NEW n \in 0 .. Len(H!Wire(a)), NEW out,
           out = IF H!Chunked(a) THEN H!Dechunk(SubSeq(H!Wire(a), 1, n))
                                 ELSE <<SubSeq(H!Wire(a), 1, n)>>,
           out # <<>>
    PROVE  BodyRight(a, n, out[1])
<1> DEFINE cs == a.chunks
           W == H!Wire(a)
<1>1. a.chunked \in BOOLEAN /\ ProperBody(cs)
  BY AnswersAreProper
<1>2. CASE ~a.chunked
  <2>1. W = FlattenSeq(cs) /\ H!FlattenSeq(cs) = FlattenSeq(cs)
    BY <1>2, FlattenHere DEF H!Wire
  <2>2. out[1] = SubSeq(W, 1, n)
    BY <1>2 DEF H!Chunked
  <2>3. W \in Seq(Int)
    <3>1. cs \in Seq(Seq(Int)) /\ <<>> \in Seq(Int)
      BY <1>1 DEF ProperBody
    <3> HIDE DEF cs
    <3>2. FlattenSeq(cs) \in Seq(Int)
      BY <3>1, FlattenAppend
    <3> QED BY <2>1, <3>2, Zenon
  <2>4. SubSeq(W, 1, Len(W)) = W
    <3> HIDE DEF W
    <3> QED BY <2>3, WholeSeq
  <2> HIDE DEF W, cs
  <2>5. /\ out[1] = SubSeq(H!FlattenSeq(cs), 1, n)
        /\ n = Len(W) => out[1] = H!FlattenSeq(cs)
    BY <2>1, <2>2, <2>4, Zenon
  <2> QED BY <1>2, <2>5, Zenon DEF BodyRight, W, cs
<1>3. CASE a.chunked
  <2>1. Sent(W, cs)
    <3>1. W = H!Framed(cs) \o (<<0>> \o (<<13, 10>> \o <<13, 10>>))
      BY <1>3, Zenon DEF H!Wire, H!Eol, H!Cr, H!Lf
    <3>2. cs \in Seq(Seq(Int))
      BY <1>1 DEF ProperBody
    <3> HIDE DEF W, cs
    <3> QED BY <3>1, <3>2, WireCells DEF LastChunk
  <2>2. /\ \/ H!Dechunk(SubSeq(W, 1, n)) = <<>>
           \/ H!Dechunk(SubSeq(W, 1, n)) = <<Data(cs, LastWhole(cs, n))>>
        /\ n = Len(W) => Data(cs, LastWhole(cs, n)) = FlattenSeq(cs)
    <3>1. n \in 0 .. Len(W)
      OBVIOUS
    <3> HIDE DEF W, cs
    <3> QED BY <1>1, <2>1, <3>1, ChunkedBody
  <2>3. H!DataIn(a, n) = Data(cs, LastWhole(cs, n)) /\ H!FlattenSeq(cs) = FlattenSeq(cs)
    BY DataIsOfWhole, FlattenHere
  <2>4. CASE a.last # "transfer-encoding"
    <3>1. out = H!Dechunk(SubSeq(W, 1, n))
      BY <1>3, <2>4, Zenon DEF H!Chunked
    <3> HIDE DEF W, cs
    <3>2. out = <<Data(cs, LastWhole(cs, n))>>
      BY <2>2, <3>1, Zenon
    <3>3. out[1] = Data(cs, LastWhole(cs, n))
      BY <3>2
    <3>4. /\ out[1] = H!DataIn(a, n)
          /\ n = Len(W) => out[1] = H!FlattenSeq(cs)
      BY <2>2, <2>3, <3>3, Zenon
    <3> QED BY <1>3, <3>4, Zenon DEF BodyRight, W, cs
  <2>5. CASE a.last = "transfer-encoding"
    BY <1>3, <2>5, Zenon DEF BodyRight
  <2> QED BY <2>4, <2>5
<1> QED BY <1>1, <1>2, <1>3

(***************************************************************************)
(* The invariant of Perform and DownloadToFile.                            *)
(***************************************************************************)
HttpInv ==
    /\ httpAt \in {"parse", "read", "headers", "answered", "ok", "error"}
    /\ hops \in Nat /\ hops <= 9 /\ (httpAt = "parse" => hops <= 8)
    /\ httpAt \in {"read", "headers", "answered", "ok"} => answer \in H!Answers
    /\ httpAt \in {"headers", "answered", "ok"} => received \in 0 .. Len(H!Wire(answer))
    /\ httpAt \in {"answered", "ok"} => BodyRight(answer, received, body)
    /\ httpAt = "ok" => answer.status \notin H!Redirects /\ target = "whole"
    /\ httpAt # "ok" => target \in {"old", "none"}

LEMMA HttpStarts == H!Init => HttpInv
BY DEF H!Init, HttpInv

LEMMA HttpStep == HttpInv /\ H!Next => HttpInv'
<1> SUFFICES ASSUME HttpInv, H!Next PROVE HttpInv'
  OBVIOUS
<1>1. CASE H!Request
  <2>1. CASE httpAt' = "read" /\ hops' = hops + 1 /\ answer' \in H!Answers
    <3>1. hops' \in Nat /\ hops' <= 9
      BY <1>1, <2>1 DEF HttpInv, H!Request
    <3>2. target' \in {"old", "none"}
      BY <1>1 DEF HttpInv, H!Request
    <3> QED BY <2>1, <3>1, <3>2 DEF HttpInv
  <2>2. CASE httpAt' = "error" /\ UNCHANGED <<hops, answer>>
    BY <1>1, <2>2 DEF HttpInv, H!Request
  <2> QED BY <1>1, <2>1, <2>2 DEF H!Request
<1>2. CASE H!ReadAll
  <2>1. /\ httpAt = "read" /\ httpAt' \in {"headers", "error"}
        /\ received' \in 0 .. Len(H!Wire(answer)) /\ UNCHANGED <<answer, body, target, hops>>
    BY <1>2, Zenon DEF H!ReadAll
  <2> QED BY <2>1 DEF HttpInv
<1>3. CASE H!TakeBody
  <2> DEFINE out == IF H!Chunked(answer) THEN H!Dechunk(SubSeq(H!Wire(answer), 1, received))
                                         ELSE <<SubSeq(H!Wire(answer), 1, received)>>
  <2>1. /\ httpAt = "headers" /\ UNCHANGED <<httpUrl, answer, received, target, hops>>
        /\ IF out = <<>> THEN httpAt' = "error" /\ UNCHANGED body
                         ELSE httpAt' = "answered" /\ body' = out[1]
    BY <1>3, Zenon DEF H!TakeBody
  <2>2. answer \in H!Answers /\ received \in 0 .. Len(H!Wire(answer))
    BY <2>1 DEF HttpInv
  <2>3. CASE out = <<>>
    <3>1. httpAt' = "error"
      BY <2>1, <2>3, Zenon
    <3> HIDE DEF out
    <3> QED BY <2>1, <3>1 DEF HttpInv
  <2>4. CASE out # <<>>
    <3>1. BodyRight(answer, received, out[1])
      BY <2>2, <2>4, BodyTaken
    <3> HIDE DEF out
    <3>2. httpAt' = "answered" /\ body' = out[1]
      BY <2>1, <2>4, Zenon
    <3>3. BodyRight(answer', received', body')
      BY <2>1, <3>1, <3>2, Zenon
    <3> QED BY <2>1, <2>2, <3>2, <3>3, Zenon DEF HttpInv
  <2> QED BY <2>3, <2>4
<1>4. CASE H!Redirect
  <2>1. /\ httpAt = "answered" /\ UNCHANGED <<answer, received, body, target, hops>>
        /\ httpAt' = "error" \/ (httpAt' = "parse" /\ ~(hops > 8))
    BY <1>4 DEF H!Redirect, H!kMaxRedirects
  <2> QED BY <2>1 DEF HttpInv
<1>5. CASE H!WriteFile
  BY <1>5 DEF HttpInv, H!WriteFile
<1> QED BY <1>1, <1>2, <1>3, <1>4, <1>5 DEF H!Next

(***************************************************************************)
(* A download that succeeds has written what the server sent: of a chunked *)
(* answer the data of the whole chunks that arrived and nothing of their   *)
(* framing, for any number of chunks of one to nine bytes and every point  *)
(* where the connection ends.                                              *)
(***************************************************************************)
THEOREM DownloadsAreTrue == H!Init /\ [][H!Next]_(H!httpVars) => []DownloadIsWhatWasSent
<1>1. HttpInv => DownloadIsWhatWasSent
  <2> SUFFICES ASSUME HttpInv PROVE DownloadIsWhatWasSent
    OBVIOUS
  <2>1. httpAt = "ok" => BodyRight(answer, received, body)
    BY DEF HttpInv
  <2>2. /\ httpAt = "ok" => answer.status \notin H!Redirects /\ target = "whole"
        /\ httpAt # "ok" => target \in {"old", "none"}
    BY DEF HttpInv
  <2>3. hops <= H!kMaxRedirects + 1
    BY DEF HttpInv, H!kMaxRedirects
  <2> QED BY <2>1, <2>2, <2>3, Zenon
          DEF DownloadIsWhatWasSent, H!DownloadIsWhatWasSent, BodyRight
<1>2. HttpInv /\ UNCHANGED H!httpVars => HttpInv'
  BY Zenon DEF HttpInv, H!httpVars
<1> QED BY <1>1, <1>2, HttpStarts, HttpStep, PTL

-----------------------------------------------------------------------------
(***************************************************************************)
(* The archive as cells, and feed over them.                               *)
(***************************************************************************)
Cells == {T!Cell(kind, e, i) : kind \in {"header", "data", "padding", "zero"}, e \in Nat, i \in Nat}

LEMMA RoundedIsNumber == \A size \in Nat : T!Rounded(size) \in Nat
<1> TAKE size \in Nat
<1>1. kBlock \in Nat /\ kBlock > 0
  BY ArchivesAssumption DEF T!ProperArchives
<1> DEFINE q == (size + kBlock - 1) \div kBlock
<1>2. size + kBlock - 1 \in Nat
  BY <1>1
<1>3. q \in Nat
  BY <1>1, <1>2
<1> HIDE DEF q
<1>4. q * kBlock \in Nat
  BY <1>1, <1>3
<1> QED BY <1>4 DEF T!Rounded, q

LEMMA ArchiveTypes ==
    /\ kBlock \in Nat /\ kBlock > 0
    /\ \A a \in Archives :
          /\ Len(a.entries) \in Nat /\ a.zeros \in Nat
          /\ \A e \in 1 .. Len(a.entries) :
                a.entries[e].size \in Nat /\ T!Rounded(a.entries[e].size) \in Nat
<1>1. kBlock \in Nat /\ kBlock > 0
  BY ArchivesAssumption DEF T!ProperArchives
<1>2. \A a \in Archives :
         /\ Len(a.entries) \in Nat /\ a.zeros \in Nat
         /\ \A e \in 1 .. Len(a.entries) : a.entries[e].size \in Nat
  BY ArchivesAssumption, Zenon DEF T!ProperArchives
<1> QED BY <1>1, <1>2, RoundedIsNumber, Zenon

\* An entry with data has a block of it at least.
LEMMA RoundedSize ==
    /\ T!Rounded(0) = 0
    /\ \A size \in Nat : size > 0 => T!Rounded(size) > 0
<1>1. kBlock \in Nat /\ kBlock > 0
  BY ArchiveTypes
<1>2. (0 + kBlock - 1) \div kBlock = 0
  BY <1>1
<1>3. T!Rounded(0) = 0
  BY <1>1, <1>2 DEF T!Rounded
<1>4. ASSUME NEW size \in Nat, size > 0 PROVE T!Rounded(size) > 0
  <2> DEFINE q == (size + kBlock - 1) \div kBlock
  <2>1. q \in Nat /\ q > 0
    BY <1>1, <1>4
  <2> HIDE DEF q
  <2>2. q * kBlock > 0
    BY <1>1, <2>1
  <2> QED BY <2>2 DEF T!Rounded, q
<1> QED BY <1>3, <1>4

LEMMA BlocksOf ==
    ASSUME NEW a \in Archives, NEW e \in 1 .. Len(a.entries)
    PROVE  /\ T!Blocks(a, e) \in Seq(Cells)
           /\ Len(T!Blocks(a, e)) = kBlock + T!Rounded(a.entries[e].size)
           /\ \A i \in 1 .. kBlock : T!Blocks(a, e)[i] = T!Cell("header", e, i)
           /\ \A i \in 1 .. T!Rounded(a.entries[e].size) :
                 T!Blocks(a, e)[kBlock + i]
                     = T!Cell(IF i <= a.entries[e].size THEN "data" ELSE "padding", e, i)
<1> DEFINE size == a.entries[e].size
           rounded == T!Rounded(size)
           head == [i \in 1 .. kBlock |-> T!Cell("header", e, i)]
           rest == [i \in 1 .. rounded |-> T!Cell(IF i <= size THEN "data" ELSE "padding", e, i)]
<1>1. kBlock \in Nat /\ size \in Nat /\ rounded \in Nat /\ e \in Nat
  BY ArchiveTypes
<1>2. \A i \in Nat : /\ T!Cell("header", e, i) \in Cells /\ T!Cell("data", e, i) \in Cells
                     /\ T!Cell("padding", e, i) \in Cells
  BY <1>1 DEF Cells
<1>3. T!Blocks(a, e) = head \o rest
  BY DEF T!Blocks
<1> HIDE DEF size, rounded
<1>4. head \in Seq(Cells) /\ Len(head) = kBlock
  <2>1. \A i \in 1 .. kBlock : T!Cell("header", e, i) \in Cells
    BY <1>1, <1>2
  <2> QED BY <1>1, <2>1
<1>5. rest \in Seq(Cells) /\ Len(rest) = rounded
  <2>1. \A i \in 1 .. rounded :
           T!Cell(IF i <= size THEN "data" ELSE "padding", e, i) \in Cells
    BY <1>1, <1>2
  <2> QED BY <1>1, <2>1
<1>6. /\ \A i \in 1 .. kBlock : head[i] = T!Cell("header", e, i)
      /\ \A i \in 1 .. rounded :
            rest[i] = T!Cell(IF i <= size THEN "data" ELSE "padding", e, i)
  OBVIOUS
<1> HIDE DEF head, rest
<1>7. /\ head \o rest \in Seq(Cells) /\ Len(head \o rest) = Len(head) + Len(rest)
      /\ \A i \in 1 .. Len(head) : (head \o rest)[i] = head[i]
      /\ \A i \in 1 .. Len(rest) : (head \o rest)[Len(head) + i] = rest[i]
  <2>1. head \in Seq(Cells) /\ rest \in Seq(Cells)
    BY <1>4, <1>5
  <2> QED BY <2>1, Concatenated
<1> QED BY <1>3, <1>4, <1>5, <1>6, <1>7 DEF size, rounded

LEMMA LaidGrows ==
    ASSUME NEW a \in Archives, NEW k \in 0 .. Len(a.entries)
    PROVE  /\ T!Laid(a, 0) = <<>> /\ T!Laid(a, k) \in Seq(Cells) /\ T!EndOf(a, k) \in Nat
           /\ T!EndOf(a, k) = Len(T!Laid(a, k))
           /\ k < Len(a.entries) => T!Laid(a, k + 1) = T!Laid(a, k) \o T!Blocks(a, k + 1)
<1> DEFINE parts(n) == [e \in 1 .. n |-> T!Blocks(a, e)]
<1>1. Len(a.entries) \in Nat /\ k \in Nat
  BY ArchiveTypes
<1>2. \A n \in 0 .. Len(a.entries) : parts(n) \in Seq(Seq(Cells)) /\ Len(parts(n)) = n
  <2> TAKE n \in 0 .. Len(a.entries)
  <2>1. \A e \in 1 .. n : T!Blocks(a, e) \in Seq(Cells)
    <3>1. \A e \in 1 .. n : e \in 1 .. Len(a.entries)
      BY <1>1
    <3> QED BY <3>1, BlocksOf
  <2> QED BY <1>1, <2>1
<1>3. \A s : T!FlattenSeq(s) = FlattenSeq(s)
  BY DEF T!FlattenSeq, FlattenSeq
<1>4. \A n : T!Laid(a, n) = FlattenSeq(parts(n))
  BY <1>3 DEF T!Laid
<1>5. T!Laid(a, 0) = <<>>
  <2>1. parts(0) = <<>>
    OBVIOUS
  <2> HIDE DEF parts
  <2> QED BY <1>4, <2>1, FlattenEmpty
<1>6. T!Laid(a, k) \in Seq(Cells)
  <2>1. parts(k) \in Seq(Seq(Cells)) /\ <<>> \in Seq(Cells)
    BY <1>2
  <2> HIDE DEF parts
  <2> QED BY <1>4, <2>1, FlattenAppend
<1>7. ASSUME k < Len(a.entries) PROVE T!Laid(a, k + 1) = T!Laid(a, k) \o T!Blocks(a, k + 1)
  <2> DEFINE next == T!Blocks(a, k + 1)
  <2>1. k + 1 \in 1 .. Len(a.entries) /\ k + 1 \in 0 .. Len(a.entries)
    BY <1>1, <1>7
  <2>2. next \in Seq(Cells)
    BY <2>1, BlocksOf
  <2>3. parts(k) \in Seq(Seq(Cells)) /\ parts(k + 1) \in Seq(Seq(Cells))
        /\ Len(parts(k)) = k /\ Len(parts(k + 1)) = k + 1
    BY <1>2, <2>1
  <2>4. \A i \in 1 .. k + 1 : parts(k + 1)[i] = IF i = k + 1 THEN next ELSE parts(k)[i]
    BY <1>1
  <2> DEFINE here == parts(k)
             more == parts(k + 1)
  <2> HIDE DEF next, parts
  <2>5. /\ Append(here, next) \in Seq(Seq(Cells)) /\ Len(Append(here, next)) = Len(here) + 1
        /\ Append(here, next)[Len(here) + 1] = next
        /\ \A i \in 1 .. Len(here) : Append(here, next)[i] = here[i]
    BY <2>2, <2>3, AppendedTo
  <2> HIDE DEF here, more
  <2>6. /\ here \in Seq(Seq(Cells)) /\ more \in Seq(Seq(Cells)) /\ Len(here) = k
        /\ Len(more) = k + 1
        /\ \A i \in 1 .. k + 1 : more[i] = IF i = k + 1 THEN next ELSE here[i]
    BY <2>3, <2>4 DEF here, more
  <2>7. more = Append(here, next)
    <3>1. \A i \in 1 .. k + 1 : Append(here, next)[i] = more[i]
      BY <1>1, <2>5, <2>6
    <3> DEFINE longer == Append(here, next)
    <3> HIDE DEF longer
    <3> QED BY <2>5, <2>6, <3>1, SeqEqual DEF longer
  <2>8. FlattenSeq(Append(here, next)) = FlattenSeq(here) \o next
    BY <2>2, <2>6, FlattenAppend
  <2> QED BY <1>4, <2>7, <2>8 DEF here, more, next
<1>8. T!EndOf(a, k) = Len(T!Laid(a, k))
  BY DEF T!EndOf
<1>9. Len(T!Laid(a, k)) \in Nat
  <2> DEFINE laid == T!Laid(a, k)
  <2>1. laid \in Seq(Cells)
    BY <1>6
  <2> HIDE DEF laid
  <2>2. Len(laid) \in Nat
    BY <2>1
  <2> QED BY <2>2 DEF laid
<1> QED BY <1>5, <1>6, <1>7, <1>8, <1>9, Zenon

(***************************************************************************)
(* Where the entries are, and what their cells are.                        *)
(***************************************************************************)
LEMMA Ends ==
    ASSUME NEW a \in Archives
    PROVE  /\ T!EndOf(a, 0) = 0
           /\ \A e \in 0 .. Len(a.entries) : T!EndOf(a, e) \in Nat
           /\ \A e \in 1 .. Len(a.entries) :
                 T!EndOf(a, e) = T!EndOf(a, e - 1) + kBlock + T!Rounded(a.entries[e].size)
<1> DEFINE m == Len(a.entries)
<1>1. m \in Nat /\ 0 \in 0 .. m /\ Len(<<>>) = 0
  BY ArchiveTypes
<1>2. T!EndOf(a, 0) = 0 /\ \A e \in 0 .. m : T!EndOf(a, e) \in Nat
  BY <1>1, LaidGrows
<1>3. ASSUME NEW e \in 1 .. m
      PROVE  T!EndOf(a, e) = T!EndOf(a, e - 1) + kBlock + T!Rounded(a.entries[e].size)
  <2> DEFINE here == T!Laid(a, e - 1)
             next == T!Blocks(a, e)
  <2>1. e - 1 \in 0 .. m /\ e \in 0 .. m /\ e - 1 < m /\ (e - 1) + 1 = e
    BY <1>1
  <2>2. /\ here \in Seq(Cells) /\ T!EndOf(a, e - 1) = Len(here)
        /\ T!Laid(a, e) = here \o next /\ T!EndOf(a, e) = Len(T!Laid(a, e))
    BY <2>1, LaidGrows
  <2>3. next \in Seq(Cells) /\ Len(next) = kBlock + T!Rounded(a.entries[e].size)
    BY BlocksOf
  <2> HIDE DEF here, next
  <2>4. Len(here \o next) = Len(here) + Len(next)
    BY <2>2, <2>3, Concatenated
  <2>5. Len(here) \in Nat /\ kBlock \in Nat /\ T!Rounded(a.entries[e].size) \in Nat
    BY <2>2, ArchiveTypes
  <2> QED BY <2>2, <2>3, <2>4, <2>5
<1> QED BY <1>2, <1>3

LEMMA StreamParts ==
    ASSUME NEW a \in Archives, NEW m, m = Len(a.entries)
    PROVE  /\ T!Stream(a) \in Seq(Cells) /\ Len(T!Stream(a)) = T!EndOf(a, m) + a.zeros * kBlock
           /\ a.zeros * kBlock \in Nat
           /\ \A i \in 1 .. T!EndOf(a, m) : T!Stream(a)[i] = T!Laid(a, m)[i]
           /\ \A i \in 1 .. a.zeros * kBlock : T!Stream(a)[T!EndOf(a, m) + i] = T!Cell("zero", 0, 0)
<1> DEFINE z == a.zeros * kBlock
           laid == T!Laid(a, m)
           zeros == [i \in 1 .. z |-> T!Cell("zero", 0, 0)]
<1>1. z \in Nat /\ m \in 0 .. m
  BY ArchiveTypes
<1>2. laid \in Seq(Cells) /\ T!EndOf(a, m) = Len(laid)
  BY <1>1, LaidGrows
<1>3. T!Stream(a) = laid \o zeros
  BY DEF T!Stream
<1>4. T!Cell("zero", 0, 0) \in Cells
  <2>1. \A e, i \in Nat : T!Cell("zero", e, i) \in Cells
    BY DEF Cells
  <2> QED BY <2>1
<1> HIDE DEF z
<1>5. zeros \in Seq(Cells) /\ Len(zeros) = z /\ \A i \in 1 .. z : zeros[i] = T!Cell("zero", 0, 0)
  BY <1>1, <1>4
<1> HIDE DEF laid, zeros
<1>6. /\ laid \o zeros \in Seq(Cells) /\ Len(laid \o zeros) = Len(laid) + Len(zeros)
      /\ \A i \in 1 .. Len(laid) : (laid \o zeros)[i] = laid[i]
      /\ \A i \in 1 .. Len(zeros) : (laid \o zeros)[Len(laid) + i] = zeros[i]
  BY <1>2, <1>5, Concatenated
<1> QED BY <1>1, <1>2, <1>3, <1>5, <1>6 DEF z, laid

LEMMA StreamIsCells == ASSUME NEW a \in Archives PROVE T!Stream(a) \in Seq(Cells)
BY StreamParts

LEMMA StreamAt ==
    ASSUME NEW a \in Archives, NEW e \in 1 .. Len(a.entries)
    PROVE  /\ T!EndOf(a, e) <= T!EndOf(a, Len(a.entries))
           /\ T!EndOf(a, e) <= Len(T!Stream(a))
           /\ \A i \in 1 .. kBlock : T!Stream(a)[T!EndOf(a, e - 1) + i] = T!Cell("header", e, i)
           /\ \A i \in 1 .. T!Rounded(a.entries[e].size) :
                 T!Stream(a)[T!EndOf(a, e - 1) + kBlock + i]
                     = T!Cell(IF i <= a.entries[e].size THEN "data" ELSE "padding", e, i)
<1> DEFINE m == Len(a.entries)
           rounded == T!Rounded(a.entries[e].size)
           f == [k \in 0 .. m |-> T!Laid(a, k)]
           b == T!EndOf(a, e - 1)
           here == T!Laid(a, e - 1)
           next == T!Blocks(a, e)
           W == T!Stream(a)
<1>1. /\ m \in Nat /\ rounded \in Nat /\ kBlock \in Nat /\ e \in 0 .. m /\ m \in 0 .. m
      /\ e - 1 \in 0 .. m /\ e - 1 < m /\ (e - 1) + 1 = e
  BY ArchiveTypes
<1>2. f \in [0 .. m -> Seq(Cells)] /\ \A i \in 0 .. m - 1 : \E t \in Seq(Cells) : f[i + 1] = f[i] \o t
  <2>1. \A k \in 0 .. m : T!Laid(a, k) \in Seq(Cells)
    BY LaidGrows
  <2>2. ASSUME NEW i \in 0 .. m - 1 PROVE \E t \in Seq(Cells) : f[i + 1] = f[i] \o t
    <3>1. i \in 0 .. m /\ i < m /\ i + 1 \in 1 .. m /\ i + 1 \in 0 .. m
      BY <1>1
    <3>2. T!Laid(a, i + 1) = T!Laid(a, i) \o T!Blocks(a, i + 1) /\ T!Blocks(a, i + 1) \in Seq(Cells)
      BY <3>1, LaidGrows, BlocksOf
    <3> QED BY <3>1, <3>2
  <2> QED BY <2>1, <2>2
<1>3. Len(T!Laid(a, e)) <= Len(T!Laid(a, m)) /\ \A j \in 1 .. Len(T!Laid(a, e)) : T!Laid(a, m)[j] = T!Laid(a, e)[j]
  <2>1. f[e] = T!Laid(a, e) /\ f[m] = T!Laid(a, m)
    BY <1>1
  <2> HIDE DEF f, m
  <2>2. Chain(f, m, Cells)
    BY <1>2 DEF Chain
  <2>3. Within(f[e], f[m])
    BY <1>1, <2>2, PrefixesNest, Zenon
  <2> QED BY <2>1, <2>3 DEF Within
<1>4. /\ T!EndOf(a, e) \in Nat /\ T!EndOf(a, m) \in Nat /\ b \in Nat
      /\ T!EndOf(a, e) = Len(T!Laid(a, e)) /\ T!EndOf(a, m) = Len(T!Laid(a, m)) /\ b = Len(here)
      /\ here \in Seq(Cells) /\ T!Laid(a, e) = here \o next
  BY <1>1, LaidGrows
<1>5. /\ next \in Seq(Cells) /\ Len(next) = kBlock + rounded
      /\ \A i \in 1 .. kBlock : next[i] = T!Cell("header", e, i)
      /\ \A i \in 1 .. rounded :
            next[kBlock + i] = T!Cell(IF i <= a.entries[e].size THEN "data" ELSE "padding", e, i)
  BY BlocksOf
<1>6. T!EndOf(a, e) = b + kBlock + rounded
  BY Ends
<1>7. /\ Len(W) = T!EndOf(a, m) + a.zeros * kBlock /\ a.zeros * kBlock \in Nat
      /\ \A i \in 1 .. T!EndOf(a, m) : W[i] = T!Laid(a, m)[i]
  BY StreamParts
<1> HIDE DEF m, rounded, f, b, here, next, W
<1>8. \A i \in 1 .. Len(next) : (here \o next)[Len(here) + i] = next[i]
  BY <1>4, <1>5, Concatenated
<1>9. ASSUME NEW i \in 1 .. kBlock + rounded PROVE W[b + i] = next[i]
  <2>1. b + i \in 1 .. T!EndOf(a, e) /\ b + i \in 1 .. T!EndOf(a, m) /\ i \in 1 .. Len(next)
    BY <1>1, <1>3, <1>4, <1>5, <1>6
  <2>2. W[b + i] = T!Laid(a, m)[b + i] /\ T!Laid(a, m)[b + i] = T!Laid(a, e)[b + i]
    BY <1>3, <1>4, <1>7, <2>1
  <2> QED BY <1>4, <1>8, <2>1, <2>2
<1>10. \A i \in 1 .. kBlock : W[b + i] = T!Cell("header", e, i)
  <2>1. \A i \in 1 .. kBlock : i \in 1 .. kBlock + rounded
    BY <1>1
  <2> QED BY <1>5, <1>9, <2>1
<1>11. \A i \in 1 .. rounded :
          W[b + kBlock + i] = T!Cell(IF i <= a.entries[e].size THEN "data" ELSE "padding", e, i)
  <2>1. \A i \in 1 .. rounded : kBlock + i \in 1 .. kBlock + rounded /\ b + kBlock + i = b + (kBlock + i)
    BY <1>1, <1>4
  <2> QED BY <1>5, <1>9, <2>1
<1>12. T!EndOf(a, e) <= T!EndOf(a, m) /\ T!EndOf(a, e) <= Len(W)
  BY <1>3, <1>4, <1>7
<1> QED BY <1>10, <1>11, <1>12 DEF m, rounded, b, W

\* What Feed computes, turn by turn, up to the n-th cell.
Fed(f, a, s, chunk, n) ==
    f = [i \in 0 .. n |-> IF i = 0 THEN s ELSE T!FeedCell(a, f[i - 1], chunk[i])]

LEMMA FedExists ==
    ASSUME NEW a, NEW s, NEW chunk, NEW n \in Nat
    PROVE  \E f : Fed(f, a, s, chunk, n)
<1> DEFINE V == {k \in Nat : \E f : Fed(f, a, s, chunk, k)}
<1>1. 0 \in V
  <2> DEFINE f == [i \in 0 .. 0 |-> s]
  <2>1. f = [i \in 0 .. 0 |-> IF i = 0 THEN s ELSE T!FeedCell(a, f[i - 1], chunk[i])]
    OBVIOUS
  <2> QED BY <2>1 DEF Fed
<1>2. ASSUME NEW k \in V PROVE k + 1 \in V
  <2>1. PICK f : Fed(f, a, s, chunk, k)
    OBVIOUS
  <2> DEFINE g == [i \in 0 .. k + 1 |-> IF i = k + 1 THEN T!FeedCell(a, f[k], chunk[k + 1])
                                                     ELSE f[i]]
  <2>2. \A i \in 0 .. k : f[i] = IF i = 0 THEN s ELSE T!FeedCell(a, f[i - 1], chunk[i])
    BY <2>1 DEF Fed
  <2>3. \A i \in 0 .. k + 1 : g[i] = IF i = 0 THEN s ELSE T!FeedCell(a, g[i - 1], chunk[i])
    <3> TAKE i \in 0 .. k + 1
    <3>1. CASE i = k + 1
      <4>1. g[i - 1] = f[k] /\ i # 0 /\ g[i] = T!FeedCell(a, f[k], chunk[k + 1])
        BY <3>1
      <4> HIDE DEF g
      <4> QED BY <3>1, <4>1, Zenon
    <3>2. CASE i \in 0 .. k
      <4>1. g[i] = f[i] /\ (i # 0 => g[i - 1] = f[i - 1])
        BY <3>2
      <4> HIDE DEF g
      <4> QED BY <2>2, <3>2, <4>1
    <3> QED BY <3>1, <3>2
  <2>4. g = [i \in 0 .. k + 1 |-> g[i]]
    OBVIOUS
  <2> HIDE DEF g
  <2>5. Fed(g, a, s, chunk, k + 1)
    BY <2>3, <2>4 DEF Fed
  <2> QED BY <2>5
<1>3. V \in SUBSET Nat
  OBVIOUS
<1> HIDE DEF V
<1>4. V = Nat
  BY <1>1, <1>2, <1>3, NatSetInduction
<1> QED BY <1>4 DEF V

LEMMA FeedIsFed ==
    ASSUME NEW a, NEW s, NEW chunk, Len(chunk) \in Nat
    PROVE  \E f : Fed(f, a, s, chunk, Len(chunk)) /\ T!Feed(a, s, chunk) = f[Len(chunk)]
<1> DEFINE Run(f) == Fed(f, a, s, chunk, Len(chunk))
           f == CHOOSE g : Run(g)
<1>1. \E g : Run(g)
  BY FedExists
<1>2. Run(f)
  <2> HIDE DEF Run
  <2> QED BY <1>1
<1>3. T!Feed(a, s, chunk) = f[Len(chunk)]
  BY DEF T!Feed, Fed
<1> HIDE DEF f
<1> QED BY <1>2, <1>3

LEMMA FeedEmpty == \A a, s : T!Feed(a, s, <<>>) = s
<1> TAKE a, s
<1>1. Len(<<>>) = 0 /\ 0 \in Nat /\ 0 \in 0 .. 0
  OBVIOUS
<1>2. PICK f : Fed(f, a, s, <<>>, Len(<<>>)) /\ T!Feed(a, s, <<>>) = f[Len(<<>>)]
  BY <1>1, FeedIsFed
<1>3. f = [i \in 0 .. 0 |-> IF i = 0 THEN s ELSE T!FeedCell(a, f[i - 1], <<>>[i])]
  BY <1>1, <1>2, Zenon DEF Fed
<1>4. f[0] = s
  BY <1>1, <1>3
<1> QED BY <1>1, <1>2, <1>4, Zenon

LEMMA FeedGrows ==
    ASSUME NEW a, NEW s, NEW chunk \in Seq(Cells), NEW c \in Cells
    PROVE  T!Feed(a, s, Append(chunk, c)) = T!FeedCell(a, T!Feed(a, s, chunk), c)
<1> DEFINE n == Len(chunk)
           more == Append(chunk, c)
<1>1. n \in Nat /\ n \in 0 .. n /\ n + 1 \in Nat
  OBVIOUS
<1>2. Len(more) = n + 1 /\ more[n + 1] = c /\ \A i \in 1 .. n : more[i] = chunk[i]
  BY AppendedTo
<1> HIDE DEF more
<1>3. PICK f : Fed(f, a, s, chunk, n) /\ T!Feed(a, s, chunk) = f[n]
  BY <1>1, FeedIsFed
<1>4. PICK g : Fed(g, a, s, more, n + 1) /\ T!Feed(a, s, more) = g[n + 1]
  <2>1. PICK g : Fed(g, a, s, more, Len(more)) /\ T!Feed(a, s, more) = g[Len(more)]
    BY <1>1, <1>2, FeedIsFed
  <2> QED BY <1>2, <2>1, Zenon
<1> HIDE DEF n
<1>5. \A i \in 0 .. n : f[i] = IF i = 0 THEN s ELSE T!FeedCell(a, f[i - 1], chunk[i])
  BY <1>3 DEF Fed
<1>6. \A i \in 0 .. n + 1 : g[i] = IF i = 0 THEN s ELSE T!FeedCell(a, g[i - 1], more[i])
  BY <1>4 DEF Fed
<1> DEFINE V == {i \in 0 .. n : f[i] = g[i]}
<1>7. 0 \in V
  <2>1. 0 \in 0 .. n /\ 0 \in 0 .. n + 1
    BY <1>1
  <2> QED BY <1>5, <1>6, <2>1
<1>8. ASSUME NEW i \in 0 .. n - 1, i \in V PROVE i + 1 \in V
  <2>1. /\ i + 1 \in 0 .. n /\ i + 1 \in 0 .. n + 1 /\ i + 1 # 0 /\ (i + 1) - 1 = i
        /\ i + 1 \in 1 .. n
    BY <1>1
  <2>2. f[i + 1] = T!FeedCell(a, f[i], chunk[i + 1]) /\ g[i + 1] = T!FeedCell(a, g[i], more[i + 1])
    BY <1>5, <1>6, <2>1
  <2>3. f[i] = g[i] /\ more[i + 1] = chunk[i + 1]
    BY <1>2, <1>8, <2>1
  <2> QED BY <2>1, <2>2, <2>3
<1> HIDE DEF V
<1>9. f[n] = g[n]
  BY <1>1, <1>7, <1>8, UpToInduction DEF V
<1>10. g[n + 1] = T!FeedCell(a, g[n], c)
  <2>1. n + 1 \in 0 .. n + 1 /\ n + 1 # 0 /\ (n + 1) - 1 = n
    BY <1>1
  <2> QED BY <1>2, <1>6, <2>1
<1> QED BY <1>3, <1>4, <1>9, <1>10, Zenon DEF more

-----------------------------------------------------------------------------
(***************************************************************************)
(* What the steps of feed do to the fields of the parser's state.          *)
(***************************************************************************)
Fields == {"hdr", "left", "inData", "longName", "pendingLong", "sawEnd", "ended", "ok",
           "open", "collecting", "longBuf", "files"}

EntryEnded(s, t) ==
    /\ DOMAIN t = Fields
    /\ t.hdr = s.hdr /\ t.left = s.left /\ t.sawEnd = s.sawEnd /\ t.ended = s.ended
    /\ t.ok = s.ok /\ t.files = s.files
    /\ t.inData = FALSE /\ t.pendingLong = FALSE /\ t.collecting = FALSE
    /\ t.open = T!NoName
    /\ t.longName = IF s.pendingLong THEN s.longBuf ELSE T!NoName

LEMMA EndFields ==
    ASSUME NEW s, DOMAIN s = Fields
    PROVE  EntryEnded(s, T!End(s))
BY DEF EntryEnded, T!End, Fields

EntryBegun(s, entry, path, t) ==
    /\ DOMAIN t = Fields
    /\ path = "unsafe" => t.ok = FALSE
    /\ path # "unsafe" =>
          /\ t.hdr = s.hdr /\ t.left = s.left /\ t.sawEnd = s.sawEnd /\ t.ended = s.ended
          /\ t.ok = s.ok /\ t.inData = s.inData /\ t.pendingLong = s.pendingLong
          /\ t.collecting = s.collecting /\ t.longName = s.longName
          /\ t.open = IF entry.type = "file" THEN path ELSE s.open
          /\ t.longBuf = IF entry.type = "long" THEN T!NoName ELSE s.longBuf
          /\ t.files = IF entry.type = "file" THEN T!Truncated(s.files, path) ELSE s.files

LEMMA BeginFields ==
    ASSUME NEW s, DOMAIN s = Fields, NEW entry
    PROVE  EntryBegun(s, entry, IF s.longName = T!NoName THEN entry.name ELSE s.longName,
                      T!Begin(s, entry))
<1> SUFFICES ASSUME NEW path, path = IF s.longName = T!NoName THEN entry.name ELSE s.longName,
                    NEW t, t = T!Begin(s, entry)
             PROVE  EntryBegun(s, entry, path, t)
  OBVIOUS
<1>1. CASE path = "unsafe"
  <2>1. t = [s EXCEPT !.ok = FALSE]
    BY <1>1, Zenon DEF T!Begin
  <2> QED BY <1>1, <2>1 DEF Fields, EntryBegun
<1>2. CASE path # "unsafe" /\ entry.type = "long"
  <2>1. t = [s EXCEPT !.longBuf = T!NoName]
    BY <1>2, Zenon DEF T!Begin
  <2>2. entry.type # "file"
    BY <1>2
  <2> QED BY <1>2, <2>1, <2>2 DEF Fields, EntryBegun
<1>3. CASE path # "unsafe" /\ entry.type = "file"
  <2>1. entry.type # "long"
    BY <1>3
  <2>2. t = [s EXCEPT !.open = path, !.files = T!Truncated(@, path)]
    BY <1>3, <2>1, Zenon DEF T!Begin
  <2> QED BY <1>3, <2>1, <2>2 DEF Fields, EntryBegun
<1>4. CASE path # "unsafe" /\ entry.type # "file" /\ entry.type # "long"
  <2>1. t = s
    BY <1>4, Zenon DEF T!Begin
  <2> QED BY <1>4, <2>1 DEF EntryBegun
<1> QED BY <1>1, <1>2, <1>3, <1>4

CellTaken(a, s, cell, t) ==
    /\ DOMAIN t = Fields
    /\ t.hdr = s.hdr /\ t.left = s.left /\ t.sawEnd = s.sawEnd /\ t.ended = s.ended
    /\ t.ok = s.ok /\ t.inData = s.inData /\ t.pendingLong = s.pendingLong
    /\ t.collecting = s.collecting /\ t.longName = s.longName /\ t.open = s.open
    /\ t.longBuf = IF s.collecting /\ cell.kind = "data"
                   THEN a.entries[cell.e].text ELSE s.longBuf
    /\ t.files = IF ~s.collecting /\ T!Taken(a, s, cell)
                 THEN [s.files EXCEPT ![s.open] = Append(@, cell)] ELSE s.files

LEMMA DataFields ==
    ASSUME NEW a, NEW s, DOMAIN s = Fields, NEW cell
    PROVE  CellTaken(a, s, cell, T!Data(a, s, cell))
<1> SUFFICES ASSUME NEW t, t = T!Data(a, s, cell)
             PROVE  CellTaken(a, s, cell, t)
  OBVIOUS
<1>1. CASE s.collecting /\ cell.kind = "data"
  <2>1. t = [s EXCEPT !.longBuf = a.entries[cell.e].text]
    BY <1>1, Zenon DEF T!Data
  <2> QED BY <1>1, <2>1 DEF Fields, CellTaken
<1>2. CASE ~s.collecting /\ T!Taken(a, s, cell)
  <2>1. t = [s EXCEPT !.files[s.open] = Append(@, cell)]
    BY <1>2, Zenon DEF T!Data
  <2> QED BY <1>2, <2>1 DEF Fields, CellTaken
<1>3. CASE (s.collecting /\ cell.kind # "data") \/ (~s.collecting /\ ~T!Taken(a, s, cell))
  <2>1. t = s
    BY <1>3, Zenon DEF T!Data
  <2> QED BY <1>3, <2>1 DEF CellTaken
<1> QED BY <1>1, <1>2, <1>3

-----------------------------------------------------------------------------
(***************************************************************************)
(* The files after the first n cells, which the last of m entries has.     *)
(***************************************************************************)
IsFile(a, e) == a.entries[e].type = "file"
IsLong(a, e) == a.entries[e].type = "long"

\* The name that the entry before e gave.
LongBefore(a, e) ==
    IF e > 1 /\ IsLong(a, e - 1) /\ a.entries[e - 1].size > 0
    THEN a.entries[e - 1].text ELSE T!NoName

\* No entry up to m takes the file of d over.
Lasts(a, d, m) == \A c \in d + 1 .. m : T!NameOf(a, c) = T!NameOf(a, d) => ~IsFile(a, c)

Extracted(a, files, m, n) ==
    /\ \A d \in 1 .. m : T!NameOf(a, d) # "unsafe"
    /\ DOMAIN files = {T!NameOf(a, d) : d \in {c \in 1 .. m : IsFile(a, c)}}
    /\ \A d \in 1 .. m :
          IsFile(a, d) /\ Lasts(a, d, m)
          => files[T!NameOf(a, d)] = T!Written(a, d, IF d = m THEN n ELSE T!EndOf(a, d))

LEMMA NamesAreSet ==
    ASSUME NEW a \in Archives, NEW e \in 1 .. Len(a.entries)
    PROVE  /\ T!NameOf(a, e) = IF LongBefore(a, e) = T!NoName THEN a.entries[e].name
                                                              ELSE LongBefore(a, e)
           /\ IsFile(a, e) => T!NameOf(a, e) # T!NoName
<1>1. \A d \in 1 .. Len(a.entries) :
         /\ IsFile(a, d) => a.entries[d].name # T!NoName
         /\ IsLong(a, d) /\ a.entries[d].size > 0 => a.entries[d].text # T!NoName
  BY ArchivesAssumption, Zenon DEF T!ProperArchives, IsFile, IsLong
<1>2. e > 1 => e - 1 \in 1 .. Len(a.entries)
  BY ArchiveTypes
<1> QED BY <1>1, <1>2 DEF T!NameOf, LongBefore, IsLong

\* The end of an entry.
LEMMA ExtractedTo ==
    ASSUME NEW a, NEW f, NEW m, NEW n, NEW k, Extracted(a, f, m, n), n = k \/ ~IsFile(a, m)
    PROVE  Extracted(a, f, m, k)
BY DEF Extracted

LEMMA PartGrows ==
    ASSUME NEW D, NEW s \in Seq(D), NEW b \in Nat, NEW n \in Nat, b <= n, n < Len(s)
    PROVE  SubSeq(s, b + 1, n + 1) = Append(SubSeq(s, b + 1, n), s[n + 1])
<1> DEFINE part == SubSeq(s, b + 1, n)
           more == SubSeq(s, b + 1, n + 1)
<1>1. s[n + 1] \in D /\ n <= Len(s) /\ n + 1 \in Nat /\ n + 1 <= Len(s) /\ b <= n + 1
  OBVIOUS
<1>2. /\ part \in Seq(D) /\ Len(part) = n - b
      /\ \A i \in 1 .. n - b : part[i] = s[b + i]
  BY <1>1, PartOfSeq
<1>3. /\ more \in Seq(D) /\ Len(more) = n + 1 - b
      /\ \A i \in 1 .. n + 1 - b : more[i] = s[b + i]
  BY <1>1, PartOfSeq
<1> HIDE DEF part, more
<1> DEFINE longer == Append(part, s[n + 1])
<1>4. /\ longer \in Seq(D) /\ Len(longer) = Len(part) + 1 /\ longer[Len(part) + 1] = s[n + 1]
      /\ \A i \in 1 .. Len(part) : longer[i] = part[i]
  BY <1>1, <1>2, AppendedTo
<1> HIDE DEF longer
<1>5. Len(longer) = Len(more) /\ \A i \in 1 .. Len(more) : longer[i] = more[i]
  BY <1>2, <1>3, <1>4
<1>6. longer = more
  BY <1>3, <1>4, <1>5, SeqEqual
<1> QED BY <1>6 DEF longer, part, more

LEMMA NoCells == ASSUME NEW s, NEW b \in Nat PROVE SubSeq(s, b + 1, b) = <<>>
OBVIOUS

LEMMA DiskTakes ==
    \A a \in Archives : \A e \in 1 .. Len(a.entries) : a.takes[e] \in Nat
BY ArchivesAssumption, Zenon DEF T!ProperArchives

\* At first nothing of an entry is on disk; a cell is added as long as the disk
\* takes it.
LEMMA NothingWritten ==
    ASSUME NEW a \in Archives, NEW e \in 1 .. Len(a.entries),
           T!EndOf(a, e - 1) + kBlock \in Nat
    PROVE  T!Written(a, e, T!EndOf(a, e - 1) + kBlock) = <<>>
<1> DEFINE b == T!EndOf(a, e - 1) + kBlock
           takes == a.takes[e]
<1>1. takes \in Nat
  BY DiskTakes
<1>2. T!Written(a, e, b)
      = SubSeq(T!Stream(a), b + 1, IF b - b <= takes THEN b ELSE b + takes)
  BY DEF T!Written
<1> HIDE DEF b, takes
<1>3. b \in Nat
  BY DEF b
<1>4. (IF b - b <= takes THEN b ELSE b + takes) = b
  BY <1>1, <1>3
<1>5. SubSeq(T!Stream(a), b + 1, b) = <<>>
  BY <1>3, NoCells
<1> QED BY <1>2, <1>4, <1>5 DEF b

LEMMA WrittenGrows ==
    ASSUME NEW a \in Archives, NEW e \in 1 .. Len(a.entries), NEW n \in Nat,
           T!EndOf(a, e - 1) + kBlock \in Nat,
           T!EndOf(a, e - 1) + kBlock <= n, n < Len(T!Stream(a))
    PROVE  T!Written(a, e, n + 1)
           = IF Len(T!Written(a, e, n)) < a.takes[e]
             THEN Append(T!Written(a, e, n), T!Stream(a)[n + 1]) ELSE T!Written(a, e, n)
<1> DEFINE W == T!Stream(a)
           b == T!EndOf(a, e - 1) + kBlock
           takes == a.takes[e]
           stop == IF n - b <= takes THEN n ELSE b + takes
           next == IF (n + 1) - b <= takes THEN n + 1 ELSE b + takes
<1>1. takes \in Nat
  BY DiskTakes
<1>2. T!Written(a, e, n) = SubSeq(W, b + 1, stop) /\ T!Written(a, e, n + 1) = SubSeq(W, b + 1, next)
  BY DEF T!Written
<1>3. W \in Seq(Cells) /\ n < Len(W) /\ b \in Nat /\ b <= n
  BY StreamIsCells
<1> HIDE DEF W, b, takes
<1>4. stop \in Nat /\ b <= stop /\ stop <= Len(W)
  BY <1>1, <1>3
<1>5. Len(SubSeq(W, b + 1, stop)) = stop - b
  <2> HIDE DEF stop
  <2> QED BY <1>3, <1>4, PartOfSeq
<1>6. CASE n - b < takes
  <2>1. stop = n /\ next = n + 1 /\ stop - b < takes
    BY <1>1, <1>3, <1>6
  <2>2. SubSeq(W, b + 1, n + 1) = Append(SubSeq(W, b + 1, n), W[n + 1])
    BY <1>3, PartGrows
  <2> HIDE DEF stop, next
  <2> QED BY <1>2, <1>5, <2>1, <2>2 DEF W, takes
<1>7. CASE n - b >= takes
  <2>1. stop = b + takes /\ next = b + takes /\ ~(stop - b < takes)
    BY <1>1, <1>3, <1>7
  <2> HIDE DEF stop, next
  <2> QED BY <1>2, <1>5, <2>1 DEF W, takes
<1> QED BY <1>1, <1>3, <1>6, <1>7

\* The header of an entry.
LEMMA ExtractedBegins ==
    ASSUME NEW a \in Archives, NEW e \in 1 .. Len(a.entries),
           NEW f, Extracted(a, f, e - 1, T!EndOf(a, e - 1)),
           T!NameOf(a, e) # "unsafe",
           NEW g, g = IF IsFile(a, e) THEN T!Truncated(f, T!NameOf(a, e)) ELSE f
    PROVE  Extracted(a, g, e, T!EndOf(a, e - 1) + kBlock)
<1> DEFINE name(d) == T!NameOf(a, d)
           b == T!EndOf(a, e - 1) + kBlock
<1>1. /\ e \in Nat /\ \A d \in 1 .. e : d = e \/ d \in 1 .. e - 1
      /\ \A d \in 1 .. e - 1 : d \in 1 .. e /\ d # e /\ e \in d + 1 .. e
                               /\ \A c \in d + 1 .. e - 1 : c \in d + 1 .. e
  BY ArchiveTypes
<1>2. b \in Nat
  <2>1. e - 1 \in 0 .. Len(a.entries)
    BY ArchiveTypes
  <2> QED BY <2>1, Ends, ArchiveTypes
<1>3. \A d \in 1 .. e : name(d) # "unsafe"
  BY <1>1 DEF Extracted
<1>4. DOMAIN g = {name(d) : d \in {c \in 1 .. e : IsFile(a, c)}}
  <2>1. DOMAIN f = {name(d) : d \in {c \in 1 .. e - 1 : IsFile(a, c)}}
    BY DEF Extracted
  <2>2. DOMAIN g = IF IsFile(a, e) THEN DOMAIN f \cup {name(e)} ELSE DOMAIN f
    BY DEF T!Truncated
  <2> HIDE DEF name
  <2>3. {c \in 1 .. e : IsFile(a, c)} = {c \in 1 .. e - 1 : IsFile(a, c)}
                                         \cup (IF IsFile(a, e) THEN {e} ELSE {})
    BY <1>1
  <2> QED BY <2>1, <2>2, <2>3
<1>5. ASSUME NEW d \in 1 .. e, IsFile(a, d), Lasts(a, d, e)
      PROVE  g[name(d)] = T!Written(a, d, IF d = e THEN b ELSE T!EndOf(a, d))
  <2>1. CASE d = e
    <3>1. g[name(e)] = <<>>
      BY <1>5, <2>1 DEF T!Truncated
    <3>2. T!Written(a, e, b) = <<>>
      BY <1>2, NothingWritten
    <3> QED BY <2>1, <3>1, <3>2
  <2>2. CASE d \in 1 .. e - 1
    <3>1. d # e /\ e \in d + 1 .. e /\ \A c \in d + 1 .. e - 1 : c \in d + 1 .. e
      BY <1>1, <2>2
    <3>2. Lasts(a, d, e - 1) /\ (IsFile(a, e) => name(d) # name(e))
      BY <1>5, <3>1 DEF Lasts
    <3>3. f[name(d)] = T!Written(a, d, IF d = e - 1 THEN T!EndOf(a, e - 1) ELSE T!EndOf(a, d))
      BY <1>5, <2>2, <3>2 DEF Extracted
    <3>4. name(d) \in DOMAIN f
      BY <1>5, <2>2 DEF Extracted
    <3>5. g[name(d)] = f[name(d)]
      <4> HIDE DEF name
      <4>1. CASE IsFile(a, e)
        <5>1. g = T!Truncated(f, name(e)) /\ name(d) # name(e)
          BY <3>2, <4>1 DEF name
        <5> QED BY <3>4, <5>1 DEF T!Truncated
      <4>2. CASE ~IsFile(a, e)
        BY <4>2
      <4> QED BY <4>1, <4>2
    <3> QED BY <3>1, <3>3, <3>5
  <2> QED BY <1>1, <2>1, <2>2
<1> QED BY <1>3, <1>4, <1>5 DEF Extracted

\* A cell of data, or of the padding.
LEMMA ExtractedGrows ==
    ASSUME NEW a \in Archives, NEW e \in 1 .. Len(a.entries), IsFile(a, e),
           NEW n \in Nat, T!EndOf(a, e - 1) + kBlock <= n, n < T!EndOf(a, e),
           NEW f, Extracted(a, f, e, n),
           NEW g, g = IF Len(f[T!NameOf(a, e)]) < a.takes[e]
                      THEN [f EXCEPT ![T!NameOf(a, e)] = Append(@, T!Stream(a)[n + 1])] ELSE f
    PROVE  Extracted(a, g, e, n + 1)
<1> DEFINE name(d) == T!NameOf(a, d)
           W == T!Stream(a)
           b == T!EndOf(a, e - 1) + kBlock
<1>1. /\ e \in Nat /\ e \in 1 .. e
      /\ \A d \in 1 .. e : d = e \/ (d # e /\ e \in d + 1 .. e)
      /\ ~\E c \in e + 1 .. e : TRUE
  BY ArchiveTypes
<1>2. b \in Nat /\ b <= n /\ n < Len(W)
  <2>1. e - 1 \in 0 .. Len(a.entries) /\ e \in 0 .. Len(a.entries)
    BY ArchiveTypes
  <2>2. T!EndOf(a, e) <= Len(W) /\ W \in Seq(Cells)
    BY StreamAt, StreamIsCells
  <2>3. T!EndOf(a, e) \in Nat /\ T!EndOf(a, e - 1) \in Nat
    BY <2>1, Ends
  <2> HIDE DEF W
  <2>4. Len(W) \in Nat
    BY <2>2
  <2> QED BY <2>2, <2>3, <2>4, ArchiveTypes
<1>3. name(e) \in DOMAIN f /\ DOMAIN g = DOMAIN f
  BY <1>1 DEF Extracted
<1>4. f[name(e)] = T!Written(a, e, n)
  <2>1. Lasts(a, e, e)
    BY <1>1 DEF Lasts
  <2> QED BY <1>1, <2>1 DEF Extracted
<1>5. T!Written(a, e, n + 1) = IF Len(T!Written(a, e, n)) < a.takes[e]
                               THEN Append(T!Written(a, e, n), W[n + 1]) ELSE T!Written(a, e, n)
  BY <1>2, WrittenGrows
<1>6. g[name(e)] = T!Written(a, e, n + 1)
  <2> HIDE DEF W, name
  <2>1. CASE Len(f[name(e)]) < a.takes[e]
    <3>1. g[name(e)] = Append(f[name(e)], W[n + 1])
      BY <1>3, <2>1 DEF name, W
    <3> QED BY <1>4, <1>5, <2>1, <3>1
  <2>2. CASE ~(Len(f[name(e)]) < a.takes[e])
    <3>1. g = f
      BY <2>2 DEF name
    <3> QED BY <1>4, <1>5, <2>2, <3>1
  <2> QED BY <2>1, <2>2
<1>7. ASSUME NEW d \in 1 .. e, IsFile(a, d), Lasts(a, d, e)
      PROVE  g[name(d)] = T!Written(a, d, IF d = e THEN n + 1 ELSE T!EndOf(a, d))
  <2>1. CASE d = e
    BY <1>6, <2>1
  <2>2. CASE d # e
    <3>1. name(d) # name(e)
      BY <1>1, <1>7, <2>2 DEF Lasts
    <3>2. name(d) \in DOMAIN f
      BY <1>7 DEF Extracted
    <3>3. g[name(d)] = f[name(d)]
      BY <1>3, <3>1, <3>2
    <3>4. f[name(d)] = T!Written(a, d, IF d = e THEN n ELSE T!EndOf(a, d))
      BY <1>7 DEF Extracted
    <3> QED BY <2>2, <3>3, <3>4
  <2> QED BY <2>1, <2>2
<1>8. /\ \A d \in 1 .. e : name(d) # "unsafe"
      /\ DOMAIN g = {name(d) : d \in {c \in 1 .. e : IsFile(a, c)}}
  BY <1>3 DEF Extracted
<1> QED BY <1>7, <1>8 DEF Extracted

-----------------------------------------------------------------------------
(***************************************************************************)
(* Where the parser is after n cells of the archive: in the header of an   *)
(* entry, in its blocks of data, or in the zeros at the end.               *)
(***************************************************************************)
InHeader(a, s, n, e) ==
    /\ s.hdr \in Seq(Cells) /\ Len(s.hdr) < kBlock /\ n = T!EndOf(a, e - 1) + Len(s.hdr)
    /\ Len(s.hdr) > 0 => s.hdr[1] = T!Cell("header", e, 1)
    /\ s.inData = FALSE /\ s.ended = FALSE /\ s.sawEnd = FALSE
    /\ s.pendingLong = FALSE /\ s.collecting = FALSE
    /\ s.open = T!NoName /\ s.longName = LongBefore(a, e)
    /\ Extracted(a, s.files, e - 1, T!EndOf(a, e - 1))

InBlocks(a, s, n, e) ==
    /\ s.left \in Nat /\ n \in Nat /\ s.left > 0 /\ n + s.left = T!EndOf(a, e)
    /\ s.left <= T!Rounded(a.entries[e].size) /\ a.entries[e].size > 0
    /\ s.hdr = <<>> /\ s.inData = TRUE /\ s.ended = FALSE /\ s.sawEnd = FALSE
    /\ s.pendingLong = IsLong(a, e) /\ s.collecting = IsLong(a, e)
    /\ s.open = IF IsFile(a, e) THEN T!NameOf(a, e) ELSE T!NoName
    /\ IsLong(a, e) /\ s.left < T!Rounded(a.entries[e].size) => s.longBuf = a.entries[e].text
    /\ Extracted(a, s.files, e, n)

InZeros(a, s, n) ==
    /\ s.hdr \in Seq(Cells) /\ Len(s.hdr) < kBlock /\ s.inData = FALSE
    /\ Len(s.hdr) > 0 => s.hdr[1] = T!Cell("zero", 0, 0)
    /\ \/ s.ended = FALSE /\ s.sawEnd = FALSE /\ n = T!EndOf(a, Len(a.entries)) + Len(s.hdr)
       \/ s.ended = FALSE /\ s.sawEnd = TRUE
          /\ n = T!EndOf(a, Len(a.entries)) + kBlock + Len(s.hdr)
       \/ s.ended = TRUE /\ n >= T!EndOf(a, Len(a.entries)) + 2 * kBlock /\ s.hdr = <<>>
    /\ Extracted(a, s.files, Len(a.entries), T!EndOf(a, Len(a.entries)))

Reach(a, s, n) ==
    /\ DOMAIN s = Fields
    /\ \/ s.ok = FALSE
       \/ /\ s.ok = TRUE
          /\ \/ \E e \in 1 .. Len(a.entries) : InHeader(a, s, n, e) \/ InBlocks(a, s, n, e)
             \/ InZeros(a, s, n)

LEMMA CellFields ==
    \A kind, e, i : T!Cell(kind, e, i).kind = kind /\ T!Cell(kind, e, i).e = e
BY DEF T!Cell

\* Before the header of an entry, or behind the last entry.
LEMMA EntryEnds ==
    ASSUME NEW a \in Archives, NEW e \in 0 .. Len(a.entries), NEW s, DOMAIN s = Fields,
           s.ok = TRUE, s.hdr = <<>>, s.inData = FALSE, s.ended = FALSE, s.sawEnd = FALSE,
           s.pendingLong = FALSE, s.collecting = FALSE, s.open = T!NoName,
           s.longName = LongBefore(a, e + 1),
           Extracted(a, s.files, e, T!EndOf(a, e))
    PROVE  Reach(a, s, T!EndOf(a, e))
<1>1. /\ Len(a.entries) \in Nat /\ kBlock > 0 /\ kBlock \in Nat /\ T!EndOf(a, e) \in Nat
      /\ (e + 1) - 1 = e /\ (e = Len(a.entries) \/ e + 1 \in 1 .. Len(a.entries))
  BY ArchiveTypes, Ends
<1>2. s.hdr \in Seq(Cells) /\ Len(s.hdr) = 0 /\ ~(Len(s.hdr) > 0)
  OBVIOUS
<1>3. T!EndOf(a, e) = T!EndOf(a, e) + Len(s.hdr)
  BY <1>1, <1>2
<1>4. CASE e = Len(a.entries)
  <2>1. InZeros(a, s, T!EndOf(a, e))
    BY <1>1, <1>2, <1>3, <1>4 DEF InZeros
  <2> QED BY <2>1 DEF Reach
<1>5. CASE e + 1 \in 1 .. Len(a.entries)
  <2>1. InHeader(a, s, T!EndOf(a, e), e + 1)
    BY <1>1, <1>2, <1>3 DEF InHeader
  <2> QED BY <1>5, <2>1 DEF Reach
<1> QED BY <1>1, <1>4, <1>5

\* A block is complete: the header of an entry.
LEMMA HeaderReaches ==
    ASSUME NEW a \in Archives, NEW e \in 1 .. Len(a.entries), NEW s, DOMAIN s = Fields,
           s.ok = TRUE, s.ended = FALSE, s.inData = FALSE,
           s.pendingLong = FALSE, s.collecting = FALSE, s.open = T!NoName,
           s.longName = LongBefore(a, e),
           Extracted(a, s.files, e - 1, T!EndOf(a, e - 1)),
           NEW n, n = T!EndOf(a, e - 1) + kBlock
    PROVE  Reach(a, T!HeaderBlock(s, a.entries[e]), n)
<1> DEFINE entry == a.entries[e]
           t == [s EXCEPT !.hdr = <<>>, !.sawEnd = FALSE,
                          !.collecting = @ \/ entry.type = "long",
                          !.pendingLong = @ \/ entry.type = "long"]
           path == IF t.longName = T!NoName THEN entry.name ELSE t.longName
           b == T!Begin(t, entry)
           result == T!HeaderBlock(s, entry)
           rounded == T!Rounded(entry.size)
<1>1. /\ DOMAIN t = Fields /\ t.hdr = <<>> /\ t.sawEnd = FALSE /\ t.ended = FALSE /\ t.ok = TRUE
      /\ t.inData = FALSE /\ t.longName = LongBefore(a, e) /\ t.open = T!NoName
      /\ t.files = s.files
      /\ t.collecting = IsLong(a, e) /\ t.pendingLong = IsLong(a, e)
  BY DEF Fields, IsLong
<1>2. result = CASE ~b.ok -> b
                 [] b.ok /\ entry.size > 0 -> [b EXCEPT !.inData = TRUE, !.left = rounded]
                 [] OTHER -> T!End(b)
  BY Zenon DEF T!HeaderBlock
<1>3. /\ entry.size \in Nat /\ rounded \in Nat /\ kBlock \in Nat
      /\ T!EndOf(a, e - 1) \in Nat /\ T!EndOf(a, e) = T!EndOf(a, e - 1) + kBlock + rounded
      /\ (entry.size > 0 => rounded > 0) /\ (entry.size = 0 => rounded = 0)
      /\ (e + 1) - 1 = e /\ e \in 0 .. Len(a.entries) /\ e + 1 > 1
  <2>1. e - 1 \in 0 .. Len(a.entries)
    BY ArchiveTypes
  <2>2. /\ entry.size \in Nat /\ rounded \in Nat /\ kBlock \in Nat /\ e \in Nat
        /\ e \in 0 .. Len(a.entries)
    BY ArchiveTypes
  <2>3. /\ T!EndOf(a, e - 1) \in Nat
        /\ T!EndOf(a, e) = T!EndOf(a, e - 1) + kBlock + rounded
    BY <2>1, Ends
  <2>4. (entry.size > 0 => rounded > 0) /\ (entry.size = 0 => rounded = 0)
    <3> HIDE DEF entry
    <3> QED BY <2>2, RoundedSize
  <2>5. (e + 1) - 1 = e /\ e + 1 > 1
    OBVIOUS
  <2> QED BY <2>2, <2>3, <2>4, <2>5
<1> HIDE DEF t
<1>4. path = T!NameOf(a, e)
  BY <1>1, NamesAreSet
<1>11. b = T!Begin(t, entry) /\ path = IF t.longName = T!NoName THEN entry.name ELSE t.longName
  OBVIOUS
<1> HIDE DEF path, entry, b
<1>5. /\ DOMAIN b = Fields
      /\ path = "unsafe" => b.ok = FALSE
      /\ path # "unsafe" =>
            /\ b.hdr = t.hdr /\ b.left = t.left /\ b.sawEnd = t.sawEnd /\ b.ended = t.ended
            /\ b.ok = t.ok /\ b.inData = t.inData /\ b.pendingLong = t.pendingLong
            /\ b.collecting = t.collecting /\ b.longName = t.longName
            /\ b.open = IF entry.type = "file" THEN path ELSE t.open
            /\ b.longBuf = IF entry.type = "long" THEN T!NoName ELSE t.longBuf
            /\ b.files = IF entry.type = "file" THEN T!Truncated(t.files, path) ELSE t.files
  <2>1. EntryBegun(t, entry, path, b)
    BY <1>1, <1>11, BeginFields, Zenon
  <2> QED BY <2>1 DEF EntryBegun
<1> HIDE DEF result, rounded
<1>6. CASE path = "unsafe"
  <2>1. result = b
    BY <1>2, <1>5, <1>6
  <2> QED BY <1>5, <1>6, <2>1 DEF Reach, result, entry
<1>7. CASE path # "unsafe"
  <2>1. Extracted(a, b.files, e, n)
    <3>1. b.files = IF IsFile(a, e) THEN T!Truncated(s.files, T!NameOf(a, e)) ELSE s.files
      BY <1>1, <1>4, <1>5, <1>7 DEF IsFile, entry
    <3> QED BY <1>4, <1>7, <3>1, ExtractedBegins
  <2>2. CASE entry.size > 0
    <3>1. result = [b EXCEPT !.inData = TRUE, !.left = rounded]
      BY <1>1, <1>2, <1>5, <1>7, <2>2
    <3>2. /\ DOMAIN result = Fields /\ result.inData = TRUE /\ result.left = rounded
          /\ result.ok = TRUE /\ result.hdr = <<>> /\ result.ended = FALSE /\ result.sawEnd = FALSE
          /\ result.pendingLong = IsLong(a, e) /\ result.collecting = IsLong(a, e)
          /\ result.open = b.open /\ result.files = b.files
      BY <1>1, <1>5, <1>7, <3>1 DEF Fields
    <3>3. result.open = IF IsFile(a, e) THEN T!NameOf(a, e) ELSE T!NoName
      BY <1>1, <1>4, <1>5, <1>7, <3>2 DEF IsFile, entry
    <3>4. n \in Nat /\ rounded > 0 /\ n + rounded = T!EndOf(a, e) /\ rounded <= rounded /\ ~(rounded < rounded)
      BY <1>3, <2>2
    <3>5. InBlocks(a, result, n, e)
      BY <1>3, <2>1, <2>2, <3>2, <3>3, <3>4 DEF InBlocks, rounded, entry
    <3> QED BY <3>2, <3>5 DEF Reach, result, entry
  <2>3. CASE entry.size = 0
    <3>1. result = T!End(b)
      BY <1>1, <1>2, <1>5, <1>7, <2>3
    <3>2. /\ DOMAIN result = Fields
          /\ result.hdr = b.hdr /\ result.sawEnd = b.sawEnd /\ result.ended = b.ended
          /\ result.ok = b.ok /\ result.files = b.files
          /\ result.inData = FALSE /\ result.pendingLong = FALSE /\ result.collecting = FALSE
          /\ result.open = T!NoName
          /\ result.longName = IF b.pendingLong THEN b.longBuf ELSE T!NoName
      <4>1. DOMAIN b = Fields
        BY <1>5
      <4>2. EntryEnded(b, result)
        BY <3>1, <4>1, EndFields, Zenon
      <4> QED BY <4>2 DEF EntryEnded
    <3>3. LongBefore(a, e + 1) = T!NoName
      BY <1>3, <2>3 DEF LongBefore, entry
    <3>4. result.longName = T!NoName
      BY <1>1, <1>5, <1>7, <3>2 DEF IsLong, entry
    <3>5. n = T!EndOf(a, e)
      BY <1>3, <2>3
    <3>6. /\ result.ok = TRUE /\ result.hdr = <<>> /\ result.sawEnd = FALSE /\ result.ended = FALSE
          /\ result.longName = LongBefore(a, e + 1)
          /\ Extracted(a, result.files, e, T!EndOf(a, e))
      BY <1>1, <1>5, <1>7, <2>1, <3>2, <3>3, <3>4, <3>5
    <3>7. Reach(a, result, T!EndOf(a, e))
      BY <1>3, <3>2, <3>6, EntryEnds
    <3> QED BY <3>5, <3>7 DEF result, entry
  <2> QED BY <1>3, <2>2, <2>3
<1> QED BY <1>6, <1>7

-----------------------------------------------------------------------------
(***************************************************************************)
(* One cell: wherever the parser is, it gets on by that cell.              *)
(***************************************************************************)
HeaderRead(a, t, result) ==
    result = CASE Len(t.hdr) < kBlock -> t
               [] Len(t.hdr) = kBlock /\ t.hdr[1].kind = "zero" -> T!ZeroBlock(t)
               [] OTHER -> T!HeaderBlock(t, a.entries[t.hdr[1].e])

LEMMA ReadsHeader ==
    ASSUME NEW a, NEW s, s.ok = TRUE, s.ended = FALSE, s.inData = FALSE, NEW cell
    PROVE  HeaderRead(a, [s EXCEPT !.hdr = Append(s.hdr, cell)], T!FeedCell(a, s, cell))
BY Zenon DEF HeaderRead, T!FeedCell, T!HeaderCell

LEMMA HeaderCellReaches ==
    ASSUME NEW a \in Archives, NEW e \in 1 .. Len(a.entries), NEW n \in Nat, NEW s,
           DOMAIN s = Fields, s.ok = TRUE, InHeader(a, s, n, e)
    PROVE  Reach(a, T!FeedCell(a, s, T!Stream(a)[n + 1]), n + 1)
<1> DEFINE begin == T!EndOf(a, e - 1)
           j == Len(s.hdr)
           cell == T!Stream(a)[n + 1]
           h == Append(s.hdr, cell)
           t == [s EXCEPT !.hdr = h]
           result == T!FeedCell(a, s, cell)
<1>1. /\ s.hdr \in Seq(Cells) /\ j < kBlock /\ n = begin + j
      /\ j > 0 => s.hdr[1] = T!Cell("header", e, 1)
      /\ s.inData = FALSE /\ s.ended = FALSE /\ s.sawEnd = FALSE
      /\ s.pendingLong = FALSE /\ s.collecting = FALSE
      /\ s.open = T!NoName /\ s.longName = LongBefore(a, e)
      /\ Extracted(a, s.files, e - 1, begin)
  BY DEF InHeader
<1>2. j \in Nat /\ kBlock \in Nat /\ begin \in Nat /\ e \in Nat
  <2>1. e - 1 \in 0 .. Len(a.entries)
    BY ArchiveTypes
  <2> QED BY <1>1, <2>1, Ends, ArchiveTypes
<1>3. cell = T!Cell("header", e, j + 1)
  <2>1. j + 1 \in 1 .. kBlock /\ n + 1 = begin + (j + 1)
    BY <1>1, <1>2
  <2> QED BY <2>1, StreamAt
<1>4. cell \in Cells
  <2>1. \A i \in Nat : T!Cell("header", e, i) \in Cells
    BY <1>2 DEF Cells
  <2> QED BY <1>2, <1>3, <2>1
<1> HIDE DEF cell, begin
<1>5. /\ h \in Seq(Cells) /\ Len(h) = j + 1 /\ h[j + 1] = cell
      /\ \A i \in 1 .. j : h[i] = s.hdr[i]
  BY <1>1, <1>4, AppendedTo
<1>8. HeaderRead(a, t, result)
  BY <1>1, ReadsHeader, Zenon
<1> HIDE DEF j, h
<1>6. h[1] = T!Cell("header", e, 1)
  <2>1. j = 0 \/ (j > 0 /\ 1 \in 1 .. j)
    BY <1>2
  <2> QED BY <1>1, <1>3, <1>5, <2>1
<1>7. /\ DOMAIN t = Fields /\ t.hdr = h /\ t.ok = TRUE /\ t.ended = FALSE /\ t.inData = FALSE
      /\ t.sawEnd = FALSE /\ t.pendingLong = FALSE /\ t.collecting = FALSE
      /\ t.open = T!NoName /\ t.longName = LongBefore(a, e) /\ t.files = s.files
  BY <1>1 DEF Fields
<1> HIDE DEF t, result
<1>9. result = CASE Len(t.hdr) < kBlock -> t
                 [] Len(t.hdr) = kBlock /\ t.hdr[1].kind = "zero" -> T!ZeroBlock(t)
                 [] OTHER -> T!HeaderBlock(t, a.entries[t.hdr[1].e])
  BY <1>8, Zenon DEF HeaderRead
<1>10. CASE j + 1 < kBlock
  <2>1. result = t
    BY <1>5, <1>7, <1>9, <1>10
  <2>2. Len(t.hdr) < kBlock /\ n + 1 = begin + Len(t.hdr)
    BY <1>1, <1>2, <1>5, <1>7, <1>10
  <2>3. InHeader(a, t, n + 1, e)
    BY <1>1, <1>5, <1>6, <1>7, <2>2 DEF InHeader, begin
  <2> QED BY <1>7, <2>1, <2>3 DEF Reach, result, cell
<1>11. CASE j + 1 = kBlock
  <2>1. t.hdr[1].kind = "header" /\ t.hdr[1].e = e /\ Len(t.hdr) = kBlock /\ ~(kBlock < kBlock)
    BY <1>2, <1>5, <1>6, <1>7, <1>11, CellFields
  <2>2. result = T!HeaderBlock(t, a.entries[e])
    BY <1>9, <2>1
  <2>3. n + 1 = begin + kBlock
    BY <1>1, <1>2, <1>11
  <2>4. Reach(a, T!HeaderBlock(t, a.entries[e]), n + 1)
    BY <1>1, <1>7, <2>3, HeaderReaches DEF begin
  <2> QED BY <2>2, <2>4 DEF result, cell
<1> QED BY <1>1, <1>2, <1>10, <1>11

LEMMA ZeroCellReaches ==
    ASSUME NEW a \in Archives, NEW n \in Nat, n < Len(T!Stream(a)), NEW s,
           DOMAIN s = Fields, s.ok = TRUE, InZeros(a, s, n)
    PROVE  Reach(a, T!FeedCell(a, s, T!Stream(a)[n + 1]), n + 1)
<1> DEFINE m == Len(a.entries)
           last == T!EndOf(a, m)
           j == Len(s.hdr)
           cell == T!Stream(a)[n + 1]
           h == Append(s.hdr, cell)
           t == [s EXCEPT !.hdr = h]
           result == T!FeedCell(a, s, cell)
<1>1. /\ s.hdr \in Seq(Cells) /\ j < kBlock /\ s.inData = FALSE
      /\ j > 0 => s.hdr[1] = T!Cell("zero", 0, 0)
      /\ \/ s.ended = FALSE /\ s.sawEnd = FALSE /\ n = last + j
         \/ s.ended = FALSE /\ s.sawEnd = TRUE /\ n = last + kBlock + j
         \/ s.ended = TRUE /\ n >= last + 2 * kBlock /\ s.hdr = <<>>
      /\ Extracted(a, s.files, m, last)
  BY DEF InZeros
<1>2. j \in Nat /\ kBlock \in Nat /\ kBlock > 0 /\ last \in Nat /\ m \in Nat
  <2>1. m \in 0 .. m
    BY ArchiveTypes
  <2> QED BY <1>1, <2>1, Ends, ArchiveTypes
<1>3. n >= last
  BY <1>1, <1>2
<1>4. cell = T!Cell("zero", 0, 0)
  <2>1. Len(T!Stream(a)) = last + a.zeros * kBlock /\ a.zeros * kBlock \in Nat
        /\ \A i \in 1 .. a.zeros * kBlock : T!Stream(a)[last + i] = T!Cell("zero", 0, 0)
    BY StreamParts
  <2> DEFINE z == a.zeros * kBlock
             i == n + 1 - last
  <2>2. z \in Nat /\ n < last + z /\ \A k \in 1 .. z : T!Stream(a)[last + k] = T!Cell("zero", 0, 0)
    BY <2>1
  <2> HIDE DEF z
  <2>3. i \in 1 .. z /\ n + 1 = last + i
    BY <1>2, <1>3, <2>2
  <2> HIDE DEF i
  <2> QED BY <2>2, <2>3
<1>5. cell \in Cells
  <2>1. \A k, i \in Nat : T!Cell("zero", k, i) \in Cells
    BY DEF Cells
  <2> QED BY <1>4, <2>1
<1> HIDE DEF cell, last, m
<1>6. CASE s.ended = TRUE
  <2>1. result = s
    BY <1>6 DEF T!FeedCell
  <2>2. n + 1 >= last + 2 * kBlock
    <3>1. n >= last + 2 * kBlock
      BY <1>1, <1>6, Zenon
    <3> QED BY <1>2, <3>1
  <2>3. InZeros(a, s, n + 1)
    BY <1>1, <1>2, <1>6, <2>2 DEF InZeros, last, m
  <2> QED BY <2>1, <2>3 DEF Reach, cell
<1>7. CASE s.ended = FALSE
  <2>1. /\ h \in Seq(Cells) /\ Len(h) = j + 1 /\ h[j + 1] = cell
        /\ \A i \in 1 .. j : h[i] = s.hdr[i]
    BY <1>1, <1>5, AppendedTo
  <2>4. HeaderRead(a, t, result)
    BY <1>1, <1>7, ReadsHeader, Zenon
  <2> HIDE DEF j, h
  <2>2. h[1] = T!Cell("zero", 0, 0)
    <3>1. j = 0 \/ (j > 0 /\ 1 \in 1 .. j)
      BY <1>2
    <3> QED BY <1>1, <1>4, <2>1, <3>1
  <2>3. /\ DOMAIN t = Fields /\ t.hdr = h /\ t.ok = TRUE /\ t.ended = FALSE /\ t.inData = FALSE
        /\ t.sawEnd = s.sawEnd /\ t.files = s.files
    BY <1>1, <1>7 DEF Fields
  <2> HIDE DEF t, result
  <2>5. result = CASE Len(t.hdr) < kBlock -> t
                   [] Len(t.hdr) = kBlock /\ t.hdr[1].kind = "zero" -> T!ZeroBlock(t)
                   [] OTHER -> T!HeaderBlock(t, a.entries[t.hdr[1].e])
    BY <2>4, Zenon DEF HeaderRead
  <2>6. CASE j + 1 < kBlock
    <3>1. result = t
      BY <2>1, <2>3, <2>5, <2>6
    <3>2. Len(t.hdr) < kBlock
          /\ (s.sawEnd = FALSE => (n = last + j => n + 1 = last + Len(t.hdr)))
          /\ (n = last + kBlock + j => n + 1 = last + kBlock + Len(t.hdr))
      BY <1>2, <2>1, <2>3, <2>6
    <3>3. InZeros(a, t, n + 1)
      BY <1>1, <1>7, <2>1, <2>2, <2>3, <3>2 DEF InZeros, last, m
    <3> QED BY <2>3, <3>1, <3>3 DEF Reach, result, cell
  <2>7. CASE j + 1 = kBlock
    <3> DEFINE u == T!ZeroBlock(t)
    <3>1. t.hdr[1].kind = "zero" /\ Len(t.hdr) = kBlock /\ ~(kBlock < kBlock)
      BY <1>2, <2>1, <2>2, <2>3, <2>7, CellFields
    <3>2. result = u
      BY <2>5, <3>1
    <3>3. /\ DOMAIN u = Fields /\ u.hdr = <<>> /\ u.ok = TRUE /\ u.inData = FALSE
          /\ u.sawEnd = TRUE /\ u.ended = s.sawEnd /\ u.files = s.files
      BY <2>3 DEF T!ZeroBlock, Fields
    <3> HIDE DEF u
    <3>4. u.hdr \in Seq(Cells) /\ Len(u.hdr) = 0
      BY <3>3
    <3>5. /\ n = last + j => n + 1 = last + kBlock + Len(u.hdr)
          /\ n = last + kBlock + j => n + 1 >= last + 2 * kBlock
      BY <1>2, <2>7, <3>4
    <3>6. InZeros(a, u, n + 1)
      BY <1>1, <1>2, <1>7, <3>3, <3>4, <3>5 DEF InZeros, last, m
    <3> QED BY <3>2, <3>3, <3>6 DEF Reach, result, cell
  <2> QED BY <1>1, <1>2, <2>6, <2>7
<1> QED BY <1>1, <1>6, <1>7

LEMMA DataCellReaches ==
    ASSUME NEW a \in Archives, NEW e \in 1 .. Len(a.entries), NEW n \in Nat, NEW s,
           DOMAIN s = Fields, s.ok = TRUE, InBlocks(a, s, n, e)
    PROVE  Reach(a, T!FeedCell(a, s, T!Stream(a)[n + 1]), n + 1)
<1> DEFINE size == a.entries[e].size
           rounded == T!Rounded(size)
           start == T!EndOf(a, e - 1) + kBlock
           i == rounded - s.left + 1
           cell == T!Stream(a)[n + 1]
           d == T!Data(a, s, cell)
           t == [d EXCEPT !.left = @ - 1]
           result == T!FeedCell(a, s, cell)
<1>1. /\ s.left \in Nat /\ s.left > 0 /\ n + s.left = T!EndOf(a, e)
      /\ s.left <= rounded /\ size > 0
      /\ s.hdr = <<>> /\ s.inData = TRUE /\ s.ended = FALSE /\ s.sawEnd = FALSE
      /\ s.pendingLong = IsLong(a, e) /\ s.collecting = IsLong(a, e)
      /\ s.open = IF IsFile(a, e) THEN T!NameOf(a, e) ELSE T!NoName
      /\ IsLong(a, e) /\ s.left < rounded => s.longBuf = a.entries[e].text
      /\ Extracted(a, s.files, e, n)
  BY DEF InBlocks
<1>2. /\ kBlock \in Nat /\ start \in Nat /\ e \in Nat /\ e \in 0 .. Len(a.entries)
      /\ size \in Nat /\ rounded \in Nat /\ T!EndOf(a, e) = start + rounded
      /\ T!EndOf(a, e) \in Nat /\ (e + 1) - 1 = e /\ e + 1 > 1
  <2>1. e - 1 \in 0 .. Len(a.entries) /\ e \in 0 .. Len(a.entries) /\ e \in Nat
    BY ArchiveTypes
  <2>2. T!EndOf(a, e - 1) \in Nat /\ T!EndOf(a, e) \in Nat
        /\ T!EndOf(a, e) = T!EndOf(a, e - 1) + kBlock + rounded
    BY <2>1, Ends
  <2>3. size \in Nat /\ rounded \in Nat /\ kBlock \in Nat
    BY ArchiveTypes
  <2> HIDE DEF rounded, size
  <2> QED BY <2>1, <2>2, <2>3
<1>3. /\ i \in 1 .. rounded /\ n + 1 = start + i /\ start <= n /\ n < T!EndOf(a, e)
      /\ (s.left < rounded \/ i <= size)
  <2> DEFINE left == s.left
  <2> HIDE DEF rounded, size, start
  <2>1. /\ left \in Nat /\ left > 0 /\ n + left = start + rounded /\ left <= rounded /\ size > 0
        /\ start \in Nat /\ rounded \in Nat /\ size \in Nat
    BY <1>1, <1>2
  <2>2. T!EndOf(a, e) = start + rounded /\ i = rounded - left + 1
    BY <1>2
  <2> HIDE DEF left, i
  <2>3. i \in 1 .. rounded /\ n + 1 = start + i /\ start <= n
    BY <2>1, <2>2
  <2>4. n < T!EndOf(a, e)
    BY <2>1, <2>2
  <2>5. left < rounded \/ i <= size
    BY <2>1, <2>2
  <2> QED BY <2>3, <2>4, <2>5 DEF left
<1>4. cell = T!Cell(IF i <= size THEN "data" ELSE "padding", e, i)
  BY <1>3, StreamAt
<1>5. cell.e = e /\ (i <= size => cell.kind = "data")
  <2> HIDE DEF i, size
  <2> QED BY <1>4, CellFields
<1> HIDE DEF size, rounded, start, i
<1>6. d.left = s.left /\ CellTaken(a, s, cell, d)
  <2>1. CellTaken(a, s, cell, d)
    BY DataFields
  <2> QED BY <2>1 DEF CellTaken
<1>7. result = IF t.left = 0 THEN T!End(t) ELSE t
  BY <1>1 DEF T!FeedCell, T!DataCell
<1> HIDE DEF d, result
<1>8. /\ DOMAIN t = Fields /\ t.left = s.left - 1
      /\ t.hdr = <<>> /\ t.sawEnd = FALSE /\ t.ended = FALSE /\ t.ok = TRUE /\ t.inData = TRUE
      /\ t.pendingLong = d.pendingLong /\ t.collecting = d.collecting
      /\ t.open = s.open /\ t.longBuf = d.longBuf /\ t.files = d.files
  BY <1>1, <1>6 DEF CellTaken, Fields
<1>9. t.pendingLong = IsLong(a, e) /\ t.collecting = IsLong(a, e)
  BY <1>1, <1>6, <1>8, Zenon DEF CellTaken
<1>10. IsLong(a, e) => t.longBuf = a.entries[e].text
  <2>1. SUFFICES ASSUME IsLong(a, e) PROVE d.longBuf = a.entries[e].text
    BY <1>8
  <2>2. d.longBuf = IF s.collecting /\ cell.kind = "data"
                    THEN a.entries[cell.e].text ELSE s.longBuf
    BY <1>6 DEF CellTaken
  <2> QED BY <1>1, <1>3, <1>5, <2>1, <2>2
<1>11. Extracted(a, t.files, e, n + 1)
  <2>1. d.files = IF ~s.collecting /\ T!Taken(a, s, cell)
                  THEN [s.files EXCEPT ![s.open] = Append(@, cell)] ELSE s.files
    BY <1>6 DEF CellTaken
  <2>2. CASE IsFile(a, e)
    <3>1. s.open = T!NameOf(a, e) /\ s.open # T!NoName
      BY <1>1, <2>2, NamesAreSet
    <3>2. ~s.collecting
      BY <1>1, <2>2 DEF IsFile, IsLong
    <3>3. T!Taken(a, s, cell) <=> Len(s.files[T!NameOf(a, e)]) < a.takes[e]
      BY <1>5, <3>1 DEF T!Taken
    <3>4. t.files = IF Len(s.files[T!NameOf(a, e)]) < a.takes[e]
                    THEN [s.files EXCEPT ![T!NameOf(a, e)] = Append(@, T!Stream(a)[n + 1])]
                    ELSE s.files
      BY <1>8, <2>1, <3>1, <3>2, <3>3
    <3> QED BY <1>1, <1>3, <2>2, <3>4, ExtractedGrows DEF start
  <2>3. CASE ~IsFile(a, e)
    <3>1. t.files = s.files
      BY <1>1, <1>8, <2>1, <2>3 DEF T!Taken
    <3> QED BY <1>1, <2>3, <3>1, ExtractedTo
  <2> QED BY <2>2, <2>3
<1> HIDE DEF t
<1>12. CASE s.left = 1
  <2> DEFINE u == T!End(t)
  <2>1. t.left = 0 /\ n + 1 = T!EndOf(a, e)
    BY <1>1, <1>2, <1>8, <1>12
  <2>2. result = u
    BY <1>7, <2>1
  <2>3. EntryEnded(t, u)
    BY <1>8, EndFields
  <2> HIDE DEF u
  <2>4. /\ DOMAIN u = Fields /\ u.ok = TRUE /\ u.hdr = <<>> /\ u.inData = FALSE
        /\ u.ended = FALSE /\ u.sawEnd = FALSE /\ u.pendingLong = FALSE /\ u.collecting = FALSE
        /\ u.open = T!NoName /\ u.files = t.files
        /\ u.longName = IF t.pendingLong THEN t.longBuf ELSE T!NoName
    BY <1>8, <2>3 DEF EntryEnded
  <2>5. u.longName = LongBefore(a, e + 1)
    BY <1>1, <1>2, <1>9, <1>10, <2>4 DEF LongBefore, size
  <2>6. Reach(a, u, T!EndOf(a, e))
    BY <1>2, <1>11, <2>1, <2>4, <2>5, EntryEnds
  <2> QED BY <2>1, <2>2, <2>6 DEF result, cell
<1>13. CASE s.left > 1
  <2>1. t.left # 0 /\ t.left \in Nat /\ t.left > 0 /\ n + 1 \in Nat
        /\ n + 1 + t.left = T!EndOf(a, e) /\ t.left <= rounded
    BY <1>1, <1>2, <1>8, <1>13
  <2>2. result = t
    BY <1>7, <2>1
  <2>3. InBlocks(a, t, n + 1, e)
    BY <1>1, <1>8, <1>9, <1>10, <1>11, <2>1 DEF InBlocks, rounded, size
  <2> QED BY <1>8, <2>2, <2>3 DEF Reach, result, cell
<1> QED BY <1>1, <1>12, <1>13

LEMMA CellReaches ==
    ASSUME NEW a \in Archives, NEW n \in Nat, n < Len(T!Stream(a)), NEW s, Reach(a, s, n)
    PROVE  Reach(a, T!FeedCell(a, s, T!Stream(a)[n + 1]), n + 1)
<1>1. DOMAIN s = Fields
  BY DEF Reach
<1>2. CASE s.ok = FALSE
  <2>1. T!FeedCell(a, s, T!Stream(a)[n + 1]) = s
    BY <1>2 DEF T!FeedCell
  <2> QED BY <1>1, <1>2, <2>1 DEF Reach
<1>3. CASE s.ok = TRUE
  <2>1. CASE InZeros(a, s, n)
    BY <1>1, <1>3, <2>1, ZeroCellReaches
  <2>2. ASSUME NEW e \in 1 .. Len(a.entries), InHeader(a, s, n, e)
        PROVE  Reach(a, T!FeedCell(a, s, T!Stream(a)[n + 1]), n + 1)
    BY <1>1, <1>3, <2>2, HeaderCellReaches
  <2>3. ASSUME NEW e \in 1 .. Len(a.entries), InBlocks(a, s, n, e)
        PROVE  Reach(a, T!FeedCell(a, s, T!Stream(a)[n + 1]), n + 1)
    BY <1>1, <1>3, <2>3, DataCellReaches
  <2> QED BY <1>3, <2>1, <2>2, <2>3 DEF Reach
<1> QED BY <1>2, <1>3 DEF Reach

-----------------------------------------------------------------------------
(***************************************************************************)
(* Where the whole archive, or any beginning of it, brings the parser.     *)
(***************************************************************************)
LEMMA FeedReaches ==
    ASSUME NEW a \in Archives, NEW n \in 0 .. Len(T!Stream(a))
    PROVE  Reach(a, T!Feed(a, T!Start, SubSeq(T!Stream(a), 1, n)), n)
<1> DEFINE W == T!Stream(a)
           after(i) == T!Feed(a, T!Start, SubSeq(W, 1, i))
           V == {i \in 0 .. Len(W) : Reach(a, after(i), i)}
<1>1. W \in Seq(Cells)
  BY StreamIsCells
<1>2. Len(W) \in Nat /\ 0 \in 0 .. Len(W)
  <2> HIDE DEF W
  <2> QED BY <1>1
<1>3. 0 \in V
  <2> DEFINE s == T!Start
  <2>1. SubSeq(W, 1, 0) = <<>>
    <3> HIDE DEF W
    <3> QED OBVIOUS
  <2>2. after(0) = s
    BY <2>1, FeedEmpty
  <2>3. /\ DOMAIN s = Fields /\ s.ok = TRUE /\ s.hdr = <<>> /\ s.inData = FALSE
        /\ s.ended = FALSE /\ s.sawEnd = FALSE /\ s.pendingLong = FALSE /\ s.collecting = FALSE
        /\ s.open = T!NoName /\ s.longName = T!NoName /\ s.files = <<>>
    BY DEF T!Start, Fields
  <2> HIDE DEF s
  <2>4. LongBefore(a, 0 + 1) = T!NoName
    BY DEF LongBefore
  <2>5. 0 \in 0 .. Len(a.entries) /\ T!EndOf(a, 0) = 0
    BY ArchiveTypes, Ends
  <2>6. Extracted(a, s.files, 0, T!EndOf(a, 0))
    <3>1. DOMAIN <<>> = {} /\ 1 .. 0 = {}
      OBVIOUS
    <3> QED BY <2>3, <3>1 DEF Extracted
  <2>7. Reach(a, s, T!EndOf(a, 0))
    BY <2>3, <2>4, <2>5, <2>6, EntryEnds
  <2> HIDE DEF after
  <2> QED BY <1>2, <2>2, <2>5, <2>7
<1>4. ASSUME NEW i \in 0 .. Len(W) - 1, i \in V PROVE i + 1 \in V
  <2> DEFINE front == SubSeq(W, 1, i)
             c == W[i + 1]
  <2> HIDE DEF W
  <2>1. i \in Nat /\ i < Len(W) /\ i + 1 \in 0 .. Len(W) /\ i \in 0 .. Len(W) /\ c \in Cells
    BY <1>1, <1>2
  <2>2. front \in Seq(Cells) /\ SubSeq(W, 1, i + 1) = Append(front, c)
    BY <1>1, <2>1, PrefixOfSeq, PrefixGrows
  <2>3. T!Feed(a, T!Start, Append(front, c)) = T!FeedCell(a, T!Feed(a, T!Start, front), c)
    <3> HIDE DEF front, c
    <3> QED BY <2>1, <2>2, FeedGrows
  <2>4. after(i + 1) = T!FeedCell(a, after(i), T!Stream(a)[i + 1])
    BY <2>2, <2>3, Zenon DEF W
  <2>5. Reach(a, after(i), i) /\ i < Len(T!Stream(a))
    BY <1>4, <2>1 DEF W
  <2> HIDE DEF after
  <2>6. Reach(a, after(i + 1), i + 1)
    BY <2>1, <2>4, <2>5, CellReaches
  <2> QED BY <2>1, <2>6
<1> HIDE DEF V
<1>5. n \in V
  <2> HIDE DEF W
  <2>1. n \in 0 .. Len(W)
    BY DEF W
  <2> QED BY <1>2, <1>3, <1>4, <2>1, UpToInduction
<1> QED BY <1>5 DEF V

\* The entries come one after the other.
LEMMA EndsAreOrdered ==
    ASSUME NEW a \in Archives, NEW d \in 0 .. Len(a.entries), NEW k \in 0 .. Len(a.entries)
    PROVE  T!EndOf(a, d) <= T!EndOf(a, k) <=> d <= k
<1> DEFINE m == Len(a.entries)
           V == {i \in 0 .. m : \A j \in 0 .. m : j < i => T!EndOf(a, j) < T!EndOf(a, i)}
<1>1. m \in Nat /\ kBlock \in Nat /\ kBlock > 0 /\ \A i \in 0 .. m : T!EndOf(a, i) \in Nat
  BY ArchiveTypes, Ends
<1>2. 0 \in V
  BY <1>1
<1>3. ASSUME NEW i \in 0 .. m - 1, i \in V PROVE i + 1 \in V
  <2>1. i \in 0 .. m /\ i + 1 \in 0 .. m /\ i + 1 \in 1 .. m /\ (i + 1) - 1 = i /\ i \in Nat
    BY <1>1
  <2>2. T!EndOf(a, i + 1) = T!EndOf(a, i) + kBlock + T!Rounded(a.entries[i + 1].size)
    BY <2>1, Ends
  <2>3. T!Rounded(a.entries[i + 1].size) \in Nat
    BY <2>1, ArchiveTypes
  <2>4. T!EndOf(a, i) < T!EndOf(a, i + 1)
    BY <1>1, <2>1, <2>2, <2>3
  <2>5. ASSUME NEW j \in 0 .. m, j < i + 1 PROVE T!EndOf(a, j) < T!EndOf(a, i + 1)
    <3>1. j = i \/ j < i
      BY <2>1, <2>5
    <3>2. j < i => T!EndOf(a, j) < T!EndOf(a, i)
      BY <1>3
    <3> HIDE DEF m
    <3> QED BY <1>1, <2>1, <2>4, <3>1, <3>2
  <2> QED BY <2>1, <2>5
<1> HIDE DEF V, m
<1>4. \A i \in 0 .. m : i \in V
  BY <1>1, <1>2, <1>3, UpToInduction
<1>5. d \in 0 .. m /\ k \in 0 .. m
  BY DEF m
<1>6. d < k => T!EndOf(a, d) < T!EndOf(a, k)
  BY <1>4, <1>5 DEF V
<1>7. k < d => T!EndOf(a, k) < T!EndOf(a, d)
  BY <1>4, <1>5 DEF V
<1>8. T!EndOf(a, d) \in Nat /\ T!EndOf(a, k) \in Nat /\ d \in Nat /\ k \in Nat
  BY <1>1, <1>5
<1>9. CASE d < k
  BY <1>6, <1>8, <1>9
<1>10. CASE k < d
  BY <1>7, <1>8, <1>10
<1>11. CASE d = k
  BY <1>8, <1>11
<1> QED BY <1>8, <1>9, <1>10, <1>11

LEMMA WholeEntries ==
    ASSUME archive \in Archives, cut \in Nat, NEW k \in 0 .. Len(archive.entries),
           k < Len(archive.entries) => cut < T!EndOf(archive, k + 1),
           cut >= T!EndOf(archive, k)
    PROVE  T!Whole = 1 .. k
<1> DEFINE m == Len(archive.entries)
<1>1. m \in Nat /\ k \in 0 .. m /\ k \in Nat
  BY ArchiveTypes
<1>2. \A d \in 0 .. m : T!EndOf(archive, d) \in Nat
  BY Ends
<1>3. ASSUME NEW d \in 1 .. m PROVE T!EndOf(archive, d) <= cut <=> d <= k
  <2>1. d \in 0 .. m /\ d \in Nat
    BY <1>1
  <2>2. CASE d <= k
    <3>1. T!EndOf(archive, d) <= T!EndOf(archive, k)
      BY <2>1, <2>2, EndsAreOrdered
    <3> HIDE DEF m
    <3> QED BY <1>1, <1>2, <2>1, <2>2, <3>1
  <2>3. CASE k < d
    <3>1. k + 1 \in 0 .. m /\ k < m /\ k + 1 <= d
      BY <1>1, <2>1, <2>3
    <3>2. T!EndOf(archive, k + 1) <= T!EndOf(archive, d) /\ cut < T!EndOf(archive, k + 1)
      BY <2>1, <3>1, EndsAreOrdered
    <3> HIDE DEF m
    <3> QED BY <1>1, <1>2, <2>1, <2>3, <3>1, <3>2
  <2> QED BY <1>1, <2>1, <2>2, <2>3
<1> HIDE DEF m
<1>4. \A d \in 1 .. k : d \in 1 .. m /\ d <= k
  BY <1>1
<1>5. \A d \in 1 .. m : d <= k => d \in 1 .. k
  BY <1>1
<1>6. T!Whole = {d \in 1 .. m : T!EndOf(archive, d) <= cut}
  BY DEF T!Whole, m
<1> QED BY <1>3, <1>4, <1>5, <1>6

\* What is extracted is what the whole entries say.
LEMMA WholeIsExtracted ==
    ASSUME archive \in Archives, NEW k \in 0 .. Len(archive.entries), T!Whole = 1 .. k,
           Extracted(archive, tar.files, k, T!EndOf(archive, k))
    PROVE  /\ \A e \in T!Whole : T!NameOf(archive, e) # "unsafe"
           /\ DOMAIN tar.files = {T!NameOf(archive, e) : e \in {d \in T!Whole : archive.entries[d].type = "file"}}
           /\ \A name \in DOMAIN tar.files : \A e \in T!Owner(name) :
                 tar.files[name] = T!Written(archive, e, T!EndOf(archive, e))
<1>1. \A e \in T!Whole : T!NameOf(archive, e) # "unsafe"
  BY DEF Extracted
<1>2. DOMAIN tar.files = {T!NameOf(archive, e) : e \in {d \in T!Whole : archive.entries[d].type = "file"}}
  BY DEF Extracted, IsFile
<1>3. ASSUME NEW name \in DOMAIN tar.files, NEW e \in T!Owner(name)
      PROVE  tar.files[name] = T!Written(archive, e, T!EndOf(archive, e))
  <2>1. /\ e \in 1 .. k /\ IsFile(archive, e) /\ T!NameOf(archive, e) = name
        /\ \A d \in 1 .. k : d > e => T!NameOf(archive, d) # name \/ ~IsFile(archive, d)
    BY DEF T!Owner, IsFile
  <2>2. \A c \in e + 1 .. k : c \in 1 .. k /\ c > e
    BY <2>1, SMT
  <2>3. Lasts(archive, e, k)
    BY <2>1, <2>2 DEF Lasts
  <2>4. tar.files[T!NameOf(archive, e)]
            = T!Written(archive, e, IF e = k THEN T!EndOf(archive, k) ELSE T!EndOf(archive, e))
    BY <2>1, <2>3 DEF Extracted
  <2>5. (IF e = k THEN T!EndOf(archive, k) ELSE T!EndOf(archive, e)) = T!EndOf(archive, e)
    OBVIOUS
  <2> QED BY <2>1, <2>4, <2>5
<1> QED BY <1>1, <1>2, <1>3

(***************************************************************************)
(* Two chunks are as good as one.                                          *)
(***************************************************************************)
LEMMA FeedTwice ==
    ASSUME NEW a, NEW s, NEW front \in Seq(Cells)
    PROVE  \A chunk \in Seq(Cells) :
              T!Feed(a, s, front \o chunk) = T!Feed(a, T!Feed(a, s, front), chunk)
<1> DEFINE V == {chunk \in Seq(Cells) :
                    T!Feed(a, s, front \o chunk) = T!Feed(a, T!Feed(a, s, front), chunk)}
<1>1. <<>> \in V
  <2>1. front \o <<>> = front /\ <<>> \in Seq(Cells)
    OBVIOUS
  <2> QED BY <2>1, FeedEmpty
<1>2. ASSUME NEW chunk \in Seq(Cells), NEW c \in Cells, chunk \in V
      PROVE  Append(chunk, c) \in V
  <2>1. front \o Append(chunk, c) = Append(front \o chunk, c)
    BY ConcatAppend
  <2>2. front \o chunk \in Seq(Cells) /\ Append(chunk, c) \in Seq(Cells)
    BY Concatenated, AppendedTo
  <2>3. T!Feed(a, s, Append(front \o chunk, c)) = T!FeedCell(a, T!Feed(a, s, front \o chunk), c)
    BY <2>2, FeedGrows
  <2>4. T!Feed(a, T!Feed(a, s, front), Append(chunk, c))
            = T!FeedCell(a, T!Feed(a, T!Feed(a, s, front), chunk), c)
    BY FeedGrows
  <2>5. T!Feed(a, s, front \o chunk) = T!Feed(a, T!Feed(a, s, front), chunk)
    BY <1>2
  <2> QED BY <2>1, <2>2, <2>3, <2>4, <2>5, Zenon
<1> HIDE DEF V
<1>3. \A chunk \in Seq(Cells) : chunk \in V
  BY <1>1, <1>2, SeqInduction
<1> QED BY <1>3 DEF V

(***************************************************************************)
(* However inflate cuts the archive into chunks, the parser is where one   *)
(* chunk would have brought it, for archives and blocks of every length.   *)
(***************************************************************************)
TarInv ==
    /\ archive \in Archives /\ cut \in 0 .. Len(T!Stream(archive)) /\ fed \in 0 .. cut
    /\ tar = T!Feed(archive, T!Start, SubSeq(T!Stream(archive), 1, fed))

LEMMA TarStarts == T!Init => TarInv
<1> SUFFICES ASSUME T!Init PROVE TarInv
  OBVIOUS
<1>1. /\ archive \in Archives /\ cut \in 0 .. Len(T!Stream(archive)) /\ fed = 0 /\ tar = T!Start
  BY Zenon DEF T!Init
<1>2. T!Stream(archive) \in Seq(Cells)
  BY <1>1, StreamIsCells
<1>3. cut \in Nat /\ fed \in 0 .. cut
  BY <1>1, <1>2
<1>4. SubSeq(T!Stream(archive), 1, fed) = <<>>
  <2> DEFINE W == T!Stream(archive)
  <2> HIDE DEF W
  <2>1. SubSeq(W, 1, 0) = <<>>
    OBVIOUS
  <2> QED BY <1>1, <2>1, Zenon DEF W
<1> QED BY <1>1, <1>3, <1>4, FeedEmpty, Zenon DEF TarInv

LEMMA TarStep == TarInv /\ T!Next => TarInv'
<1> SUFFICES ASSUME TarInv, T!Next PROVE TarInv'
  OBVIOUS
<1>1. CASE T!Inflate
  <2>1. PICK n \in 1 .. cut - fed :
            /\ tar' = T!Feed(archive, tar, SubSeq(T!Stream(archive), fed + 1, fed + n))
            /\ fed' = fed + n
    BY <1>1, Zenon DEF T!Inflate
  <2>2. archive' = archive /\ cut' = cut
    BY <1>1, Zenon DEF T!Inflate
  <2> DEFINE W == T!Stream(archive)
  <2>3. /\ archive \in Archives /\ cut \in 0 .. Len(W) /\ fed \in 0 .. cut
        /\ tar = T!Feed(archive, T!Start, SubSeq(W, 1, fed))
    BY Zenon DEF TarInv
  <2>4. W \in Seq(Cells)
    BY <2>3, StreamIsCells
  <2> DEFINE b == fed + n
             front == SubSeq(W, 1, fed)
             chunk == SubSeq(W, fed + 1, b)
  <2>5. /\ fed \in Nat /\ b \in Nat /\ fed <= b /\ b <= Len(W) /\ fed \in 0 .. Len(W)
        /\ b \in 0 .. cut
    <3> HIDE DEF W
    <3>1. fed \in 0 .. cut /\ cut \in 0 .. Len(W)
      BY <2>3
    <3>2. Len(W) \in Nat
      BY <2>4
    <3> QED BY <3>1, <3>2
  <2>6. front \in Seq(Cells) /\ chunk \in Seq(Cells) /\ SubSeq(W, 1, b) = front \o chunk
    <3> HIDE DEF W, b
    <3> QED BY <2>4, <2>5, PrefixOfSeq, PartOfSeq, PrefixAndNext
  <2>7. T!Feed(archive, T!Start, front \o chunk)
            = T!Feed(archive, T!Feed(archive, T!Start, front), chunk)
    <3> HIDE DEF front, chunk
    <3> QED BY <2>6, FeedTwice
  <2>8. tar' = T!Feed(archive, T!Start, SubSeq(W, 1, b))
    BY <2>1, <2>3, <2>6, <2>7, Zenon
  <2>9. fed' = b
    BY <2>1
  <2> HIDE DEF b
  <2>10. /\ archive' \in Archives /\ cut' \in 0 .. Len(T!Stream(archive')) /\ fed' \in 0 .. cut'
         /\ tar' = T!Feed(archive', T!Start, SubSeq(T!Stream(archive'), 1, fed'))
    BY <2>2, <2>3, <2>5, <2>8, <2>9, Zenon
  <2> QED BY <2>10, Zenon DEF TarInv
<1>2. CASE T!InflateError \/ T!Return
  <2>1. UNCHANGED <<archive, cut, fed, tar>>
    BY <1>2, Zenon DEF T!InflateError, T!Return
  <2> QED BY <2>1, Zenon DEF TarInv
<1> QED BY <1>1, <1>2 DEF T!Next

THEOREM AnyChunksAreAsGood == T!Init /\ [][T!Next]_(T!tarVars) => []BordersDoNotMatter
<1>1. TarInv /\ UNCHANGED T!tarVars => TarInv'
  BY Zenon DEF TarInv, T!tarVars
<1>2. TarInv => BordersDoNotMatter
  BY Zenon DEF TarInv, BordersDoNotMatter, T!BordersDoNotMatter
<1> QED BY <1>1, <1>2, TarStarts, TarStep, PTL

-----------------------------------------------------------------------------
(***************************************************************************)
(* An extraction that succeeds, of any archive and in any chunks, has had  *)
(* whole entries and leaves what the last entry of each name holds, as far *)
(* as the disk took it.                                                    *)
(***************************************************************************)
TarDone ==
    /\ TarInv
    /\ tarResult = "ok" => tar.ok /\ ~tar.inData /\ tar.hdr = <<>> /\ fed = cut

LEMMA DoneIsWhole == ASSUME TarDone, tarResult = "ok" PROVE SameForAnyChunks
<1> DEFINE a == archive
           m == Len(a.entries)
           last == T!EndOf(a, m)
<1>1. a \in Archives /\ cut \in 0 .. Len(T!Stream(a)) /\ tar = T!Feed(a, T!Start, SubSeq(T!Stream(a), 1, cut))
  BY Zenon DEF TarDone, TarInv
<1>2. tar.ok /\ ~tar.inData /\ tar.hdr = <<>>
  BY Zenon DEF TarDone
<1>3. cut \in Nat
  <2> DEFINE W == T!Stream(a)
  <2>1. W \in Seq(Cells) /\ cut \in 0 .. Len(W)
    BY <1>1, StreamIsCells
  <2> HIDE DEF W
  <2> QED BY <2>1
<1>4. Reach(a, tar, cut)
  BY <1>1, FeedReaches, Zenon
<1>5. m \in Nat /\ m \in 0 .. m /\ last \in Nat /\ kBlock \in Nat /\ kBlock > 0
  BY <1>1, ArchiveTypes, Ends
<1>6. ASSUME NEW k \in 0 .. m, T!Whole = 1 .. k, Extracted(a, tar.files, k, T!EndOf(a, k)),
             \/ cut \in {0} \cup {T!EndOf(a, e) : e \in T!Whole}
             \/ /\ T!Whole = 1 .. Len(a.entries)
                /\ cut - last >= 2 * kBlock \/ cut - last \in {0, kBlock}
      PROVE  SameForAnyChunks
  <2>1. /\ \A e \in T!Whole : T!NameOf(archive, e) # "unsafe"
        /\ DOMAIN tar.files = {T!NameOf(archive, e) : e \in {d \in T!Whole : archive.entries[d].type = "file"}}
        /\ \A name \in DOMAIN tar.files : \A e \in T!Owner(name) :
              tar.files[name] = T!Written(archive, e, T!EndOf(archive, e))
    BY <1>1, <1>6, WholeIsExtracted
  <2> QED BY <1>6, <2>1, Zenon DEF SameForAnyChunks, T!SameForAnyChunks
<1>7. ASSUME NEW e \in 1 .. m, InHeader(a, tar, cut, e) PROVE SameForAnyChunks
  <2> DEFINE k == e - 1
  <2>1. k \in 0 .. m /\ k < m /\ k + 1 = e /\ e \in 0 .. m /\ k \in Nat
    BY <1>5
  <2>2. cut = T!EndOf(a, k) + Len(tar.hdr) /\ Extracted(a, tar.files, k, T!EndOf(a, k))
    BY <1>7 DEF InHeader
  <2>3. T!EndOf(a, k) \in Nat /\ Len(<<>>) = 0 /\ T!EndOf(a, e) \in Nat /\ T!EndOf(a, 0) = 0
    BY <1>1, <2>1, Ends
  <2>4. cut = T!EndOf(a, k)
    <3> HIDE DEF k, a
    <3>1. Len(tar.hdr) = 0
      BY <1>2, <2>3, Zenon
    <3> QED BY <2>2, <2>3, <3>1
  <2>5. cut < T!EndOf(a, k + 1)
    <3>1. T!EndOf(a, e) <= T!EndOf(a, k) <=> e <= k
      BY <1>1, <2>1, EndsAreOrdered
    <3> HIDE DEF a, m
    <3> QED BY <2>1, <2>3, <2>4, <3>1
  <2>6. T!Whole = 1 .. k
    <3>1. cut >= T!EndOf(a, k)
      BY <1>3, <2>4
    <3> QED BY <1>1, <1>3, <2>1, <2>5, <3>1, WholeEntries
  <2>7. k = 0 \/ k \in 1 .. k
    BY <2>1
  <2>8. cut \in {0} \cup {T!EndOf(a, d) : d \in T!Whole}
    <3> HIDE DEF a, k
    <3> QED BY <2>3, <2>4, <2>6, <2>7
  <2> QED BY <1>6, <2>1, <2>2, <2>6, <2>8, Zenon
<1>8. ASSUME InZeros(a, tar, cut) PROVE SameForAnyChunks
  <2>1. Len(tar.hdr) = 0
    BY <1>2
  <2>2. /\ \/ cut = last + Len(tar.hdr)
           \/ cut = last + kBlock + Len(tar.hdr)
           \/ cut >= last + 2 * kBlock
        /\ Extracted(a, tar.files, m, last)
    BY <1>8, Zenon DEF InZeros
  <2> HIDE DEF last
  <2>3. (cut - last >= 2 * kBlock \/ cut - last \in {0, kBlock}) /\ cut >= last
    BY <1>3, <1>5, <2>1, <2>2
  <2>4. T!Whole = 1 .. m
    BY <1>1, <1>3, <1>5, <2>3, WholeEntries DEF last
  <2> QED BY <1>5, <1>6, <2>2, <2>3, <2>4, Zenon DEF last
<1>9. \A e \in 1 .. m : ~InBlocks(a, tar, cut, e)
  BY <1>2 DEF InBlocks
<1> QED BY <1>2, <1>4, <1>7, <1>8, <1>9, Zenon DEF Reach

THEOREM ArchivesUnpackWhole == T!Init /\ [][T!Next]_(T!tarVars) => []SameForAnyChunks
<1>1. T!Init => TarDone
  <2> SUFFICES ASSUME T!Init PROVE TarDone
    OBVIOUS
  <2>1. TarInv
    BY TarStarts
  <2>2. tarResult # "ok"
    BY DEF T!Init
  <2> QED BY <2>1, <2>2, Zenon DEF TarDone
<1>2. TarDone /\ T!Next => TarDone'
  <2> SUFFICES ASSUME TarDone, T!Next PROVE TarDone'
    OBVIOUS
  <2>1. TarInv'
    BY TarStep, Zenon DEF TarDone
  <2>2. tarResult' = "ok" => tar'.ok /\ ~tar'.inData /\ tar'.hdr = <<>> /\ fed' = cut'
    <3>1. CASE T!Inflate \/ T!InflateError
      <4>1. tarResult' # "ok"
        BY <3>1 DEF T!Inflate, T!InflateError
      <4> QED BY <4>1
    <3>2. CASE T!Return
      <4>1. /\ tar' = tar /\ fed' = fed /\ cut' = cut
            /\ ~tar.ok \/ fed = cut
            /\ tarResult' = IF tar.ok /\ ~tar.inData /\ tar.hdr = <<>> THEN "ok" ELSE "error"
        BY <3>2, Zenon DEF T!Return
      <4> QED BY <4>1
    <3> QED BY <3>1, <3>2 DEF T!Next
  <2> QED BY <2>1, <2>2, Zenon DEF TarDone
<1>3. TarDone /\ UNCHANGED T!tarVars => TarDone'
  BY Zenon DEF TarDone, TarInv, T!tarVars
<1>4. TarDone => SameForAnyChunks
  <2>1. tarResult # "ok" => SameForAnyChunks
    BY Zenon DEF SameForAnyChunks, T!SameForAnyChunks
  <2> QED BY <2>1, DoneIsWhole
<1> QED BY <1>1, <1>2, <1>3, <1>4, PTL
=============================================================================
