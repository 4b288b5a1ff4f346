----------------------------- MODULE NodeCache -----------------------------
(***************************************************************************)
(* The Node runtime the kernel downloads and keeps in a cache directory    *)
(* (src/src/Runtime/NodeManager.cpp), and the start of the sidecar from it *)
(* (Bootstrap in src/src/Core/App.cpp, Spawn in NodeManager_linux.cpp).    *)
(*                                                                         *)
(* The cache is shared by every process of the user and nothing locks it.  *)
(* Ensure is cut at the points where a crash, or another process, finds    *)
(* a different directory: the existence test, the truncation and the write *)
(* of the archive, the sums, the hash, the steps of the extraction, the    *)
(* permissions, the removal of the archive.                                *)
(*                                                                         *)
(* The archive has bin/node first and the rest of the tree after it.  A    *)
(* download is "bad" when the body is not the archive: Http.tla shows that *)
(* an error page or a truncated body is a successful download.             *)
(***************************************************************************)
EXTENDS Naturals, FiniteSets

CONSTANTS Kernels,      \* processes of the user that start a kernel
          MaxVersion,   \* bound: releases Node publishes, 1 .. MaxVersion
          MaxMishaps    \* bound: crashes and lost writes

Versions == 1 .. MaxVersion

VARIABLES
    published,          \* the newest release in index.json
    tgz,                \* tgz[v]: tmp/node-v.tar.gz: "none", "empty", "good", "bad"
    tree,               \* tree[v]: the files under the target: subset of Parts
    runnable,           \* runnable[v]: bin/node has its execute permission
    step,               \* step[k]: where kernel k is in Ensure; "idle": its
                        \* user has not started it
    rel,                \* rel[k]: the release k picked, or 0
    sidecar,            \* sidecar[k]: "none", "running", "exited" (127)
    tainted,            \* history: releases whose extraction was cut by a crash,
                        \* ran beside another kernel's, or lost a write
    mishaps,            \* crashes and lost writes so far
    healthy             \* from here on the network and the disk do not fail

cacheVars == <<published, tgz, tree, runnable, step, rel, sidecar, tainted,
               mishaps, healthy>>

\* bin/node as the writer creates it, its data, and the rest of the tree.
Parts == {"node", "nodeData", "rest"}

NodeExists(v) == "node" \in tree[v]
Installed(v)  == tree[v] = Parts /\ runnable[v]

Init ==
    /\ published \in Versions
    /\ tgz = [v \in Versions |-> "none"]
    /\ tree = [v \in Versions |-> {}]
    /\ runnable = [v \in Versions |-> FALSE]
    /\ step = [k \in Kernels |-> "idle"]
    /\ rel = [k \in Kernels |-> 0]
    /\ sidecar = [k \in Kernels |-> "none"]
    /\ tainted = {}
    /\ mishaps = 0
    /\ healthy = FALSE

Publish ==
    /\ published < MaxVersion
    /\ published' = published + 1
    /\ UNCHANGED <<tgz, tree, runnable, step, rel, sidecar, tainted, mishaps, healthy>>

Heal ==
    /\ ~healthy
    /\ healthy' = TRUE
    /\ UNCHANGED <<published, tgz, tree, runnable, step, rel, sidecar, tainted, mishaps>>

disk == <<published, tgz, tree, runnable, mishaps, healthy>>

(***************************************************************************)
(* History: of k and another kernel that has picked v, one extracts it.    *)
(***************************************************************************)
InTree == {"extract", "nodeOpen", "nodeDone", "check", "permissions"}

Beside(k, v) ==
    \E j \in Kernels \ {k} : rel[j] = v /\ {step[j], step[k]} \cap InTree # {}

Taint(k, v) == tainted' = IF Beside(k, v) THEN tainted \cup {v} ELSE tainted

(***************************************************************************)
(* FetchIndex and Pick("latest"), or FindCached without network: any       *)
(* release whose bin/node exists, in the order of the directory.           *)
(***************************************************************************)
Fail(k) ==
    /\ step' = [step EXCEPT ![k] = "failed"]
    /\ rel' = [rel EXCEPT ![k] = 0]

FetchIndex(k) ==
    /\ step[k] = "start"
    /\ step' = [step EXCEPT ![k] = "picked"]
    /\ rel' = [rel EXCEPT ![k] = published]
    /\ UNCHANGED <<disk, sidecar, tainted>>

FindCached(k) ==
    /\ step[k] = "start" /\ ~healthy
    /\ IF \E v \in Versions : NodeExists(v)
       THEN \E v \in {w \in Versions : NodeExists(w)} :
               /\ step' = [step EXCEPT ![k] = "ok"]
               /\ rel' = [rel EXCEPT ![k] = v]
               /\ Taint(k, v)
       ELSE Fail(k) /\ UNCHANGED tainted
    /\ UNCHANGED <<disk, sidecar>>

TestExists(k) ==
    /\ step[k] = "picked"
    /\ step' = [step EXCEPT ![k] = IF NodeExists(rel[k]) THEN "ok" ELSE "download"]
    /\ Taint(k, rel[k])
    /\ UNCHANGED <<disk, rel, sidecar>>

(***************************************************************************)
(* DownloadToFile: the whole body is received before the file is           *)
(* truncated; a file another kernel removes meanwhile is written to no     *)
(* name.  A refused connection, or a full disk, fails the call; the latter *)
(* removes the file.                                                       *)
(***************************************************************************)
Truncate(k) ==
    /\ step[k] = "download"
    /\ tgz' = [tgz EXCEPT ![rel[k]] = "empty"]
    /\ step' = [step EXCEPT ![k] = "write"]
    /\ UNCHANGED <<published, tree, runnable, rel, sidecar, tainted, mishaps, healthy>>

WriteArchive(k) ==
    /\ step[k] = "write"
    /\ \E body \in IF healthy THEN {"good"} ELSE {"good", "bad"} :
          tgz' = [tgz EXCEPT ![rel[k]] = IF @ = "none" THEN @ ELSE body]
    /\ step' = [step EXCEPT ![k] = "sums"]
    /\ UNCHANGED <<published, tree, runnable, rel, sidecar, tainted, mishaps, healthy>>

DownloadFails(k) ==
    /\ ~healthy
    /\ step[k] \in {"download", "write", "sums"}
    /\ tgz' = [tgz EXCEPT ![rel[k]] = IF step[k] = "write" THEN "none" ELSE @]
    /\ Fail(k)
    /\ UNCHANGED <<published, tree, runnable, sidecar, tainted, mishaps, healthy>>

\* Fault: the sum is compared with the whole line, file name included.
VerifyLine(k) ==
    /\ step[k] = "sums"
    /\ tgz' = [tgz EXCEPT ![rel[k]] = "none"]
    /\ Fail(k)
    /\ UNCHANGED <<published, tree, runnable, sidecar, tainted, mishaps, healthy>>

\* SHASUMS256.txt may be anything, as any body may.
Verify(k) ==
    /\ step[k] = "sums"
    /\ \E sums \in IF healthy THEN {"good"} ELSE {"good", "bad"} :
       IF tgz[rel[k]] = "good" /\ sums = "good"
       THEN /\ step' = [step EXCEPT ![k] = "extract"]
            /\ UNCHANGED <<tgz, rel>>
       ELSE /\ tgz' = [tgz EXCEPT ![rel[k]] = "none"]
            /\ Fail(k)
    /\ UNCHANGED <<published, tree, runnable, sidecar, tainted, mishaps, healthy>>

(***************************************************************************)
(* ExtractTarGz and what follows.  An empty archive is extracted without   *)
(* an error; a body that is not an archive fails, as does a file that      *)
(* cannot be created, and a failure removes the target whatever is in it.  *)
(* Data that the disk does not take is no failure: nobody looks at the     *)
(* result of write and close, and the extraction goes on without it.       *)
(***************************************************************************)
PartOf(k) ==
    CASE step[k] = "extract"  -> {"node"}
      [] step[k] = "nodeOpen" -> {"nodeData"}
      [] step[k] = "nodeDone" -> {"rest"}

GoesOn(k) ==
    /\ step[k] \in {"extract", "nodeOpen", "nodeDone"}
    /\ tgz[rel[k]] \in IF step[k] = "extract" THEN {"good"} ELSE {"good", "none"}
    /\ step' = [step EXCEPT ![k] = CASE @ = "extract"  -> "nodeOpen"
                                     [] @ = "nodeOpen" -> "nodeDone"
                                     [] @ = "nodeDone" -> "check"]
    /\ runnable' = [runnable EXCEPT ![rel[k]] = @ /\ step[k] # "nodeOpen"]
    /\ UNCHANGED <<published, tgz, rel, sidecar, healthy>>

\* To open bin/node truncates it.
ExtractPart(k) ==
    /\ GoesOn(k)
    /\ tree' = [tree EXCEPT ![rel[k]] =
          (@ \cup PartOf(k)) \ (IF step[k] = "extract" THEN {"nodeData"} ELSE {})]
    /\ Taint(k, rel[k])
    /\ UNCHANGED mishaps

WriteIsLost(k) ==
    /\ GoesOn(k) /\ step[k] # "extract"
    /\ mishaps < MaxMishaps /\ ~healthy
    /\ mishaps' = mishaps + 1
    /\ tainted' = tainted \cup {rel[k]}
    /\ UNCHANGED tree

\* Fault: an extraction that failed leaves what it had written.
ExtractFailsKeeps(k) ==
    /\ step[k] \in {"extract", "nodeOpen", "nodeDone"}
    /\ Fail(k)
    /\ UNCHANGED <<published, tgz, tree, runnable, tainted, sidecar, mishaps, healthy>>

\* A bad archive, one that another kernel has truncated, or a file that
\* cannot be created.
ExtractFails(k) ==
    /\ step[k] \in {"extract", "nodeOpen", "nodeDone"}
    /\ healthy => tgz[rel[k]] # "good"
    /\ tree' = [tree EXCEPT ![rel[k]] = {}]
    /\ runnable' = [runnable EXCEPT ![rel[k]] = FALSE]
    /\ Taint(k, rel[k])
    /\ Fail(k)
    /\ UNCHANGED <<published, tgz, sidecar, mishaps, healthy>>

ExtractEmpty(k) ==
    /\ step[k] = "extract" /\ tgz[rel[k]] = "empty"
    /\ step' = [step EXCEPT ![k] = "check"]
    /\ Taint(k, rel[k])
    /\ UNCHANGED <<published, tgz, tree, runnable, rel, sidecar, mishaps, healthy>>

CheckNode(k) ==
    /\ step[k] = "check"
    /\ IF NodeExists(rel[k])
       THEN step' = [step EXCEPT ![k] = "permissions"] /\ UNCHANGED <<tree, runnable, rel>>
       ELSE /\ tree' = [tree EXCEPT ![rel[k]] = {}]
            /\ runnable' = [runnable EXCEPT ![rel[k]] = FALSE]
            /\ Fail(k)
    /\ UNCHANGED <<published, tgz, sidecar, tainted, mishaps, healthy>>

SetPermissions(k) ==
    /\ step[k] = "permissions"
    /\ runnable' = [runnable EXCEPT ![rel[k]] = NodeExists(rel[k])]
    /\ step' = [step EXCEPT ![k] = "clean"]
    /\ UNCHANGED <<published, tgz, tree, rel, sidecar, tainted, mishaps, healthy>>

RemoveArchive(k) ==
    /\ step[k] = "clean"
    /\ tgz' = [tgz EXCEPT ![rel[k]] = "none"]
    /\ step' = [step EXCEPT ![k] = "ok"]
    /\ UNCHANGED <<published, tree, runnable, rel, sidecar, tainted, mishaps, healthy>>

(***************************************************************************)
(* Bootstrap spawns the sidecar from the path Ensure returned; a child     *)
(* that cannot execute it leaves with 127, and nobody looks.  The user     *)
(* starts the application, again after a failure or a crash.               *)
(***************************************************************************)
Spawn(k) ==
    /\ step[k] = "ok" /\ sidecar[k] = "none"
    /\ sidecar' = [sidecar EXCEPT ![k] =
          IF {"node", "nodeData"} \subseteq tree[rel[k]] /\ runnable[rel[k]]
          THEN "running" ELSE "exited"]
    /\ UNCHANGED <<disk, step, rel, tainted>>

StartAgain(k) ==
    /\ \/ step[k] \in {"idle", "failed"}
       \/ sidecar[k] # "none"
    /\ step' = [step EXCEPT ![k] = "start"]
    /\ rel' = [rel EXCEPT ![k] = 0]
    /\ sidecar' = [sidecar EXCEPT ![k] = "none"]
    /\ UNCHANGED <<disk, tainted>>

Crash(k) ==
    /\ mishaps < MaxMishaps /\ ~healthy
    /\ step[k] \notin {"idle", "start", "failed", "ok"}
    /\ mishaps' = mishaps + 1
    /\ tainted' = IF step[k] \in {"nodeOpen", "nodeDone", "check", "permissions"}
                  THEN tainted \cup {rel[k]} ELSE tainted
    /\ Fail(k)
    /\ UNCHANGED <<published, tgz, tree, runnable, sidecar, healthy>>

Ensure(k) ==
    \/ FetchIndex(k) \/ FindCached(k) \/ TestExists(k)
    \/ Truncate(k) \/ WriteArchive(k) \/ DownloadFails(k) \/ Verify(k)
    \/ ExtractPart(k) \/ WriteIsLost(k) \/ ExtractFails(k) \/ ExtractEmpty(k)
    \/ CheckNode(k) \/ SetPermissions(k) \/ RemoveArchive(k)

Next ==
    \/ Publish \/ Heal
    \/ \E k \in Kernels : Ensure(k) \/ Spawn(k) \/ StartAgain(k) \/ Crash(k)

(***************************************************************************)
(* A kernel that has started goes on, the user starts it again as long as  *)
(* it fails, and the network and the disk fail only for a while.           *)
(***************************************************************************)
Fairness ==
    /\ WF_cacheVars(Heal)
    /\ \A k \in Kernels :
          /\ WF_cacheVars(Ensure(k))
          /\ WF_cacheVars(step[k] = "failed" /\ StartAgain(k))

-----------------------------------------------------------------------------
(***************************************************************************)
(* A sidecar only fails to start from a release whose extraction a crash   *)
(* cut short, another kernel ran into, or went on after a write that the   *)
(* disk refused: in every other case what Ensure returns (fresh, cached or *)
(* picked up without network) is a verified, whole and executable tree,    *)
(* whatever failed before it.  These three are taken for an installed      *)
(* runtime from then on: bin/node exists.                                  *)
(***************************************************************************)
SidecarRuns ==
    \A k \in Kernels :
        /\ sidecar[k] = "exited" => rel[k] \in tainted
        /\ step[k] = "ok" /\ rel[k] \notin tainted => Installed(rel[k])

(***************************************************************************)
(* A failed attempt leaves nothing that stands in the way of the next one: *)
(* once the network and the disk have recovered, a kernel alone in the     *)
(* cache gets to the end of Ensure.  (Two of them can make each other fail *)
(* for ever: each hashes, and removes, the archive the other is writing.)  *)
(* That its runtime is whole is SidecarRuns, with the exceptions there.    *)
(***************************************************************************)
RuntimeEventually ==
    \A k \in Kernels :
        step[k] = "failed" ~> \/ step[k] = "ok"
                              \/ \E j \in Kernels \ {k} : step[j] # "idle"
=============================================================================
