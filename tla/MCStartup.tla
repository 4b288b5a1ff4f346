----------------------------- MODULE MCStartup -----------------------------
(***************************************************************************)
(* What happens around the life of a kernel: its Node runtime, with the    *)
(* choice of a release (Releases), its download (Http) and the extraction  *)
(* (TarGz); the lock of the single instance, the update and the modules.   *)
(* They do not share state; `scenario' says which of them a behaviour      *)
(* runs.  The choice of a release is one state, an index.                  *)
(***************************************************************************)
EXTENDS NodeCache, SequencesExt

CONSTANTS Instances, NoInstance, MaxUpdates,
          Libs, Builtin, Keys, Ids, Contents, MaxDepth, MaxEvents,
          Indexes, Ranges, Urls, Bodies, kBlock, Archives

VARIABLES scenario,
          lockPath, listening, backlog, at, told, argvIn, launched,
          manifest, downloaded, temp, copy, exe, exeRuns, at_, sameFs, alive,
          origin, exeOrigin, downloads,
          phase, unread, mapped, fns, calls, threads, posted, regions, given,
          index,
          httpAt, httpUrl, answer, received, body, target, hops,
          archive, cut, fed, tar, tarResult

S == INSTANCE SingleInstance
U == INSTANCE Updater
M == INSTANCE Modules
R == INSTANCE Releases
H == INSTANCE Http
T == INSTANCE TarGz

ASSUME IndexesAssumption == Indexes \subseteq Seq(R!Entry) /\ Ranges \subseteq Seq(Int)
ASSUME BodiesAssumption == H!ProperBodies
ASSUME ArchivesAssumption == T!ProperArchives

instVars == <<lockPath, listening, backlog, at, told, argvIn, launched>>
updVars == <<manifest, downloaded, temp, copy, exe, exeRuns, at_, sameFs, alive,
             origin, exeOrigin, downloads>>
moduleVars == <<phase, unread, mapped, fns, calls, threads, posted, regions, given>>

httpVars == <<httpAt, httpUrl, answer, received, body, target, hops>>
tarVars == <<archive, cut, fed, tar, tarResult>>
systemVars == <<cacheVars, instVars, updVars, moduleVars>>

allVars == <<scenario, index, systemVars, httpVars, tarVars>>

UpdaterIdle ==
    /\ manifest = "none" /\ downloaded = FALSE /\ temp = "none" /\ copy = "none"
    /\ exe = "old" /\ exeRuns = TRUE /\ exeOrigin = "checked" /\ at_ = "idle"
    /\ alive = TRUE /\ sameFs = TRUE /\ origin = "checked" /\ downloads = 0

\* Every kernel has its runtime: no fair step of the cache is enabled.
CacheIdle ==
    /\ published = 1 /\ healthy = TRUE /\ mishaps = 0 /\ tainted = {}
    /\ tgz = [v \in Versions |-> "none"]
    /\ tree = [v \in Versions |-> Parts]
    /\ runnable = [v \in Versions |-> TRUE]
    /\ step = [k \in Kernels |-> "ok"] /\ rel = [k \in Kernels |-> 1]
    /\ sidecar = [k \in Kernels |-> "running"]

HttpIdle ==
    /\ httpAt = "parse" /\ httpUrl \in {CHOOSE u \in Urls : TRUE} /\ answer = H!NoAnswer
    /\ received = 0 /\ body = <<>> /\ target = "old" /\ hops = 0

TarIdle ==
    /\ archive = CHOOSE a \in Archives : TRUE
    /\ cut = 0 /\ fed = 0 /\ tar = T!Start /\ tarResult = "running"

StartInit ==
    /\ scenario \in {"cache", "instances", "update", "modules", "index", "http", "tar"}
    /\ index \in IF scenario = "index" THEN Indexes ELSE {<<>>}
    /\ IF scenario = "http" THEN H!Init ELSE HttpIdle
    /\ IF scenario = "tar" THEN T!Init ELSE TarIdle
    /\ IF scenario = "cache" THEN Init ELSE CacheIdle
    /\ S!Init
    /\ IF scenario = "update" THEN U!Init ELSE UpdaterIdle
    /\ M!Init

StartNext ==
    \/ /\ scenario = "cache" /\ Next
       /\ UNCHANGED <<scenario, index, instVars, updVars, moduleVars, httpVars, tarVars>>
    \/ /\ scenario = "instances" /\ S!Next
       /\ UNCHANGED <<scenario, index, cacheVars, updVars, moduleVars, httpVars, tarVars>>
    \/ /\ scenario = "update" /\ U!Next
       /\ UNCHANGED <<scenario, index, cacheVars, instVars, moduleVars, httpVars, tarVars>>
    \/ /\ scenario = "modules" /\ M!Next
       /\ UNCHANGED <<scenario, index, cacheVars, instVars, updVars, httpVars, tarVars>>
    \/ scenario = "http" /\ H!Next /\ UNCHANGED <<scenario, index, systemVars, tarVars>>
    \/ scenario = "tar" /\ T!Next /\ UNCHANGED <<scenario, index, systemVars, httpVars>>

\* A component that stands still is in a state where it is not owed a step.
Spec ==
    /\ StartInit
    /\ [][StartNext]_allVars
    /\ Fairness
    /\ S!Fairness

-----------------------------------------------------------------------------
\* SingleInstance: an instance that has reached another one is announced to
\* its listener, unless one of the two goes away.
HandedOver == S!HandedOver

\* Updater: whatever is cut short, the program file is no part of a file; as long
\* as no other instance wrote the download, it is the old program or what was
\* downloaded, and the announced program if that was checked.
ProgramStaysWhole == U!ProgramStaysWhole

\* Modules: no code that is registered, called or run by a thread is unmapped,
\* and an id of shared memory leads to the bytes that were put.
NothingIsPulledAway == M!NothingIsPulledAway

\* Releases: of the entries a range asks for, the newest is picked, for every
\* range; an exact version asks for its whole major version.
PickIsNewest == \A range \in Ranges : R!PicksNewest(index, range)

\* Http: a download that succeeds has the data of the last answer's body, as
\* far as it arrived, unless its last header frames the body.
DownloadIsWhatWasSent == H!DownloadIsWhatWasSent

\* Http.cpp:6: "Content-Length y chunked": no framing of a chunked answer is
\* left in its body.
NoFramingInBody == H!NoFramingInBody

\* TarGz: the parser is where one chunk would have brought it.
BordersDoNotMatter == T!BordersDoNotMatter

\* TarGz: what is extracted does not depend on how the blocks arrive; a file is
\* cut only where the disk refused it.
SameForAnyChunks == T!SameForAnyChunks

-----------------------------------------------------------------------------
VV == R!VV
Dot == R!Dot

MCVersions == {<<VV, a, Dot, b, Dot, c>> : a \in {1, 2}, b \in {0, 3}, c \in {0, 9}}
              \cup {<<VV, 1, 0, Dot, 0>>, <<VV, 2>>}

MCIndexes == SeqOf([version : {<<v>> : v \in MCVersions} \cup {<<>>},
                    lts : {<<>>, <<"null">>, <<"false">>, <<"Jod">>}], 2)

MCRanges == {<<>>, R!Latest, R!Lts, <<VV, 1>>, <<2>>, <<1, 0>>, <<VV, 1, Dot, 0, Dot, 9>>}

ArchiveEntry(type, name, n, text) == [type |-> type, name |-> name, size |-> n, text |-> text]

ArchiveEntries == {ArchiveEntry("file", "f", 0, ""), ArchiveEntry("file", "f", 3, ""), ArchiveEntry("file", "g", 1, ""),
            ArchiveEntry("dir", "d", 0, ""), ArchiveEntry("long", "", 1, "g"), ArchiveEntry("long", "", 3, "unsafe"),
            ArchiveEntry("other", "o", 2, ""), ArchiveEntry("file", "unsafe", 1, "")}

ThreeEntries == [1 .. 3 -> {ArchiveEntry("file", "f", 0, ""), ArchiveEntry("file", "f", 3, ""),
                             ArchiveEntry("long", "", 1, "g")}]

\* The disk takes everything, or one cell of the first entry.
MCArchives ==
    {[entries |-> e, zeros |-> z, takes |-> [i \in DOMAIN e |-> 4]] :
        e \in SeqOf(ArchiveEntries, 2) \cup ThreeEntries, z \in 0 .. 2}
    \cup {[entries |-> e, zeros |-> 0, takes |-> <<1, 4, 4>>] : e \in ThreeEntries}

Url(scheme, host, brackets, port) ==
    [scheme |-> scheme, host |-> host, brackets |-> brackets, port |-> port]

MCUrls == {Url("https", "a", FALSE, ""), Url("http", "a", FALSE, "8080"), Url("", "", FALSE, "")}

MCBodies == {<<>>, <<<<65>>>>, <<<<65, 66>>, <<13, 10>>>>, <<<<13>>, <<65>>, <<66>>>>}
=============================================================================
