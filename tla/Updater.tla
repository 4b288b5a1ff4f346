------------------------------ MODULE Updater ------------------------------
(***************************************************************************)
(* The updater module (src/api/updater/src): checkForUpdates,              *)
(* downloadUpdate and installAndRelaunch, with the replacement of the      *)
(* program file on POSIX (updater_platform_linux.cpp, _mac.mm).            *)
(*                                                                         *)
(* A downloaded file is the announced program, or something else with the  *)
(* name of one (a truncated body, an error page).  The download has one    *)
(* fixed name in the temporary directory, which every instance of every    *)
(* application uses: OtherInstance is one of them.                         *)
(***************************************************************************)
EXTENDS Naturals

CONSTANT MaxUpdates    \* bound: downloads, and downloads of other instances

VARIABLES
    manifest,          \* g_manifest: "none", "signed" (has sha256), "plain"
    downloaded,        \* g_downloaded is set
    temp,              \* owear-update.bin: "none", "empty", "good", "bad"
    copy,              \* the program's name with .new: the same, or "part"
    exe,               \* the program file: "old", "empty", "good", "bad"
    exeRuns,           \* it has its execute permission
    at_,               \* where the module is: "idle", or inside a call
    sameFs,            \* the temporary directory is on the program's file system
    alive,             \* the process runs
    origin,            \* history: the download was written by "others" last, or
                       \* by this instance ("own"), which has "checked" its sum
    exeOrigin,         \* history: the same of what became the program file
    downloads          \* bound: downloads so far

updVars == <<manifest, downloaded, temp, copy, exe, exeRuns, at_, sameFs, alive,
             origin, exeOrigin, downloads>>

program == <<copy, exe, exeRuns, exeOrigin>>

Init ==
    /\ manifest = "none" /\ downloaded = FALSE
    /\ temp = "none" /\ copy = "none"
    /\ exe = "old" /\ exeRuns = TRUE /\ exeOrigin = "checked"
    /\ at_ = "idle" /\ alive = TRUE
    /\ sameFs \in BOOLEAN
    /\ origin = "checked"
    /\ downloads = 0

(***************************************************************************)
(* checkForUpdates replaces the manifest whether or not its version is     *)
(* newer, and leaves what was downloaded for the last one.                 *)
(***************************************************************************)
CheckForUpdates ==
    /\ alive /\ at_ = "idle"
    /\ manifest' \in {"signed", "plain"}
    /\ UNCHANGED <<downloaded, temp, program, at_, sameFs, alive, origin, downloads>>

(***************************************************************************)
(* downloadUpdate                                                          *)
(***************************************************************************)
Truncate ==
    /\ alive /\ at_ = "idle" /\ manifest # "none"
    /\ downloads < MaxUpdates
    /\ downloads' = downloads + 1
    /\ temp' = "empty"
    /\ origin' = "own"
    /\ at_' = "write"
    /\ UNCHANGED <<manifest, downloaded, program, sameFs, alive>>

WriteUpdate ==
    /\ alive /\ at_ = "write"
    /\ \/ temp' \in {"good", "bad"} /\ at_' = "verify"
       \/ temp' = "none" /\ at_' = "idle"              \* the disk is full
    /\ UNCHANGED <<manifest, downloaded, program, sameFs, alive, origin, downloads>>

\* Fault: a sum that does not match is answered with an error, and no more.
VerifyKeeps ==
    /\ alive /\ at_ = "verify"
    /\ downloaded' = TRUE
    /\ origin' = IF manifest = "signed" THEN "checked" ELSE origin
    /\ at_' = "idle"
    /\ UNCHANGED <<temp, manifest, program, sameFs, alive, downloads>>

\* A file whose sum does not match is removed; g_downloaded stays as it was.
Verify ==
    /\ alive /\ at_ = "verify"
    /\ IF manifest = "signed" /\ temp # "good"
       THEN temp' = "none" /\ UNCHANGED <<downloaded, origin>>
       ELSE /\ downloaded' = TRUE
            /\ origin' = IF manifest = "signed" THEN "checked" ELSE origin
            /\ UNCHANGED temp
    /\ at_' = "idle"
    /\ UNCHANGED <<manifest, program, sameFs, alive, downloads>>

(***************************************************************************)
(* installAndRelaunch and ReplaceAndRelaunch: rename, or copy and rename,  *)
(* then the permissions, then execv.                                       *)
(***************************************************************************)
Rename ==
    /\ alive /\ at_ = "idle" /\ downloaded
    /\ IF sameFs /\ temp # "none"
       THEN /\ exe' = temp /\ temp' = "none"
            /\ exeRuns' = FALSE /\ exeOrigin' = origin
            /\ at_' = "chmod"
       ELSE /\ at_' = "copy"
            /\ UNCHANGED <<exe, temp, exeRuns, exeOrigin>>
    /\ UNCHANGED <<manifest, downloaded, copy, sameFs, alive, origin, downloads>>

\* Fault: the copy goes to the program file itself.
CopyOver ==
    /\ alive /\ at_ = "copy"
    /\ temp # "none" /\ exe' = "part" /\ at_' = "copied"
    /\ UNCHANGED <<manifest, downloaded, temp, copy, exeRuns, exeOrigin, sameFs,
                   alive, origin, downloads>>

Copy ==
    /\ alive /\ at_ = "copy"
    /\ IF temp = "none" THEN at_' = "idle" /\ UNCHANGED copy
                        ELSE at_' = "copied" /\ copy' = "part"
    /\ UNCHANGED <<manifest, downloaded, temp, exe, exeRuns, exeOrigin, sameFs,
                   alive, origin, downloads>>

CopyEnds ==
    /\ alive /\ at_ = "copied"
    /\ \/ copy' = temp /\ temp # "none" /\ at_' = "renameCopy"
       \/ at_' = "idle" /\ UNCHANGED copy              \* the disk is full
    /\ UNCHANGED <<manifest, downloaded, temp, exe, exeRuns, exeOrigin, sameFs,
                   alive, origin, downloads>>

RenameCopy ==
    /\ alive /\ at_ = "renameCopy"
    /\ exe' = copy /\ copy' = "none"
    /\ exeRuns' = FALSE /\ exeOrigin' = origin
    /\ at_' = "chmod"
    /\ UNCHANGED <<manifest, downloaded, temp, sameFs, alive, origin, downloads>>

SetPermissions ==
    /\ alive /\ at_ = "chmod"
    /\ exeRuns' = TRUE
    /\ at_' = "exec"
    /\ UNCHANGED <<manifest, downloaded, temp, copy, exe, exeOrigin, sameFs, alive,
                   origin, downloads>>

\* execv: a new process with the memory of none; it fails on a file that is
\* no program, and the old process answers a second time, with the error.
Exec ==
    /\ alive /\ at_ = "exec"
    /\ IF exe \in {"good", "old"} THEN manifest' = "none" /\ downloaded' = FALSE
                                  ELSE UNCHANGED <<manifest, downloaded>>
    /\ at_' = "idle"
    /\ UNCHANGED <<temp, program, sameFs, alive, origin, downloads>>

(***************************************************************************)
(* A crash anywhere, the user who starts the program again if it is one,   *)
(* and another instance that downloads to the same name.                   *)
(***************************************************************************)
Crash ==
    /\ alive
    /\ alive' = FALSE
    /\ manifest' = "none" /\ downloaded' = FALSE /\ at_' = "idle"
    /\ UNCHANGED <<temp, program, sameFs, origin, downloads>>

StartAgain ==
    /\ ~alive /\ exeRuns /\ exe \in {"old", "good"}
    /\ alive' = TRUE
    /\ UNCHANGED <<manifest, downloaded, temp, program, at_, sameFs, origin, downloads>>

OtherInstance ==
    /\ downloads < MaxUpdates
    /\ downloads' = downloads + 1
    /\ temp' \in {"none", "empty", "good", "bad"}
    /\ origin' = "others"
    /\ UNCHANGED <<manifest, downloaded, program, at_, sameFs, alive>>

Next ==
    \/ CheckForUpdates \/ Truncate \/ WriteUpdate \/ Verify
    \/ Rename \/ Copy \/ CopyEnds \/ RenameCopy \/ SetPermissions \/ Exec
    \/ Crash \/ StartAgain \/ OtherInstance

-----------------------------------------------------------------------------
(***************************************************************************)
(* Whatever step of an update fails, and wherever the process dies, the    *)
(* program file is never a part of a file.  As long as no other instance   *)
(* has written the download since this one did, it is the old program or   *)
(* what this one downloaded, and not the file another has just truncated;  *)
(* if the sum of that was checked, it is the announced program.  And it    *)
(* can be executed, except between the rename and the permissions.  (A     *)
(* crash there leaves a program that can not be started: the code gives    *)
(* the permissions after the rename.)                                      *)
(***************************************************************************)
ProgramStaysWhole ==
    /\ exe # "part"
    /\ exeOrigin = "own" => exe \in {"good", "bad"}
    /\ exeOrigin = "checked" => exe \in {"old", "good"}
    /\ ~exeRuns => at_ = "chmod" \/ ~alive

(***************************************************************************)
(* What is installed is what downloadUpdate answered for (docs/ROADMAP.md, *)
(* "manifest+semver+sha256+replace atomico").                              *)
(***************************************************************************)
InstallsOwnDownload == exeOrigin # "others"
=============================================================================
