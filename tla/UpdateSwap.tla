------------------------------ MODULE UpdateSwap ------------------------------
(***************************************************************************)
(* The directory swap that installs a staged release, and the recovery     *)
(* pass that every later start runs against what a crash left behind       *)
(* (launcher/internal/update: swap.go, movedir.go, startup.go and the      *)
(* staging half of apply.go).                                              *)
(*                                                                         *)
(* The state is the part of the two volumes the swap reads and writes:     *)
(* game/, game.old/ (backup), game.new/ (staging), the copies promoteDir   *)
(* makes beside game/, and the update.state marker.  A directory tree is   *)
(* a release and the set of its files that are present, so a half-removed, *)
(* half-copied or half-extracted tree is a state of its own: the code only *)
(* ever asks whether a directory EXISTS (dirExists), and whether a tree is *)
(* COMPLETE is what the properties ask.                                    *)
(*                                                                         *)
(* One launcher process, Self, runs at a time here; Crash may stop it      *)
(* between any two file operations.  Launchers names every process that    *)
(* shares the folder, so that a module that composes several of them can   *)
(* instantiate this one once per process.                                  *)
(***************************************************************************)
EXTENDS Naturals, FiniteSets

CONSTANTS
    Releases,     \* the releases the patch channel offers
    Parts,        \* the files of a release's game/ tree
    IndexFile,    \* game/index.html, the one file the layout check asks for
    None,         \* "no release": the tree is not there
    Launchers,    \* the processes that share the folder
    Self,         \* the process this instance describes
    CrossDevice,  \* TRUE: the sidecar is on another volume than the game folder
    StartModes,   \* the ways a start may reach Recover, see Start
    Faults        \* the kinds of file operation that may return an error

FaultKinds == {"write_marker", "clear_marker", "rename", "remove_tree",
               "copy", "extract"}

ASSUME SwapConstants ==
    /\ IndexFile \in Parts
    /\ IsFiniteSet(Parts)
    /\ None \notin Releases
    /\ Releases # {}
    /\ Self \in Launchers
    /\ CrossDevice \in BOOLEAN
    /\ StartModes \subseteq {"normal", "repair", "no_sidecar", "fast_path"}
    /\ Faults \subseteq FaultKinds

VARIABLES
    game, backup, staging,  \* game/, game.old/ and <sidecar>/update/game.new/
    temps,                  \* each process's .game.promote-* copy
    marker,                 \* update.state: "none", or the step it records
    applyHolder,            \* the process that holds apply.lock, or None
    pc,                     \* where this process is
    mode,                   \* how this process was started
    job,                    \* which promotion this process is running
    copied                  \* the files copyTree has written so far

disk == <<game, backup, staging, temps, marker>>
vars == <<game, backup, staging, temps, marker, applyHolder, pc, mode, job, copied>>

-----------------------------------------------------------------------------
(* Trees *)

Tree == [rel : Releases \cup {None}, parts : SUBSET Parts]
NoTree == [rel |-> None, parts |-> {}]

Exists(t) == t.rel # None
Complete(t) == Exists(t) /\ t.parts = Parts

\* os.RemoveAll, one directory entry at a time: what the next unlink leaves.
RemoveOne(t) ==
    IF t.parts = {} THEN {NoTree}
    ELSE {[t EXCEPT !.parts = @ \ {p}] : p \in t.parts}

\* Only the staging tree of a start that resolved a sidecar is visible to it:
\* an empty stagingRoot makes game.new/ "simply not exist".
SidecarFound == mode \in {"normal", "repair", "repairing"}
StagingSeen == SidecarFound /\ Exists(staging)

-----------------------------------------------------------------------------
(* Control points.  Jobs name the four callers of promoteDir: Swap, and    *)
(* three branches of Recover.                                              *)

Modes == {"normal", "repair", "repairing", "no_sidecar", "fast_path"}
Jobs == {"swap", "forward", "roll_forward", "roll_back"}

RecoverPoints == {"debris", "decide", "promote", "copy", "drop_source",
                  "rf_drop_backup", "rf_move_aside", "rb_drop_game",
                  "clean_staging", "clear_marker"}
SwapPoints == {"swap_check", "swap_begin", "swap_drop_backup",
               "swap_move_aside", "swap_put_back", "swap_promoted",
               "swap_abort_clear"}
ApplyPoints == {"stage_clean", "extract", "staged", "stage_drop"}
OtherPoints == {"down", "recovered", "recover_failed",
                "applied", "swap_failed", "apply_done", "resolve", "serve",
                "retire"}
Points == RecoverPoints \cup SwapPoints \cup ApplyPoints \cup OtherPoints

Goto(p) == pc' = p
MayFail(kind) == kind \in Faults

\* os.RemoveAll(tree), one entry per step; a failure leaves the rest in place.
RemoveAll(tree, treeNext, done, failed) ==
    \/ Exists(tree) /\ treeNext \in RemoveOne(tree) /\ UNCHANGED pc
    \/ ~Exists(tree) /\ treeNext = tree /\ Goto(done)
    \/ MayFail("remove_tree") /\ Exists(tree) /\ treeNext = tree /\ Goto(failed)

\* os.Rename(src, dst) of a directory onto a name that must be free.
Rename(src, srcNext, dst, dstNext, done, failed) ==
    \/ /\ Exists(src) /\ ~Exists(dst)
       /\ dstNext = src /\ srcNext = NoTree /\ Goto(done)
    \/ /\ MayFail("rename") \/ ~Exists(src) \/ Exists(dst)
       /\ dstNext = dst /\ srcNext = src /\ Goto(failed)

TypeOK ==
    /\ {game, backup, staging} \subseteq Tree
    /\ temps \in [Launchers -> Tree]
    /\ marker \in {"none", "begin", "promoted"}
    /\ applyHolder \in Launchers \cup {None}
    /\ pc \in Points
    /\ mode \in Modes
    /\ job \in Jobs
    /\ copied \subseteq Parts

Init ==
    /\ \E r \in Releases : game = [rel |-> r, parts |-> Parts]
    /\ backup = NoTree /\ staging = NoTree
    /\ temps = [l \in Launchers |-> NoTree]
    /\ marker = "none"
    /\ applyHolder = None
    /\ pc = "down" /\ mode = "normal" /\ job = "swap" /\ copied = {}

-----------------------------------------------------------------------------
(* A process starts, and stops *)

\* run() of main.go reaches Startup with a staging root ("normal", or
\* "repair" under --repair), without one because no writable sidecar was
\* found ("no_sidecar"), or without one on purpose because it only answers
\* --check-port or --diagnostics ("fast_path").
Start ==
    /\ pc = "down"
    /\ mode' \in StartModes
    /\ Goto("debris")
    /\ UNCHANGED <<disk, applyHolder, job, copied>>

\* Recover first removes what an interrupted copy left beside game/.  One it
\* cannot remove is logged, and never looked at again: MkdirTemp takes a new name.
RemovePromoteDebris ==
    /\ pc = "debris"
    /\ temps' = [l \in Launchers |-> NoTree]
    /\ Goto("decide")
    /\ UNCHANGED <<game, backup, staging, marker, applyHolder, mode, job, copied>>

\* A crash, a power loss or a kill, between any two file operations: the disk
\* stays as it is and the operating system drops the apply lock.
Crash ==
    /\ pc # "down"
    /\ Goto("down")
    /\ applyHolder' = IF applyHolder = Self THEN None ELSE applyHolder
    /\ UNCHANGED <<disk, mode, job, copied>>

-----------------------------------------------------------------------------
(* Recover: one decision, taken from which directories exist *)

\* Faulty variant: a game.old/ beside game/ reads as an interrupted swap,
\* marker or not.
RecoverBranchIgnoresMarker ==
    CASE ~Exists(game) -> IF StagingSeen \/ Exists(backup) THEN "promote" ELSE "recover_failed"
      [] Exists(game) /\ Exists(backup) ->
            IF StagingSeen THEN "rf_drop_backup"
            ELSE IF marker = "begin" THEN "rb_drop_game" ELSE "clear_marker"
      [] OTHER -> IF StagingSeen THEN "clean_staging" ELSE "clear_marker"

\* Faulty variant: the marker's step is never read.
RecoverBranchIgnoresPromoted ==
    CASE ~Exists(game) -> IF StagingSeen \/ Exists(backup) THEN "promote" ELSE "recover_failed"
      [] Exists(game) /\ Exists(backup) /\ marker # "none" ->
            IF StagingSeen THEN "rf_drop_backup" ELSE "rb_drop_game"
      [] OTHER -> IF StagingSeen THEN "clean_staging" ELSE "clear_marker"

\* Faulty variant: an interrupted swap is always taken back.
RecoverBranchAlwaysRollsBack ==
    CASE ~Exists(game) -> IF StagingSeen \/ Exists(backup) THEN "promote" ELSE "recover_failed"
      [] Exists(game) /\ Exists(backup) /\ marker = "begin" -> "rb_drop_game"
      [] OTHER -> IF StagingSeen THEN "clean_staging" ELSE "clear_marker"

\* The next point for what Recover finds, in the order of its switch.
RecoverBranch ==
    CASE StagingSeen /\ ~Exists(game)     -> "promote"
      [] ~StagingSeen /\ ~Exists(game) /\ Exists(backup) -> "promote"
      [] Exists(game) /\ Exists(backup) /\ marker # "none" ->
            IF StagingSeen THEN "rf_drop_backup"
            ELSE IF marker = "promoted" THEN "clear_marker" ELSE "rb_drop_game"
      [] marker # "none" /\ ~StagingSeen /\ ~Exists(game) /\ ~Exists(backup) ->
            "recover_failed"
      [] OTHER ->
            IF StagingSeen THEN "clean_staging"
            ELSE IF marker # "none" THEN "clear_marker" ELSE "recovered"

\* Which promotion the chosen branch runs.
RecoverJob ==
    IF Exists(game) /\ StagingSeen THEN "roll_forward"
    ELSE IF StagingSeen THEN "forward"
    ELSE "roll_back"

Decide ==
    /\ pc = "decide"
    /\ Goto(RecoverBranch)
    /\ job' = RecoverJob
    /\ UNCHANGED <<disk, applyHolder, mode, copied>>

\* Branch 3, staging there: finish the swap exactly as Swap would have.
RollForwardDropBackup ==
    /\ pc = "rf_drop_backup"
    /\ RemoveAll(backup, backup', "rf_move_aside", "recover_failed")
    /\ UNCHANGED <<game, staging, temps, marker, applyHolder, mode, job, copied>>

RollForwardMoveAside ==
    /\ pc = "rf_move_aside"
    /\ Rename(game, game', backup, backup', "promote", "recover_failed")
    /\ UNCHANGED <<staging, temps, marker, applyHolder, mode, job, copied>>

\* Branch 3, staging gone and no promotion recorded: discard game/.
RollBackDropGame ==
    /\ pc = "rb_drop_game"
    /\ RemoveAll(game, game', "promote", "recover_failed")
    /\ UNCHANGED <<backup, staging, temps, marker, applyHolder, mode, job, copied>>

\* Faulty variant: the marker outlives the staging tree it announced.
CleanStagingKeepsMarker ==
    /\ pc = "clean_staging"
    /\ RemoveAll(staging, staging', "recovered", "recover_failed")
    /\ UNCHANGED <<game, backup, temps, marker, applyHolder, mode, job, copied>>

\* Faulty variant: a staging tree that cannot be removed is looked at again.
CleanStagingRetries ==
    /\ pc = "clean_staging"
    /\ RemoveAll(staging, staging',
                 IF marker # "none" THEN "clear_marker" ELSE "recovered", "decide")
    /\ UNCHANGED <<game, backup, temps, marker, applyHolder, mode, job, copied>>

\* The last two branches: a game.new/ is debris.
CleanStaging ==
    /\ pc = "clean_staging"
    /\ RemoveAll(staging, staging',
                 IF marker # "none" THEN "clear_marker" ELSE "recovered", "recover_failed")
    /\ UNCHANGED <<game, backup, temps, marker, applyHolder, mode, job, copied>>

\* clearState: a marker that cannot be removed is logged and left.
ClearMarker ==
    /\ pc = "clear_marker"
    /\ \/ marker' = "none"
       \/ MayFail("clear_marker") /\ UNCHANGED marker
    /\ Goto(IF job = "swap" THEN "applied" ELSE "recovered")
    /\ UNCHANGED <<game, backup, staging, temps, applyHolder, mode, job, copied>>

-----------------------------------------------------------------------------
(* promoteDir: a rename, or a copy beside game/ when the volumes differ    *)

\* Where each job goes when its promotion is done, and when it is not.
PromoteDone == IF job = "swap" THEN "swap_promoted" ELSE "clear_marker"
PromoteError ==
    IF job \in {"swap", "roll_forward"} THEN "swap_put_back" ELSE "recover_failed"

\* The rename.  game.old/ is on the game folder's volume, so only a staging
\* tree can meet EXDEV; the fallback then makes an empty copy directory.
PromoteRename ==
    /\ pc = "promote"
    /\ \/ /\ job = "roll_back"
          /\ Rename(backup, backup', game, game', PromoteDone, PromoteError)
          /\ UNCHANGED <<staging, temps, copied>>
       \/ /\ job # "roll_back" /\ ~CrossDevice
          /\ Rename(staging, staging', game, game', PromoteDone, PromoteError)
          /\ UNCHANGED <<backup, temps, copied>>
       \/ /\ job # "roll_back" /\ CrossDevice
          /\ temps' = [temps EXCEPT ![Self] = [rel |-> staging.rel, parts |-> {}]]
          /\ copied' = {}
          /\ Goto("copy")
          /\ UNCHANGED <<game, backup, staging>>
    /\ UNCHANGED <<marker, applyHolder, mode, job>>

\* copyTree: the files of the staging tree, one after the other, each synced.
CopyFile ==
    /\ pc = "copy"
    /\ \E p \in staging.parts \ copied :
          /\ temps' = [temps EXCEPT ![Self] =
                         [rel |-> staging.rel, parts |-> @.parts \cup {p}]]
          /\ copied' = copied \cup {p}
    /\ UNCHANGED <<game, backup, staging, marker, applyHolder, pc, mode, job>>

\* Faulty variant: a file that cannot be copied is skipped.
CopyFailsSkips ==
    /\ pc = "copy" /\ MayFail("copy")
    /\ \E p \in staging.parts \ copied : copied' = copied \cup {p}
    /\ UNCHANGED <<game, backup, staging, temps, marker, applyHolder, pc, mode, job>>

\* MkdirTemp or a copy failed: the copy is removed and the error returned.
CopyFails ==
    /\ pc = "copy" /\ MayFail("copy")
    /\ temps' = [temps EXCEPT ![Self] = NoTree]
    /\ Goto(PromoteError)
    /\ UNCHANGED <<game, backup, staging, marker, applyHolder, mode, job, copied>>

\* Everything is copied: the copy is renamed into place, in one step.
CopyRename ==
    /\ pc = "copy" /\ staging.parts \subseteq copied
    /\ ~Exists(game)
    /\ game' = temps[Self]
    /\ temps' = [temps EXCEPT ![Self] = NoTree]
    /\ Goto("drop_source")
    /\ UNCHANGED <<backup, staging, marker, applyHolder, mode, job, copied>>

\* The source goes last; what cannot be removed is logged and left.
DropSource ==
    /\ pc = "drop_source"
    /\ RemoveAll(staging, staging', PromoteDone, PromoteDone)
    /\ UNCHANGED <<game, backup, temps, marker, applyHolder, mode, job, copied>>

\* A failed promotion of Swap, or of the roll-forward: game.old/ goes back if
\* it can.  Swap then clears the marker; Recover never does.
PutBack ==
    /\ pc = "swap_put_back"
    /\ Rename(backup, backup', game, game',
              IF job = "swap" THEN "swap_abort_clear" ELSE "recover_failed",
              IF job = "swap" THEN "swap_failed" ELSE "recover_failed")
    /\ UNCHANGED <<staging, temps, marker, applyHolder, mode, job, copied>>

-----------------------------------------------------------------------------
(* Swap *)

SwapCheck ==
    /\ pc = "swap_check"
    /\ Goto(IF Exists(staging) /\ Exists(game) THEN "swap_begin" ELSE "swap_failed")
    /\ job' = "swap"
    /\ UNCHANGED <<disk, applyHolder, mode, copied>>

\* Faulty variant: the swap goes on without its marker.
SwapBeginUnmarked ==
    /\ pc = "swap_begin"
    /\ \/ marker' = "begin"
       \/ MayFail("write_marker") /\ UNCHANGED marker
    /\ Goto("swap_drop_backup")
    /\ UNCHANGED <<game, backup, staging, temps, applyHolder, mode, job, copied>>

\* writeState is atomic: the marker is either the new one or what was there.
SwapBegin ==
    /\ pc = "swap_begin"
    /\ \/ marker' = "begin" /\ Goto("swap_drop_backup")
       \/ MayFail("write_marker") /\ UNCHANGED marker /\ Goto("swap_failed")
    /\ UNCHANGED <<game, backup, staging, temps, applyHolder, mode, job, copied>>

SwapDropBackup ==
    /\ pc = "swap_drop_backup"
    /\ RemoveAll(backup, backup', "swap_move_aside", "swap_abort_clear")
    /\ UNCHANGED <<game, staging, temps, marker, applyHolder, mode, job, copied>>

SwapMoveAside ==
    /\ pc = "swap_move_aside"
    /\ Rename(game, game', backup, backup', "promote", "swap_abort_clear")
    /\ UNCHANGED <<staging, temps, marker, applyHolder, mode, job, copied>>

\* Faulty variant: the promotion is recorded and the marker is left.
SwapPromotedKeepsMarker ==
    /\ pc = "swap_promoted"
    /\ \/ marker' = "promoted"
       \/ MayFail("write_marker") /\ UNCHANGED marker
    /\ Goto("applied")
    /\ UNCHANGED <<game, backup, staging, temps, applyHolder, mode, job, copied>>

\* Faulty variant: a step name that readState does not know.
SwapPromotedMisnamed ==
    /\ pc = "swap_promoted"
    /\ marker' = "done"
    /\ Goto("clear_marker")
    /\ UNCHANGED <<game, backup, staging, temps, applyHolder, mode, job, copied>>

\* The promotion is recorded before the marker goes; a failure is logged.
SwapPromoted ==
    /\ pc = "swap_promoted"
    /\ \/ marker' = "promoted"
       \/ MayFail("write_marker") /\ UNCHANGED marker
    /\ Goto("clear_marker")
    /\ UNCHANGED <<game, backup, staging, temps, applyHolder, mode, job, copied>>

SwapAbortClear ==
    /\ pc = "swap_abort_clear"
    /\ \/ marker' = "none"
       \/ MayFail("clear_marker") /\ UNCHANGED marker
    /\ Goto("swap_failed")
    /\ UNCHANGED <<game, backup, staging, temps, applyHolder, mode, job, copied>>

-----------------------------------------------------------------------------
(* The part of Startup around them: Apply's staging, then the layout check *)

\* Apply runs whatever Recover returned, once its gates and its download have
\* passed; only a start that resolved a sidecar can have a pending update.
BeginApply ==
    /\ pc \in {"recovered", "recover_failed"}
    /\ mode \in {"normal", "repair"}
    /\ applyHolder = None
    /\ applyHolder' = Self
    /\ Goto("stage_clean")
    /\ UNCHANGED <<disk, mode, job, copied>>

\* No pending update, a gate that refused it, or an apply.lock held elsewhere.
SkipApply ==
    /\ pc \in {"recovered", "recover_failed"} /\ mode # "repairing"
    /\ Goto("resolve")
    /\ UNCHANGED <<disk, applyHolder, mode, job, copied>>

\* runRepair ran Recover once more, past the layout check; its error is fatal.
EndRepair ==
    /\ pc \in {"recovered", "recover_failed"} /\ mode = "repairing"
    /\ Goto(IF pc = "recovered" THEN "serve" ELSE "down")
    /\ UNCHANGED <<disk, applyHolder, mode, job, copied>>

StageClean ==
    /\ pc = "stage_clean"
    /\ RemoveAll(staging, staging', "extract", "apply_done")
    /\ UNCHANGED <<game, backup, temps, marker, applyHolder, mode, job, copied>>

\* Extract: the directory, then one verified and synced file after the other.
ExtractFile ==
    /\ pc = "extract"
    /\ \/ /\ ~Exists(staging)
          /\ \E r \in Releases : staging' = [rel |-> r, parts |-> {}]
       \/ /\ Exists(staging)
          /\ \E p \in Parts \ staging.parts :
                staging' = [staging EXCEPT !.parts = @ \cup {p}]
    /\ UNCHANGED <<game, backup, temps, marker, applyHolder, pc, mode, job, copied>>

ExtractEnds ==
    /\ pc = "extract"
    /\ \/ Complete(staging) /\ Goto("staged")
       \/ MayFail("extract") /\ Goto("stage_drop")
    /\ UNCHANGED <<disk, applyHolder, mode, job, copied>>

\* A cancel, a data/ that changed or a config that does not merge abandons the
\* staged release; otherwise Swap is called.
AfterStaging ==
    /\ pc = "staged"
    /\ \/ Goto("swap_check")
       \/ Goto("stage_drop")
    /\ UNCHANGED <<disk, applyHolder, mode, job, copied>>

StageDrop ==
    /\ pc = "stage_drop"
    /\ RemoveAll(staging, staging', "apply_done", "apply_done")
    /\ UNCHANGED <<game, backup, temps, marker, applyHolder, mode, job, copied>>

LeaveApply ==
    /\ pc \in {"applied", "swap_failed", "apply_done"}
    /\ applyHolder' = None
    /\ Goto("resolve")
    /\ UNCHANGED <<disk, mode, job, copied>>

\* paths.Resolve: game/index.html is all the layout check asks of game/.  A
\* start that fails it, or that only answers a question, ends here; --repair
\* goes on to a second Recover.
LayoutOK == Exists(game) /\ IndexFile \in game.parts

Resolve ==
    /\ pc = "resolve"
    /\ \/ LayoutOK /\ mode = "repair" /\ Goto("debris") /\ mode' = "repairing"
       \/ LayoutOK /\ mode \in {"normal", "no_sidecar"} /\ Goto("serve") /\ UNCHANGED mode
       \/ (~LayoutOK \/ mode = "fast_path") /\ Goto("down") /\ UNCHANGED mode
    /\ UNCHANGED <<disk, applyHolder, job, copied>>

\* The second good start of a release retires game.old/ from the heartbeat
\* handler; the count itself is left open.
BeginRetire ==
    /\ pc = "serve" /\ SidecarFound /\ Exists(game) /\ Exists(backup)
    /\ Goto("retire")
    /\ UNCHANGED <<disk, applyHolder, mode, job, copied>>

RetireBackup ==
    /\ pc = "retire"
    /\ RemoveAll(backup, backup', "serve", "serve")
    /\ UNCHANGED <<game, staging, temps, marker, applyHolder, mode, job, copied>>

Exit ==
    /\ pc = "serve"
    /\ Goto("down")
    /\ UNCHANGED <<disk, applyHolder, mode, job, copied>>

-----------------------------------------------------------------------------

RecoverStep ==
    \/ RemovePromoteDebris \/ Decide
    \/ RollForwardDropBackup \/ RollForwardMoveAside
    \/ RollBackDropGame \/ CleanStaging \/ ClearMarker

PromoteStep ==
    \/ PromoteRename \/ CopyFile \/ CopyFails \/ CopyRename \/ DropSource \/ PutBack

SwapStep ==
    \/ SwapCheck \/ SwapBegin \/ SwapDropBackup \/ SwapMoveAside
    \/ SwapPromoted \/ SwapAbortClear

ApplyStep ==
    \/ BeginApply \/ SkipApply \/ EndRepair \/ StageClean \/ ExtractFile \/ ExtractEnds
    \/ AfterStaging \/ StageDrop \/ LeaveApply

\* What the startup pass does by itself, once it has been started.
StartupStep == RecoverStep \/ PromoteStep \/ SwapStep \/ ApplyStep \/ Resolve

ServeStep == BeginRetire \/ RetireBackup \/ Exit

Next == Start \/ StartupStep \/ ServeStep \/ Crash

Spec == Init /\ [][Next]_vars

\* A process that is running takes its next step; nobody has to start one,
\* stop one or spare it a crash.
FairSpec == Spec /\ WF_vars(StartupStep)

-----------------------------------------------------------------------------
(* Safety *)

\* "A half-swapped game/ MUST be detectable" (FR-UPD-4): whenever game/ is not
\* a whole release, the marker is there for the next start to find.
MarkerCoversGap == ~Complete(game) => marker # "none"

\* Whatever the order of crashes and restarts, a whole release is in game/ or
\* in game.old/: nothing a later start does can need the staging tree.
ReleaseSurvives == Complete(game) \/ Complete(backup)

\* The layout check only looks for index.html, and yet a launcher that goes on
\* to serve has a whole release, with no swap left that a later start undoes.
ServedReleaseWhole == pc = "serve" => Complete(game) /\ marker = "none"

\* Apply "trusts Recover's postcondition" (Updater-spec R7.6): a folder with
\* game/ present, no swap marker, and no staged tree to mistake for its own.
RecoverPostcondition ==
    pc = "recovered" => marker = "none" /\ Exists(game) /\ ~Exists(staging)

\* "Roll forward if game.new/ is intact" (Launcher-spec 19.4, swap.go:287):
\* Recover discards game.old/ or fills game/ only from a whole staged release.
RollForwardIntact ==
    /\ pc = "rf_drop_backup" => Complete(staging)
    /\ pc = "promote" /\ job \in {"forward", "roll_forward"} => Complete(staging)

-----------------------------------------------------------------------------
(* Why they hold: what the protocol keeps true of the disk between any two  *)
(* file operations, and of the disk at each control point.  Both assume a   *)
(* sidecar on the game folder's own volume, that every start finds, and     *)
(* that only a marker write or an extraction may fail (Sheltered); the runs *)
(* and the README show what each of the three is needed for.                *)

Sheltered ==
    /\ ~CrossDevice
    /\ StartModes \subseteq {"normal", "repair"}
    /\ Faults \subseteq {"write_marker", "extract"}

\* Every arrangement a crash can leave is one Recover can read: a roll-forward
\* finds a whole game.new/, a roll-back finds a whole game.old/.
DiskInv ==
    /\ ReleaseSurvives
    /\ ~Complete(game) => marker = "begin"
    /\ ~Exists(game) /\ Exists(staging) => Complete(staging)
    /\ Exists(game) /\ Exists(staging) => Complete(game)
    /\ marker # "none" /\ Exists(game) /\ Exists(backup) =>
          IF Exists(staging) THEN Complete(staging)
          ELSE marker = "begin" => Complete(backup)
    /\ marker = "promoted" => Complete(game) /\ ~Exists(staging)

UnmarkedPoints ==
    {"recovered", "stage_clean", "extract", "staged", "stage_drop", "swap_check",
     "swap_begin", "applied", "swap_failed", "apply_done", "resolve", "serve",
     "retire"}

ControlInv ==
    /\ pc \notin {"copy", "drop_source", "swap_put_back", "swap_abort_clear",
                  "recover_failed"}
    /\ pc \in UnmarkedPoints => marker = "none"
    /\ pc \in {"recovered", "applied"} => ~Exists(staging)
    /\ pc \in {"staged", "swap_check", "swap_begin"} => Complete(staging)
    /\ pc \in {"swap_drop_backup", "swap_move_aside", "rf_drop_backup", "rf_move_aside"} =>
          marker = "begin" /\ Complete(game) /\ Complete(staging)
    /\ pc \in {"swap_move_aside", "rf_move_aside"} => ~Exists(backup)
    /\ pc = "promote" =>
          /\ marker = "begin" /\ ~Exists(game) /\ Complete(backup)
          /\ IF job = "roll_back" THEN ~Exists(staging) ELSE Complete(staging)
    /\ pc = "rb_drop_game" =>
          marker = "begin" /\ ~Exists(staging) /\ Complete(backup) /\ job = "roll_back"
    /\ pc = "clean_staging" => Complete(game) /\ (marker # "none" => ~Exists(backup))
    /\ pc = "swap_promoted" =>
          marker = "begin" /\ Complete(game) /\ Complete(backup) /\ ~Exists(staging)
    /\ pc = "clear_marker" => Complete(game) /\ ~Exists(staging)
    /\ pc \in {"swap_begin", "swap_drop_backup", "swap_move_aside", "swap_promoted"} =>
          job = "swap"
    /\ pc \in {"rf_drop_backup", "rf_move_aside"} => job = "roll_forward"
    /\ pc = "clean_staging" => job # "swap"

SwapInv == TypeOK /\ SidecarFound /\ DiskInv /\ ControlInv

-----------------------------------------------------------------------------
(* What a step may never do *)

\* "The launcher writes update.state before touching directories" (FR-UPD-4):
\* in every kind of start and with every kind of failing file operation, a
\* whole game/ is moved or deleted only under a marker.
MarkerBeforeMove ==
    [][Complete(game) /\ ~Complete(game') => marker # "none"]_vars

\* The promotion "is still one atomic step" across volumes (movedir.go:39): a
\* game/ that appears is all of the tree it was promoted from, whatever an
\* earlier interrupted copy left beside it.
PromotionAtomic ==
    [][~Exists(game) /\ Exists(game') => game' \in {staging, backup}]_vars

\* --check-port and --diagnostics "must not mutate the install" (main.go:211):
\* a start that only answers a question leaves a whole release in game/ or in
\* game.old/ where there was one.
FastPathKeepsRelease ==
    [][mode = "fast_path" /\ ReleaseSurvives => ReleaseSurvives']_vars

-----------------------------------------------------------------------------
(* Liveness *)

\* A failure to recover or to apply "must not stop the launcher" (R7.9): every
\* start gets through its startup pass, to serving or to an exit.
StartupEnds == pc = "debris" ~> pc \in {"serve", "down"}

\* How many stages a start has still before it.  promoteDir and clearState are
\* stages of Recover (13 higher) and of Swap; --repair has a second pass to make.
Pass ==
    CASE pc \in {"down", "serve", "retire"}                        -> 0
      [] pc = "resolve"                                            -> 1
      [] pc \in {"applied", "swap_failed", "apply_done"}           -> 2
      [] pc \in {"stage_drop", "swap_abort_clear", "clear_marker"} -> 3
      [] pc \in {"swap_promoted", "swap_put_back"}                 -> 4
      [] pc = "drop_source"                                        -> 5
      [] pc = "copy"                                               -> 6
      [] pc = "promote"                                            -> 7
      [] pc = "swap_move_aside"                                    -> 8
      [] pc = "swap_drop_backup"                                   -> 9
      [] pc = "swap_begin"                                         -> 10
      [] pc = "swap_check"                                         -> 11
      [] pc = "staged"                                             -> 12
      [] pc = "extract"                                            -> 13
      [] pc = "stage_clean"                                        -> 14
      [] pc \in {"recovered", "recover_failed"}                    -> 15
      [] pc = "clean_staging"                                      -> 17
      [] pc \in {"rf_move_aside", "rb_drop_game"}                  -> 21
      [] pc = "rf_drop_backup"                                     -> 22
      [] pc = "decide"                                             -> 23
      [] pc = "debris"                                             -> 24
InRecover ==
    /\ pc \in {"promote", "copy", "drop_source", "swap_put_back", "clear_marker"}
    /\ job # "swap"
StageLeft ==
    Pass + (IF InRecover THEN 13 ELSE 0) + (IF mode = "repair" THEN 25 ELSE 0)

\* The files a stage that goes from file to file has still before it.
Size(t) == IF Exists(t) THEN Cardinality(t.parts) + 1 ELSE 0
FilesLeft ==
    CASE pc \in {"rf_drop_backup", "swap_drop_backup"} -> Size(backup)
      [] pc = "rb_drop_game" -> Size(game)
      [] pc \in {"clean_staging", "stage_clean", "stage_drop", "drop_source"} -> Size(staging)
      [] pc = "extract" ->
            IF Exists(staging) THEN Cardinality(Parts \ staging.parts)
            ELSE Cardinality(Parts) + 1
      [] pc = "copy" -> Cardinality(staging.parts \ copied)
      [] OTHER -> 0

\* A start goes down through its stages and, within one, through its files: it
\* never comes back to where it was, whichever file operations fail (a failure is
\* reported once and startup continues, startup.go:68).
StartupDescends ==
    [][StartupStep =>
          \/ StageLeft' < StageLeft
          \/ StageLeft' = StageLeft /\ FilesLeft' < FilesLeft]_vars

-----------------------------------------------------------------------------
(* The abstraction: which release the directories stand for *)

currentRelease ==
    IF Complete(game) THEN game.rel
    ELSE IF Complete(backup) THEN backup.rel ELSE None
fallbackRelease ==
    IF Complete(game) /\ Complete(backup) THEN backup.rel ELSE None
\* The window in which Recover may take a finished promotion back.
settledRelease == ~(marker = "begin" /\ ~Exists(staging) /\ Exists(backup))

Installed == INSTANCE InstalledRelease WITH
                Shared <- FALSE, current <- currentRelease, fallback <- fallbackRelease,
                settled <- settledRelease

\* The directory protocol installs, keeps and rolls back releases as
\* InstalledRelease says, whatever is interrupted.
ImplementsInstalledRelease == Installed!Spec
=============================================================================
