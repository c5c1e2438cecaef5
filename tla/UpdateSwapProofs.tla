--------------------------- MODULE UpdateSwapProofs ---------------------------
(***************************************************************************)
(* Proofs about UpdateSwap, for any releases, any files and any number of  *)
(* crashes: type correctness, and that SwapInv is inductive, from which    *)
(* the safety properties the runs check on a small instance follow.        *)
(***************************************************************************)
EXTENDS UpdateSwap, FiniteSetTheorems, TLAPS

-----------------------------------------------------------------------------
(* Lemmas about the file operations the actions are built from *)

\* os.RemoveAll turns a tree into a smaller tree or into no tree.
LEMMA RemoveAllType ==
    ASSUME NEW t \in Tree, NEW u, NEW done, NEW failed,
           RemoveAll(t, u, done, failed)
    PROVE  u \in Tree
  BY SwapConstants DEF RemoveAll, RemoveOne, Tree, NoTree, Exists

\* os.Rename moves a tree or changes nothing.
LEMMA RenameType ==
    ASSUME NEW s \in Tree, NEW s2, NEW d \in Tree, NEW d2, NEW done, NEW failed,
           Rename(s, s2, d, d2, done, failed)
    PROVE  s2 \in Tree /\ d2 \in Tree
  BY DEF Rename, Tree, NoTree

-----------------------------------------------------------------------------
(* Type correctness *)

\* The folder starts with one whole release and nothing else: well typed.
LEMMA TypeInit == Init => TypeOK
  BY SwapConstants DEF Init, TypeOK, Tree, NoTree, Points, OtherPoints, Modes, Jobs

\* Recover only moves and empties trees of the right type.
LEMMA TypeRecover == TypeOK /\ RecoverStep => TypeOK'
  <1> SUFFICES ASSUME TypeOK, RecoverStep PROVE TypeOK'
      OBVIOUS
  <1> USE SwapConstants DEF TypeOK, Points, RecoverPoints, SwapPoints, ApplyPoints,
          OtherPoints, Goto
  <1>1. CASE RemovePromoteDebris
      BY <1>1 DEF RemovePromoteDebris, NoTree, Tree
  <1>2. CASE Decide
      BY <1>2 DEF Decide, disk, RecoverBranch, RecoverJob, Jobs
  <1>3. CASE RollForwardDropBackup
    <2>1. backup' \in Tree
        BY <1>3, RemoveAllType DEF RollForwardDropBackup
    <2> QED BY <1>3, <2>1 DEF RollForwardDropBackup, RemoveAll
  <1>4. CASE RollForwardMoveAside
    <2>1. game' \in Tree /\ backup' \in Tree
        BY <1>4, RenameType DEF RollForwardMoveAside
    <2> QED BY <1>4, <2>1 DEF RollForwardMoveAside, Rename
  <1>5. CASE RollBackDropGame
    <2>1. game' \in Tree
        BY <1>5, RemoveAllType DEF RollBackDropGame
    <2> QED BY <1>5, <2>1 DEF RollBackDropGame, RemoveAll
  <1>6. CASE CleanStaging
    <2>1. staging' \in Tree
        BY <1>6, RemoveAllType DEF CleanStaging
    <2> QED BY <1>6, <2>1 DEF CleanStaging, RemoveAll
  <1>7. CASE ClearMarker
      BY <1>7 DEF ClearMarker
  <1> QED BY <1>1, <1>2, <1>3, <1>4, <1>5, <1>6, <1>7 DEF RecoverStep

\* A copy made file by file is a tree at each of its steps.
LEMMA TypePromote == TypeOK /\ PromoteStep => TypeOK'
  <1> SUFFICES ASSUME TypeOK, PromoteStep PROVE TypeOK'
      OBVIOUS
  <1> USE SwapConstants DEF TypeOK, Points, RecoverPoints, SwapPoints, ApplyPoints,
          OtherPoints, Goto, PromoteDone, PromoteError
  <1>1. CASE PromoteRename
    <2>1. game' \in Tree /\ backup' \in Tree /\ staging' \in Tree
        BY <1>1, RenameType DEF PromoteRename
    <2>2. temps' \in [Launchers -> Tree]
        BY <1>1 DEF PromoteRename, Tree
    <2> QED BY <1>1, <2>1, <2>2 DEF PromoteRename, Rename
  <1>2. CASE CopyFile
      BY <1>2 DEF CopyFile, Tree
  <1>3. CASE CopyFails
      BY <1>3 DEF CopyFails, Tree, NoTree
  <1>4. CASE CopyRename
      BY <1>4 DEF CopyRename, Tree, NoTree
  <1>5. CASE DropSource
    <2>1. staging' \in Tree
        BY <1>5, RemoveAllType DEF DropSource
    <2> QED BY <1>5, <2>1 DEF DropSource, RemoveAll
  <1>6. CASE PutBack
    <2>1. game' \in Tree /\ backup' \in Tree
        BY <1>6, RenameType DEF PutBack
    <2> QED BY <1>6, <2>1 DEF PutBack, Rename
  <1> QED BY <1>1, <1>2, <1>3, <1>4, <1>5, <1>6 DEF PromoteStep

\* Swap and its marker stay in their types.
LEMMA TypeSwap == TypeOK /\ SwapStep => TypeOK'
  <1> SUFFICES ASSUME TypeOK, SwapStep PROVE TypeOK'
      OBVIOUS
  <1> USE SwapConstants DEF TypeOK, Points, RecoverPoints, SwapPoints, ApplyPoints,
          OtherPoints, Goto, disk
  <1>1. CASE SwapCheck
      BY <1>1 DEF SwapCheck, Jobs
  <1>2. CASE SwapBegin
      BY <1>2 DEF SwapBegin
  <1>3. CASE SwapDropBackup
    <2>1. backup' \in Tree
        BY <1>3, RemoveAllType DEF SwapDropBackup
    <2> QED BY <1>3, <2>1 DEF SwapDropBackup, RemoveAll
  <1>4. CASE SwapMoveAside
    <2>1. game' \in Tree /\ backup' \in Tree
        BY <1>4, RenameType DEF SwapMoveAside
    <2> QED BY <1>4, <2>1 DEF SwapMoveAside, Rename
  <1>5. CASE SwapPromoted
      BY <1>5 DEF SwapPromoted
  <1>6. CASE SwapAbortClear
      BY <1>6 DEF SwapAbortClear
  <1> QED BY <1>1, <1>2, <1>3, <1>4, <1>5, <1>6 DEF SwapStep

\* Apply fills staging with files of one release.
LEMMA TypeApply == TypeOK /\ ApplyStep => TypeOK'
  <1> SUFFICES ASSUME TypeOK, ApplyStep PROVE TypeOK'
      OBVIOUS
  <1> USE SwapConstants DEF TypeOK, Points, RecoverPoints, SwapPoints, ApplyPoints,
          OtherPoints, Goto, disk
  <1>1. CASE BeginApply \/ SkipApply \/ EndRepair
      BY <1>1 DEF BeginApply, SkipApply, EndRepair
  <1>2. CASE StageClean
    <2>1. staging' \in Tree
        BY <1>2, RemoveAllType DEF StageClean
    <2> QED BY <1>2, <2>1 DEF StageClean, RemoveAll
  <1>3. CASE ExtractFile
      BY <1>3 DEF ExtractFile, Tree
  <1>4. CASE ExtractEnds \/ AfterStaging \/ LeaveApply
      BY <1>4 DEF ExtractEnds, AfterStaging, LeaveApply
  <1>5. CASE StageDrop
    <2>1. staging' \in Tree
        BY <1>5, RemoveAllType DEF StageDrop
    <2> QED BY <1>5, <2>1 DEF StageDrop, RemoveAll
  <1> QED BY <1>1, <1>2, <1>3, <1>4, <1>5 DEF ApplyStep

\* Starting, serving, stopping and the layout check.
LEMMA TypeOthers ==
    TypeOK /\ (Start \/ Resolve \/ ServeStep \/ Crash \/ UNCHANGED vars) => TypeOK'
  <1> USE SwapConstants DEF TypeOK, Points, RecoverPoints, SwapPoints, ApplyPoints,
          OtherPoints, Goto, disk, Modes
  <1>1. TypeOK /\ (Start \/ Resolve \/ Crash \/ UNCHANGED vars) => TypeOK'
      BY DEF Start, Resolve, Crash, vars
  <1>2. TypeOK /\ (BeginRetire \/ Exit) => TypeOK'
      BY DEF BeginRetire, Exit
  <1>3. ASSUME TypeOK, RetireBackup PROVE TypeOK'
    <2>1. backup' \in Tree
        BY <1>3, RemoveAllType DEF RetireBackup
    <2> QED BY <1>3, <2>1 DEF RetireBackup, RemoveAll
  <1> QED BY <1>1, <1>2, <1>3 DEF ServeStep

\* No step leaves the types, whatever fails.
LEMMA TypeStep == TypeOK /\ [Next]_vars => TypeOK'
  BY TypeRecover, TypePromote, TypeSwap, TypeApply, TypeOthers DEF Next, StartupStep

\* Every state a launcher can reach, by any order of starts, failing file
\* operations and crashes and on any pair of volumes, is well formed.
THEOREM TypeCorrect == Spec => []TypeOK
  BY TypeInit, TypeStep, PTL DEF Spec

-----------------------------------------------------------------------------
(* The file operations and Recover's decision when the start is Sheltered  *)

\* What Sheltered rules out: the cross-device copy, the failures that are
\* not a marker write or an extraction, and the starts without a sidecar.
LEMMA Shelter ==
    ASSUME Sheltered
    PROVE  /\ ~CrossDevice
           /\ StartModes \subseteq {"normal", "repair"}
           /\ \A k \in {"clear_marker", "rename", "remove_tree", "copy"} : ~MayFail(k)
  BY DEF Sheltered, MayFail

\* A removal that cannot fail takes something away until nothing is left.
LEMMA RemoveAllEffect ==
    ASSUME Sheltered, NEW t \in Tree, NEW u, NEW done, NEW failed,
           RemoveAll(t, u, done, failed)
    PROVE  \/ Exists(t) /\ ~Complete(u) /\ (Exists(u) => u.rel = t.rel) /\ pc' = pc
           \/ ~Exists(t) /\ u = t /\ pc' = done
  BY Shelter DEF RemoveAll, RemoveOne, Goto, Exists, Complete, Tree, NoTree

\* A rename that has what it needs happens, whole.
LEMMA RenameEffect ==
    ASSUME Sheltered, NEW s, NEW s2, NEW d, NEW d2, NEW done, NEW failed,
           Exists(s), ~Exists(d), Rename(s, s2, d, d2, done, failed)
    PROVE  d2 = s /\ s2 = NoTree /\ ~Exists(s2) /\ pc' = done
  BY Shelter DEF Rename, Goto, NoTree, Exists

\* A whole tree is a tree: dirExists would find it.
LEMMA CompleteExists == \A t : Complete(t) => Exists(t)
  BY DEF Complete

\* Recover's switch, read as one implication per destination.
LEMMA RecoverBranchEffect ==
    ASSUME SidecarFound, ReleaseSurvives, marker \in {"none", "begin", "promoted"}
    PROVE  /\ RecoverBranch = "promote" => ~Exists(game)
           /\ RecoverBranch = "rf_drop_backup" =>
                 Exists(game) /\ Exists(backup) /\ Exists(staging) /\ marker # "none"
           /\ RecoverBranch = "rb_drop_game" =>
                 /\ Exists(game) /\ Exists(backup) /\ ~Exists(staging)
                 /\ marker = "begin"
           /\ RecoverBranch = "clean_staging" =>
                 /\ Exists(game) /\ Exists(staging)
                 /\ marker # "none" => ~Exists(backup)
           /\ RecoverBranch = "clear_marker" =>
                 /\ Exists(game) /\ ~Exists(staging) /\ marker # "none"
                 /\ marker = "promoted" \/ ~Exists(backup)
           /\ RecoverBranch = "recovered" =>
                 Exists(game) /\ ~Exists(staging) /\ marker = "none"
           /\ RecoverBranch \in {"promote", "rf_drop_backup", "rb_drop_game",
                                  "clean_staging", "clear_marker", "recovered"}
  <1> USE DEF StagingSeen
  <1>1. CASE ~Exists(game)
    <2>1. Exists(backup)
        BY <1>1, CompleteExists DEF ReleaseSurvives
    <2>2. RecoverBranch = "promote"
        BY <1>1, <2>1 DEF RecoverBranch
    <2> QED BY <1>1, <2>2
  <1>2. CASE Exists(game) /\ Exists(backup) /\ marker # "none"
    <2>1. RecoverBranch = IF Exists(staging) THEN "rf_drop_backup"
                          ELSE IF marker = "promoted" THEN "clear_marker"
                          ELSE "rb_drop_game"
        BY <1>2 DEF RecoverBranch
    <2> QED BY <1>2, <2>1
  <1>3. CASE Exists(game) /\ ~(Exists(backup) /\ marker # "none")
    <2>1. RecoverBranch = IF Exists(staging) THEN "clean_staging"
                          ELSE IF marker # "none" THEN "clear_marker"
                          ELSE "recovered"
        BY <1>3 DEF RecoverBranch
    <2> QED BY <1>3, <2>1
  <1> QED BY <1>1, <1>2, <1>3

-----------------------------------------------------------------------------
(* SwapInv is inductive *)

\* A freshly unpacked folder satisfies the protocol invariant.
LEMMA InvInit == Sheltered /\ Init => SwapInv
  BY TypeInit, SwapConstants
  DEF Init, SwapInv, SidecarFound, DiskInv, ControlInv, ReleaseSurvives, UnmarkedPoints,
      Complete, Exists, NoTree

\* Recover, one case per step: each finds the disk as its branch assumed it
\* and leaves a disk the next start can read.
LEMMA InvRecover == Sheltered /\ SwapInv /\ RecoverStep => SwapInv'
  <1> SUFFICES ASSUME Sheltered, SwapInv, RecoverStep PROVE SwapInv'
      OBVIOUS
  <1>t. TypeOK /\ TypeOK'
      BY TypeRecover DEF SwapInv
  <1>g. game \in Tree /\ backup \in Tree /\ staging \in Tree
        /\ marker \in {"none", "begin", "promoted"}
      BY <1>t DEF TypeOK
  <1> USE CompleteExists DEF SwapInv, DiskInv, ControlInv, ReleaseSurvives, UnmarkedPoints,
          SidecarFound
  <1>1. CASE RemovePromoteDebris
      BY <1>t, <1>1 DEF RemovePromoteDebris, Goto
  <1>2. CASE Decide
    <2>1. UNCHANGED disk /\ mode' = mode /\ pc' = RecoverBranch /\ job' = RecoverJob
        BY <1>2 DEF Decide, Goto
    <2>2. RecoverJob = IF Exists(game) /\ Exists(staging) THEN "roll_forward"
                       ELSE IF Exists(staging) THEN "forward" ELSE "roll_back"
        BY DEF RecoverJob, StagingSeen
    <2>3. DiskInv' /\ SidecarFound'
        BY <2>1 DEF disk
    <2>4. ControlInv'
        BY <1>g, <2>1, <2>2, RecoverBranchEffect DEF disk
    <2> QED BY <1>t, <2>3, <2>4
  <1>3. CASE RollForwardDropBackup
      BY <1>t, <1>g, <1>3, RemoveAllEffect DEF RollForwardDropBackup
  <1>4. CASE RollForwardMoveAside
      BY <1>t, <1>g, <1>4, RenameEffect DEF RollForwardMoveAside
  <1>5. CASE RollBackDropGame
      BY <1>t, <1>g, <1>5, RemoveAllEffect DEF RollBackDropGame
  <1>6. CASE CleanStaging
      BY <1>t, <1>g, <1>6, RemoveAllEffect DEF CleanStaging
  <1>7. CASE ClearMarker
      BY <1>t, <1>g, <1>7, Shelter DEF ClearMarker, Goto
  <1> QED BY <1>1, <1>2, <1>3, <1>4, <1>5, <1>6, <1>7 DEF RecoverStep

\* The promotion, for the swap and for the three branches of Recover.
LEMMA InvPromote == Sheltered /\ SwapInv /\ PromoteStep => SwapInv'
  <1> SUFFICES ASSUME Sheltered, SwapInv, PromoteStep PROVE SwapInv'
      OBVIOUS
  <1>t. TypeOK /\ TypeOK'
      BY TypePromote DEF SwapInv
  <1> USE CompleteExists DEF SwapInv, DiskInv, ControlInv, ReleaseSurvives, UnmarkedPoints,
          SidecarFound
  <1>1. CASE PromoteRename
    <2>1. CASE job = "roll_back"
      <3>1. Rename(backup, backup', game, game', PromoteDone, PromoteError)
            /\ UNCHANGED <<staging, marker, mode, job>>
          BY <1>1, <2>1 DEF PromoteRename
      <3>2. game' = backup /\ ~Exists(backup') /\ pc' = "clear_marker"
          BY <1>1, <2>1, <3>1, RenameEffect DEF PromoteDone, PromoteRename
      <3> QED BY <1>t, <1>1, <2>1, <3>1, <3>2 DEF PromoteRename
    <2>2. CASE job # "roll_back"
      <3>1. Rename(staging, staging', game, game', PromoteDone, PromoteError)
            /\ UNCHANGED <<backup, marker, mode, job>>
          BY <1>1, <2>2, Shelter DEF PromoteRename
      <3>2. game' = staging /\ ~Exists(staging') /\ pc' = PromoteDone
          BY <1>1, <2>2, <3>1, RenameEffect DEF PromoteRename
      <3> QED BY <1>t, <1>1, <2>2, <3>1, <3>2 DEF PromoteRename, PromoteDone
    <2> QED BY <2>1, <2>2
  <1>2. CASE CopyFile \/ CopyFails \/ CopyRename \/ DropSource \/ PutBack
      BY <1>2 DEF CopyFile, CopyFails, CopyRename, DropSource, PutBack
  <1> QED BY <1>1, <1>2 DEF PromoteStep

\* Swap: the marker first, then the backup, then the two moves.
LEMMA InvSwap == Sheltered /\ SwapInv /\ SwapStep => SwapInv'
  <1> SUFFICES ASSUME Sheltered, SwapInv, SwapStep PROVE SwapInv'
      OBVIOUS
  <1>t. TypeOK /\ TypeOK'
      BY TypeSwap DEF SwapInv
  <1>g. backup \in Tree
      BY <1>t DEF TypeOK
  <1> USE CompleteExists DEF SwapInv, DiskInv, ControlInv, ReleaseSurvives, UnmarkedPoints,
          SidecarFound
  <1>1. CASE SwapCheck
      BY <1>t, <1>1 DEF SwapCheck, Goto, disk
  <1>2. CASE SwapBegin
      BY <1>t, <1>2 DEF SwapBegin, Goto
  <1>3. CASE SwapDropBackup
      BY <1>t, <1>g, <1>3, RemoveAllEffect DEF SwapDropBackup
  <1>4. CASE SwapMoveAside
      BY <1>t, <1>4, RenameEffect DEF SwapMoveAside
  <1>5. CASE SwapPromoted
      BY <1>t, <1>5 DEF SwapPromoted, Goto
  <1>6. CASE SwapAbortClear
      BY <1>6 DEF SwapAbortClear
  <1> QED BY <1>1, <1>2, <1>3, <1>4, <1>5, <1>6 DEF SwapStep

\* Staging fills and empties game.new/ while no marker is there.
LEMMA InvApply == Sheltered /\ SwapInv /\ ApplyStep => SwapInv'
  <1> SUFFICES ASSUME Sheltered, SwapInv, ApplyStep PROVE SwapInv'
      OBVIOUS
  <1>t. TypeOK /\ TypeOK'
      BY TypeApply DEF SwapInv
  <1>g. staging \in Tree
      BY <1>t DEF TypeOK
  <1> USE CompleteExists DEF SwapInv, DiskInv, ControlInv, ReleaseSurvives, UnmarkedPoints,
          SidecarFound
  <1>1. CASE BeginApply \/ SkipApply \/ EndRepair
      BY <1>t, <1>1 DEF BeginApply, SkipApply, EndRepair, Goto, disk
  <1>2. CASE StageClean
      BY <1>t, <1>g, <1>2, RemoveAllEffect DEF StageClean
  <1>3. CASE ExtractFile
      BY <1>t, <1>3 DEF ExtractFile
  <1>4. CASE ExtractEnds \/ AfterStaging \/ LeaveApply
      BY <1>t, <1>4 DEF ExtractEnds, AfterStaging, LeaveApply, Goto, disk
  <1>5. CASE StageDrop
      BY <1>t, <1>g, <1>5, RemoveAllEffect DEF StageDrop
  <1> QED BY <1>1, <1>2, <1>3, <1>4, <1>5 DEF ApplyStep

\* A crash keeps the disk part of the invariant; the rest needs no more.
LEMMA InvOthers ==
    Sheltered /\ SwapInv /\ (Start \/ Resolve \/ ServeStep \/ Crash \/ UNCHANGED vars)
        => SwapInv'
  <1> SUFFICES ASSUME Sheltered, SwapInv,
                      Start \/ Resolve \/ ServeStep \/ Crash \/ UNCHANGED vars
               PROVE  SwapInv'
      OBVIOUS
  <1>t. TypeOK /\ TypeOK'
      BY TypeOthers DEF SwapInv
  <1>g. backup \in Tree
      BY <1>t DEF TypeOK
  <1> USE CompleteExists DEF SwapInv, DiskInv, ControlInv, ReleaseSurvives, UnmarkedPoints,
          SidecarFound
  <1>1. CASE Start
      BY <1>t, <1>1, Shelter DEF Start, Goto, disk
  <1>2. CASE Resolve
      BY <1>t, <1>2 DEF Resolve, Goto, disk
  <1>3. CASE BeginRetire \/ Exit
      BY <1>t, <1>3 DEF BeginRetire, Exit, Goto, disk
  <1>4. CASE RetireBackup
      BY <1>t, <1>g, <1>4, RemoveAllEffect DEF RetireBackup
  <1>5. CASE Crash
      BY <1>t, <1>5 DEF Crash, Goto, disk
  <1>6. CASE UNCHANGED vars
      BY <1>t, <1>6 DEF vars
  <1> QED BY <1>1, <1>2, <1>3, <1>4, <1>5, <1>6 DEF ServeStep

\* The protocol invariant is inductive.
LEMMA InvStep == Sheltered /\ SwapInv /\ [Next]_vars => SwapInv'
  BY InvRecover, InvPromote, InvSwap, InvApply, InvOthers DEF Next, StartupStep

\* It therefore holds of every behaviour.
LEMMA InvAlways == ASSUME Sheltered PROVE Spec => []SwapInv
  <1>1. Init => SwapInv
      BY InvInit, Sheltered
  <1>2. SwapInv /\ [Next]_vars => SwapInv'
      BY InvStep, Sheltered
  <1> QED BY <1>1, <1>2, PTL DEF Spec

-----------------------------------------------------------------------------
(* What follows for every sheltered installation *)

\* A game/ that is not a whole release is never without the marker that
\* makes the next start look at it.
THEOREM GapAlwaysMarked == ASSUME Sheltered PROVE Spec => []MarkerCoversGap
  <1>1. SwapInv => MarkerCoversGap
      BY DEF SwapInv, DiskInv, MarkerCoversGap
  <1> QED BY InvAlways, <1>1, PTL

\* However often the swap and its recovery are interrupted, game/ or game.old/
\* is a whole release.
THEOREM ReleaseAlwaysSurvives == ASSUME Sheltered PROVE Spec => []ReleaseSurvives
  <1>1. SwapInv => ReleaseSurvives
      BY DEF SwapInv, DiskInv
  <1> QED BY InvAlways, <1>1, PTL

\* The layout check asks for one file; what is served is nevertheless whole,
\* and no later start will take it back.
THEOREM ServedAlwaysWhole == ASSUME Sheltered PROVE Spec => []ServedReleaseWhole
  <1>1. SwapInv => ServedReleaseWhole
      BY DEF SwapInv, DiskInv, ControlInv, UnmarkedPoints, ServedReleaseWhole
  <1> QED BY InvAlways, <1>1, PTL

\* What Apply trusts when Recover returns without an error.
THEOREM RecoverDelivers == ASSUME Sheltered PROVE Spec => []RecoverPostcondition
  <1>1. SwapInv => RecoverPostcondition
      BY CompleteExists
      DEF SwapInv, DiskInv, ControlInv, UnmarkedPoints, RecoverPostcondition
  <1> QED BY InvAlways, <1>1, PTL

\* Recover never installs a staged tree that is only part of a release.
THEOREM RollForwardAlwaysIntact == ASSUME Sheltered PROVE Spec => []RollForwardIntact
  <1>1. SwapInv => RollForwardIntact
      BY DEF SwapInv, ControlInv, RollForwardIntact
  <1> QED BY InvAlways, <1>1, PTL

-----------------------------------------------------------------------------
(* The directories implement InstalledRelease *)

\* The first state stands for one settled release.
LEMMA AbstractInit == Sheltered /\ Init => Installed!Init
  BY SwapConstants
  DEF Init, Installed!Init, currentRelease, fallbackRelease, settledRelease, Complete,
      Exists, NoTree

\* The two kinds of step that move the abstraction without a promotion: a
\* game.old/ that is removed under a whole game/, and steps that touch neither.
LEMMA DropBackupRefines ==
    ASSUME SwapInv, Complete(game), game' = game, settledRelease, settledRelease',
           \/ Exists(backup) /\ ~Complete(backup')
           \/ ~Exists(backup) /\ backup' = backup
    PROVE  [Installed!Next]_(Installed!ivars)
  BY CompleteExists, SwapConstants
  DEF Installed!Next, Installed!DropFallback, Installed!ivars, currentRelease,
      fallbackRelease, Exists, Complete

\* A step that leaves game/ and game.old/ alone can only settle the release.
LEMMA SettleRefines ==
    ASSUME game' = game, backup' = backup, settledRelease => settledRelease'
    PROVE  [Installed!Next]_(Installed!ivars)
  <1>1. currentRelease' = currentRelease /\ fallbackRelease' = fallbackRelease
      BY DEF currentRelease, fallbackRelease
  <1>2. settledRelease \in BOOLEAN /\ settledRelease' \in BOOLEAN
      BY DEF settledRelease
  <1> QED BY <1>1, <1>2 DEF Installed!Next, Installed!Settle, Installed!ivars

\* Every step of the directory protocol is one of InstalledRelease, or a
\* stutter: the moves install or take back, the removals drop the fallback.
LEMMA StepRefines ==
    ASSUME Sheltered, SwapInv, SwapInv', [Next]_vars
    PROVE  [Installed!Next]_(Installed!ivars)
  <1>g. game \in Tree /\ backup \in Tree /\ staging \in Tree
      BY DEF SwapInv, TypeOK
  <1>1. CASE RollForwardDropBackup \/ SwapDropBackup
    <2>1. Complete(game) /\ game' = game /\ staging' = staging /\ Exists(staging)
        BY <1>1, CompleteExists
        DEF SwapInv, ControlInv, RollForwardDropBackup, SwapDropBackup
    <2>2. settledRelease /\ settledRelease'
        BY <2>1 DEF settledRelease
    <2>3. \/ Exists(backup) /\ ~Complete(backup')
          \/ ~Exists(backup) /\ backup' = backup
        BY <1>1, <1>g, RemoveAllEffect DEF RollForwardDropBackup, SwapDropBackup
    <2> QED BY <2>1, <2>2, <2>3, DropBackupRefines
  <1>2. CASE RetireBackup
    <2>1. Complete(game) /\ game' = game /\ marker = "none" /\ marker' = marker
        BY <1>2 DEF SwapInv, DiskInv, ControlInv, UnmarkedPoints, RetireBackup
    <2>2. settledRelease /\ settledRelease'
        BY <2>1 DEF settledRelease
    <2>3. \/ Exists(backup) /\ ~Complete(backup')
          \/ ~Exists(backup) /\ backup' = backup
        BY <1>2, <1>g, RemoveAllEffect DEF RetireBackup
    <2> QED BY <2>1, <2>2, <2>3, DropBackupRefines
  <1>3. CASE RollForwardMoveAside \/ SwapMoveAside
    <2>1. /\ Complete(game) /\ Exists(game) /\ ~Exists(backup)
          /\ staging' = staging /\ Exists(staging)
        BY <1>3, CompleteExists
        DEF SwapInv, ControlInv, RollForwardMoveAside, SwapMoveAside
    <2>2. backup' = game /\ ~Exists(game')
        BY <1>3, <2>1, RenameEffect DEF RollForwardMoveAside, SwapMoveAside
    <2>3. currentRelease' = currentRelease /\ fallbackRelease' = fallbackRelease
        BY <2>1, <2>2, CompleteExists DEF currentRelease, fallbackRelease
    <2>4. settledRelease' = settledRelease
        BY <2>1 DEF settledRelease
    <2> QED BY <2>3, <2>4 DEF Installed!ivars
  <1>4. CASE PromoteRename /\ job # "roll_back"
    <2>1. Rename(staging, staging', game, game', PromoteDone, PromoteError)
          /\ UNCHANGED <<backup, marker>>
        BY <1>4, Shelter DEF PromoteRename
    <2>2. marker = "begin" /\ ~Exists(game) /\ Complete(backup) /\ Complete(staging)
        BY <1>4 DEF SwapInv, ControlInv, PromoteRename
    <2>3. game' = staging /\ ~Exists(staging')
        BY <2>1, <2>2, CompleteExists, RenameEffect
    <2>4. /\ currentRelease = backup.rel /\ currentRelease' = staging.rel
          /\ fallbackRelease' = backup.rel
        BY <2>1, <2>2, <2>3, CompleteExists DEF currentRelease, fallbackRelease
    <2>5. settledRelease = TRUE /\ settledRelease' = FALSE
        BY <2>1, <2>2, <2>3, CompleteExists DEF settledRelease
    <2>6. staging.rel \in Releases
        BY <1>g, <2>2 DEF Tree, Complete, Exists
    <2>7. fallbackRelease' # None
        BY <2>2, <2>4 DEF Complete, Exists
    <2> QED BY <2>4, <2>5, <2>6, <2>7 DEF Installed!Next, Installed!Install
  <1>5. CASE PromoteRename /\ job = "roll_back"
    <2>1. Rename(backup, backup', game, game', PromoteDone, PromoteError)
          /\ UNCHANGED <<staging, marker>>
        BY <1>5 DEF PromoteRename
    <2>2. marker = "begin" /\ ~Exists(game) /\ Complete(backup) /\ ~Exists(staging)
        BY <1>5 DEF SwapInv, ControlInv, PromoteRename
    <2>3. game' = backup /\ ~Exists(backup')
        BY <2>1, <2>2, CompleteExists, RenameEffect
    <2>4. currentRelease' = currentRelease /\ fallbackRelease' = fallbackRelease
        BY <2>2, <2>3, CompleteExists DEF currentRelease, fallbackRelease
    <2>5. settledRelease = FALSE /\ settledRelease' = TRUE
        BY <2>1, <2>2, <2>3, CompleteExists DEF settledRelease
    <2> QED BY <2>4, <2>5 DEF Installed!Next, Installed!Settle
  <1>6. CASE RollBackDropGame
    <2>1. /\ marker = "begin" /\ ~Exists(staging) /\ Complete(backup)
          /\ UNCHANGED <<backup, staging, marker>>
        BY <1>6 DEF SwapInv, ControlInv, RollBackDropGame
    <2>2. settledRelease = FALSE /\ settledRelease' = FALSE
        BY <2>1, CompleteExists DEF settledRelease
    <2>3. \/ Exists(game) /\ ~Complete(game')
          \/ ~Exists(game) /\ game' = game
        BY <1>6, <1>g, RemoveAllEffect DEF RollBackDropGame
    <2>4. backup.rel # None
        BY <2>1 DEF Complete, Exists
    <2> QED BY <2>1, <2>2, <2>3, <2>4, CompleteExists
            DEF Installed!Next, Installed!RollBack, Installed!ivars, currentRelease,
                fallbackRelease
  <1>7. CASE CleanStaging
    <2>1. UNCHANGED <<game, backup, marker>>
        BY <1>7 DEF CleanStaging
    <2>2. settledRelease /\ settledRelease'
        BY <1>7, <1>g, <2>1, RemoveAllEffect
        DEF SwapInv, ControlInv, settledRelease, CleanStaging
    <2> QED BY <2>1, <2>2, SettleRefines
  <1>8. CASE ClearMarker \/ SwapPromoted
    <2>1. /\ UNCHANGED <<game, backup, staging>>
          /\ settledRelease => settledRelease'
        BY <1>8, Shelter DEF ClearMarker, SwapPromoted, settledRelease
    <2> QED BY <2>1, SettleRefines
  <1>9. CASE SwapBegin
    <2>1. Exists(staging) /\ UNCHANGED <<game, backup, staging>>
        BY <1>9, CompleteExists DEF SwapInv, ControlInv, SwapBegin
    <2>2. settledRelease /\ settledRelease'
        BY <2>1 DEF settledRelease
    <2> QED BY <2>1, <2>2, SettleRefines
  <1>10. CASE StageClean \/ ExtractFile \/ StageDrop
    <2>1. marker = "none" /\ UNCHANGED <<game, backup, marker>>
        BY <1>10 DEF SwapInv, ControlInv, UnmarkedPoints, StageClean, ExtractFile, StageDrop
    <2>2. settledRelease /\ settledRelease'
        BY <2>1 DEF settledRelease
    <2> QED BY <2>1, <2>2, SettleRefines
  <1>11. ASSUME UNCHANGED <<game, backup, staging, marker>>
         PROVE  [Installed!Next]_(Installed!ivars)
    <2>1. settledRelease' = settledRelease
        BY <1>11 DEF settledRelease
    <2> QED BY <1>11, <2>1, SettleRefines
  <1>12. CASE CopyFile \/ CopyFails \/ CopyRename \/ DropSource \/ PutBack \/ SwapAbortClear
      BY <1>12 DEF SwapInv, ControlInv, CopyFile, CopyFails, CopyRename, DropSource, PutBack,
                   SwapAbortClear
  <1>13. CASE RemovePromoteDebris \/ Decide \/ SwapCheck \/ Start \/ Resolve \/ Crash
              \/ BeginRetire \/ Exit \/ UNCHANGED vars
      BY <1>11, <1>13 DEF RemovePromoteDebris, Decide, SwapCheck, Start, Resolve, Crash,
                          BeginRetire, Exit, vars, disk
  <1>14. CASE BeginApply \/ SkipApply \/ EndRepair \/ ExtractEnds \/ AfterStaging \/ LeaveApply
      BY <1>11, <1>14 DEF BeginApply, SkipApply, EndRepair, ExtractEnds, AfterStaging,
                          LeaveApply, disk
  <1> QED BY <1>1, <1>2, <1>3, <1>4, <1>5, <1>6, <1>7, <1>8, <1>9, <1>10, <1>12, <1>13, <1>14
          DEF Next, StartupStep, RecoverStep, PromoteStep, SwapStep, ApplyStep, ServeStep

\* Through crashes, the directories and the marker install, keep and roll back
\* releases exactly as InstalledRelease allows: nothing settled is undone.
THEOREM SwapImplementsInstalledRelease ==
    ASSUME Sheltered PROVE Spec => ImplementsInstalledRelease
  <1>1. Init => Installed!Init
      BY AbstractInit, Sheltered
  <1>2. SwapInv /\ SwapInv' /\ [Next]_vars => [Installed!Next]_(Installed!ivars)
      BY StepRefines, Sheltered
  <1> QED BY InvAlways, <1>1, <1>2, PTL
          DEF Spec, ImplementsInstalledRelease, Installed!Spec

-----------------------------------------------------------------------------
(* What holds of every start, sheltered or not: on any pair of volumes, with *)
(* any file operation failing, with or without a sidecar                     *)

HeldInv ==
    /\ pc \in {"swap_drop_backup", "swap_move_aside", "rf_drop_backup", "rf_move_aside",
              "rb_drop_game"} => marker # "none"
    /\ pc = "copy" => /\ copied \subseteq staging.parts
                      /\ temps[Self] = [rel |-> staging.rel, parts |-> copied]

\* Recover moves or discards a game/ only when it found the marker.
LEMMA RecoverBranchMarked ==
    RecoverBranch \in {"rf_drop_backup", "rb_drop_game"} => marker # "none"
  <1>1. CASE Exists(game) /\ Exists(backup) /\ marker # "none"
      BY <1>1
  <1>2. CASE ~(Exists(game) /\ Exists(backup) /\ marker # "none")
    <2>1. RecoverBranch \in {"promote", "recover_failed", "clean_staging", "clear_marker",
                            "recovered"}
        BY <1>2 DEF RecoverBranch
    <2> QED BY <2>1
  <1> QED BY <1>1, <1>2

\* Where Recover can go from its decision.
LEMMA RecoverBranchRange ==
    RecoverBranch \in {"promote", "rf_drop_backup", "rb_drop_game", "recover_failed",
                       "clean_staging", "clear_marker", "recovered"}
  BY DEF RecoverBranch

\* The unconditional invariant holds at first.
LEMMA HeldInit == Init => HeldInv
  BY DEF Init, HeldInv

\* It is kept by every step, on any volumes and with any failure.
LEMMA HeldStep == TypeOK /\ HeldInv /\ [Next]_vars => HeldInv'
  <1> SUFFICES ASSUME TypeOK, HeldInv, [Next]_vars PROVE HeldInv'
      OBVIOUS
  <1> USE SwapConstants DEF HeldInv, Goto
  <1>1. CASE RecoverStep
    <2>1. CASE Decide
      <3>1. pc' = RecoverBranch /\ UNCHANGED <<marker, staging, temps, copied>>
          BY <2>1 DEF Decide, disk
      <3> QED BY <3>1, RecoverBranchMarked, RecoverBranchRange
    <2>2. CASE ClearMarker
        BY <2>2 DEF ClearMarker
    <2>3. CASE RemovePromoteDebris \/ RollForwardDropBackup \/ RollForwardMoveAside
               \/ RollBackDropGame \/ CleanStaging
        BY <2>3 DEF RemovePromoteDebris, RollForwardDropBackup, RollForwardMoveAside,
                    RollBackDropGame, CleanStaging, RemoveAll, Rename
    <2> QED BY <1>1, <2>1, <2>2, <2>3 DEF RecoverStep
  <1>2. CASE PromoteStep
    <2>1. CASE PromoteRename
        BY <2>1 DEF PromoteRename, Rename, PromoteDone, PromoteError, TypeOK
    <2>2. CASE CopyFile
        BY <2>2 DEF CopyFile, TypeOK
    <2>3. CASE CopyFails \/ CopyRename \/ DropSource \/ PutBack
        BY <2>3 DEF CopyFails, CopyRename, DropSource, PutBack, RemoveAll, Rename,
                    PromoteDone, PromoteError
    <2> QED BY <1>2, <2>1, <2>2, <2>3 DEF PromoteStep
  <1>3. CASE SwapStep
      BY <1>3 DEF SwapStep, SwapCheck, SwapBegin, SwapDropBackup, SwapMoveAside,
                  SwapPromoted, SwapAbortClear, RemoveAll, Rename, disk
  <1>4. CASE ApplyStep
      BY <1>4 DEF ApplyStep, BeginApply, SkipApply, EndRepair, StageClean, ExtractFile,
                  ExtractEnds, AfterStaging, StageDrop, LeaveApply, RemoveAll, disk
  <1>5. CASE Start \/ Resolve \/ ServeStep \/ Crash \/ UNCHANGED vars
      BY <1>5 DEF Start, Resolve, ServeStep, BeginRetire, RetireBackup, Exit, Crash, vars,
                  RemoveAll, disk
  <1> QED BY <1>1, <1>2, <1>3, <1>4, <1>5 DEF Next, StartupStep

\* So it holds throughout, together with the types.
LEMMA HeldAlways == Spec => [](TypeOK /\ HeldInv)
  BY TypeInit, TypeStep, HeldInit, HeldStep, PTL DEF Spec

\* The steps that change game/, and the state each of them starts from.
LEMMA GameChanges ==
    ASSUME TypeOK, HeldInv, [Next]_vars, game' # game
    PROVE  \/ marker # "none" /\ ~Exists(game')
           \/ marker # "none" /\ Exists(game) /\ (Exists(game') => game'.rel = game.rel)
           \/ ~Exists(game) /\ game' \in {staging, backup}
  <1> USE DEF HeldInv
  <1>1. CASE RollForwardMoveAside \/ SwapMoveAside
      BY <1>1 DEF RollForwardMoveAside, SwapMoveAside, Rename, NoTree, Exists
  <1>2. CASE RollBackDropGame
      BY <1>2 DEF RollBackDropGame, RemoveAll, RemoveOne, NoTree, Exists, TypeOK, Tree
  <1>3. CASE PromoteRename \/ PutBack
      BY <1>3 DEF PromoteRename, PutBack, Rename
  <1>4. CASE CopyRename
    <2>1. ~Exists(game) /\ copied = staging.parts
          /\ game' = [rel |-> staging.rel, parts |-> copied]
        BY <1>4 DEF CopyRename
    <2>2. staging = [rel |-> staging.rel, parts |-> staging.parts]
        BY DEF TypeOK, Tree
    <2> QED BY <2>1, <2>2
  <1>5. CASE RecoverStep /\ ~RollForwardMoveAside /\ ~RollBackDropGame
      BY <1>5 DEF RecoverStep, RemovePromoteDebris, Decide, RollForwardDropBackup,
                  CleanStaging, ClearMarker, disk
  <1>6. CASE CopyFile \/ CopyFails \/ DropSource
      BY <1>6 DEF CopyFile, CopyFails, DropSource
  <1>7. CASE SwapStep /\ ~SwapMoveAside
      BY <1>7 DEF SwapStep, SwapCheck, SwapBegin, SwapDropBackup, SwapPromoted,
                  SwapAbortClear, disk
  <1>8. CASE ApplyStep
      BY <1>8 DEF ApplyStep, BeginApply, SkipApply, EndRepair, StageClean, ExtractFile,
                  ExtractEnds, AfterStaging, StageDrop, LeaveApply, disk
  <1>9. CASE Start \/ Resolve \/ ServeStep \/ Crash \/ UNCHANGED vars
      BY <1>9 DEF Start, Resolve, ServeStep, BeginRetire, RetireBackup, Exit, Crash, vars,
                  disk
  <1> QED BY <1>1, <1>2, <1>3, <1>4, <1>5, <1>6, <1>7, <1>8, <1>9
          DEF Next, StartupStep, PromoteStep

\* update.state is written before game/ is touched: no kind of start and no
\* failing operation moves or deletes a whole game/ without it.
THEOREM MarkerAlwaysBeforeMove == Spec => MarkerBeforeMove
  <1>1. TypeOK /\ HeldInv /\ [Next]_vars =>
            [Complete(game) /\ ~Complete(game') => marker # "none"]_vars
      BY GameChanges, CompleteExists
  <1> QED BY HeldAlways, <1>1, PTL DEF Spec, MarkerBeforeMove

\* A game/ appears whole or not at all, copied across volumes or renamed.
THEOREM PromotionAlwaysAtomic == Spec => PromotionAtomic
  <1>1. TypeOK /\ HeldInv /\ [Next]_vars =>
            [~Exists(game) /\ Exists(game') => game' \in {staging, backup}]_vars
      BY GameChanges
  <1> QED BY HeldAlways, <1>1, PTL DEF Spec, PromotionAtomic

-----------------------------------------------------------------------------
(* The startup pass descends, on any volumes and with any failure: no step   *)
(* of a start leads back to where the start was, so that the only infinite   *)
(* behaviours are those in which launchers are started again and again.      *)

\* A swap in progress is run by Swap: Recover's promotions have their own job.
JobInv ==
    pc \in {"swap_begin", "swap_drop_backup", "swap_move_aside", "swap_promoted"} =>
        job = "swap"

\* Every step of Swap after its first has the job that first step set.
LEMMA JobStep == JobInv /\ [Next]_vars => JobInv'
  <1> SUFFICES ASSUME JobInv, [Next]_vars PROVE JobInv'
      OBVIOUS
  <1> USE DEF JobInv, Goto
  <1>1. CASE Decide
      BY <1>1, RecoverBranchRange DEF Decide
  <1>2. CASE RecoverStep /\ ~Decide
      BY <1>2 DEF RecoverStep, RemovePromoteDebris, RollForwardDropBackup,
                  RollForwardMoveAside, RollBackDropGame, CleanStaging, ClearMarker,
                  RemoveAll, Rename
  <1>3. CASE PromoteStep
      BY <1>3 DEF PromoteStep, PromoteRename, CopyFile, CopyFails, CopyRename, DropSource,
                  PutBack, RemoveAll, Rename, PromoteDone, PromoteError
  <1>4. CASE SwapStep
      BY <1>4 DEF SwapStep, SwapCheck, SwapBegin, SwapDropBackup, SwapMoveAside,
                  SwapPromoted, SwapAbortClear, RemoveAll, Rename
  <1>5. CASE ApplyStep
      BY <1>5 DEF ApplyStep, BeginApply, SkipApply, EndRepair, StageClean, ExtractFile,
                  ExtractEnds, AfterStaging, StageDrop, LeaveApply, RemoveAll
  <1>6. CASE Start \/ Resolve \/ ServeStep \/ Crash \/ UNCHANGED vars
      BY <1>6 DEF Start, Resolve, ServeStep, BeginRetire, RetireBackup, Exit, Crash, vars,
                  RemoveAll
  <1> QED BY <1>1, <1>2, <1>3, <1>4, <1>5, <1>6 DEF Next, StartupStep

\* A set of files that loses one has one file less.
LEMMA OneFewer ==
    ASSUME NEW S \in SUBSET Parts, NEW p \in S
    PROVE  /\ Cardinality(S) \in Nat /\ Cardinality(S \ {p}) \in Nat
           /\ Cardinality(S \ {p}) < Cardinality(S)
  <1>1. IsFiniteSet(S)
      BY SwapConstants, FS_Subset
  <1>2. IsFiniteSet(S \ {p}) /\ Cardinality(S \ {p}) = Cardinality(S) - 1
      BY <1>1, FS_RemoveElement
  <1> QED BY <1>1, <1>2, FS_CardinalityType

\* Each unlink of os.RemoveAll brings the tree nearer to its end.
LEMMA RemoveOneShrinks ==
    ASSUME NEW t \in Tree, Exists(t), NEW u \in RemoveOne(t)
    PROVE  Size(u) < Size(t)
  <1>1. t.parts \in SUBSET Parts /\ IsFiniteSet(t.parts)
      BY SwapConstants, FS_Subset DEF Tree
  <1>2. Cardinality(t.parts) \in Nat
      BY <1>1, FS_CardinalityType
  <1>3. CASE t.parts = {}
    <2>1. Size(u) = 0
        BY <1>3 DEF RemoveOne, NoTree, Size, Exists
    <2> QED BY <2>1, <1>2 DEF Size
  <1>4. CASE t.parts # {}
    <2>1. PICK p \in t.parts : u = [t EXCEPT !.parts = @ \ {p}]
        BY <1>4 DEF RemoveOne
    <2>2. u.rel = t.rel /\ u.parts = t.parts \ {p}
        BY <2>1 DEF Tree
    <2>3. Cardinality(u.parts) \in Nat /\ Cardinality(u.parts) < Cardinality(t.parts)
        BY <1>1, <2>2, OneFewer
    <2> QED BY <2>2, <2>3, <1>2 DEF Size, Exists
  <1> QED BY <1>3, <1>4

\* Below, the measure: lower means a later stage, or fewer files in this one.
Lower == \/ StageLeft' < StageLeft
         \/ StageLeft' = StageLeft /\ FilesLeft' < FilesLeft

\* A tree that is removed entry by entry counts down its own entries.
LEMMA RemoveAllDescends ==
    ASSUME NEW t \in Tree, NEW u, NEW done, NEW failed, RemoveAll(t, u, done, failed)
    PROVE  (pc' = pc /\ Size(u) < Size(t)) \/ pc' \in {done, failed}
  BY RemoveOneShrinks DEF RemoveAll, Goto

\* Recover: its branches follow its decision, and end with its result.
LEMMA RecoverDescends == TypeOK /\ RecoverStep => Lower
  <1> SUFFICES ASSUME TypeOK, RecoverStep PROVE Lower
      OBVIOUS
  <1> USE DEF Lower, StageLeft, Pass, InRecover, Goto
  <1>t. game \in Tree /\ backup \in Tree /\ staging \in Tree
      BY DEF TypeOK
  <1>1. CASE RemovePromoteDebris
      BY <1>1 DEF RemovePromoteDebris
  <1>2. CASE Decide
      BY <1>2, RecoverBranchRange DEF Decide
  <1>3. CASE RollForwardDropBackup
    <2>1. (pc' = pc /\ Size(backup') < Size(backup))
          \/ pc' \in {"rf_move_aside", "recover_failed"}
        BY <1>3, <1>t, RemoveAllDescends DEF RollForwardDropBackup
    <2> QED BY <1>3, <2>1 DEF RollForwardDropBackup, FilesLeft
  <1>4. CASE RollForwardMoveAside
      BY <1>4 DEF RollForwardMoveAside, Rename
  <1>5. CASE RollBackDropGame
    <2>1. (pc' = pc /\ Size(game') < Size(game)) \/ pc' \in {"promote", "recover_failed"}
        BY <1>5, <1>t, RemoveAllDescends DEF RollBackDropGame
    <2> QED BY <1>5, <2>1 DEF RollBackDropGame, FilesLeft
  <1>6. CASE CleanStaging
    <2>1. (pc' = pc /\ Size(staging') < Size(staging))
          \/ pc' \in {"clear_marker", "recovered", "recover_failed"}
        BY <1>6, <1>t, RemoveAllDescends DEF CleanStaging
    <2> QED BY <1>6, <2>1 DEF CleanStaging, FilesLeft
  <1>7. CASE ClearMarker
      BY <1>7 DEF ClearMarker
  <1> QED BY <1>1, <1>2, <1>3, <1>4, <1>5, <1>6, <1>7 DEF RecoverStep

\* promoteDir: the copy goes from file to file, and its source goes last.
LEMMA PromoteDescends == TypeOK /\ PromoteStep => Lower
  <1> SUFFICES ASSUME TypeOK, PromoteStep PROVE Lower
      OBVIOUS
  <1> USE DEF Lower, StageLeft, Pass, InRecover, Goto, PromoteDone, PromoteError
  <1>1. CASE PromoteRename
      BY <1>1 DEF PromoteRename, Rename
  <1>2. CASE CopyFile
    <2>1. PICK p \in staging.parts \ copied : copied' = copied \cup {p}
        BY <1>2 DEF CopyFile
    <2>2. staging.parts \ copied \in SUBSET Parts
          /\ staging.parts \ copied' = (staging.parts \ copied) \ {p}
        BY <2>1 DEF TypeOK, Tree
    <2>3. Cardinality(staging.parts \ copied') < Cardinality(staging.parts \ copied)
        BY <2>2, OneFewer
    <2> QED BY <1>2, <2>3 DEF CopyFile, FilesLeft
  <1>3. CASE CopyFails \/ CopyRename
      BY <1>3 DEF CopyFails, CopyRename
  <1>4. CASE DropSource
    <2>1. (pc' = pc /\ Size(staging') < Size(staging)) \/ pc' = PromoteDone
        BY <1>4, RemoveAllDescends DEF DropSource, TypeOK
    <2> QED BY <1>4, <2>1 DEF DropSource, FilesLeft
  <1>5. CASE PutBack
      BY <1>5 DEF PutBack, Rename
  <1> QED BY <1>1, <1>2, <1>3, <1>4, <1>5 DEF PromoteStep

\* Swap: from the check to the marker's removal, and never back.
LEMMA SwapDescends == TypeOK /\ JobInv /\ SwapStep => Lower
  <1> SUFFICES ASSUME TypeOK, JobInv, SwapStep PROVE Lower
      OBVIOUS
  <1> USE DEF Lower, StageLeft, Pass, InRecover, Goto, JobInv
  <1>1. CASE SwapDropBackup
    <2>1. (pc' = pc /\ Size(backup') < Size(backup))
          \/ pc' \in {"swap_move_aside", "swap_abort_clear"}
        BY <1>1, RemoveAllDescends DEF SwapDropBackup, TypeOK
    <2> QED BY <1>1, <2>1 DEF SwapDropBackup, FilesLeft
  <1>2. CASE SwapCheck \/ SwapBegin \/ SwapMoveAside
      BY <1>2 DEF SwapCheck, SwapBegin, SwapMoveAside, Rename
  <1>3. CASE SwapPromoted \/ SwapAbortClear
      BY <1>3 DEF SwapPromoted, SwapAbortClear
  <1> QED BY <1>1, <1>2, <1>3 DEF SwapStep

\* Apply: the extraction adds one file at a time until there is none to add.
LEMMA ApplyDescends == TypeOK /\ ApplyStep => Lower
  <1> SUFFICES ASSUME TypeOK, ApplyStep PROVE Lower
      OBVIOUS
  <1> USE DEF Lower, StageLeft, Pass, InRecover, Goto
  <1>1. CASE BeginApply \/ SkipApply \/ EndRepair
      BY <1>1 DEF BeginApply, SkipApply, EndRepair
  <1>2. CASE StageClean
    <2>1. (pc' = pc /\ Size(staging') < Size(staging)) \/ pc' \in {"extract", "apply_done"}
        BY <1>2, RemoveAllDescends DEF StageClean, TypeOK
    <2> QED BY <1>2, <2>1 DEF StageClean, FilesLeft
  <1>3. CASE ExtractFile
    <2>1. CASE ~Exists(staging)
      <3>1. PICK r \in Releases : staging' = [rel |-> r, parts |-> {}]
          BY <1>3, <2>1 DEF ExtractFile
      <3>2. Exists(staging') /\ Parts \ staging'.parts = Parts
          BY <3>1, SwapConstants DEF Exists
      <3>3. Cardinality(Parts) \in Nat
          BY SwapConstants, FS_CardinalityType
      <3> QED BY <1>3, <2>1, <3>2, <3>3 DEF ExtractFile, FilesLeft
    <2>2. CASE Exists(staging)
      <3>1. PICK p \in Parts \ staging.parts :
                staging' = [staging EXCEPT !.parts = @ \cup {p}]
          BY <1>3, <2>2 DEF ExtractFile
      <3>2. Exists(staging') /\ Parts \ staging'.parts = (Parts \ staging.parts) \ {p}
          BY <3>1, <2>2 DEF Exists, TypeOK, Tree
      <3>3. Cardinality(Parts \ staging'.parts) < Cardinality(Parts \ staging.parts)
          BY <3>2, OneFewer
      <3> QED BY <1>3, <2>2, <3>2, <3>3 DEF ExtractFile, FilesLeft
    <2> QED BY <2>1, <2>2
  <1>4. CASE ExtractEnds \/ AfterStaging \/ LeaveApply
      BY <1>4 DEF ExtractEnds, AfterStaging, LeaveApply
  <1>5. CASE StageDrop
    <2>1. (pc' = pc /\ Size(staging') < Size(staging)) \/ pc' = "apply_done"
        BY <1>5, RemoveAllDescends DEF StageDrop, TypeOK
    <2> QED BY <1>5, <2>1 DEF StageDrop, FilesLeft
  <1> QED BY <1>1, <1>2, <1>3, <1>4, <1>5 DEF ApplyStep

\* Every step of every startup pass goes down in StageLeft, or stays at its stage
\* with fewer files left: no failing rename, removal, copy, marker write or
\* extraction leads a start round in a circle.
THEOREM StartupAlwaysDescends == Spec => StartupDescends
  <1>1. Init => JobInv
      BY DEF Init, JobInv
  <1>2. TypeOK /\ Resolve => Lower
      BY DEF Resolve, Lower, StageLeft, Pass, InRecover, Goto
  <1>3. TypeOK /\ JobInv /\ StartupStep => Lower
      BY <1>2, RecoverDescends, PromoteDescends, SwapDescends, ApplyDescends
      DEF StartupStep
  <1>4. TypeOK /\ JobInv /\ [Next]_vars =>
            [StartupStep =>
                \/ StageLeft' < StageLeft
                \/ StageLeft' = StageLeft /\ FilesLeft' < FilesLeft]_vars
      BY <1>3 DEF Lower
  <1> QED BY TypeInit, TypeStep, JobStep, <1>1, <1>4, PTL DEF Spec, StartupDescends
=============================================================================
