----------------------------- MODULE UpdateApply -----------------------------
(***************************************************************************)
(* One update request over many starts: the pending marker the shell's     *)
(* request leaves, the pass every later start makes over it, the cancel    *)
(* flag, the retry budget, the merge of launcher/ after the swap, and the  *)
(* count of good starts that retires game.old/ (launcher/internal/update:  *)
(* apply.go, intent.go, runtime.go, retention.go, extract.go, and the      *)
(* start order of cmd/kobra-launcher/main.go).                             *)
(*                                                                         *)
(* A directory holds a whole release or none (UpdateSwap shows that no     *)
(* start takes a partial one for whole), each rename and each removal is a *)
(* step, and a marker announces the swap.  A promotion that is not         *)
(* recorded yet (~settled) is taken back by the next start; Installed,     *)
(* below, is the abstraction both modules implement.                       *)
(* Several launchers share the folder: one may be serving, with a shell    *)
(* that requests and cancels, while another makes its startup pass.  Two   *)
(* startup passes at once are outside this module, and so is what an apply *)
(* stages in a folder that lost game/ and game.old/ to such a pair.        *)
(*                                                                         *)
(* Every archive carries launcher/ (scope "full") and none carries         *)
(* game/release.manifest.json, which Verify refuses, so the release the    *)
(* folder reports (InstalledReleaseIn) is the one launcher.config.json     *)
(* names.                                                                  *)
(***************************************************************************)
EXTENDS Naturals

CONSTANTS
    Offers,         \* the archives ever published
    Release,        \* the release each one is published as
    FirstOffer,     \* what the folder holds before any update
    None,           \* "no offer": a directory or a record that is not there
    RetryBudget,    \* RetryBudget of runtime.go
    RetireCount,    \* StartedRetireCount of retention.go
    SecondStart,    \* TRUE: the player may start a launcher while another serves
    MaxRequests,    \* bound: the update requests the player makes
    MaxDisruptions  \* bound: crashes, and starts that found the disk full

ASSUME ApplyConstants ==
    /\ Release \in [Offers -> Nat]
    /\ FirstOffer \in Offers
    /\ None \notin Offers
    /\ RetryBudget \in Nat \ {0}
    /\ RetireCount \in Nat \ {0}
    /\ SecondStart \in BOOLEAN
    /\ MaxRequests \in Nat
    /\ MaxDisruptions \in Nat

VARIABLES
    game, backup,  \* the offers in game/ and game.old/, or None
    swapping,      \* the offer a swap marker announces, its game.new/ whole, or None
    settled,       \* FALSE while a start would take the release in game/ back
    config,        \* the release launcher/launcher.config.json names
    pending,       \* pending.json, or NoPending
    cancelFlag,    \* the update/cancel file is there
    started,       \* started.json: the release it counts, and the count
    channel,       \* the release latest.json names
    pc,            \* where the launcher that makes its startup pass is
    held,          \* the marker its Apply read
    manifest,      \* the offer whose manifest it fetched
    server,        \* where the serving launcher is
    noted,         \* its first heartbeat has come
    handler,       \* the request the serving launcher is handling
    cancelled,     \* the shell's last request was a cancel, and it was answered
    confirmed,     \* the offers the player was shown and asked for
    goodStarts,    \* first heartbeats of the release in game/, beside a game.old/
    requests, disruptions  \* how much of each bound is used

folder == <<game, backup, swapping, settled, config>>
records == <<pending, cancelFlag, started>>
work == <<held, manifest>>
serving == <<server, noted>>
process == <<pc, work, serving>>
shell == <<handler, cancelled, confirmed, requests>>
vars == <<folder, records, channel, process, shell, goodStarts, disruptions>>

-----------------------------------------------------------------------------

Releases == {Release[o] : o \in Offers}
Pending == [target : Offers, from : Nat, retry : 0..RetryBudget]
NoPending == [target |-> None, from |-> 0, retry |-> 0]
Counts == [release : Nat, count : Nat]
NoCount == [release |-> 0, count |-> 0]
HandlerSteps == {"idle", "unflag", "record", "uncancel", "flag"}
Handlers == [step : HandlerSteps, marker : Pending \cup {NoPending}]
Idle == [step |-> "idle", marker |-> NoPending]

GatePoints == {"read", "gates", "clear", "clear_both", "clear_cancel"}
WorkPoints == {"fetch", "download", "staged", "retry"}
SwapPoints == {"swap_begin", "swap_drop_backup", "swap_move_aside", "swap_promote",
               "swap_record", "merge"}
RecoverPoints == {"recover", "forward_aside", "forward_promote", "rolled_forward",
                  "restore", "rolled_back"}
RepairPoints == {"repair", "repair_clear", "repair_uncancel"}
StartPoints == RecoverPoints \cup GatePoints \cup WorkPoints \cup SwapPoints
                   \cup {"resolve", "elect"} \cup RepairPoints
BeforeApply == {"down", "read", "elect"} \cup RecoverPoints \cup RepairPoints
ServePoints == {"serve", "retire", "drop_count"}

Serving == server # "down"

Goto(p) == pc' = p

\* The installed release, which a swap and a rollback keep in game.old/ from the
\* rename or removal that takes game/ away to the rename that fills it again, and
\* the release kept beside it.
current == IF game # None THEN game ELSE backup
fallback == IF game # None THEN backup ELSE None

TypeOK ==
    /\ game \in Offers \cup {None}
    /\ backup \in Offers \cup {None}
    /\ swapping \in Offers \cup {None}
    /\ settled \in BOOLEAN
    /\ config \in Nat
    /\ pending \in Pending \cup {NoPending}
    /\ cancelFlag \in BOOLEAN
    /\ started \in Counts
    /\ channel \in Nat
    /\ pc \in {"down"} \cup StartPoints
    /\ held \in Pending \cup {NoPending}
    /\ manifest \in Offers \cup {None}
    /\ server \in {"down"} \cup ServePoints
    /\ noted \in BOOLEAN
    /\ handler \in Handlers
    /\ cancelled \in BOOLEAN
    /\ confirmed \subseteq Offers
    /\ goodStarts \in Nat
    /\ requests \in 0..MaxRequests
    /\ disruptions \in 0..MaxDisruptions

Init ==
    /\ game = FirstOffer /\ backup = None
    /\ swapping = None /\ settled = TRUE
    /\ config = Release[FirstOffer] /\ channel = Release[FirstOffer]
    /\ pending = NoPending /\ cancelFlag = FALSE /\ started = NoCount
    /\ pc = "down" /\ held = NoPending /\ manifest = None
    /\ server = "down" /\ noted = FALSE
    /\ handler = Idle /\ cancelled = FALSE /\ confirmed = {}
    /\ goodStarts = 0 /\ requests = 0 /\ disruptions = 0

-----------------------------------------------------------------------------
(* The patch channel, and the processes                                    *)

\* The publisher moves latest.json forward.
Publish ==
    /\ channel' \in {r \in Releases : r > channel}
    /\ UNCHANGED <<folder, records, process, shell, goodStarts, disruptions>>

\* The apply pass comes before the instance lock and the port, so a launcher
\* makes it whether or not another one serves the folder.
Start ==
    /\ pc = "down"
    /\ Serving => SecondStart
    /\ Goto("recover")
    /\ UNCHANGED <<folder, records, channel, work, serving, shell, goodStarts, disruptions>>

\* A kill or a power loss between any two steps.
Crash ==
    /\ pc # "down"
    /\ disruptions < MaxDisruptions /\ disruptions' = disruptions + 1
    /\ Goto("down")
    /\ held' = NoPending /\ manifest' = None
    /\ UNCHANGED <<folder, records, channel, serving, shell, goodStarts>>

\* The request a serving launcher was handling dies with it, unanswered.
ServerCrash ==
    /\ Serving
    /\ disruptions < MaxDisruptions /\ disruptions' = disruptions + 1
    /\ server' = "down" /\ noted' = FALSE
    /\ handler' = Idle
    /\ UNCHANGED <<folder, records, channel, pc, work, cancelled, confirmed, requests, goodStarts>>

Exit ==
    /\ server = "serve" /\ handler = Idle
    /\ server' = "down" /\ noted' = FALSE
    /\ UNCHANGED <<folder, records, channel, pc, work, shell, goodStarts, disruptions>>

\* acquireInstance, as far as this module goes: a launcher that finds another
\* one serving hands over to it and exits.
Elect ==
    /\ pc = "elect"
    /\ Goto("down")
    /\ server' = IF Serving THEN server ELSE "serve"
    /\ UNCHANGED <<folder, records, channel, work, noted, shell, goodStarts, disruptions>>

-----------------------------------------------------------------------------
(* Startup: Recover                                                        *)

\* The good starts that count for an offer when it comes into game/.
Proven(offer) ==
    IF current # None /\ Release[offer] = Release[current] THEN goodStarts ELSE 0

\* The rename that fills game/.  Without game.old/ there is nothing to take back.
Promote ==
    /\ game' = swapping /\ swapping' = None
    /\ goodStarts' = Proven(swapping)
    /\ settled' = (backup = None)
    /\ UNCHANGED backup

\* Marker, game/, game.old/ and game.new/: the swap is made again, from the start.
RecoverForward ==
    /\ pc = "recover" /\ swapping # None
    /\ game # None /\ backup # None
    /\ backup' = None
    /\ Goto("forward_aside")
    /\ UNCHANGED <<game, swapping, settled, config, records, channel, work, serving,
                   shell, goodStarts, disruptions>>

\* Marker, game/ and game.new/, no game.old/: a swap that did not get to its first
\* rename.  It is dropped, and game/ and the request stay.
RecoverAbort ==
    /\ pc = "recover" /\ swapping # None
    /\ game # None /\ backup = None
    /\ swapping' = None
    /\ Goto("read")
    /\ UNCHANGED <<game, backup, settled, config, records, channel, work, serving,
                   shell, goodStarts, disruptions>>

\* game.new/ without game/: the swap is finished, or what RecoverForward began.
RecoverPromote ==
    /\ \/ pc = "forward_promote"
       \/ pc = "recover" /\ swapping # None /\ game = None
    /\ Promote
    /\ Goto("rolled_forward")
    /\ UNCHANGED <<config, records, channel, work, serving, shell, disruptions>>

\* Only without the marker is a promotion that Recover finished a finished one.
ClearMarker ==
    /\ pc = "rolled_forward"
    /\ settled' = TRUE
    /\ Goto("read")
    /\ UNCHANGED <<game, backup, swapping, config, records, channel, work, serving,
                   shell, goodStarts, disruptions>>

\* Faulty variant: a game.old/ beside game/ is taken back, recorded or not.
RecoverBackRecorded ==
    /\ pc = "recover" /\ swapping = None
    /\ game # None /\ backup # None
    /\ game' = None /\ goodStarts' = Proven(backup)
    /\ Goto("restore")
    /\ UNCHANGED <<backup, swapping, settled, config, records, channel, work, serving,
                   shell, disruptions>>

\* A promotion that was not recorded is taken back: game/ is removed.
RecoverBack ==
    /\ pc = "recover" /\ ~settled
    /\ game # None /\ backup # None
    /\ game' = None /\ goodStarts' = Proven(backup)
    /\ Goto("restore")
    /\ UNCHANGED <<backup, swapping, settled, config, records, channel, work, serving,
                   shell, disruptions>>

\* game.old/ becomes game/, by the start that removed game/ or by the next one.
Restore ==
    /\ \/ pc = "restore"
       \/ pc = "recover" /\ swapping = None /\ game = None
    /\ backup # None
    /\ game' = backup /\ backup' = None
    /\ settled' = TRUE
    /\ Goto("rolled_back")
    /\ UNCHANGED <<swapping, config, records, channel, work, serving, shell, goodStarts,
                   disruptions>>

\* Neither game/ nor game.old/ nor game.new/: an error that the pass only notes.
RecoverFails ==
    /\ \/ pc = "restore"
       \/ pc = "recover" /\ swapping = None /\ game = None
    /\ backup = None
    /\ Goto("read")
    /\ UNCHANGED <<folder, records, channel, work, serving, shell, goodStarts,
                   disruptions>>

RecoverNothing ==
    /\ pc = "recover" /\ swapping = None /\ settled
    /\ game # None
    /\ Goto("read")
    /\ UNCHANGED <<folder, records, channel, work, serving, shell, goodStarts,
                   disruptions>>

\* Startup clears the count after a rollback, and repair clears it at its own step.
ClearStarted ==
    /\ pc \in {"rolled_back", "repair"}
    /\ started' = NoCount
    /\ Goto(IF pc = "repair" THEN "repair_clear" ELSE "read")
    /\ UNCHANGED <<folder, pending, cancelFlag, channel, work, serving, shell,
                   goodStarts, disruptions>>

-----------------------------------------------------------------------------
(* Apply, under apply.lock: the gates, in the order of the code            *)

\* ReadPending: from here on Apply works on its own copy of the marker.
ReadPending ==
    /\ pc = "read"
    /\ held' = pending
    /\ Goto(IF pending = NoPending THEN "resolve" ELSE "gates")
    /\ UNCHANGED <<folder, records, channel, manifest, serving, shell, goodStarts, disruptions>>

Newer(marker) == Release[marker.target] > marker.from

\* Faulty variant: the budget is only looked at when an attempt fails.
GateUnbudgeted(marker) ==
    CASE ~Newer(marker)                          -> "clear"
      [] Newer(marker) /\ cancelFlag             -> "clear_both"
      [] Newer(marker) /\ ~cancelFlag /\ config = Release[marker.target] -> "clear"
      [] OTHER                                   -> "fetch"

\* Not newer, cancelled, out of retries, already current: the marker goes,
\* with the flag if that is why.
Gate(marker) ==
    CASE ~Newer(marker)                          -> "clear"
      [] Newer(marker) /\ cancelFlag             -> "clear_both"
      [] Newer(marker) /\ ~cancelFlag /\
            \/ marker.retry >= RetryBudget
            \/ config = Release[marker.target]   -> "clear"
      [] OTHER                                   -> "fetch"

ApplyGates ==
    /\ pc = "gates"
    /\ Goto(Gate(held))
    /\ UNCHANGED <<folder, records, channel, work, serving, shell, goodStarts,
                   disruptions>>

\* Faulty variant: only the release is compared, not the archive.
ReconciledByRelease(marker, offer) == Release[offer] = Release[marker.target]

\* reconcilePending: release, archive size, hash and URL are what was confirmed.
Reconciled(marker, offer) == offer = marker.target

\* The manifest at the recorded URL is any that has been published there.  One
\* that drifted is refused, and so is one this launcher is too old for or
\* that names no archive; an unreachable one is tried again.
FetchManifest ==
    /\ pc = "fetch"
    /\ \/ \E o \in Offers :
             /\ Release[o] <= channel
             /\ \/ Reconciled(held, o) /\ manifest' = o /\ Goto("download")
                \/ UNCHANGED manifest /\ Goto("clear")
       \/ UNCHANGED manifest /\ Goto("retry")
    /\ UNCHANGED <<folder, records, channel, held, serving, shell, goodStarts, disruptions>>

\* Not enough free space: the marker stays, and the attempt is not counted.
DiskFull ==
    /\ pc = "fetch"
    /\ disruptions < MaxDisruptions /\ disruptions' = disruptions + 1
    /\ Goto("resolve")
    /\ UNCHANGED <<folder, records, channel, work, serving, shell, goodStarts>>

\* Download, Verify, Extract, the data/ assertion and MergeConfigInto: all of
\* them pass, or the download ends as cancelled (because of the flag, or of a
\* stall: see Delivery), or the network fails, or the archive is refused.
Stage ==
    /\ pc = "download"
    /\ \/ Goto("staged")
       \/ Goto("clear_both")
       \/ Goto("retry")
       \/ Goto("clear")
    /\ UNCHANGED <<folder, records, channel, work, serving, shell, goodStarts,
                   disruptions>>

\* The last point at which a cancel is honoured.
LastCancelCheck ==
    /\ pc = "staged"
    /\ Goto(IF cancelFlag THEN "clear_both" ELSE "swap_begin")
    /\ UNCHANGED <<folder, records, channel, work, serving, shell, goodStarts,
                   disruptions>>

-----------------------------------------------------------------------------
(* The swap, and the merge of launcher/ that follows it                    *)

\* Faulty variant: launcher/ is merged before the swap.
SwapBeginMergesFirst ==
    /\ pc = "swap_begin"
    /\ game # None
    /\ swapping' = manifest /\ config' = Release[manifest]
    /\ Goto("swap_drop_backup")
    /\ UNCHANGED <<game, backup, settled, records, channel, work, serving, shell,
                   goodStarts, disruptions>>

\* The marker announces the swap before anything is moved.
SwapBegin ==
    /\ pc = "swap_begin"
    /\ game # None
    /\ swapping' = manifest
    /\ Goto("swap_drop_backup")
    /\ UNCHANGED <<game, backup, settled, config, records, channel, work, serving,
                   shell, goodStarts, disruptions>>

SwapDropBackup ==
    /\ pc = "swap_drop_backup"
    /\ backup' = None
    /\ Goto("swap_move_aside")
    /\ UNCHANGED <<game, swapping, settled, config, records, channel, work, serving,
                   shell, goodStarts, disruptions>>

\* game/ is renamed to game.old/, by Swap or by a Recover that makes it again.
SwapMoveAside ==
    /\ pc \in {"swap_move_aside", "forward_aside"}
    /\ backup' = game /\ game' = None
    /\ Goto(IF pc = "swap_move_aside" THEN "swap_promote" ELSE "forward_promote")
    /\ UNCHANGED <<swapping, settled, config, records, channel, work, serving, shell,
                   goodStarts, disruptions>>

SwapPromote ==
    /\ pc = "swap_promote"
    /\ Promote
    /\ Goto("swap_record")
    /\ UNCHANGED <<config, records, channel, work, serving, shell, disruptions>>

SwapRecord ==
    /\ pc = "swap_record"
    /\ settled' = TRUE
    /\ Goto("merge")
    /\ UNCHANGED <<game, backup, swapping, config, records, channel, work, serving,
                   shell, goodStarts, disruptions>>

\* A swap that fails before its first rename withdraws the marker.
SwapFails ==
    /\ pc \in {"swap_begin", "swap_drop_backup", "swap_move_aside"}
    /\ swapping' = None
    /\ Goto("clear")
    /\ UNCHANGED <<game, backup, settled, config, records, channel, work, serving,
                   shell, goodStarts, disruptions>>

\* One that fails between its renames puts game/ back, or, when that fails too,
\* leaves everything to Recover.
PromoteFails ==
    /\ pc = "swap_promote"
    /\ \/ /\ backup # None
          /\ game' = backup /\ backup' = None /\ swapping' = None
       \/ UNCHANGED <<game, backup, swapping>>
    /\ Goto("clear")
    /\ UNCHANGED <<settled, config, records, channel, work, serving, shell, goodStarts,
                   disruptions>>

\* MergeLauncherInto replaces file after file, launcher.config.json among
\* them; a file that cannot be replaced ends it there.
MergeLauncher ==
    /\ pc = "merge"
    /\ \/ config' = Release[manifest] /\ Goto("clear_both")
       \/ config' \in {config, Release[manifest]} /\ Goto("retry")
    /\ UNCHANGED <<game, backup, swapping, settled, records, channel, work, serving,
                   shell, goodStarts, disruptions>>

-----------------------------------------------------------------------------
(* How Apply ends                                                          *)

\* Faulty variant: the attempt is not counted.
FailRetryableUncounted ==
    /\ pc = "retry"
    /\ pending' = held
    /\ Goto("resolve")
    /\ UNCHANGED <<folder, cancelFlag, started, channel, work, serving, shell,
                   goodStarts, disruptions>>

\* failRetryable rewrites the marker Apply read, with one attempt more.
FailRetryable ==
    /\ pc = "retry"
    /\ pending' = [held EXCEPT !.retry = @ + 1]
    /\ Goto(IF held.retry + 1 >= RetryBudget THEN "clear" ELSE "resolve")
    /\ UNCHANGED <<folder, cancelFlag, started, channel, work, serving, shell,
                   goodStarts, disruptions>>

\* Faulty variant: the flag goes first, and the marker after it.
ClearPendingLast ==
    /\ pc \in {"clear", "clear_both", "repair_clear"}
    /\ IF pc = "clear_both" THEN cancelFlag' = FALSE /\ UNCHANGED pending
       ELSE pending' = NoPending /\ UNCHANGED cancelFlag
    /\ Goto(CASE pc = "clear" -> "resolve"
                 [] pc = "clear_both" -> "clear"
                 [] pc = "repair_clear" -> "repair_uncancel")
    /\ UNCHANGED <<folder, started, channel, work, serving, shell, goodStarts,
                   disruptions>>

ClearPending ==
    /\ pc \in {"clear", "clear_both", "repair_clear"}
    /\ pending' = NoPending
    /\ Goto(CASE pc = "clear" -> "resolve"
                 [] pc = "clear_both" -> "clear_cancel"
                 [] pc = "repair_clear" -> "repair_uncancel")
    /\ UNCHANGED <<folder, cancelFlag, started, channel, work, serving, shell,
                   goodStarts, disruptions>>

ClearCancel ==
    /\ pc \in {"clear_cancel", "repair_uncancel"}
    /\ cancelFlag' = FALSE
    /\ Goto(IF pc = "clear_cancel" THEN "resolve" ELSE "elect")
    /\ UNCHANGED <<folder, pending, started, channel, work, serving, shell,
                   goodStarts, disruptions>>

\* The layout check and the configuration; without game/ the start ends there.
\* --repair then drops the count and the intent (its second Recover finds
\* nothing left to do).
Resolve ==
    /\ pc = "resolve"
    /\ pc' \in IF game = None THEN {"down"} ELSE {"elect", "repair"}
    /\ held' = NoPending /\ manifest' = None
    /\ UNCHANGED <<folder, records, channel, serving, shell, goodStarts, disruptions>>

-----------------------------------------------------------------------------
(* The serving launcher: the shell's requests, one at a time               *)

\* POST /api/update/apply: latest.json, then the manifest it names, whose
\* archive the player confirms.
RequestUpdate ==
    /\ Serving /\ handler = Idle
    /\ requests < MaxRequests /\ requests' = requests + 1
    /\ channel > config
    /\ \E o \in Offers :
          /\ Release[o] = channel
          /\ handler' = [step |-> "unflag",
                         marker |-> [target |-> o, from |-> config, retry |-> 0]]
    /\ cancelled' = FALSE
    /\ UNCHANGED <<folder, records, channel, process, confirmed, goodStarts, disruptions>>

\* WritePending removes the last cycle's cancel flag before it writes the marker.
RemoveStaleCancel ==
    /\ handler.step = "unflag"
    /\ cancelFlag' = FALSE
    /\ handler' = [handler EXCEPT !.step = "record"]
    /\ UNCHANGED <<folder, pending, started, channel, process, cancelled, confirmed, requests,
                   goodStarts, disruptions>>

\* The marker is durable before the 202 that promises the update.
RecordPending ==
    /\ handler.step = "record"
    /\ pending' = handler.marker
    /\ confirmed' = confirmed \cup {handler.marker.target}
    /\ handler' = Idle
    /\ UNCHANGED <<folder, cancelFlag, started, channel, process, cancelled, requests,
                   goodStarts, disruptions>>

\* POST /api/update/cancel: ClearUpdateIntent removes the marker, then the
\* flag; RequestCancel writes the flag for an apply that is running.
CancelUpdate ==
    /\ Serving /\ handler = Idle
    /\ pending' = NoPending
    /\ handler' = [step |-> "uncancel", marker |-> NoPending]
    /\ cancelled' = FALSE
    /\ UNCHANGED <<folder, cancelFlag, started, channel, process, confirmed, requests,
                   goodStarts, disruptions>>

RemoveCancel ==
    /\ handler.step = "uncancel"
    /\ cancelFlag' = FALSE
    /\ handler' = [handler EXCEPT !.step = "flag"]
    /\ UNCHANGED <<folder, pending, started, channel, process, cancelled, confirmed, requests,
                   goodStarts, disruptions>>

RequestCancel ==
    /\ handler.step = "flag"
    /\ cancelFlag' = TRUE
    /\ cancelled' = TRUE
    /\ handler' = Idle
    /\ UNCHANGED <<folder, pending, started, channel, process, confirmed, requests,
                   goodStarts, disruptions>>

-----------------------------------------------------------------------------
(* The serving launcher: retention                                         *)

\* Both counts stop at RetireCount: the code only asks whether it is reached.
OneMore(count) == IF count < RetireCount THEN count + 1 ELSE RetireCount

\* NoteSuccessfulStart at the process's first heartbeat: with a game.old/ beside
\* game/ to retire, count a start of the release the folder reports.
NoteSuccessfulStart ==
    /\ server = "serve" /\ ~noted
    /\ noted' = TRUE
    /\ IF fallback = None THEN UNCHANGED <<started, server, goodStarts>>
       ELSE /\ goodStarts' = OneMore(goodStarts)
            /\ started' = [release |-> config,
                           count |-> IF started.release = config
                                     THEN OneMore(started.count) ELSE 1]
            /\ server' = IF started'.count >= RetireCount THEN "retire" ELSE "serve"
    /\ UNCHANGED <<folder, pending, cancelFlag, channel, pc, work, shell, disruptions>>

\* The only automatic deletion of game.old/, whatever another launcher has moved
\* there since the count was taken; one that fails is not repeated.  Without
\* game.old/ there is nothing a start could take back.
RetireBackup ==
    /\ server = "retire"
    /\ \/ /\ backup' = None /\ server' = "drop_count" /\ goodStarts' = 0
          /\ settled' = TRUE
       \/ UNCHANGED <<backup, settled, goodStarts>> /\ server' = "serve"
    /\ UNCHANGED <<game, swapping, config, records, channel, pc, work, noted,
                   shell, disruptions>>

DropCount ==
    /\ server = "drop_count"
    /\ started' = NoCount /\ server' = "serve"
    /\ UNCHANGED <<folder, pending, cancelFlag, channel, pc, work, noted, shell,
                   goodStarts, disruptions>>

-----------------------------------------------------------------------------

RecoverStep ==
    \/ RecoverForward \/ RecoverAbort \/ RecoverPromote \/ ClearMarker
    \/ RecoverBack \/ Restore \/ RecoverFails \/ RecoverNothing \/ ClearStarted

ApplyStep ==
    \/ ReadPending \/ ApplyGates \/ FetchManifest \/ Stage
    \/ LastCancelCheck \/ FailRetryable \/ ClearPending \/ ClearCancel

SwapStep ==
    \/ SwapBegin \/ SwapDropBackup \/ SwapMoveAside \/ SwapPromote \/ SwapRecord
    \/ SwapFails \/ PromoteFails \/ MergeLauncher

\* What a start does by itself, once it has been made.
StartupStep == RecoverStep \/ ApplyStep \/ SwapStep \/ Resolve \/ Elect

RequestStep == RemoveStaleCancel \/ RecordPending \/ RemoveCancel \/ RequestCancel
RetireStep == RetireBackup \/ DropCount

Next ==
    \/ Publish \/ Start \/ StartupStep \/ DiskFull \/ Crash
    \/ RequestUpdate \/ CancelUpdate \/ RequestStep
    \/ NoteSuccessfulStart \/ RetireStep \/ Exit \/ ServerCrash

Spec == Init /\ [][Next]_vars

\* A startup pass takes its next step, and the player goes on starting the
\* game; nothing is assumed of the launcher that serves.
FairSpec == Spec /\ WF_vars(StartupStep) /\ WF_vars(Start)

-----------------------------------------------------------------------------
(* Safety *)

\* Only what the player was shown and asked for, release and archive, is ever
\* installed ("a mismatch is E34, never a silent substitution", runtime.go:165).
InstalledWasConfirmed ==
    {game, backup} \ {None, FirstOffer} \subseteq confirmed

\* The folder never claims "a release it had never installed" (apply.go:475):
\* whatever is interrupted, launcher.config.json does not run ahead of game/, or
\* of game.old/ while a swap or a rollback has game/ moved aside.
\* An apply that ends with "already current" is then telling the truth.
ReportedNotAhead == current # None => config <= Release[current]

\* Once the shell has been told that the update is cancelled, and has asked for
\* nothing since, no later start installs it: the marker is gone, or the flag
\* still waits for it - whatever an apply that was running meanwhile wrote (R12.4).
CancelSticks == cancelled => pending = NoPending \/ cancelFlag

\* game.old/ is a release to fall back TO: FR-UPD-8 keeps it until the new
\* release has started successfully twice.
FallbackIsOlder == fallback # None => Release[fallback] < Release[current]

-----------------------------------------------------------------------------
(* The inductive invariant behind the safety properties *)

\* What each point of the pass knows: which copy of the marker it works on, that
\* an attempt is left, what is staged, which directories are there, and that an
\* unrecorded promotion and an announced swap are found only where a start looks
\* for them.
ControlInv ==
    /\ pc \in BeforeApply => held = NoPending
    /\ pc \in {"gates"} \cup WorkPoints \cup SwapPoints => held # NoPending
    /\ pc \in WorkPoints \cup SwapPoints => held.retry < RetryBudget
    /\ pc \in {"download", "staged"} \cup SwapPoints => manifest = held.target
    /\ pc \in {"swap_drop_backup", "swap_move_aside", "swap_promote"} => swapping = manifest
    /\ pc \in {"forward_aside", "forward_promote"} => swapping # None
    /\ pc \in {"swap_record", "merge"} => game = manifest
    /\ pc \in {"swap_drop_backup", "swap_move_aside", "forward_aside", "rolled_forward", "elect"}
                \cup RepairPoints => game # None
    /\ pc \in {"swap_move_aside", "forward_aside"} => backup = None
    /\ pc \in {"swap_promote", "forward_promote", "restore"} => game = None
    /\ swapping # None => \/ pc \in {"down", "recover", "forward_aside", "forward_promote",
                                     "swap_drop_backup", "swap_move_aside", "swap_promote"}
                          \/ pc \in {"clear", "resolve"} /\ game = None
    /\ ~settled => swapping = None /\ backup # None
    /\ ~settled => pc \in {"down", "recover", "rolled_forward", "restore", "swap_record"}
    /\ game = None /\ swapping = None /\ backup # None => ~settled
    /\ Serving /\ ~SecondStart => pc = "down" /\ settled /\ game # None
    /\ handler.step \in {"unflag", "record"} => handler.marker # NoPending

Behind(older, newer) == older # None /\ newer # None => Release[older] <= Release[newer]

\* The order of everything that names a release: what is reported and kept, what
\* is installed, what an apply works on, what is recorded, what is asked for, and
\* what is published.
OrderInv ==
    /\ backup # None /\ (game = None \/ ~settled) => config <= Release[backup]
    /\ \A o \in {game, swapping, held.target, pending.target, handler.marker.target} \ {None} :
          config <= Release[o]
    /\ Behind(backup, game) /\ Behind(game, swapping) /\ Behind(backup, swapping)
    /\ \A o \in {game, backup, swapping} :
          /\ Behind(o, held.target)
          /\ Behind(o, pending.target)
          /\ Behind(o, handler.marker.target)
    /\ Behind(held.target, pending.target)
    /\ Behind(held.target, handler.marker.target)
    /\ Behind(pending.target, handler.marker.target)
    /\ config <= channel
    /\ \A o \in {game, backup, swapping, held.target, pending.target, handler.marker.target}
                \ {None} : Release[o] <= channel

\* Whatever is on the way to game/ was asked for.
ConfirmedInv ==
    {game, backup, swapping, held.target, pending.target} \ {None, FirstOffer}
        \subseteq confirmed

\* A cancel that was answered is not half undone by a pass under way.
CancelInv ==
    /\ CancelSticks
    /\ handler.step # "idle" => ~cancelled
    /\ pc \in {"clear_cancel", "repair_uncancel"}
            /\ (cancelled \/ handler.step \in {"uncancel", "flag"}) => pending = NoPending
    /\ pc \in {"gates"} \cup WorkPoints \cup SwapPoints /\ cancelled => cancelFlag

\* What is about to be installed is newer than what is reported, and stays so
\* until it is recorded; the count is of nothing newer than what is reported, and
\* where it is of the release in game/ it counts good starts of that release.
CountInv ==
    /\ swapping # None => config < Release[swapping]
    /\ pc \in {"fetch", "download", "staged", "swap_begin"} => config < Release[held.target]
    /\ ~settled /\ game # None => config < Release[game]
    /\ started.release <= config
    /\ fallback # None /\ started.release = Release[game] => started.count <= goodStarts
    /\ ~SecondStart /\ server = "retire" => started.count >= RetireCount

\* The inductive invariant of UpdateApplyProofs.
ApplyInv == TypeOK /\ ControlInv /\ OrderInv /\ ConfirmedInv /\ CancelInv /\ CountInv

-----------------------------------------------------------------------------
(* What a step may never do *)

\* "A marker that does not move forward is a bug or a downgrade attempt"
\* (apply.go:130): only a rollback of an unrecorded promotion goes back.
OnlyRollbackGoesBack ==
    [][current # None /\ current' # None /\ Release[current'] < Release[current]
          => ~settled /\ current' = fallback]_vars

\* "A counter from an older update must not retire a newer backup"
\* (retention.go:98): game.old/ is retired when the release in game/ has had
\* its RetireCount good starts, and not before.
RetiredOnlyWhenProven ==
    [][backup # None /\ backup' = None /\ game' = game /\ swapping = None
          => goodStarts >= RetireCount]_vars

\* FallbackIsOlder is lost in one way only: by a swap that is made while the
\* folder reports less than game/ holds, that is after a launcher merge that
\* failed or was cut off (apply.go:478).
FallbackLostToRetry ==
    fallback' # None /\ Release[fallback'] >= Release[current'] =>
        \/ fallback' = fallback /\ current' = current
        \/ config < Release[current]
OnlyLostMergeCostsFallback == [][FallbackLostToRetry]_vars

\* And game.old/ is retired early, while one launcher runs at a time, only on the
\* count of a release older than the one in game/, after such a merge.
RetiredByItsCount ==
    ~SecondStart /\ backup # None /\ backup' = None /\ game' = game /\ swapping = None =>
        goodStarts >= RetireCount \/ started.release < Release[game]
OnlyOldCountRetiresEarly == [][RetiredByItsCount]_vars

-----------------------------------------------------------------------------
(* Liveness *)

\* A request that can never be satisfied does not make the launcher go to the
\* network on every start forever (R6.6): once crashes and full disks, which
\* the budget does not count, have stopped, the marker goes.
RequestSettles == pending # NoPending ~> pending = NoPending

-----------------------------------------------------------------------------
(* The abstraction it shares with UpdateSwap *)

Installed == INSTANCE InstalledRelease WITH
                Releases <- Offers, Shared <- SecondStart,
                current <- current, fallback <- fallback

\* Whatever is requested, cancelled, interrupted or retired, the installed release
\* changes only by a whole installation beside which the old one is kept, or by
\* taking back one that is not recorded; a settled release is never undone
\* ("rolling back here would silently undo a completed install", swap.go:372), and
\* none is lost but to a second launcher that retires game.old/ meanwhile.
ImplementsInstalledRelease == Installed!Spec
=============================================================================
