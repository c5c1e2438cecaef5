# Kobra launcher: a verification development in TLA+

The Kobra launcher is a single Go binary (`src/launcher`) that sits beside a
browser game. It recovers or installs an update, picks a port, serves `game/`
over loopback, stores the player's saves and settings through a small data API,
and exits when the last page has gone. `kobra-pack` (`src/packaging`) builds the
archives it installs. This directory holds TLA+ models of their core logic, the
TLC configurations that check them, and TLAPS proofs.

Paths below are relative to `src/launcher/internal/` unless they start with
`cmd/`, `docs/`, `architecture/` or `pack/` (`src/launcher/cmd/`, `src/docs/`,
`src/architecture/`, `src/packaging/internal/pack/`).

## 1. Inventory

| Component | State | Operations | Correct means | Model |
|---|---|---|---|---|
| Swap and recovery (`update/swap.go`, `movedir.go`) | `game/`, `game.old/`, `<sidecar>/update/game.new/`, `update.state`, `.game.promote-*` | `Swap`, `Recover`, `promoteDir` | a crash anywhere leaves a folder the next start makes whole; no release is lost; a half release is never served | `UpdateSwap` |
| Startup pass (`update/startup.go`, `cmd/kobra-launcher/main.go`) | none of its own | `Startup`, fast paths, `--repair`, layout check | it always ends; the steps come in the order recover, apply, look | `UpdateSwap`, `UpdateApply`; what follows it in `Launchers` |
| Apply and intent (`update/apply.go`, `intent.go`, `server/update.go`) | `pending.json`, cancel flag, `apply.lock`, `launcher.new/` | `Apply`, `RecordUpdateIntent`, cancel | only what was confirmed is installed, a cancel holds, every request is settled | `UpdateApply` |
| Retention (`update/retention.go`) | `started.json`, `game.old/` | `NoteSuccessfulStart`, `ClearStarted` | `game.old/` goes only after two good starts of the same release | `UpdateApply`, `UpdateSwap` |
| Download (`update/download.go`, `httpx.go`, `stall.go`) | partial archive, its sidecar, the response | `DownloadArchive`, resume, range, cancel, stall | the archive is of one build; a cancel is the player's | `Delivery` |
| Verification, extraction (`update/verify.go`, `archive.go`, `extract.go`) | archive, staging trees | `Verify`, `Extract` | what `kobra-pack` published is accepted; nothing else is | `Delivery`, `UpdateSwap` |
| Config merge (`update/configmerge.go`) | `launcher.config.json` | `MergeConfigInto` | every setting goes to its owner | `Delivery` |
| `kobra-pack` (`pack/`) | staged tree, `dist/` | gates, index, archive, ZIP, publication, `VerifyOutput` | its tables agree with the launcher's; what launchers see half-way does no harm | `Packaging` |
| Save store (`storage/storage.go`) | `<slot>.json`, `.bak`, temporary files, revision sidecars; revision map, writer, `writeMu` | `WriteSave`, `ReadSave`, `ListSaves`, `DeleteSave`, `InitRevisions` | an acknowledged save is never lost; a stale writer gets a conflict | `SaveStore` |
| Settings (`storage/storage.go`) | `settings.json`, `.bak` | `MergeConfig`, `ReadConfig` | a merge that was answered is not lost to another's | `DataApi` |
| Sessions (`session/session.go`) | tokens, session table, quota windows | `Exchange`, `Get`, `Reap`, `Allow`, `Clear` | a token opens one session; a refusal costs nothing | `Sessions` |
| Data API (`dataapi/`) | `updateUsed` | one handler per route | one update request per session; validation and quota before the engine | `DataApi`, `SaveStore`, `UpdateApply` |
| Server lifecycle (`server/server.go`) | last-seen time, in-flight count, draining flag, panic flag | the request chain, `Serve`, `drain`, `watchLoop` | it stops when asked or left, lets requests finish, reports panics | `Server` |
| Instance lock, port state (`sidecar/`) | `instance.lock`, `port.json` | `AcquireLock`, `CheckLiveness`, `SetPort`, `Release`, `Load`, `WriteAtomic` | one launcher serves a folder; stale files lock nobody out | `Launchers` |
| Port selection (`port/`) | none | `Validate`, `Probe`, `Scan`, `WideScan`, `Bind` | it binds a valid port or reports none | `Launchers` |
| Mods, trash (`storage/mods.go`, `CleanupTrash`) | `mods.json`, `.trash-*` | mod actions | same writer, same backup rule | not modelled |
| Browser, static files, diagnostics, errors, wire types | none that outlives a call | pure or I/O | unit tests | not modelled |
| Test game, scripts, vendored code | none | build-time | not part of the running system | not modelled |

**Interactions.** `main` runs `update.Startup` before the instance lock, the
port and the server exist. The server's first heartbeat calls
`NoteSuccessfulStart`. The data API's handlers run concurrently, each on its
own goroutine: saves and settings are serialised by `writeMu`, sessions by
their own mutex, the update handlers only write the sidecar, and the next start
applies what they wrote. `watchLoop` reaps sessions and asks for the idle stop.
Two launchers of one folder share its directories, `instance.lock`,
`apply.lock` and `port.json`. `kobra-pack` and the launcher share only files: a
build rewrites `dist/` in place while launchers fetch from it.

**What is hard.** The directory swap is not one atomic operation and spans up to
two volumes; its recovery decides from which directories exist. Replacing a
save is several operations too, and the revision a conflict check compares is
rebuilt from other files than the one it protects. A start may be cut off
anywhere and started again in another mode. A download is resumed from what an
earlier process wrote, from a file that may have been rewritten since. The
instance lock is reclaimed by name after a check of the process it named. The
drain counts requests with a counter that a panic leaves before it is reported.
`PROJECT.json` lists the hazards at their lines, with the properties that
address them or the reason why none does.

## 2. Modules

| Module | Role |
|---|---|
| `InstalledRelease` | abstract specification of an update: a current release, at most one fallback, an installation that may be taken back until it settles, and nothing lost unless a second process interferes |
| `UpdateSwap` | the swap, recovery, promotion, staging and startup order, file operation by file operation; implements `InstalledRelease` |
| `UpdateApply` | one update request over many starts: marker, gates, retry budget, cancel, launcher merge, retention count; implements `InstalledRelease` too |
| `Packaging` | `kobra-pack`: the gates on names, the index, the archive, the order in which `dist/` is written |
| `Delivery` | extends `Packaging`: request, download, verification, extraction, config merge |
| `SaveSlots` | abstract specification of the save slots: a payload is replaced whole and in one step, a confirmed one stays, a conditional write replaces what its client knew |
| `SaveStore` | the save slots: writes, reads, deletes, restarts, file operation by file operation; implements `SaveSlots` |
| `Sessions` | bootstrap tokens, the session table, quotas |
| `DataApi` | extends `Sessions`: the handlers in flight, the settings document, the update limit, restarts |
| `Server` | the request chain, heartbeats, the watcher, the drain, the exit code |
| `Launchers` | several starts in one folder: the lock, the hand-off, the port, `port.json` |
| `LeastElement` | the lemma that a finite non-empty set of integers has a least element |
| `MC*` | the instances TLC checks; several configurations each |
| `*Proofs` | the theorems of `UpdateSwap`, `UpdateApply`, `SaveStore`, `Server`, `DataApi`, `Launchers`, `Delivery` |

Two abstract specifications are implemented. `InstalledRelease` has the current
release and the one beside it: `UpdateSwap` implements it with directories and
their files, `UpdateApply` with whole directories and every request, cancel and
start around the swap. Its constant `Shared` says whether a second process may
remove `game.old/` at any time: then a fallback may go before the release beside it
has settled (`DropFallback`), and a release that is in `game.old/` because `game/`
is moved aside may be lost (`Lose`). `UpdateSwap` has one process and `Shared` is
FALSE there.
`SaveSlots` has one payload per slot: `SaveStore` implements it with its files,
backups and revision counts. Two modules are built on others: `DataApi` on
`Sessions`, `Delivery` on `Packaging`. Between the others
the interface is a file or a call, and each module has the other side as an
environment action: `UpdateApply.RequestUpdate` is what `DataApi.RecordUpdate`
calls, `Server.FirstHeartbeat` what `UpdateApply.NoteSuccessfulStart` does,
`UpdateApply.Publish` what `Packaging` publishes.

### UpdateSwap

A directory tree is a release and the set of its files present, so a tree that
is half removed, half copied or half extracted is a state. `Exists` is the
code's `dirExists`; `Complete` is what the properties ask and the code cannot.
`pc` names the next file operation of the process; each action is one
operation with its error branch, in the order of the code:

* `Recover`: `RemovePromoteDebris`, `Decide` (the whole `switch`), then the
  branch: `RollForwardDropBackup`, `RollForwardMoveAside`, `RollBackDropGame`,
  `CleanStaging`, `ClearMarker`.
* `promoteDir`: `PromoteRename`, and across volumes `CopyFile`*, `CopyFails`,
  `CopyRename`, `DropSource`. `job` tells its four callers apart; `PutBack` is
  the best-effort rollback of the two that have one.
* `Swap`: `SwapCheck`, `SwapBegin`, `SwapDropBackup`, `SwapMoveAside`,
  (`promoteDir`), `SwapPromoted`, `ClearMarker`, `SwapAbortClear`.
* `Apply` around it: `BeginApply` (apply.lock), `StageClean`, `ExtractFile`*,
  `ExtractEnds`, `AfterStaging`, `StageDrop`, `LeaveApply`; `SkipApply` stands
  for every gate that refuses.
* `main`: `Start` chooses how the start reaches `Recover` (`normal`,
  `--repair`, no writable sidecar, fast path); `Resolve` is the layout check;
  `EndRepair` ends the second `Recover` of `runRepair`; `BeginRetire` and
  `RetireBackup` remove `game.old/` while serving.
* `Crash` is enabled at every point.

`RemoveAll` removes one entry per step, in any order. The marker is written by
a temporary file and a rename, so it is either the old or the new one. Not
modelled here but in `UpdateApply`: the pending marker and its gates (any start
may or may not apply) and the retention count (any serving launcher may
retire). Not modelled: a volume that
changes between starts, files that are corrupted rather than missing, and
`removePromoteDebris` failing (logged; a copy is never read again).

### UpdateApply

Two launchers of one folder: `pc` is the one that makes its startup pass,
`server` the one that serves, with a shell that sends one request at a time
(`handler`). A directory holds an *offer* (a published archive) or `None`; two
offers may be published as one release, so that a manifest can drift under a
request. What is read early and used late is a variable: `held` is the marker
`Apply` read, `manifest` what it fetched.

* Startup: `Start`, then `Recover`, one action per branch of its `switch`
  (`update/swap.go:332-426`) and one step per rename or removal in it.
  `RecoverPromote` finishes a swap whose `game/` is away, `Restore` puts `game.old/`
  back where `game.new/` is gone too. `RecoverForward` (marker, `game/`, `game.old/`
  and `game.new/`) drops `game.old/`, and `SwapMoveAside` and `RecoverPromote` make
  the swap again; `RecoverAbort` (the same without `game.old/`, `swap.go:398-414`)
  drops `game.new/` and the marker and leaves `game/` and the request alone;
  `RecoverBack` removes a `game/` whose promotion is not recorded. `RecoverFails`
  finds nothing to recover from, `RecoverNothing` nothing to do. `ClearMarker`
  follows a promotion, `ClearStarted` a rollback.
* The swap: `swapping` is a marker with its whole `game.new/`. A release that was
  promoted over a `game.old/` is not settled until it is recorded (`~settled`).
  `current` is what is installed, in `game/` or, while a swap or a rollback has
  `game/` away, in `game.old/`; `fallback` is a `game.old/` beside `game/`.
* `Apply`: `ReadPending`, `ApplyGates` (the gates in the order of the code),
  `FetchManifest` (with `reconcilePending`), `DiskFull`, `Stage` (download,
  verify, extract, config merge), `LastCancelCheck`; `SwapBegin`,
  `SwapDropBackup`, `SwapMoveAside`, `SwapPromote`, `SwapRecord`, with `SwapFails`
  before the first rename and `PromoteFails` between the two (`game/` is put back,
  or that fails too and the marker stays); `MergeLauncher`; then `ClearPending` and
  `ClearCancel`, two files and two steps, or `FailRetryable`.
* `Resolve` (the layout check: without `game/` the start ends) and `Elect`: the
  rest of the start, with `--repair`'s clean-up.
* The shell: `RequestUpdate` (fetches), `RemoveStaleCancel`, `RecordPending`;
  `CancelUpdate`, `RemoveCancel`, `RequestCancel`.
* Retention: `NoteSuccessfulStart` at the first heartbeat, `RetireBackup`,
  `DropCount`.
* `Crash` and `ServerCrash` at any point; `Publish` moves the channel.

History: `confirmed` (offers asked for), `cancelled` (a cancel was answered and
nothing asked for since), `goodStarts` (good starts of the release in `game/`).

Abstractions: the channel is consistent (the manifest `latest.json` names is of
the release it names, and releases only move forward); writes and removals of
the small records succeed (their errors are logged and ignored; a marker that
can be neither rewritten nor removed would not be counted), and so do `Recover`'s
own renames and removals and the removal of the swap's marker, whose failures
`UpdateSwap` has. In a folder that has lost both `game/` and `game.old/` to a second
launcher an apply fails at its swap; that a crash after its extraction leaves a
`game.new/` which the next start promotes is not followed. Every
archive carries `launcher/` and none `game/release.manifest.json` (`Verify`
refuses one), so the installed release is the one `launcher.config.json` names.
The progress and result records are left out, and so are an invalid marker (the
launcher writes only valid ones), two requests at once (`DataApi` has the
once-per-session limit) and two startup passes at once.

### Packaging and Delivery

A file is known by its *name class*, which is what the gates of the two programs
tell apart: a device name, a reserved character, a link, a file no route serves,
a left-over manifest. An archive is counted in blocks and known by the build its
bytes are of; equal hashes are equal builds (a build is reproducible,
`pack/archive.go:37`).

* `Packaging`: `StageRelease` (every gate, before the first write), then
  `BeginArchive`, `EndArchive`, `PublishManifest`, `PublishLatest`,
  `VerifyOutput`: the order in which `pack.go` writes `dist/`, in place.
  `KillBuild` at any point; what was written stays published. An artefact that
  the disk damaged (`sound` is FALSE) is found only by `VerifyOutput`.
* The player: `Request` (reads `latest.json` and the manifest it names),
  `Cancel`.
* The startup pass: `ReadMarker` (the cancel flag, the budget, already current:
  `skipped`), `FetchManifest`, `BeginDownload` (the resume decision), `Send` (the
  range request and its answers), `Read` (a block, a cancel, a failure, a stall),
  `WriteFails`, `EndDownload`, `Verify`, `DropRefused`, `Extract`, `MergeConfig`,
  `Install` (the last look at the cancel flag, and the swap), `MergeLauncher`
  (`launcher.config.json`, or an attempt that failed), `Finish`; `Crash` at any
  point.
* `Merged` is `mergeConfigDocs` over settings two levels deep, `Parsed` the
  defaults `config.Parse` fills in.

External: the web server. It answers from one state of the file, may always
send the whole of it, and tags it by its content, by its modification time or
not at all (`Servers`).

Abstractions: the gates and clears of `apply.go` and the swap are one step here
and detailed in `UpdateApply` and `UpdateSwap`. A build installs once
(`installed = 0` for a request): what a second update finds is what the first
did, a folder with a configuration. The deadline of the whole download is a
failure like any other. Several releases in one run of `kobra-pack`, its
identity, schema and configuration checks, the checksum file and its signature,
the development shim and the local install are left out: they decide whether a
build starts, or write files no launcher reads. Tar and zstd decoding, URL
checks and redirects are a failure or none.

### SaveStore

A payload is the number of the write that made it. `pc`/`op` is the operation
that holds `writeMu`; `Load` (list, then read), `ClaimWriter` and a refused
write take place around it. `writeAtomic` is `WriteTemp`, `DropOldBackup`,
`MoveAside`, `Install`; `WriteSave` continues with `Bump` (`setRevision`,
`pruneRevisions`), `WriteSidecar`, `Reply`. `DeleteSave` is `BeginDelete`,
`TrashMain`, `TrashBak`. `Start` is `QuarantineStrayTemps` and `InitRevisions`.
`token[c][s]` is what client `c` last learnt of slot `s`, from a list and read
or from a reply that reached it. `acked` and `disturbed` are history: the last
confirmed payload, and the slots whose count started over (by a delete, or by a
restart that rebuilt another number than the readable file's).

Abstractions: `writeAtomic`'s cross-device fallback is left out (the temporary
file is in the target's directory); pruned sidecars go in one step, since only
the highest is ever read and it is kept or goes last; the contents of the trash,
corrupt files, quotas and the index file are left out; what a 409 reply tells
its client is not used as knowledge (the shell re-reads). The writer role is
claimed but no write requires it, as in the code.

### Sessions and DataApi

`Sessions` is the store behind one mutex, so each method is one step. Times are
ages: `Tick` makes everything older, and an age stops at the limit it is compared
with. `Exchange`, `ExchangeFull` and `ExchangeRefused` are the three ends of
`Exchange`; `Found` and `NotFound` of `Get`; `Allowed` and `Refused` of `Allow`;
`Reap` and `Clear` are themselves. A token that was used, expired and removed, or
never issued gets one answer, so all three are `Spent`.

`DataApi` has the requests in flight, one per slot: `Arrive`, then
`ExchangeToken` or `Authenticate`, then the handler. `handleSaveWrite` is `Save`
(the quota; the engine is `SaveStore`), `handleUpdateApply` is `ClaimUpdate` and
`RecordUpdate`, with the network between them, `handleConfigWrite` is
`ConfigQuota`, `Rotate` and `Install`: the read, the merge and the two renames of
`writeAtomic`, under `writeMu`. `Reject` stands for every check that answers
without touching state and for the handlers that only read. `Panic` releases
what deferred functions release. `End` (an exit or a crash, anywhere) and
`Start` keep the files only.

A settings document is a version per top-level key; `acked` is the version of
each key that was answered 200. Left out: the store's own `ClaimWriter` and
`ReleaseWriter`, which only tests call (the engine's writer role is in
`SaveStore`); the index of mods and its handlers.

### Server

A request occupies a slot and is `gated` (past `drainGate`), `running` (counted
by `trackInFlight`, admitted by `concurrencyLimit`), in the hook of the `first`
heartbeat, or `unwound` (its handler panicked; `trackInFlight`'s deferred
decrement ran, `recovery` writes the crash file). That a panic leaves the count
before it is recorded, and that a request may pass the gate before the drain
and be counted after it, are states here. A handler may hang for ever, panic
(`Panic`, `Recovered`) or return.

`Watch` is `watchLoop`, `Signal` the signal goroutine (or the testing lifetime),
`ShutdownRequest` the API's; the first reason wins. `BeginDrain`, `EndDrain`
(nothing counted, or `DrainTimeout`), `Close` (`httpSrv.Shutdown`, or its two
seconds), `Exit` (main's exit code), `ListenerFails`, `Crash`, `Start`. `exit` is
what the process reported: its code, whether a wait ran out (`clean`), whether
requests were left (`abandoned`). `past` is history.

### Launchers

One process per start, which runs once; between two starts there may be a crash
at any step, so what the next one finds is any file the last could leave.
`lockFile` is the launcher whose file has the name `instance.lock`: a file that
lost its name is still written by its owner.

* `AcquireLock`: `ReadLock`, `FoundLive` or `FoundStale` (`CheckLiveness`),
  `RemoveStale` (by name), `CreateLock` (`O_EXCL`), `LostRace`, `WriteLock`. Each
  operation on the file may fail (`TurnedAway`): `AcquireLock` returns the error and
  `main` reports "Another launcher is starting. Try again in a moment."
  (`main.go:307-319`). A lock that cannot be read is taken for none and met again at
  `CreateLock`; a write that fails removes whatever has the name, or leaves it.
* The port: `ChoosePort` (`Load`, `selectCandidate`, `Validate`, `confirmPort`),
  `Bind`, `Rescan` (the one re-entry after `EADDRINUSE`), `GiveUp`.
* `PublishPort` (`SetPort`), `RotatePortState` and `SavePortState`
  (`WriteAtomic`, with the gap in which there is no `port.json`).
* `BeginDrain`, `EndDrain`, `Release`, `ResetOrigin`, `Crash`; `Others` are the
  ports other programs and launchers of the same game elsewhere hold.

`failed` is history: the launchers under which an operation on the file failed.
`slow` are the launchers whose lock is more than two seconds younger than their
process (`lock.go:97`); `excuse` records what the lock is not made for: starts
or stops that overlap, a health check that timed out on a live launcher, a lock
that could not be completed with its port, `--reset-origin-state`. Left out: the
origin history in `port.json`, which nothing decides on; a PID that is reused by
a process that began within the tolerance.

## 3. Runs

| Run | Bounds | Shows |
|---|---|---|
| `swap` | 3 releases, 2 files, one volume, normal and repair starts, failing marker writes and extractions; 21 thousand states | the safety of the swap, and that it implements `InstalledRelease` |
| `swap_faults` | 2 releases, 2 files, two volumes, all four kinds of start, all six kinds of failing operation; 368 thousand states | what holds without any assumption: marker before move, atomic promotion, start-up ends |
| `swap_fast_path` | 2 releases, 2 files, one volume, normal and fast-path starts | finding 1 |
| `apply` | 4 offers of 3 releases, 2 requests, any number of cancels and starts, one crash or full disk, retry budget 2, a second launcher; 1.7 million states | only the confirmed is installed, a cancel holds, the folder does not report ahead, a request settles, and all of it, rename by rename, implements `InstalledRelease` |
| `apply_merge` | 1 request, one crash, one launcher at a time | finding 2 |
| `saves` | 1 slot, 2 interchangeable clients, `keep_revisions` 1, 4 writes, deletes, all failing operations; 96 thousand states | saves are kept and conflicts found, and the store implements `SaveSlots` |
| `dataapi` | 2 requests in flight, 2 tokens, 2 session ids, room for one session, 2 settings keys, 2 merges, a quota of one write; 270 thousand states | tokens, the update limit and the settings under races, refusals, expiries and restarts |
| `server` | 3 requests in flight, 2 admitted at a time, idle timeout 2, drain and close 1 tick each; 70 thousand states | panics are reported, no request is dropped without a wait, a start counts once, the launcher stops |
| `launchers` | 3 starts, 3 ports of which one is denied and two are in the window; any operation on the lock file may fail; 3.1 million states | of launchers started one after the other one serves, what a stale file says locks nobody out, a checked hand-off opens this game |
| `launchers_exclusive` | the same | finding 3 |
| `delivery` | 2 builds of 2 and 3 blocks, 6 source trees, 3 runs of `kobra-pack`, 2 requests, retry budget 2, a server that tags by modification time; 5.8 million states | no splice, packaged is installable, the merge respects its owners |
| `delivery_stall` | the same with 2 runs and servers that tag by content or not at all | finding 4 |

Why the bounds are enough.

*The update.* Two files are the least with which a tree can be partial and
still pass the layout check (index.html there, another file missing) or partial
and fail it. Three releases let a fallback, a current and a staged release
differ. Crashes, restarts and updates are not bounded in `UpdateSwap`. In
`UpdateApply` the second request, the second archive of a release and the third
release are the least with which a request can be overtaken, a manifest can
drift and a counter can outlive its update; `RetryBudget` 2 (3 in the code) is
the least that distinguishes a first failure from the last; starts, cancels and
heartbeats are unbounded. In `Delivery` archives of 2 and 3 blocks give every
relation of a partial to a smaller, equal or larger file; the third run of
`kobra-pack` is the least that can put an old build back; the source trees take
one name class each through the gates; cancels, crashes and stalls are
unbounded.

*The data.* In `SaveStore` the only bound is `MaxWrites`: four writes are enough
for a file, its backup, a lost sidecar and a reused number; slots do not
interact (each action changes one slot), so one slot suffices, and two clients
are needed for one to be stale. In `DataApi` two requests are the least that
race, two tokens and one place the least with which a table is full, and two
keys the least with which one merge can lose another; expiries and restarts are
unbounded.

*The processes.* In `Server` three requests over two places let one wait, one run
and one unwind; time is unbounded (ages stop at their limits). In `Launchers` the
third start is the one that can meet a lock that two others fought over; ports,
crashes and other programs are unbounded, each launcher runs once.

The proofs have none of these bounds. Interchangeable clients and launchers are
symmetric in the runs without liveness properties; no property names one.

Deadlock is checked except in `delivery`, where the instance ends: the requests and
the runs of `kobra-pack` are used up and nothing is pending. In `launchers` the other
programs go on taking and leaving ports when every launcher has run, and in the
other modules a process that is down can be started again.

**Fairness** is used by four properties.
* `StartupEnds` (`swap_faults`) assumes only `WF_vars(StartupStep)`: the process
  that runs `Startup` takes its next step. It is one sequential Go function
  without a wait on another process (`acquireFileLock` does not block).
* `RequestSettles` (`apply`) assumes that a startup pass goes on and that the
  player starts the game again (`WF_vars(Start)`); crashes and full disks, which
  the retry budget does not count, are bounded by `MaxDisruptions`, so it says
  that a request settles once they stop.
* `StopsWhenAsked` and `StopsWhenIdle` (`server`) assume that time passes and
  that the launcher's own goroutines run: `WF_vars(Tick)`, `WF_vars(Watch)`,
  `WF_vars(Lifecycle)`. `watchLoop` is driven by a ticker and `Serve` by a
  channel; neither takes a lock that a handler holds. Nothing is assumed of the
  handlers and the pages: a handler may hang for ever.

**Mutants.** For each property of a passing run the modules carry a faulty
variant of an operation (`...IgnoresMarker`, `...Unlinks`, ...), written the way
the code might plausibly go wrong; the property is violated when the variant
takes the operation's place.

**By hand.** Five more configurations show observations 5 to 9 below and are run
with `tlc -config`: `MCUpdateSwapCrossDevice.cfg`, `MCSaveStoreSidecar.cfg`,
`MCSaveStoreDelete.cfg`, `MCUpdateApplyRetention.cfg`, `MCLaunchersRefused.cfg`. The inductive invariants
`SwapInv`, `ApplyInv` and `SaveInv`, which the modules define for their proofs,
can be added to the configurations of `swap`, `apply` and `saves` and hold there.
So can the properties that are theorems without a run of their own, and they hold
there as well: `StartupDescends` (`swap_faults`), `OnlyRollbackGoesBack` and
`OnlyLostMergeCostsFallback` (`apply`), `OnlyOldCountRetiresEarly` (`apply_merge`
and `MCUpdateApplyRetention.cfg`: it is about one launcher at a time),
`ReadableNeverRegresses` (`saves`), `SessionsBounded` and `SettingsChangeByOneMerge`
(`dataapi`), `StopIsBounded` (`server`), `ListensAlone` (`launchers`),
`OnlyStallsMisreport` and `CancelHonoured` (`delivery`).

## 4. Findings

Listed in `PROJECT.json`, each with a run that TLC ends with a counterexample:

1. **A diagnostic start may destroy the installed release.** `--check-port` and
   `--diagnostics` run `Recover` without a staging root
   (`cmd/kobra-launcher/main.go:214-226`). After a crash inside the removal of
   `game.old/`, with `game/` and `game.new/` both whole, such a start sees
   "staging gone", deletes `game/`, restores the partial `game.old/` and clears
   the marker; the next normal start then removes `game.new/` as debris.
   (`swap_fast_path`.) A start that finds no writable sidecar takes the same path.
2. **A lost launcher merge costs the fallback.** `MergeLauncherInto` fails
   (`update/apply.go:478`), or a crash falls between the rename of `game/` to
   `game.old/` and the end of the merge (after the first rename the next start's
   `Recover` finishes the swap; before it `Recover` aborts and nothing is lost). The
   new release is in `game/` and the config still names the previous one, so a later
   start does not retry the merge, as the comment says, but swaps the same release
   again. `game.old/` then holds the release just installed, and the previous one is
   gone before the new one ever started. (`apply_merge`; the run's counterexample is
   the crash between the two renames.) Nothing else costs it:
   `OnlyLostMergeCostsFallback` is a theorem.
3. **A slow start loses its instance.** The lock records when it was created and
   `CheckLiveness` compares that with when the process began, give or take two
   seconds (`sidecar/lock.go:97`). The startup pass comes before the lock, so a
   launcher that installed an update is "pid_reused" to every later start, which
   reclaims the lock and serves beside it (`docs/launcher-architecture.md:27`: "A
   live instance of the same game means handoff"). (`launchers_exclusive`.)
4. **A stalled download is a cancel.** The stall guard calls `cancel()`, so the
   context's error is `Canceled` and `cancelOrTimeoutErr` (`update/download.go:515`)
   returns `errCancelled`, although the comment above it says it distinguishes
   the two. `Apply` clears the request and reports that the player cancelled,
   instead of counting an attempt. (`delivery_stall`.) No other interleaving
   misreports one: `OnlyStallsMisreport` is a theorem.

Observations with a configuration run by hand:

5. **A cross-device promotion may be undone by a partial one.** After
   `promoteDir` has renamed the copy into place it removes the staging tree file
   by file (`update/movedir.go:60`), and only then does `Swap` record "promoted". A
   crash in between leaves a partial `game.new/` that `Recover` takes for
   "intact" because it exists (`update/swap.go:352`): it discards `game.old/`, moves
   the good `game/` aside and promotes the partial tree.
6. **A missing sidecar hides a conflict.** `architecture/Launcher-spec.md:1499`
   says it causes a false one. `InitRevisions` prefers the highest sidecar to the
   file's own revision, so the number is used again and a client that holds it
   overwrites a save it never read.
7. **A delete restarts the counter** (`storage/storage.go:969`) although the
   revision "MUST" be monotonic; a client that holds the deleted save's number
   overwrites its successor.
8. **An older update's count retires a newer backup.** The count is keyed by the
   release the config names (`update/retention.go:98`). While launcher merges fail,
   that is an older release, whose count goes on over the next update; the newer
   backup is retired at the first good start. No crash is needed. With one launcher
   at a time nothing else retires early (`OnlyOldCountRetiresEarly`, a theorem).
9. **Every failure of the lock is told as another launcher.** `main.go:318` says
   "Another launcher is starting" for a sidecar folder that cannot be made, a lock
   that cannot be read, removed or written, or a full disk, when no launcher runs:
   trying again in a moment does not help. `GivesWayToLauncher` therefore excepts
   starts under which such an operation failed; `TurnedAwayByLauncher`, which does
   not, is violated.

Also met while modelling, mostly without a document that says what is right:

* *Apply.* A serving launcher that retires `game.old/` (`update/retention.go:120`)
  while another start has `game/` moved aside removes the installed release, until
  `game.new/` is promoted; one that does so between a rollback's removal of `game/`
  and its rename leaves no release at all. This is `Lose`, which `InstalledRelease`
  allows only when `Shared`.
  A request recorded while another launcher applies an older one is
  overwritten by that apply's `failRetryable`, or removed by its `ClearPending`.
  A merge that fails after `launcher.config.json` was replaced is not retried,
  since the next start reports "already current". A swap that fails "stays
  retryable", says a comment (`apply.go:460-463`), but `failTerminal` removes the
  marker. `Updater-spec.md` R12.5 has the
  cancel flag removed at the start of an apply; the code removes it when a request
  is recorded, which is what `CancelSticks` needs. The check that `data/` is
  unchanged (`apply.go:383-418`) fails the update when another launcher saves
  during the extraction.
* *Download.* With a server that tags by content, a crash at exactly the recorded
  count while the server goes back to an older file can splice; with one that
  sends no tag a splice needs no crash. The hash catches both, and the request is
  lost, which is why `NoSplice` is stated for servers that tag by modification
  time. After a 200 answer the partial is truncated and the old sidecar stays. A
  complete partial is never resumed (`download.go:160`), although 436-437 say a
  crash before the rename can resume; the sidecar is written when a transfer ends,
  so a crash during one starts again.
* *Merge.* A setting that only the player's file has and the schema does not know
  ends the update, although R14.4 has it preserved. The merge writes out the
  schema's defaults, which count as the player's at the next update.
* *`kobra-pack`.* `dist/` is overwritten in place and `latest.json` is published
  (`pack/pack.go:316`) before `VerifyOutput` (332) may refuse the build.
* *Server.* `trackInFlight` decrements before `recovery` sets the panic flag: only
  the two seconds of `httpSrv.Shutdown` keep exit code 4 for a panic that meets the
  end of a drain. A listener that fails after a panic exits with 1. The goodbye of
  one tab ages the page for all (`server.go:240`). No caller releases the engine's
  writer role (`storage.go:1221`).
* *Lock.* A lock without a port yet is reclaimed although its owner is alive, and
  so is one that is created and not yet written; `Release` removes whatever has
  the name; a lost race hands off to an origin nobody asked; `SetPort`'s failure
  is only logged (`main.go:410`); `--reset-origin-state` removes a live lock;
  `Load` does not look for the file `WriteAtomic` moved aside. These are the
  `excuse` of `OneServes`.
* *Data API.* `updateUsed` is set before the request is recorded and stays when
  recording fails (`handlers.go:564-570`). `MergeConfig` over a corrupt
  `settings.json` without a backup starts from an empty document
  (`storage.go:1171`).

## 5. Proofs

TLAPS checks the theorems below for every value of the constants, from the named
assumptions in the modules that declare them (finite sets of slots and ports,
positive limits, `None` outside the sets it is distinguished from) and nothing
else. Each module proves an inductive invariant first, with one lemma per part
or group of actions and one case per action; the properties follow from it.

*UpdateSwapProofs.* Unconditionally: type correctness, `MarkerBeforeMove`,
`PromotionAtomic`; their invariant, `HeldInv`, says only what each control point
knows of the marker and of the copy. Assuming `Sheltered`: `MarkerCoversGap`,
`ReleaseSurvives`, `ServedReleaseWhole`, `RecoverPostcondition`,
`RollForwardIntact`, and that `UpdateSwap` implements `InstalledRelease`.
`Sheltered` has three parts, each needed: one volume (observation 5), every start
finds its sidecar (finding 1), and nothing but a marker write or an extraction
fails (a marker that cannot be removed, for instance, makes the next partly
extracted `game.new/` look like a swap to finish). The properties are not
inductive: nothing in them says why the tree a branch promotes is whole.
`SwapInv` adds `DiskInv`, what every arrangement a crash can leave satisfies
(the marker is there whenever `game/` is not whole; a staging tree beside no
`game/` is whole; with both directories and a marker the tree the branch needs
is whole), and `ControlInv`, what each control point has established. The
refinement shows that each step maps to one step of `InstalledRelease` or to a
stutter. `StartupDescends`, unconditional again, is the part of `StartupEnds` that
can be proved: every step of a start-up pass lowers a pair of natural numbers, the
stages still before it and the files the current stage has left, whichever
operations fail, so recovery, extraction and copying cannot loop on a tree of any
size. That the steps are taken is the fairness `StartupEnds` assumes.

*UpdateApplyProofs.* Type correctness, `InstalledWasConfirmed`,
`ReportedNotAhead`, `CancelSticks`, `OnlyRollbackGoesBack`, the two bounds on what a
lost launcher merge costs, and that `UpdateApply` implements `InstalledRelease`:
promotions install, whoever makes them; `Recover` settles or takes back; a swap, a
repeated swap and retention drop the fallback; and no rename aside, abort, request,
cancel or gate changes what is installed. The one loss is a second launcher's
retirement while `game/` is away, and the theorem names it (`Lose`, `Shared` only).
`ApplyInv` adds
`ControlInv` (which copies each point of the pass works on, which directories are
there, and that announced swaps and unrecorded promotions are found only where a
start looks for them);
`OrderInv`, one chain through everything that names a release - reported, kept,
installed, staged, held by an apply, recorded, being requested, published -
without which a retry of an older request could not be told from one that goes
back; `ConfirmedInv`, the confirmation followed along the same chain; and
`CancelInv`, which says why a running apply cannot undo a cancel: it finds the
flag, or has removed the marker first; and `CountInv`, which says that an apply
goes past its gates only towards a release newer than the reported one, so that
what it promotes is newer than anything `started.json` counts. From `CountInv`
follow the bounds on findings 2 and 8: `FallbackIsOlder` is lost only by a swap
made while the folder reports less than `game/` holds
(`OnlyLostMergeCostsFallback`, whatever a second launcher does), and `game.old/` is
retired early only on the count of an older release (`OnlyOldCountRetiresEarly`,
one launcher at a time: a second one may swap between the count and the removal).

*SaveStoreProofs.* Type correctness, `AckedReadable`, `ListedRevisionCurrent`,
`ReadableNeverRegresses`, `ConflictDetected`, and that `SaveStore` implements
`SaveSlots`: of the renames of `writeAtomic` exactly one makes the new payload the
readable one, every failure before it leaves the slot alone, and a reply comes
after it. `SaveInv` adds `CountInv` (nothing
is ahead of the number of writes begun), `PayloadInv` (where the new and the old
payload are at each point of a write), `RevisionInv` (memory, readable file
and tokens agree while a slot is undisturbed) and `HistoryInv` (a slot's backup is
older than its file, so that what a delete leaves is older than what it took).

*DataApiProofs.* Type correctness, `SingleUse`, `UpdateRecordedOnce`,
`SettingsKept`, `TokenOutlivesRefusal`. The invariant adds `ReqInv` (what a
request's point says of its fields and of the lock), `UpdateInv` (a request
about to record is the only one of its session, the session is marked and has
recorded nothing: the property alone does not survive the step from `record`)
and `DocInv` (what is readable, and the document the one request under the lock
is about to install, are at least as new as what was answered and older than
what comes next). Two more follow: `SessionsBounded`, the table's bound counted with
the dead sessions in it, and `SettingsChangeByOneMerge`, that a reader of
`settings.json` sees one whole merge after the other through both renames and the
failure of either. Every operation of the store but `Exchange` is shown to
be *quiet*: it opens no session and revives no token.

*ServerProofs.* Type correctness, `PanicReported`, `ExitAbandonsNone`,
`StartCountedOnce`. `PanicReported` fails to be inductive exactly where the code
is subtle: between the unwinding of a handler and `recovery` nothing but the
request itself knows of the panic. `PanicInv` says that a panic is recorded or
unwinding in some slot, and `ExitInv` that a process that stopped without a wait
that ran out has nothing in any slot; together they give the exit code.
`HookInv` says that the hook of the first heartbeat has run, is running in one
slot, or was lost to a panic; `DownInv` what a process that is gone has left.
`StopIsBounded` is the part of `StopsWhenAsked` that can be proved: within a process
nothing lengthens what is left of the drain and the close, each step of `Serve` and
each tick of a wait shortens it, and a reason to stop is never replaced.

*LaunchersProofs.* Type correctness, `OneServes`, `GivesWayToLauncher`,
`HandoffFindsGame`. `OneServes` is about launchers started one after the other, each
once the last is serving or gone, and quick to their lock and to their answers: it
covers any number of starts, crashes, give-ups, failing lock operations and
reclaimed files, and neither starts that overlap one another or an end nor races of
two reclaims, after which two may serve (those are the `excuse`). `OneInv` holds
while there is no excuse: at most one launcher starts or stops at a time; while
another serves, that one's file has the name `instance.lock` and records the port
it listens on; so the starting one is at the read or at the check of that very
file, or about to be refused by a file it could not read, and no further. `ContentInv` ties each
file to the point its owner has reached, and what a launcher read to what the
file still says; `CompanyInv` says that launchers that are alive together, or
that find the name taken after they saw it free or stale, had company, or could not
read the file; `GivesWayToLauncher` follows. `ListensAlone`
needs no excuse: ports are kept apart by the operating system's bind and not by the
lock, and a lock file names no port but its owner's.

*DeliveryProofs.* Type correctness, `NoSplice`, `PackagedIsInstallable`,
`MergeRespectsOwner`, for any builds, sizes, source trees, numbers of runs and
requests, servers, and configurations. `SpliceInv` is the argument for resuming:
no response and no recorded tag is newer than the published archive, one of the
same edition is of the same build, and a partial recorded under the published
edition is of that build alone; so a response that is appended is of the
partial's build. `PackInv` says that what any build packed is within the
launcher's tables and that a released build's archive was read back sound;
`HeldInv` what the startup pass holds at each point; `RefusedInv` that an archive
refused for its content is one the launcher cannot install. `AskedInv` follows a
request to its end: while the player has cancelled, the marker is gone or the flag
is there, and without a cancel there is no flag. From it follow
`OnlyStallsMisreport`, which bounds finding 4, and `CancelHonoured`: a cancelled
update never comes to the swap.

**Only model-checked**: `StartupEnds`, `RequestSettles`, `StopsWhenAsked`,
`StopsWhenIdle` (liveness under fairness is out of the prover's reach), and the
four violations; the measures behind `StartupEnds` and `StopsWhenAsked` are theorems
(`StartupDescends`, `StopIsBounded`). Every other property of
a passing run is a theorem.

## 6. Not modelled

* **Mods and the trash** (`storage/mods.go`, `CleanupTrash`): they share the
  engine's mutex and no file with the saves; each handler is one scan and one
  write of an index. Known gaps, for a unit test: `ReadMods` takes no lock and has
  no backup to fall back to, `DeleteMod` removes outright when the trash is on
  another volume, trash directories are named by the second (`storage.go:975`).
* **The session store's `ClaimWriter` and `ReleaseWriter`**: no caller outside the
  tests.
* **The origin history of `port.json`**, the progress and result records of an
  update, the log ring, error envelopes: written for a reader outside the launcher;
  nothing modelled decides on them.
* **Two startup passes at once** in one folder: `Recover` takes no lock, and two
  of them interleave file operation by file operation. `apply.lock` keeps two
  applies apart; `UpdateApply` has one start beside one serving launcher, and the
  hazard is listed.
* **What `kobra-pack` checks of identity and configuration**, several releases in
  one run, checksums and signature (no verifier exists), the shim, the local
  install: they decide whether a build starts, or write what no launcher reads.
* **Tar, zstd, JSON and URL parsing, path normalisation, hashing**: pure, and
  covered by unit tests on their inputs; a model would be their transliteration.
* **Browser launch, static files, diagnostics, fault injection, test game,
  scripts, vendored code**: no state that outlives a call, or not part of the
  running system.

A next step would be two concurrent recoveries over one `UpdateSwap` disk (its
constants `Launchers` and `Self` name the processes), and the mod handlers beside
a running scan.
