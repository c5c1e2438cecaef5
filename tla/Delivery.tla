------------------------------ MODULE Delivery ------------------------------
(***************************************************************************)
(* How an update reaches a game folder: the archive kobra-pack publishes   *)
(* (Packaging), the player's request, and the startup pass that downloads, *)
(* verifies, extracts and merges it (src/launcher/internal/update:         *)
(* intent.go, download.go, stall.go, verify.go, archive.go, extract.go,    *)
(* configmerge.go, apply.go). The swap and its recovery are UpdateSwap's;  *)
(* the gates and clears of apply.go in detail are UpdateApply's.           *)
(*                                                                         *)
(* An archive is counted in blocks and known by the build its bytes are    *)
(* of; equal hashes are equal builds. The web server is external: it       *)
(* answers each request from one state of the file, as the HTTP            *)
(* specification says, and tags it by its content, by its modification     *)
(* time, or not at all.                                                    *)
(***************************************************************************)
EXTENDS Packaging

CONSTANTS
    Servers,       \* the tags the web server may give: "none", "content", "modified"
    RetryBudget,   \* attempts a request has
    MaxRequests,   \* bound on the player's requests
    Paths,         \* the configuration's settings, as <<key, subkey>>
    Owned,         \* the top-level keys the release owns
    Shipped,       \* the settings each build's configuration declares
    Local,         \* the settings the player's configuration may declare
    Known,         \* the settings the schema knows
    Defaults       \* those that Parse fills in when they are absent

ASSUME ServersAssumption == Servers \subseteq {"none", "content", "modified"}
ASSUME RequestsAssumption == MaxRequests \in Nat
ASSUME BudgetAssumption == RetryBudget \in Nat \ {0}
ASSUME ShippedAssumption == Shipped \in [Builds -> SUBSET (Paths \cap Known)]
ASSUME LocalAssumption == Local \subseteq SUBSET Paths
ASSUME DefaultsAssumption == Defaults \subseteq Known /\ Known \subseteq Paths

VARIABLES
    tags,        \* what the server tags a file by; constant
    marker,      \* pending.json
    cancelFlag,  \* the cancel request on disk
    part, meta,  \* the partial download and its sidecar
    pc, held,    \* the startup pass's step and its copy of the marker
    conn,        \* the response being read
    outcome,     \* how the last attempt at the last request ended
    installed,   \* the build whose release the game folder reports
    config,      \* launcher.config.json: who set each setting it declares
    asked,       \* history: a cancel came after the last request
    requests     \* how many requests so far

disk == <<marker, cancelFlag, part, meta>>
folder == <<installed, config>>
shell == <<asked, requests>>
vars == <<packVars, tags, disk, pc, held, conn, outcome, folder, shell>>

NoMarker == [of |-> 0, tries |-> 0]
NoPart == [of |-> {}, len |-> 0]
NoTag == [of |-> 0, len |-> 0, edition |-> 0]
NoMeta == [of |-> 0, len |-> 0, tag |-> NoTag]
Closed == Unpublished

\* Who set a setting: the player, the build of that number, or, at 0, the schema.
Player == -1

Init ==
    /\ PackInit
    /\ tags \in Servers
    /\ marker = NoMarker /\ cancelFlag = FALSE /\ part = NoPart /\ meta = NoMeta
    /\ pc = "off" /\ held = NoMarker /\ conn = Closed /\ outcome = "none"
    /\ installed = 0
    /\ \E S \in Local : config = [p \in S |-> Player]
    /\ asked = FALSE /\ requests = 0

\* The server's validator for a state of the archive.
Tag(archive) == CASE tags = "none"     -> NoTag
                  [] tags = "content"  -> [archive EXCEPT !.edition = 0]
                  [] tags = "modified" -> archive

Goto(step) == pc' = step

-----------------------------------------------------------------------------
(* The player, in a launcher that serves                                   *)

\* RecordUpdateIntent: latest.json, the manifest it names, and the marker with
\* the archive's hash and size. Both documents must be there.
Request ==
    /\ requests < MaxRequests /\ requests' = requests + 1
    /\ installed = 0 /\ dist.latest # 0 /\ dist.manifest # 0
    /\ marker' = [of |-> dist.manifest, tries |-> 0]
    /\ cancelFlag' = FALSE /\ asked' = FALSE
    /\ outcome' = IF pc = "off" THEN "none" ELSE outcome
    /\ UNCHANGED <<packVars, tags, part, meta, pc, held, conn, folder>>

\* ClearUpdateIntent, then the flag for an apply that is running elsewhere.
Cancel ==
    /\ marker # NoMarker \/ held # NoMarker
    /\ marker' = NoMarker /\ cancelFlag' = TRUE /\ asked' = TRUE
    /\ UNCHANGED <<packVars, tags, part, meta, pc, held, conn, outcome, folder, requests>>

-----------------------------------------------------------------------------
(* The startup pass                                                        *)

\* How Apply ends: what it reports, and what is left of the marker. The flag
\* goes only when it is honoured.
End(result) ==
    /\ outcome' = result /\ Goto("off")
    /\ held' = NoMarker /\ conn' = Closed
    /\ UNCHANGED <<packVars, tags, shell>>

EndCleared(result) == End(result) /\ marker' = NoMarker /\ UNCHANGED cancelFlag
EndCancelled == End("cancelled") /\ marker' = NoMarker /\ cancelFlag' = FALSE

\* failRetryable rewrites the marker Apply read, one attempt more, and removes
\* it after the last one, unless a crash comes in between.
FailRetryable ==
    /\ End("failed") /\ UNCHANGED cancelFlag
    /\ LET counted == [held EXCEPT !.tries = @ + 1]
       IN  marker' \in {counted} \cup IF counted.tries >= RetryBudget THEN {NoMarker} ELSE {}

\* Faulty variant: the budget is not looked at.
ReadMarkerUnbudgeted ==
    /\ pc = "off" /\ marker # NoMarker
    /\ held' = marker /\ Goto("fetch") /\ outcome' = "none"
    /\ UNCHANGED <<packVars, tags, disk, conn, folder, shell>>

\* Apply reads the marker; a flag that was left is honoured first, and a marker
\* that had its attempts goes, or one whose release the folder already reports.
ReadMarker ==
    /\ pc = "off" /\ marker # NoMarker
    /\ \/ /\ cancelFlag /\ EndCancelled
          /\ UNCHANGED <<part, meta, folder>>
       \/ /\ ~cancelFlag /\ marker.tries >= RetryBudget /\ EndCleared("failed")
          /\ UNCHANGED <<part, meta, folder>>
       \/ /\ ~cancelFlag /\ marker.tries < RetryBudget /\ marker.of = installed
          /\ EndCleared("skipped")
          /\ UNCHANGED <<part, meta, folder>>
       \/ /\ ~cancelFlag /\ marker.tries < RetryBudget /\ marker.of # installed
          /\ held' = marker /\ Goto("fetch") /\ outcome' = "none"
          /\ UNCHANGED <<packVars, tags, disk, conn, folder, shell>>

\* FetchManifest and reconcilePending: what was confirmed is still published.
FetchManifest ==
    /\ pc = "fetch"
    /\ \/ FailRetryable
       \/ held.of # dist.manifest /\ EndCleared("drift")
       \/ /\ held.of = dist.manifest
          /\ Goto("begin")
          /\ UNCHANGED <<packVars, tags, marker, cancelFlag, held, conn, outcome, shell>>
    /\ UNCHANGED <<part, meta, folder>>

\* downloadMeta.matches: of this archive, and not complete.
Matches == meta.of = held.of /\ meta.len > 0 /\ meta.len < Size[held.of]

Resumed == Matches /\ part.len = meta.len

\* DownloadArchive decides what to resume: a partial the sidecar does not
\* vouch for is started again, and the sidecar goes.
BeginDownload ==
    /\ pc = "begin"
    /\ Goto("send")
    /\ meta' = IF Resumed THEN meta ELSE NoMeta
    /\ part' = IF Matches /\ ~Resumed THEN NoPart ELSE part
    /\ UNCHANGED <<packVars, tags, marker, cancelFlag, held, conn, outcome, folder, shell>>

\* recordPartial: how far this response got, and its tag.
RecordPartial ==
    meta' = IF part.len = 0 THEN meta ELSE [of |-> held.of, len |-> part.len, tag |-> Tag(conn)]

\* The watchdog for a server that stops sending cancels the context, which
\* cancelOrTimeoutErr takes for the player's cancel.
Stall == EndCancelled

\* The server's answer to "Range: bytes=n-" with "If-Range": the rest, when the
\* tag still matches or none was recorded. It may always send the whole file.
AnswersRest == meta # NoMeta /\ (meta.tag = NoTag \/ meta.tag = Tag(dist.archive))

\* Faulty variant: the partial is kept when the server sends the whole file.
SendKeepsPartial ==
    /\ pc = "send"
    /\ dist.archive.of # 0
    /\ conn' = dist.archive /\ Goto("read")
    /\ part' = IF meta # NoMeta THEN part ELSE NoPart
    /\ UNCHANGED <<packVars, tags, marker, cancelFlag, meta, held, outcome, folder, shell>>

\* The request and its status: no answer, no archive, a range beyond the file
\* and a response larger than the manifest says are failures before a byte is
\* written; a 206 appends, unless the partial cannot be read back for its
\* hash, and a 200 truncates.
Send ==
    /\ pc = "send"
    /\ \/ FailRetryable /\ UNCHANGED part
       \/ Stall /\ UNCHANGED part
       \/ meta # NoMeta /\ FailRetryable /\ part' = NoPart
       \/ /\ dist.archive.of # 0
          /\ conn' = dist.archive /\ Goto("read")
          /\ \/ AnswersRest /\ meta.len < dist.archive.len /\ part' = part
             \/ dist.archive.len <= Size[held.of] /\ part' = NoPart
          /\ UNCHANGED <<packVars, tags, marker, cancelFlag, held, outcome, shell>>
    /\ UNCHANGED <<meta, folder>>

\* One read. The flag is polled before it; the archive ends at the declared
\* size, and one that ends earlier is a truncated transfer.
Read ==
    /\ pc = "read" /\ part.len < Size[held.of]
    /\ IF cancelFlag
       THEN EndCancelled /\ RecordPartial /\ UNCHANGED part
       ELSE \/ /\ part.len < conn.len
               /\ part' = [of |-> part.of \cup {conn.of}, len |-> part.len + 1]
               /\ UNCHANGED <<packVars, tags, marker, cancelFlag, meta, pc, held, conn, outcome, shell>>
            \/ FailRetryable /\ RecordPartial /\ UNCHANGED part
            \/ Stall /\ RecordPartial /\ UNCHANGED part
    /\ UNCHANGED folder

\* The file cannot be written or synced: nothing is recorded.
WriteFails ==
    /\ pc = "read"
    /\ FailRetryable
    /\ UNCHANGED <<part, meta, folder>>

EndDownload ==
    /\ pc = "read" /\ part.len = Size[held.of]
    /\ RecordPartial
    /\ conn' = Closed /\ Goto("verify")
    /\ UNCHANGED <<packVars, tags, marker, cancelFlag, part, held, outcome, folder, shell>>

-----------------------------------------------------------------------------
(* Verify, Extract, MergeConfigInto                                        *)

\* checkEntry: what a member's header alone may refuse.
CheckEntry(name) == name \notin {"link", "device", "odd", "save"}

\* The index and the archive, member by member and in total; every member is
\* under game/ or launcher/ (stagedTarget).
Installable(a) ==
    /\ \A name \in a.members : CheckEntry(name) /\ name \in GameNames \cup LauncherNames
    /\ a.members = a.index /\ a.sound

HashMatches == part.of = {held.of}

\* A refused archive goes with its sidecar.
Verify ==
    /\ pc = "verify"
    /\ IF HashMatches /\ Installable(artefact[held.of])
       THEN /\ Goto("extract")
            /\ UNCHANGED <<packVars, tags, disk, held, conn, outcome, shell>>
       ELSE /\ outcome' = (IF HashMatches THEN "unsafe" ELSE "damaged")
            /\ Goto("refused") /\ marker' = NoMarker
            /\ UNCHANGED <<packVars, tags, cancelFlag, part, meta, held, conn, shell>>
    /\ UNCHANGED folder

\* The archive is read once more into the staging folders, and goes.
\* It may fail, and so may the assertion that data/ is as it was.
Extract ==
    /\ pc = "extract"
    /\ part' = NoPart /\ meta' = NoMeta
    /\ \/ EndCleared("failed")
       \/ Goto("merge") /\ UNCHANGED <<packVars, tags, marker, cancelFlag, held, conn, outcome, shell>>
    /\ UNCHANGED folder

DropRefused ==
    /\ pc = "refused"
    /\ part' = NoPart /\ meta' = NoMeta
    /\ Goto("off") /\ held' = NoMarker
    /\ UNCHANGED <<packVars, tags, marker, cancelFlag, conn, outcome, folder, shell>>

ReleaseDoc(b) == [p \in Shipped[b] |-> b]

\* A key the release owns is taken whole from a release that declares it, at
\* either depth.
ReleaseOwns(p, release) ==
    \/ p[1] \in Owned /\ \E q \in DOMAIN release : q[1] = p[1]
    \/ p[2] \in Owned /\ p \in DOMAIN release

\* Faulty variant: an object the player's copy declares is kept whole.
MergeWhole(local, release) ==
    LET keys == {p[1] : p \in {q \in DOMAIN local : ~ReleaseOwns(q, release)}}
    IN  [p \in {q \in DOMAIN local : q[1] \in keys} \cup {q \in DOMAIN release : q[1] \notin keys} |->
            IF p[1] \in keys THEN local[p] ELSE release[p]]

\* mergeConfigDocs: object by object; otherwise the player's setting wins, and
\* what only one of the two declares stays.
Merged(local, release) ==
    LET kept == {p \in DOMAIN local : ~ReleaseOwns(p, release)}
    IN  [p \in kept \cup DOMAIN release |-> IF p \in kept THEN local[p] ELSE release[p]]

\* config.Parse fills the defaults in.
Parsed(doc) == [p \in DOMAIN doc \cup Defaults |-> IF p \in DOMAIN doc THEN doc[p] ELSE 0]

NewConfig == Parsed(Merged(config, ReleaseDoc(held.of)))

\* The merged document is validated before the swap: a setting the schema does
\* not know ends the update.
MergeConfig ==
    /\ pc = "merge"
    /\ IF DOMAIN NewConfig \subseteq Known
       THEN /\ Goto("swap")
            /\ UNCHANGED <<packVars, tags, marker, cancelFlag, held, conn, outcome, shell>>
       ELSE EndCleared("failed")
    /\ UNCHANGED <<part, meta, folder>>

\* The last point at which a cancel is honoured, then Swap, which may fail for
\* good.
Install ==
    /\ pc = "swap"
    /\ \/ cancelFlag /\ EndCancelled
       \/ ~cancelFlag /\ EndCleared("failed")
       \/ /\ ~cancelFlag /\ Goto("launcher")
          /\ UNCHANGED <<packVars, tags, marker, cancelFlag, held, conn, outcome, shell>>
    /\ UNCHANGED <<part, meta, folder>>

\* MergeLauncherInto, up to launcher.config.json, by which the folder reports
\* its release: a file that cannot be replaced leaves the update to be retried.
MergeLauncher ==
    /\ pc = "launcher"
    /\ \/ /\ installed' = held.of /\ config' = NewConfig
          /\ Goto("finish")
          /\ UNCHANGED <<packVars, tags, marker, cancelFlag, held, conn, outcome, shell>>
       \/ FailRetryable /\ UNCHANGED folder
    /\ UNCHANGED <<part, meta>>

\* The files after it, one of which may fail the same way; then it is all in.
Finish ==
    /\ pc = "finish"
    /\ \/ FailRetryable
       \/ End("installed") /\ marker' = NoMarker /\ cancelFlag' = FALSE
    /\ UNCHANGED <<part, meta, folder>>

\* A crash loses the response and the pass, and keeps the disk.
Crash ==
    /\ pc # "off"
    /\ Goto("off") /\ held' = NoMarker /\ conn' = Closed
    /\ UNCHANGED <<packVars, tags, disk, outcome, folder, shell>>

-----------------------------------------------------------------------------
Publish == Pack /\ UNCHANGED <<tags, disk, pc, held, conn, outcome, folder, shell>>

Next ==
    \/ Publish \/ Request \/ Cancel
    \/ ReadMarker \/ FetchManifest \/ BeginDownload \/ Send \/ Read \/ WriteFails \/ EndDownload
    \/ Verify \/ DropRefused \/ Extract \/ MergeConfig \/ Install \/ MergeLauncher \/ Finish \/ Crash

Spec == Init /\ [][Next]_vars

-----------------------------------------------------------------------------
(* Properties                                                              *)

Tags == [of : Builds \cup {0}, len : Nat, edition : Nat]
Outcomes == {"none", "installed", "failed", "cancelled", "drift", "skipped", "unsafe", "damaged"}

\* The values of the state; the partial never outgrows the size that was
\* confirmed while it is written (the loop's bound, download.go:382).
TypeOK ==
    /\ PackTypeOK
    /\ tags \in Servers
    /\ marker \in [of : Builds \cup {0}, tries : 0 .. RetryBudget]
    /\ cancelFlag \in BOOLEAN
    /\ part \in [of : SUBSET Builds, len : Nat]
    /\ meta \in [of : Builds \cup {0}, len : Nat, tag : Tags]
    /\ pc \in {"off", "fetch", "begin", "send", "read", "verify", "refused", "extract", "merge", "swap",
              "launcher", "finish"}
    /\ held \in [of : Builds \cup {0}, tries : 0 .. RetryBudget]
    /\ conn \in Archives
    /\ outcome \in Outcomes
    /\ installed \in Builds \cup {0}
    /\ DOMAIN config \subseteq Paths
    /\ asked \in BOOLEAN
    /\ requests \in 0 .. MaxRequests
    /\ pc = "read" => part.len <= Size[held.of]

\* A server that tags a file by its modification time never makes the launcher
\* append one build's bytes to another's, through cancels, crashes, retries
\* and archives rewritten in between ("reject it rather than splice",
\* download.go:334).
NoSplice == tags = "modified" => \A b, c \in part.of : b = c

\* An archive of a build whose kobra-pack run ended well, and which arrived
\* whole, is not refused for what is in it: the packager's gates and the
\* launcher's are two programs' tables of the same rules.
PackagedIsInstallable == pc = "refused" /\ outcome = "unsafe" => held.of \notin released

\* An installed update keeps every setting of the player's copy that the
\* release does not own, and brings every setting the release declares
\* (configmerge.go:154-172).
MergeRespectsOwner ==
    [][installed' # installed =>
         /\ Shipped[installed'] \subseteq DOMAIN config'
         /\ \A p \in DOMAIN config' :
               /\ p[1] \in Owned /\ p \in Shipped[installed'] => config'[p] = installed'
               /\ p[1] \in Owned /\ p \notin Shipped[installed'] /\ config'[p] = Player =>
                     \A q \in Shipped[installed'] : q[1] # p[1]
         /\ \A p \in DOMAIN config :
               {p[1], p[2]} \cap Owned = {} => p \in DOMAIN config' /\ config'[p] = config[p]]_vars

\* An update ends as cancelled only when the player cancelled it:
\* "cancelOrTimeoutErr distinguishes a user cancellation (E34) from a deadline
\* or stall expiry (E36)" (download.go:506).
OnlyAskedIsCancelled == outcome = "cancelled" => asked

\* Nothing but the watchdog breaks that: a flag left by an earlier cancel, a
\* marker that came back after one, a crash or a retry never ends a request as
\* cancelled that nobody cancelled (cancelOrTimeoutErr, download.go:512-516).
StallsOrAsked ==
    outcome' = "cancelled" /\ ~asked' =>
        \/ outcome = "cancelled" /\ ~asked
        \/ pc \in {"send", "read"} /\ ~cancelFlag
OnlyStallsMisreport == [][StallsOrAsked]_vars

\* An update the player cancelled before its last check does not come to the
\* swap: not by the pass that had read its marker, and not by a later one for
\* which failRetryable has written the marker back (R12.7, apply.go:430).
CancelHonoured == [][pc # "launcher" /\ pc' = "launcher" => ~asked]_vars
=============================================================================
