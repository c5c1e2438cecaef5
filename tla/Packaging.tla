------------------------------ MODULE Packaging ------------------------------
(***************************************************************************)
(* kobra-pack (src/packaging): the gates a source tree passes, the update  *)
(* archive and its manifest, and the order in which a build writes the     *)
(* files of dist/, which launchers fetch while it does. A file is known by *)
(* what the gates of the two programs tell apart: its name class.          *)
(*                                                                         *)
(* A build is one content of one release. Building it again is             *)
(* byte-identical (archive.go:37-39), so a rebuild and a restored copy are *)
(* the same step. The identity, schema and configuration checks that read  *)
(* no file name only decide whether a build starts; they are left out.     *)
(***************************************************************************)
EXTENDS Integers, FiniteSets

CONSTANTS
    Builds,      \* the builds of the release the launcher may update to
    Size,        \* the blocks of each build's update archive
    Sources,     \* the source trees a build may find, as sets of name classes
    MaxRuns      \* bound on the runs of kobra-pack

ASSUME BuildsAssumption == 0 \notin Builds
ASSUME SizeAssumption == Size \in [Builds -> Nat \ {0}]
ASSUME MaxRunsAssumption == MaxRuns \in Nat

VARIABLES
    build,       \* the running build: its step and which build it is
    artefact,    \* what each build packed, once it was staged
    dist,        \* the published files: archive, manifest, latest.json
    released     \* the builds whose run ended without an error

packVars == <<build, artefact, dist, released>>

-----------------------------------------------------------------------------
\* Name classes. Under game/: the two root files, an asset, a file no route
\* serves, a left-over release manifest, a Windows device name, a name with a
\* reserved character, a symbolic link; an overlay may also add a save.
GameNames == {"page", "asset", "loose", "manifest", "device", "odd", "link"}
LauncherNames == {"binary", "config", "denylist", "version"}
Names == GameNames \cup LauncherNames \cup {"save", "keep", "readme", "licenses"}
ASSUME SourcesAssumption == Sources \subseteq SUBSET Names

\* What stageRelease puts beside the collected tree.
Staged(source) == source \cup LauncherNames \cup {"keep"}

\* Faulty variant: the table of device names is not the launcher's.
ScanForbiddenNoDevice(tree) == tree \cap {"link", "save"} = {}

ScanForbidden(tree) == tree \cap {"link", "device", "save"} = {}

CheckServable(tree) == "page" \in tree /\ "loose" \notin tree

\* The namespaces game/ and launcher/, without the manifest itself. The index
\* and the archive are listed by two functions that must agree.
BuildFileIndex(tree) == (tree \cap (GameNames \cup LauncherNames)) \ {"manifest"}

BuildUpdateArchive(tree) == {name \in tree : name \in GameNames \cup LauncherNames /\ name # "manifest"}

BuildZip(tree) == tree \cup {"manifest", "readme", "licenses"}

\* Validate, with the pattern of files[].path in release.manifest.schema.json.
SchemaAccepts(index) == "odd" \notin index

StageAccepts(tree) ==
    /\ ScanForbidden(tree)
    /\ CheckServable(tree)
    /\ SchemaAccepts(BuildFileIndex(tree))

-----------------------------------------------------------------------------
NoArtefact == [members |-> {}, index |-> {}, zip |-> {}, sound |-> TRUE]
Artefacts == [members : SUBSET Names, index : SUBSET Names, zip : SUBSET Names, sound : BOOLEAN]

Steps == {"idle", "archive", "archiving", "manifest", "latest", "verify"}
\* What the web server holds under the archive's name. "edition" counts the
\* runs that wrote it: it stands for the file's modification time.
Archives == [of : Builds \cup {0}, len : Nat, edition : Nat]
Unpublished == [of |-> 0, len |-> 0, edition |-> 0]
Dist == [archive : Archives, manifest : Builds \cup {0}, latest : Builds \cup {0}]

PackTypeOK ==
    /\ build \in [step : Steps, of : Builds \cup {0}]
    /\ artefact \in [Builds -> Artefacts]
    /\ dist \in Dist
    /\ released \subseteq Builds

PackInit ==
    /\ build = [step |-> "idle", of |-> 0]
    /\ artefact = [b \in Builds |-> NoArtefact]
    /\ dist = [archive |-> Unpublished, manifest |-> 0, latest |-> 0]
    /\ released = {}

Advance(from, to) == build.step = from /\ build' = [build EXCEPT !.step = to]

\* Run until the first write to dist/: every gate, on a staged copy. A tree
\* that fails one leaves nothing behind. What a build packed does not change,
\* damaged by the disk ("sound" is FALSE) or not: that is what the manifest hashes.
StageRelease(b) ==
    /\ build.step = "idle" /\ dist.archive.edition < MaxRuns
    /\ build' = [step |-> "archive", of |-> b]
    /\ \/ artefact[b] # NoArtefact /\ UNCHANGED artefact
       \/ /\ artefact[b] = NoArtefact
          /\ \E source \in Sources, sound \in BOOLEAN :
                LET tree == Staged(source)
                IN  /\ StageAccepts(tree)
                    /\ artefact' = [artefact EXCEPT ![b] =
                            [members |-> BuildUpdateArchive(tree), index |-> BuildFileIndex(tree),
                             zip |-> BuildZip(tree), sound |-> sound]]
    /\ UNCHANGED <<dist, released>>

\* os.WriteFile truncates the published archive and fills it: a launcher may
\* fetch what there is in between.
BeginArchive ==
    /\ Advance("archive", "archiving")
    /\ \E len \in 0 .. (Size[build.of] - 1) :
          dist' = [dist EXCEPT !.archive =
                      [of |-> build.of, len |-> len, edition |-> dist.archive.edition + 1]]
    /\ UNCHANGED <<artefact, released>>

EndArchive ==
    /\ Advance("archiving", "manifest")
    /\ dist' = [dist EXCEPT !.archive.len = Size[build.of]]
    /\ UNCHANGED <<artefact, released>>

\* The manifest in the staged tree, the ZIP that carries it, and its copy in dist/.
PublishManifest ==
    /\ Advance("manifest", "latest")
    /\ dist' = [dist EXCEPT !.manifest = build.of]
    /\ UNCHANGED <<artefact, released>>

PublishLatest ==
    /\ Advance("latest", "verify")
    /\ dist' = [dist EXCEPT !.latest = build.of]
    /\ UNCHANGED <<artefact, released>>

\* verifyCompleteness: latest.json, the manifest and the archive are of one build.
Complete ==
    /\ dist.latest = dist.manifest
    /\ dist.archive.of = dist.manifest /\ dist.archive.len = Size[dist.manifest]

\* verifyTarIndex reads every member back, in both directions; verifyZipIndex
\* wants every indexed path in the ZIP.
VerifyTarIndex(a) == a.members = a.index /\ a.sound
VerifyZipIndex(a) == a.index \subseteq a.zip

\* The last gate: latest.json is out by now, whatever it finds.
VerifyOutput ==
    /\ Advance("verify", "idle")
    /\ released' = IF Complete /\ VerifyTarIndex(artefact[build.of]) /\ VerifyZipIndex(artefact[build.of])
                   THEN released \cup {build.of} ELSE released
    /\ UNCHANGED <<artefact, dist>>

\* The build is interrupted: what it wrote so far stays published.
KillBuild ==
    /\ build.step # "idle"
    /\ build' = [step |-> "idle", of |-> 0]
    /\ UNCHANGED <<artefact, dist, released>>

Pack ==
    \/ \E b \in Builds : StageRelease(b)
    \/ BeginArchive \/ EndArchive \/ PublishManifest \/ PublishLatest \/ VerifyOutput \/ KillBuild
=============================================================================
