---------------------------- MODULE DeliveryProofs ----------------------------
(***************************************************************************)
(* Proofs about Packaging and Delivery, for any builds, archive sizes,     *)
(* source trees, server tags, budgets and configurations: type             *)
(* correctness, that no two builds are spliced, that what a finished       *)
(* build published is installable, that the merge respects both owners of  *)
(* a setting, and what becomes of a cancel.                                *)
(***************************************************************************)
EXTENDS Delivery, TLAPS

-----------------------------------------------------------------------------
(* The inductive invariant *)

\* A build that writes has been staged, and has passed every gate; one that
\* ended well is sound; an archive nobody wrote is of no build.
PackInv ==
    /\ build.step # "idle" => build.of \in Builds /\ artefact[build.of] # NoArtefact
    /\ \A b \in Builds :
          /\ artefact[b].members = artefact[b].index
          /\ \A name \in artefact[b].members : CheckEntry(name) /\ name \in GameNames \cup LauncherNames
    /\ \A b \in released : artefact[b] # NoArtefact /\ artefact[b].sound
    /\ dist.archive.edition = 0 => dist.archive.of = 0

\* A request is for a build; a pass works on one that has attempts left, and
\* asks for the rest only of a partial its sidecar describes.
HeldInv ==
    /\ marker # NoMarker => marker.of \in Builds
    /\ pc # "off" => held.of \in Builds /\ held.tries < RetryBudget
    /\ pc = "read" => conn.of \in Builds
    /\ pc = "send" /\ meta # NoMeta =>
          meta.of = held.of /\ meta.len = part.len /\ meta.len < Size[held.of]

\* With tags that are modification times: a response and a recorded tag are no
\* newer than the published archive, one of the same time is of the same build,
\* and a partial recorded under the archive's time is of that build alone.
SpliceInv ==
    tags = "modified" =>
        /\ conn.edition <= dist.archive.edition
        /\ conn.edition = dist.archive.edition => conn.of = dist.archive.of
        /\ meta # NoMeta =>
              /\ meta.tag.of # 0 /\ meta.tag.edition <= dist.archive.edition
              /\ meta.tag.edition = dist.archive.edition => part.of \subseteq {dist.archive.of}
        /\ pc = "read" =>
              /\ part.of \subseteq {conn.of}
              /\ meta # NoMeta => meta.tag.edition <= conn.edition
        /\ NoSplice

\* An archive that was refused for its content is not installable.
RefusedInv ==
    pc = "refused" /\ outcome = "unsafe" => held.of \in Builds /\ ~Installable(artefact[held.of])

DeliveryInv == TypeOK /\ PackInv /\ HeldInv /\ SpliceInv /\ RefusedInv

-----------------------------------------------------------------------------
(* Records *)

Markers == [of : Builds \cup {0}, tries : 0 .. RetryBudget]
Parts == [of : SUBSET Builds, len : Nat]
Metas == [of : Builds \cup {0}, len : Nat, tag : Tags]
BuildRecords == [step : Steps, of : Builds \cup {0}]
Confirmed(b) == [of |-> b, tries |-> 0]
Counted(m) == [m EXCEPT !.tries = @ + 1]
Received(b, n) == [of |-> b, len |-> n]
Sidecar(b, n, t) == [of |-> b, len |-> n, tag |-> t]
Written(b, n, e) == [of |-> b, len |-> n, edition |-> e]
Kept(members, index, zip, sound) ==
    [members |-> members, index |-> index, zip |-> zip, sound |-> sound]

\* Markers.
LEMMA MarkerFacts ==
    /\ NoMarker \in Markers /\ NoMarker.of = 0
    /\ \A b \in Builds \cup {0} : Confirmed(b) \in Markers /\ Confirmed(b).of = b
    /\ \A m \in Markers : m.of \in Builds \cup {0} /\ m.tries \in 0 .. RetryBudget
    /\ \A m \in Markers : m.tries < RetryBudget => Counted(m) \in Markers /\ Counted(m).of = m.of
  <1>1. NoMarker \in Markers /\ NoMarker.of = 0
      BY BudgetAssumption DEF NoMarker, Markers
  <1>2. \A b \in Builds \cup {0} : Confirmed(b) \in Markers /\ Confirmed(b).of = b
      BY BudgetAssumption DEF Confirmed, Markers
  <1>3. \A m \in Markers : m.of \in Builds \cup {0} /\ m.tries \in 0 .. RetryBudget
      BY DEF Markers
  <1>4. ASSUME NEW m \in Markers, m.tries < RetryBudget
        PROVE  Counted(m) \in Markers /\ Counted(m).of = m.of
    <2>1. m.tries + 1 \in 0 .. RetryBudget
        BY <1>3, <1>4, BudgetAssumption
    <2> QED BY <2>1 DEF Counted, Markers
  <1> QED BY <1>1, <1>2, <1>3, <1>4

\* Partials and sidecars.
LEMMA PartFacts ==
    /\ NoPart \in Parts /\ NoPart.of = {} /\ NoPart.len = 0
    /\ \A p \in Parts : p.of \subseteq Builds /\ p.len \in Nat
    /\ \A b \in SUBSET Builds, n \in Nat :
          Received(b, n) \in Parts /\ Received(b, n).of = b /\ Received(b, n).len = n
  BY DEF NoPart, Parts, Received

\* The published archive, and what a server tags it by.
LEMMA ArchiveFacts ==
    /\ Closed \in Archives /\ Closed.of = 0 /\ Closed.edition = 0 /\ Tags = Archives
    /\ \A a \in Archives : a.of \in Builds \cup {0} /\ a.len \in Nat /\ a.edition \in Nat
    /\ \A b \in Builds \cup {0}, n, e \in Nat :
          /\ Written(b, n, e) \in Archives /\ Written(b, n, e).of = b
          /\ Written(b, n, e).len = n /\ Written(b, n, e).edition = e
    /\ \A a \in Archives, n \in Nat :
          LET f == [a EXCEPT !.len = n]
          IN  f \in Archives /\ f.of = a.of /\ f.edition = a.edition
  BY DEF Closed, Unpublished, Archives, Tags, Written

\* A sidecar records a build and a tag.
LEMMA MetaFacts ==
    /\ NoMeta \in Metas
    /\ \A m \in Metas : m.of \in Builds \cup {0} /\ m.len \in Nat /\ m.tag \in Tags
    /\ \A b \in Builds \cup {0}, n \in Nat, t \in Tags :
          /\ Sidecar(b, n, t) \in Metas /\ Sidecar(b, n, t).of = b
          /\ Sidecar(b, n, t).len = n /\ Sidecar(b, n, t).tag = t
  <1>1. NoMeta \in Metas
      BY DEF NoMeta, NoTag, Metas, Tags
  <1> QED BY <1>1 DEF Metas, Sidecar

\* A tag is a tag.
LEMMA TagFacts ==
    ASSUME NEW a \in Archives, tags \in {"none", "content", "modified"}
    PROVE  Tag(a) \in Tags /\ (tags = "modified" => Tag(a) = a)
  <1>1. CASE tags = "none"
      BY <1>1 DEF Tag, NoTag, Tags
  <1>2. CASE tags = "content"
      BY <1>2 DEF Tag, Tags, Archives
  <1>3. CASE tags = "modified"
      BY <1>3 DEF Tag, Tags, Archives
  <1> QED BY <1>1, <1>2, <1>3

\* dist/, file by file.
LEMMA DistFacts ==
    ASSUME NEW d \in Dist
    PROVE  /\ d.archive \in Archives /\ d.manifest \in Builds \cup {0} /\ d.latest \in Builds \cup {0}
           /\ \A a \in Archives :
                 LET f == [d EXCEPT !.archive = a]
                 IN  f \in Dist /\ f.archive = a
           /\ \A b \in Builds :
                 LET f == [d EXCEPT !.manifest = b]
                     g == [d EXCEPT !.latest = b]
                 IN  f \in Dist /\ f.archive = d.archive /\ g \in Dist /\ g.archive = d.archive
  BY DEF Dist

\* A build's record.
LEMMA BuildFacts ==
    /\ \A step \in Steps, b \in Builds \cup {0} :
          LET r == [step |-> step, of |-> b]
          IN  r \in BuildRecords /\ r.step = step /\ r.of = b
    /\ \A r \in BuildRecords : r.step \in Steps /\ r.of \in Builds \cup {0}
    /\ \A r \in BuildRecords, step \in Steps :
          LET f == [r EXCEPT !.step = step]
          IN  f \in BuildRecords /\ f.step = step /\ f.of = r.of
  BY DEF BuildRecords

\* What a build keeps.
LEMMA ArtefactFacts ==
    /\ NoArtefact \in Artefacts /\ NoArtefact.members = {} /\ NoArtefact.index = {}
    /\ \A members, index, zip \in SUBSET Names, sound \in BOOLEAN :
          LET a == Kept(members, index, zip, sound)
          IN  /\ a \in Artefacts /\ a.members = members /\ a.index = index
              /\ a.zip = zip /\ a.sound = sound
  BY DEF NoArtefact, Artefacts, Kept

-----------------------------------------------------------------------------
(* kobra-pack *)

\* What a step of a build may do: what a build packed stays, and the archive's
\* time moves on with its writer.
Packed ==
    /\ PackTypeOK' /\ PackInv'
    /\ \A b \in Builds : artefact[b] # NoArtefact => artefact'[b] = artefact[b]
    /\ released \subseteq released'
    /\ \/ dist'.archive.edition = dist.archive.edition /\ dist'.archive.of = dist.archive.of
       \/ dist'.archive.edition = dist.archive.edition + 1

\* A tree that passes the gates packs members that pass the launcher's.
LEMMA GatesAgree ==
    ASSUME NEW source \in Sources, StageAccepts(Staged(source))
    PROVE  LET tree == Staged(source)
           IN  /\ BuildUpdateArchive(tree) = BuildFileIndex(tree)
               /\ BuildUpdateArchive(tree) \subseteq Names /\ BuildUpdateArchive(tree) # {}
               /\ BuildZip(tree) \subseteq Names
               /\ \A name \in BuildUpdateArchive(tree) :
                     CheckEntry(name) /\ name \in GameNames \cup LauncherNames
  <1> DEFINE tree == Staged(source)
  <1>1. ScanForbidden(tree) /\ CheckServable(tree) /\ SchemaAccepts(BuildFileIndex(tree))
      BY DEF StageAccepts
  <1>2. tree \subseteq Names
      BY SourcesAssumption DEF Staged, Names
  <1>3. tree \cap {"link", "device", "save"} = {} /\ "page" \in tree
      BY <1>1 DEF ScanForbidden, CheckServable
  <1> HIDE DEF tree
  <1>4. BuildUpdateArchive(tree) = BuildFileIndex(tree)
      BY DEF BuildUpdateArchive, BuildFileIndex
  <1>5. BuildUpdateArchive(tree) \subseteq tree /\ "page" \in BuildUpdateArchive(tree)
      BY <1>3 DEF BuildUpdateArchive, GameNames
  <1>6. "odd" \notin BuildUpdateArchive(tree)
      BY <1>1, <1>4 DEF SchemaAccepts
  <1>7. \A name \in BuildUpdateArchive(tree) :
           CheckEntry(name) /\ name \in GameNames \cup LauncherNames
    <2> SUFFICES ASSUME NEW name \in BuildUpdateArchive(tree)
                 PROVE  CheckEntry(name) /\ name \in GameNames \cup LauncherNames
        OBVIOUS
    <2>1. name \notin {"link", "device", "save"} /\ name # "odd"
        BY <1>3, <1>5, <1>6
    <2>2. name \in GameNames \cup LauncherNames
        BY DEF BuildUpdateArchive
    <2> QED BY <2>1, <2>2 DEF CheckEntry
  <1>8. BuildZip(tree) \subseteq Names
      BY <1>2 DEF BuildZip, Names, GameNames
  <1> QED BY <1>2, <1>4, <1>5, <1>7, <1>8 DEF tree

\* A build that advances is the same build.
LEMMA Advanced ==
    ASSUME PackTypeOK, NEW from \in Steps, NEW to \in Steps, Advance(from, to)
    PROVE  build' \in BuildRecords /\ build'.step = to /\ build'.of = build.of /\ build.step = from
  BY BuildFacts DEF Advance, PackTypeOK, BuildRecords

\* The steps are steps.
LEMMA StepFacts == {"idle", "archive", "archiving", "manifest", "latest", "verify"} \subseteq Steps
  BY DEF Steps

\* Every step of a build keeps what it packed.
LEMMA PackNext == PackTypeOK /\ PackInv /\ [Pack]_packVars => Packed
  <1> SUFFICES ASSUME PackTypeOK, PackInv, [Pack]_packVars PROVE Packed
      OBVIOUS
  <1>0. /\ build \in BuildRecords /\ artefact \in [Builds -> Artefacts]
        /\ dist \in Dist /\ released \subseteq Builds
      BY DEF PackTypeOK, BuildRecords
  <1> USE DEF Packed, PackInv
  <1>1. ASSUME NEW b \in Builds, StageRelease(b) PROVE Packed
    <2>1. build' \in BuildRecords /\ build'.step = "archive" /\ build'.of = b
        BY <1>1, BuildFacts, StepFacts DEF StageRelease
    <2>2. UNCHANGED <<dist, released>>
        BY <1>1 DEF StageRelease
    <2>3. CASE artefact[b] # NoArtefact /\ UNCHANGED artefact
        BY <1>0, <2>1, <2>2, <2>3 DEF PackTypeOK, BuildRecords
    <2>4. CASE artefact[b] = NoArtefact
      <3>1. PICK source \in Sources, sound \in BOOLEAN :
                /\ StageAccepts(Staged(source))
                /\ artefact' = [artefact EXCEPT ![b] =
                       Kept(BuildUpdateArchive(Staged(source)), BuildFileIndex(Staged(source)),
                            BuildZip(Staged(source)), sound)]
          BY <1>1, <2>4 DEF StageRelease, Kept
      <3> DEFINE tree == Staged(source)
                 new == Kept(BuildUpdateArchive(tree), BuildFileIndex(tree), BuildZip(tree), sound)
      <3>2. /\ BuildUpdateArchive(tree) = BuildFileIndex(tree)
            /\ BuildUpdateArchive(tree) \in SUBSET Names /\ BuildUpdateArchive(tree) # {}
            /\ BuildZip(tree) \in SUBSET Names
            /\ \A name \in BuildUpdateArchive(tree) :
                  CheckEntry(name) /\ name \in GameNames \cup LauncherNames
          BY <3>1, GatesAgree
      <3> HIDE DEF tree
      <3>3. /\ new \in Artefacts /\ new.members = BuildUpdateArchive(tree)
            /\ new.index = BuildFileIndex(tree) /\ new.sound = sound
          BY <3>2, ArtefactFacts
      <3>4. new # NoArtefact
          BY <3>2, <3>3, ArtefactFacts
      <3>5. artefact' = [artefact EXCEPT ![b] = new]
          BY <3>1 DEF tree
      <3> HIDE DEF new
      <3>6. /\ artefact' \in [Builds -> Artefacts] /\ artefact'[b] = new
            /\ \A c \in Builds \ {b} : artefact'[c] = artefact[c]
          BY <1>0, <3>3, <3>5
      <3>7. PackTypeOK'
          BY <1>0, <2>1, <2>2, <3>6 DEF PackTypeOK, BuildRecords
      <3>8. \A c \in released : artefact[c] # NoArtefact /\ c # b /\ c \in Builds
          BY <1>0, <2>4
      <3> QED BY <2>1, <2>2, <2>4, <3>2, <3>3, <3>4, <3>6, <3>7, <3>8
    <2> QED BY <1>1, <2>3, <2>4 DEF StageRelease
  <1>2. CASE BeginArchive
    <2>1. /\ build' \in BuildRecords /\ build'.step = "archiving" /\ build'.of = build.of
          /\ build.step = "archive" /\ build.of \in Builds
        BY <1>2, Advanced, StepFacts DEF BeginArchive
    <2>2. PICK len \in 0 .. (Size[build.of] - 1) :
             dist' = [dist EXCEPT !.archive = Written(build.of, len, dist.archive.edition + 1)]
        BY <1>2 DEF BeginArchive, Written
    <2>3. /\ len \in Nat /\ dist.archive.edition \in Nat /\ dist.archive.edition + 1 \in Nat
        BY <1>0, <2>1, SizeAssumption, DistFacts, ArchiveFacts
    <2> DEFINE new == Written(build.of, len, dist.archive.edition + 1)
    <2>4. new \in Archives /\ new.of = build.of /\ new.edition = dist.archive.edition + 1
        BY <2>1, <2>3, ArchiveFacts
    <2> HIDE DEF new
    <2>5. dist' \in Dist /\ dist'.archive = new
        BY <1>0, <2>2, <2>4, DistFacts DEF new
    <2>6. UNCHANGED <<artefact, released>>
        BY <1>2 DEF BeginArchive
    <2>7. PackTypeOK'
        BY <1>0, <2>1, <2>5, <2>6 DEF PackTypeOK, BuildRecords
    <2> QED BY <2>1, <2>3, <2>4, <2>5, <2>6, <2>7
  <1>3. CASE EndArchive
    <2>1. /\ build' \in BuildRecords /\ build'.step = "manifest" /\ build'.of = build.of
          /\ build.step = "archiving" /\ build.of \in Builds
        BY <1>3, Advanced, StepFacts DEF EndArchive
    <2>2. Size[build.of] \in Nat
        BY <2>1, SizeAssumption
    <2> DEFINE new == [dist.archive EXCEPT !.len = Size[build.of]]
    <2>3. dist' = [dist EXCEPT !.archive = new] /\ UNCHANGED <<artefact, released>>
        BY <1>3, <1>0 DEF EndArchive, Dist
    <2>4. new \in Archives /\ new.of = dist.archive.of /\ new.edition = dist.archive.edition
        BY <1>0, <2>2, DistFacts, ArchiveFacts
    <2> HIDE DEF new
    <2>5. dist' \in Dist /\ dist'.archive = new
        BY <1>0, <2>3, <2>4, DistFacts
    <2>6. PackTypeOK'
        BY <1>0, <2>1, <2>3, <2>5 DEF PackTypeOK, BuildRecords
    <2> QED BY <2>1, <2>3, <2>4, <2>5, <2>6
  <1>4. CASE PublishManifest
    <2>1. /\ build' \in BuildRecords /\ build'.step = "latest" /\ build'.of = build.of
          /\ build.step = "manifest" /\ build.of \in Builds
        BY <1>4, Advanced, StepFacts DEF PublishManifest
    <2>2. dist' \in Dist /\ dist'.archive = dist.archive /\ UNCHANGED <<artefact, released>>
        BY <1>4, <1>0, <2>1, DistFacts DEF PublishManifest
    <2>3. PackTypeOK'
        BY <1>0, <2>1, <2>2 DEF PackTypeOK, BuildRecords
    <2> QED BY <2>1, <2>2, <2>3
  <1>5. CASE PublishLatest
    <2>1. /\ build' \in BuildRecords /\ build'.step = "verify" /\ build'.of = build.of
          /\ build.step = "latest" /\ build.of \in Builds
        BY <1>5, Advanced, StepFacts DEF PublishLatest
    <2>2. dist' \in Dist /\ dist'.archive = dist.archive /\ UNCHANGED <<artefact, released>>
        BY <1>5, <1>0, <2>1, DistFacts DEF PublishLatest
    <2>3. PackTypeOK'
        BY <1>0, <2>1, <2>2 DEF PackTypeOK, BuildRecords
    <2> QED BY <2>1, <2>2, <2>3
  <1>6. CASE VerifyOutput
    <2>1. /\ build' \in BuildRecords /\ build'.step = "idle" /\ build'.of = build.of
          /\ build.step = "verify" /\ build.of \in Builds
        BY <1>6, Advanced, StepFacts DEF VerifyOutput
    <2>2. /\ UNCHANGED <<artefact, dist>> /\ released \subseteq released'
          /\ \A b \in released' : b \in released \/ (b = build.of /\ artefact[b].sound)
        BY <1>6 DEF VerifyOutput, VerifyTarIndex
    <2>3. PackTypeOK'
        BY <1>0, <2>1, <2>2 DEF PackTypeOK, BuildRecords
    <2> QED BY <2>1, <2>2, <2>3
  <1>7. CASE KillBuild
    <2>1. build' \in BuildRecords /\ build'.step = "idle"
        BY <1>7, BuildFacts, StepFacts DEF KillBuild
    <2>2. UNCHANGED <<artefact, dist, released>>
        BY <1>7 DEF KillBuild
    <2> QED BY <1>0, <2>1, <2>2 DEF PackTypeOK, BuildRecords
  <1>8. CASE UNCHANGED packVars
      BY <1>8, <1>0 DEF packVars, PackTypeOK
  <1> QED BY <1>1, <1>2, <1>3, <1>4, <1>5, <1>6, <1>7, <1>8 DEF Pack

-----------------------------------------------------------------------------
(* Types *)

\* TypeOK with the records as sets of their own.
Typed ==
    /\ PackTypeOK /\ tags \in {"none", "content", "modified"} /\ tags \in Servers
    /\ marker \in Markers /\ held \in Markers
    /\ cancelFlag \in BOOLEAN
    /\ part \in Parts /\ meta \in Metas
    /\ pc \in {"off", "fetch", "begin", "send", "read", "verify", "refused", "extract", "merge", "swap",
              "launcher", "finish"}
    /\ conn \in Archives
    /\ outcome \in Outcomes
    /\ installed \in Builds \cup {0}
    /\ DOMAIN config \subseteq Paths
    /\ asked \in BOOLEAN
    /\ requests \in 0 .. MaxRequests
    /\ pc = "read" => part.len <= Size[held.of]

\* The two say the same.
LEMMA SameTypes == TypeOK <=> Typed
  BY ServersAssumption DEF TypeOK, Typed, Markers, Parts, Metas

\* An attempt that failed counts on the request it was made for, or ends it.
LEMMA Failed ==
    ASSUME held \in Markers, pc # "off", HeldInv, FailRetryable
    PROVE  /\ marker' \in Markers /\ (marker' # NoMarker => marker'.of \in Builds)
           /\ pc' = "off" /\ held' = NoMarker /\ conn' = Closed /\ outcome' = "failed"
           /\ UNCHANGED <<cancelFlag, packVars, tags, shell>>
  <1>1. Counted(held) \in Markers /\ Counted(held).of = held.of /\ held.of \in Builds
      BY MarkerFacts DEF HeldInv
  <1>2. marker' \in {Counted(held), NoMarker}
      BY DEF FailRetryable, Counted
  <1> QED BY <1>1, <1>2, MarkerFacts DEF FailRetryable, End, Goto

\* A cancel that is honoured ends the request.
LEMMA Cancelled ==
    ASSUME EndCancelled
    PROVE  /\ marker' = NoMarker /\ cancelFlag' = FALSE /\ pc' = "off" /\ held' = NoMarker
           /\ conn' = Closed /\ outcome' = "cancelled" /\ UNCHANGED <<packVars, tags, shell>>
  BY DEF EndCancelled, End, Goto

\* So does any other end.
LEMMA Cleared ==
    ASSUME NEW result, EndCleared(result)
    PROVE  /\ marker' = NoMarker /\ pc' = "off" /\ held' = NoMarker /\ conn' = Closed
           /\ outcome' = result /\ UNCHANGED <<cancelFlag, packVars, tags, shell>>
  BY DEF EndCleared, End, Goto

\* What is recorded of a response is a sidecar of the build that is fetched.
LEMMA Recorded ==
    ASSUME Typed, held.of \in Builds, RecordPartial
    PROVE  /\ meta' \in Metas
           /\ part.len = 0 => meta' = meta
           /\ part.len # 0 => meta'.of = held.of /\ meta'.tag = Tag(conn)
  <1>1. part.len \in Nat /\ Tag(conn) \in Tags
      BY PartFacts, TagFacts DEF Typed
  <1>2. meta' = IF part.len = 0 THEN meta ELSE Sidecar(held.of, part.len, Tag(conn))
      BY DEF RecordPartial, Sidecar
  <1> QED BY <1>1, <1>2, MetaFacts DEF Typed

\* The first pass finds the types.
LEMMA TypesInit == Init => Typed /\ HeldInv /\ PackInv /\ RefusedInv /\ SpliceInv
  <1> SUFFICES ASSUME Init PROVE Typed /\ HeldInv /\ PackInv /\ RefusedInv /\ SpliceInv
      OBVIOUS
  <1>1. build \in BuildRecords /\ build.step = "idle"
      BY BuildFacts, StepFacts DEF Init, PackInit
  <1>2. dist \in Dist /\ dist.archive = Unpublished
      BY ArchiveFacts DEF Init, PackInit, Dist, Closed
  <1>3. PackTypeOK
      BY <1>1, <1>2, ArtefactFacts DEF Init, PackInit, PackTypeOK, BuildRecords
  <1>4. PackInv
      BY <1>1, <1>2, ArtefactFacts, ArchiveFacts DEF Init, PackInit, PackInv, Closed
  <1>5. DOMAIN config \subseteq Paths
      BY LocalAssumption DEF Init
  <1>6. tags \in {"none", "content", "modified"} /\ requests \in 0 .. MaxRequests
      BY ServersAssumption, RequestsAssumption DEF Init
  <1>7. Typed
      BY <1>3, <1>5, <1>6, MarkerFacts, PartFacts, MetaFacts, ArchiveFacts DEF Init, Typed, Outcomes
  <1>8. HeldInv /\ RefusedInv
      BY DEF Init, HeldInv, RefusedInv
  <1>9. SpliceInv
      BY <1>2, ArchiveFacts, PartFacts DEF Init, SpliceInv, NoSplice, Closed
  <1> QED BY <1>4, <1>7, <1>8, <1>9

\* Every step keeps the types, and what a pass works on is a build's.
LEMMA TypesNext == Typed /\ PackInv /\ HeldInv /\ [Next]_vars => (Typed /\ HeldInv)'
  <1> SUFFICES ASSUME Typed, PackInv, HeldInv, [Next]_vars PROVE (Typed /\ HeldInv)'
      OBVIOUS
  <1> USE DEF Typed, HeldInv, disk, folder, shell, Goto
  <1>0. UNCHANGED packVars => PackTypeOK'
      BY DEF packVars, PackTypeOK
  <1>1. CASE Publish
    <2>1. PackTypeOK' /\ UNCHANGED <<tags, disk, pc, held, conn, outcome, folder, shell>>
        BY <1>1, PackNext DEF Publish, Packed
    <2> QED BY <2>1
  <1>2. CASE Request
    <2>1. dist.manifest \in Builds
        BY <1>2, DistFacts DEF Request, PackTypeOK
    <2>2. /\ marker' = Confirmed(dist.manifest) /\ cancelFlag' = FALSE /\ asked' = FALSE
          /\ outcome' \in Outcomes
        BY <1>2 DEF Request, Confirmed, Outcomes
    <2>3. requests' \in 0 .. MaxRequests
        BY <1>2, RequestsAssumption DEF Request
    <2>4. UNCHANGED <<packVars, tags, part, meta, pc, held, conn, installed, config>>
        BY <1>2 DEF Request
    <2>5. marker' \in Markers /\ marker'.of \in Builds
        BY <2>1, <2>2, MarkerFacts
    <2> QED BY <1>0, <2>2, <2>3, <2>4, <2>5
  <1>3. CASE Cancel
      BY <1>3, <1>0, MarkerFacts DEF Cancel
  <1>4. CASE ReadMarker
    <2>1. CASE EndCancelled \/ EndCleared("failed") \/ EndCleared("skipped")
        BY <1>0, <1>4, <2>1, Cancelled, Cleared, MarkerFacts, ArchiveFacts DEF ReadMarker, Outcomes
    <2>2. CASE held' = marker /\ pc' = "fetch"
        BY <1>0, <1>4, <2>2, Cancelled, Cleared, MarkerFacts DEF ReadMarker, Outcomes
    <2> QED BY <1>4, <2>1, <2>2 DEF ReadMarker
  <1>5. CASE FetchManifest
    <2>1. CASE FailRetryable \/ EndCleared("drift")
        BY <1>0, <1>5, <2>1, Failed, Cleared, MarkerFacts, ArchiveFacts DEF FetchManifest, Outcomes
    <2>2. CASE pc' = "begin"
        BY <1>0, <1>5, <2>2, Failed, Cleared DEF FetchManifest
    <2> QED BY <1>5, <2>1, <2>2 DEF FetchManifest
  <1>6. CASE BeginDownload
    <2>1. meta' \in Metas /\ part' \in Parts
        BY <1>6, MetaFacts, PartFacts DEF BeginDownload
    <2>2. meta' # NoMeta => /\ meta' = meta /\ part' = part /\ meta.of = held.of
                            /\ part.len = meta.len /\ meta.len < Size[held.of]
        BY <1>6 DEF BeginDownload, Resumed, Matches
    <2>3. UNCHANGED <<packVars, tags, marker, cancelFlag, held, conn, outcome, folder, shell>>
        BY <1>6 DEF BeginDownload
    <2>4. pc = "begin" /\ pc' = "send"
        BY <1>6 DEF BeginDownload
    <2> QED BY <1>0, <2>1, <2>2, <2>3, <2>4
  <1>7. CASE Send
    <2>1. pc = "send" /\ held.of \in Builds /\ UNCHANGED <<meta, folder>>
        BY <1>7 DEF Send
    <2>2. part' \in {part, NoPart}
        BY <1>7 DEF Send
    <2>3. part' \in Parts
        BY <2>2, PartFacts
    <2>4. CASE FailRetryable \/ Stall
        BY <1>0, <2>1, <2>3, <2>4, Failed, Cancelled, MarkerFacts, ArchiveFacts DEF Stall, Outcomes
    <2>5. CASE /\ dist.archive.of # 0 /\ conn' = dist.archive /\ pc' = "read"
               /\ UNCHANGED <<packVars, tags, marker, cancelFlag, held, outcome, shell>>
               /\ (AnswersRest /\ part' = part) \/ part' = NoPart
      <3>1. conn' \in Archives /\ conn'.of \in Builds
          BY <2>5, DistFacts, ArchiveFacts DEF PackTypeOK
      <3>2. Size[held.of] \in Nat /\ part'.len \in Nat /\ meta.len \in Nat
          BY <2>1, <2>3, SizeAssumption, PartFacts, MetaFacts
      <3>3. part'.len <= Size[held.of]
          BY <2>1, <2>5, <3>2, PartFacts DEF AnswersRest
      <3> QED BY <1>0, <2>1, <2>3, <2>5, <3>1, <3>3
    <2> QED BY <1>7, <2>4, <2>5 DEF Send
  <1>8. CASE Read
    <2>1. /\ pc = "read" /\ held.of \in Builds /\ conn.of \in Builds /\ UNCHANGED folder
          /\ part.len < Size[held.of]
        BY <1>8 DEF Read
    <2>2. CASE EndCancelled /\ RecordPartial /\ UNCHANGED part
        BY <1>0, <2>1, <2>2, Cancelled, Recorded, MarkerFacts, ArchiveFacts DEF Outcomes
    <2>3. CASE FailRetryable /\ RecordPartial /\ UNCHANGED part
        BY <1>0, <2>1, <2>3, Failed, Recorded, MarkerFacts, ArchiveFacts DEF Outcomes
    <2>4. CASE /\ part' = Received(part.of \cup {conn.of}, part.len + 1)
               /\ UNCHANGED <<packVars, tags, marker, cancelFlag, meta, pc, held, conn, outcome, shell>>
      <3>1. /\ part.len \in Nat /\ part.len + 1 \in Nat /\ Size[held.of] \in Nat
            /\ part.of \cup {conn.of} \in SUBSET Builds
          BY <2>1, PartFacts, SizeAssumption
      <3>2. part' \in Parts /\ part'.len <= Size[held.of]
          BY <2>1, <2>4, <3>1, PartFacts
      <3> QED BY <1>0, <2>1, <2>4, <3>2
    <2> QED BY <1>8, <2>2, <2>3, <2>4 DEF Read, Stall, Received
  <1>9. CASE WriteFails
      BY <1>9, <1>0, Failed, MarkerFacts, ArchiveFacts DEF WriteFails,
         Outcomes
  <1>10. CASE EndDownload
    <2>1. meta' \in Metas
        BY <1>0, <1>10, Recorded DEF EndDownload
    <2> QED BY <1>0, <1>10, <2>1, ArchiveFacts DEF EndDownload
  <1>11. CASE Verify
      BY <1>11, <1>0, MarkerFacts DEF Verify, Outcomes
  <1>12. CASE DropRefused
      BY <1>12, <1>0, MarkerFacts, PartFacts, MetaFacts DEF DropRefused
  <1>13. CASE Extract
      BY <1>13, <1>0, Cleared, MarkerFacts, PartFacts, MetaFacts, ArchiveFacts
         DEF Extract, Outcomes
  <1>14. CASE MergeConfig
      BY <1>14, <1>0, Cleared, MarkerFacts, ArchiveFacts DEF MergeConfig,
         Outcomes
  <1>15. CASE Install
    <2>1. CASE EndCancelled \/ EndCleared("failed")
        BY <1>0, <1>15, <2>1, Cancelled, Cleared, MarkerFacts, ArchiveFacts DEF Install, Outcomes
    <2>2. CASE pc' = "launcher" /\ UNCHANGED <<packVars, tags, marker, cancelFlag, held, conn,
                                               outcome, shell>>
        BY <1>0, <1>15, <2>2 DEF Install
    <2> QED BY <1>15, <2>1, <2>2 DEF Install
  <1>16. CASE Crash
      BY <1>16, <1>0, MarkerFacts, ArchiveFacts DEF Crash
  <1>18. CASE MergeLauncher
    <2>1. pc = "launcher" /\ held.of \in Builds /\ UNCHANGED <<part, meta>>
        BY <1>18 DEF MergeLauncher
    <2>2. CASE FailRetryable /\ UNCHANGED folder
        BY <1>0, <2>1, <2>2, Failed, MarkerFacts, ArchiveFacts DEF Outcomes
    <2>3. CASE installed' = held.of /\ config' = NewConfig
      <3>1. DOMAIN NewConfig \subseteq Paths
        <4>1. DOMAIN ReleaseDoc(held.of) \subseteq Paths
            BY <2>1, ShippedAssumption DEF ReleaseDoc
        <4>2. DOMAIN Merged(config, ReleaseDoc(held.of)) \subseteq Paths
            BY <4>1 DEF Merged
        <4> QED BY <4>2, DefaultsAssumption DEF NewConfig, Parsed
      <3>2. DOMAIN config' \subseteq Paths
          BY <2>3, <3>1
      <3>3. \/ /\ pc' = "finish"
               /\ UNCHANGED <<packVars, tags, marker, cancelFlag, held, conn, outcome, shell>>
            \/ FailRetryable /\ UNCHANGED folder
          BY <1>18 DEF MergeLauncher
      <3>4. CASE pc' = "finish" /\ UNCHANGED <<packVars, tags, marker, cancelFlag, held, conn,
                                                outcome, shell>>
          BY <1>0, <2>1, <2>3, <3>2, <3>4
      <3> QED BY <2>2, <3>3, <3>4
    <2> QED BY <1>18, <2>2, <2>3 DEF MergeLauncher
  <1>19. CASE Finish
    <2>1. pc = "finish" /\ held.of \in Builds /\ UNCHANGED <<part, meta, folder>>
        BY <1>19 DEF Finish
    <2>2. CASE FailRetryable
        BY <1>0, <2>1, <2>2, Failed, MarkerFacts, ArchiveFacts DEF Outcomes
    <2>3. CASE End("installed") /\ marker' = NoMarker /\ cancelFlag' = FALSE
      <3>1. pc' = "off" /\ held' = NoMarker /\ conn' = Closed /\ outcome' = "installed"
            /\ UNCHANGED <<packVars, tags, shell>>
          BY <2>3 DEF End
      <3> QED BY <1>0, <2>1, <2>3, <3>1, MarkerFacts, ArchiveFacts DEF Outcomes
    <2> QED BY <1>19, <2>2, <2>3 DEF Finish
  <1>17. CASE UNCHANGED vars
      BY <1>17, <1>0 DEF vars
  <1> QED BY <1>1, <1>2, <1>3, <1>4, <1>5, <1>6, <1>7, <1>8, <1>9, <1>10,
         <1>11, <1>12, <1>13, <1>14, <1>15, <1>16, <1>17, <1>18, <1>19 DEF Next

-----------------------------------------------------------------------------
(* No splice *)

\* A tag that still matches is the tag of the bytes that are there.
LEMMA SpliceNext == Typed /\ PackInv /\ HeldInv /\ SpliceInv /\ [Next]_vars => SpliceInv'
  <1> SUFFICES ASSUME Typed, PackInv, HeldInv, SpliceInv, [Next]_vars PROVE SpliceInv'
      OBVIOUS
  <1> USE DEF SpliceInv, NoSplice
  <1>0. /\ dist.archive \in Archives /\ dist.archive.edition \in Nat /\ conn \in Archives
        /\ conn.edition \in Nat /\ meta.tag.edition \in Nat /\ held \in Markers
        /\ tags \in {"none", "content", "modified"} /\ tags' = tags
        /\ Closed.of = 0 /\ Closed.edition = 0
        /\ NoPart.of = {} /\ (dist.archive.edition = 0 => dist.archive.of = 0)
    <2>1. dist.archive \in Archives /\ conn \in Archives /\ meta.tag \in Archives
        BY DistFacts, ArchiveFacts, MetaFacts DEF Typed, PackTypeOK
    <2>2. tags' = tags
        BY Cancelled, Cleared, Failed DEF Next, Publish, Request, Cancel, ReadMarker, FetchManifest,
              BeginDownload, Send, Read, WriteFails, EndDownload, Verify, DropRefused, Extract,
              MergeConfig, Install, MergeLauncher, Finish, Crash, vars, End, Stall,
              FailRetryable, EndCancelled, EndCleared
    <2> QED BY <2>1, <2>2, ArchiveFacts, PartFacts DEF Typed, PackInv
  <1>m. ASSUME pc = "read", RecordPartial, UNCHANGED <<dist, part>>, tags = "modified"
        PROVE  meta' # NoMeta =>
                  /\ meta'.tag.of # 0 /\ meta'.tag.edition <= dist.archive.edition
                  /\ meta'.tag.edition = dist.archive.edition => part.of \subseteq {dist.archive.of}
    <2>1. held.of \in Builds /\ conn.of \in Builds
        BY <1>m DEF HeldInv
    <2>2. CASE part.len = 0
        BY <1>m, <2>1, <2>2, Recorded
    <2>3. CASE part.len # 0
      <3>1. meta'.tag = conn
          BY <1>0, <1>m, <2>1, <2>3, Recorded, TagFacts
      <3> QED BY <1>0, <1>m, <2>1, <3>1, BuildsAssumption
    <2> QED BY <2>2, <2>3
  <1>1. CASE Publish
    <2>1. UNCHANGED <<tags, meta, part, conn, pc>> /\ Packed
        BY <1>1, PackNext DEF Publish, Typed, disk
    <2>2. dist'.archive.edition \in Nat
        BY <2>1, DistFacts, ArchiveFacts DEF Packed, PackTypeOK
    <2> QED BY <1>0, <2>1, <2>2 DEF Packed
  <1>2. CASE Request
      BY <1>2, <1>0 DEF Request, packVars
  <1>3. CASE Cancel
      BY <1>3, <1>0 DEF Cancel, packVars
  <1>4. CASE ReadMarker
    <2>1. UNCHANGED <<dist, meta, part>>
        BY <1>4, Cancelled, Cleared DEF ReadMarker, packVars, disk
    <2>2. pc' # "read" /\ (conn' = conn \/ conn' = Closed)
        BY <1>4, Cancelled, Cleared DEF ReadMarker, Goto
    <2> QED BY <1>0, <2>1, <2>2
  <1>5. CASE FetchManifest
    <2>1. UNCHANGED <<dist, meta, part>>
        BY <1>0, <1>5, Failed, Cleared DEF FetchManifest, packVars
    <2>2. pc' # "read" /\ (conn' = conn \/ conn' = Closed)
        BY <1>0, <1>5, Failed, Cleared DEF FetchManifest, Goto
    <2> QED BY <1>0, <2>1, <2>2
  <1>6. CASE BeginDownload
    <2>1. UNCHANGED <<dist, conn>> /\ pc' # "read"
        BY <1>6 DEF BeginDownload, packVars, Goto
    <2>2. /\ meta' # NoMeta => meta' = meta /\ part' = part
          /\ part' = part \/ part' = NoPart
        BY <1>6 DEF BeginDownload, Resumed, Matches
    <2> QED BY <1>0, <2>1, <2>2
  <1>7. CASE Send
    <2>1. UNCHANGED <<meta, dist>>
        BY <1>0, <1>7, Failed, Cancelled DEF Send, packVars, Stall
    <2>2. CASE (FailRetryable \/ Stall) /\ part' \in {part, NoPart}
      <3>1. pc' = "off" /\ conn' = Closed
          BY <1>0, <1>7, <2>2, Failed, Cancelled DEF Send, Stall
      <3> QED BY <1>0, <2>1, <2>2, <3>1
    <2>3. CASE dist.archive.of # 0 /\ conn' = dist.archive /\ AnswersRest /\ part' = part
      <3>1. ASSUME tags = "modified"
            PROVE  part.of \subseteq {dist.archive.of}
        <4>1. meta # NoMeta /\ meta.tag.of # 0 /\ meta.tag = Tag(dist.archive)
            BY <1>0, <2>3, <3>1, ArchiveFacts DEF AnswersRest, NoTag
        <4>2. meta.tag = dist.archive
            BY <1>0, <3>1, <4>1, TagFacts
        <4> QED BY <3>1, <4>1, <4>2
      <3> QED BY <1>0, <2>1, <2>3, <3>1
    <2>4. CASE dist.archive.of # 0 /\ conn' = dist.archive /\ part' = NoPart
        BY <1>0, <2>1, <2>4
    <2> QED BY <1>7, <2>2, <2>3, <2>4 DEF Send
  <1>8. CASE Read
    <2>1. UNCHANGED dist /\ pc = "read"
        BY <1>0, <1>8, Failed, Cancelled DEF Read, packVars, Stall
    <2>2. CASE (EndCancelled \/ FailRetryable) /\ RecordPartial /\ UNCHANGED part
      <3>1. pc' = "off" /\ conn' = Closed
          BY <1>0, <2>1, <2>2, Failed, Cancelled
      <3> QED BY <1>0, <1>m, <2>1, <2>2, <3>1
    <2>3. CASE /\ part' = Received(part.of \cup {conn.of}, part.len + 1)
               /\ UNCHANGED <<packVars, tags, marker, cancelFlag, meta, pc, held, conn, outcome, shell>>
      <3>1. part'.of = part.of \cup {conn.of}
          BY <2>3 DEF Received
      <3>2. UNCHANGED <<dist, meta, conn, pc>>
          BY <2>1, <2>3
      <3>3. ASSUME tags = "modified" PROVE part'.of \subseteq {conn.of}
          BY <2>1, <3>1, <3>3
      <3>4. ASSUME tags = "modified", meta # NoMeta, meta.tag.edition = dist.archive.edition
            PROVE  conn.of = dist.archive.of
        <4>1. meta.tag.edition <= conn.edition /\ conn.edition <= dist.archive.edition
            BY <2>1, <3>4
        <4>2. conn.edition = dist.archive.edition
            BY <1>0, <3>4, <4>1
        <4> QED BY <3>4, <4>2
      <3> QED BY <1>0, <2>1, <3>2, <3>3, <3>4
    <2> QED BY <1>8, <2>2, <2>3 DEF Read, Stall, Received
  <1>9. CASE WriteFails
    <2>1. UNCHANGED <<dist, meta, part>> /\ pc' = "off" /\ conn' = Closed
        BY <1>0, <1>9, Failed DEF WriteFails, packVars
    <2> QED BY <1>0, <2>1
  <1>10. CASE EndDownload
    <2>1. UNCHANGED <<dist, part>> /\ pc = "read" /\ pc' # "read" /\ conn' = Closed /\ RecordPartial
        BY <1>10 DEF EndDownload, packVars, Goto
    <2> QED BY <1>0, <1>m, <2>1
  <1>11. CASE Verify
    <2>1. UNCHANGED <<dist, meta, part, conn>> /\ pc' # "read"
        BY <1>11 DEF Verify, packVars, disk, Goto
    <2> QED BY <1>0, <2>1
  <1>12. CASE DropRefused
    <2>1. UNCHANGED <<dist, conn>> /\ meta' = NoMeta /\ part' = NoPart /\ pc' # "read"
        BY <1>12 DEF DropRefused, packVars, Goto
    <2> QED BY <1>0, <2>1
  <1>13. CASE Extract
    <2>1. UNCHANGED dist /\ meta' = NoMeta /\ part' = NoPart /\ pc' # "read"
        BY <1>13, Cleared DEF Extract, packVars, Goto
    <2>2. conn' = conn \/ conn' = Closed
        BY <1>13, Cleared DEF Extract
    <2> QED BY <1>0, <2>1, <2>2
  <1>14. CASE MergeConfig
    <2>1. UNCHANGED <<dist, meta, part>> /\ pc' # "read"
        BY <1>0, <1>14, Failed, Cancelled, Cleared DEF MergeConfig, packVars, Goto, End
    <2>2. conn' = conn \/ conn' = Closed
        BY <1>0, <1>14, Failed, Cancelled, Cleared DEF MergeConfig, End
    <2> QED BY <1>0, <2>1, <2>2
  <1>15. CASE Install
    <2>1. UNCHANGED <<dist, meta, part>> /\ pc' # "read"
        BY <1>0, <1>15, Failed, Cancelled, Cleared DEF Install, packVars, Goto, End
    <2>2. conn' = conn \/ conn' = Closed
        BY <1>0, <1>15, Failed, Cancelled, Cleared DEF Install, End
    <2> QED BY <1>0, <2>1, <2>2
  <1>16. CASE Crash
    <2>1. UNCHANGED <<dist, meta, part>> /\ pc' = "off" /\ conn' = Closed
        BY <1>16 DEF Crash, packVars, disk, Goto
    <2> QED BY <1>0, <2>1
  <1>18. CASE MergeLauncher
    <2>1. UNCHANGED <<dist, meta, part>> /\ pc' # "read"
        BY <1>0, <1>18, Failed DEF MergeLauncher, packVars, Goto, End
    <2>2. conn' = conn \/ conn' = Closed
        BY <1>0, <1>18, Failed DEF MergeLauncher, End
    <2> QED BY <1>0, <2>1, <2>2
  <1>19. CASE Finish
    <2>1. UNCHANGED <<dist, meta, part>> /\ pc' # "read"
        BY <1>0, <1>19, Failed DEF Finish, packVars, Goto, End
    <2>2. conn' = conn \/ conn' = Closed
        BY <1>0, <1>19, Failed DEF Finish, End
    <2> QED BY <1>0, <2>1, <2>2
  <1>17. CASE UNCHANGED vars
    <2>1. UNCHANGED <<dist, meta, part, conn, pc, tags>>
        BY <1>17 DEF vars, packVars, disk
    <2> QED BY <1>0, <2>1
  <1> QED BY <1>1, <1>2, <1>3, <1>4, <1>5, <1>6, <1>7, <1>8, <1>9, <1>10,
         <1>11, <1>12, <1>13, <1>14, <1>15, <1>16, <1>17, <1>18, <1>19 DEF Next

-----------------------------------------------------------------------------
(* Installable *)

\* What was refused stays what it was.
LEMMA RefusedNext == Typed /\ PackInv /\ HeldInv /\ RefusedInv /\ [Next]_vars => RefusedInv'
  <1> SUFFICES ASSUME Typed, PackInv, HeldInv, RefusedInv, [Next]_vars PROVE RefusedInv'
      OBVIOUS
  <1> USE DEF RefusedInv
  <1>0. held \in Markers
      BY DEF Typed
  <1>1. CASE Publish
    <2>1. UNCHANGED <<pc, held, outcome>> /\ Packed
        BY <1>1, PackNext DEF Publish, Typed
    <2>2. ASSUME pc = "refused", outcome = "unsafe"
          PROVE  ~Installable(artefact[held.of])'
      <3>1. held.of \in Builds /\ ~Installable(artefact[held.of])
          BY <2>2
      <3>2. artefact[held.of] # NoArtefact
          BY <3>1, ArtefactFacts DEF Installable, NoArtefact
      <3>3. artefact'[held.of] = artefact[held.of] /\ held' = held
          BY <2>1, <3>1, <3>2 DEF Packed
      <3> QED BY <3>1, <3>3 DEF Installable
    <2> QED BY <2>1, <2>2
  <1>2. CASE Request
    <2>1. UNCHANGED <<pc, held, artefact>> /\ (pc = "refused" => outcome' = outcome)
        BY <1>2 DEF Request, packVars
    <2> QED BY <2>1 DEF Installable
  <1>3. CASE Cancel
    <2>1. UNCHANGED <<pc, held, outcome, artefact>>
        BY <1>3 DEF Cancel, packVars
    <2> QED BY <2>1 DEF Installable
  <1>4. CASE ReadMarker
    <2>1. pc' # "refused"
        BY <1>0, <1>4, Failed, Cancelled, Cleared DEF ReadMarker, Goto, End, Stall
    <2> QED BY <2>1
  <1>5. CASE FetchManifest
    <2>1. pc' # "refused"
        BY <1>0, <1>5, Failed, Cancelled, Cleared DEF FetchManifest, Goto, End, Stall
    <2> QED BY <2>1
  <1>6. CASE BeginDownload
    <2>1. pc' # "refused"
        BY <1>0, <1>6, Failed, Cancelled, Cleared DEF BeginDownload, Goto, End, Stall
    <2> QED BY <2>1
  <1>7. CASE Send
    <2>1. pc' # "refused"
        BY <1>0, <1>7, Failed, Cancelled, Cleared DEF Send, Goto, End, Stall
    <2> QED BY <2>1
  <1>8. CASE Read
    <2>1. pc' # "refused"
        BY <1>0, <1>8, Failed, Cancelled, Cleared DEF Read, Goto, End, Stall
    <2> QED BY <2>1
  <1>9. CASE WriteFails
    <2>1. pc' # "refused"
        BY <1>0, <1>9, Failed, Cancelled, Cleared DEF WriteFails, Goto, End, Stall
    <2> QED BY <2>1
  <1>10. CASE EndDownload
    <2>1. pc' # "refused"
        BY <1>0, <1>10, Failed, Cancelled, Cleared DEF EndDownload, Goto, End, Stall
    <2> QED BY <2>1
  <1>11. CASE Verify
    <2>1. held.of \in Builds /\ UNCHANGED <<held, artefact>>
        BY <1>11 DEF Verify, HeldInv, packVars
    <2>2. CASE HashMatches /\ Installable(artefact[held.of])
        BY <1>11, <2>2 DEF Verify, Goto
    <2>3. CASE HashMatches /\ ~Installable(artefact[held.of])
        BY <2>1, <2>3 DEF Installable
    <2>4. CASE ~HashMatches
        BY <1>11, <2>4 DEF Verify
    <2> QED BY <2>2, <2>3, <2>4
  <1>12. CASE DropRefused
    <2>1. pc' # "refused"
        BY <1>0, <1>12, Failed, Cancelled, Cleared DEF DropRefused, Goto, End, Stall
    <2> QED BY <2>1
  <1>13. CASE Extract
    <2>1. pc' # "refused"
        BY <1>0, <1>13, Failed, Cancelled, Cleared DEF Extract, Goto, End, Stall
    <2> QED BY <2>1
  <1>14. CASE MergeConfig
    <2>1. pc' # "refused"
        BY <1>0, <1>14, Failed, Cancelled, Cleared DEF MergeConfig, Goto, End, Stall
    <2> QED BY <2>1
  <1>15. CASE Install
    <2>1. pc' # "refused"
        BY <1>0, <1>15, Failed, Cancelled, Cleared DEF Install, Goto, End, Stall
    <2> QED BY <2>1
  <1>16. CASE Crash
    <2>1. pc' # "refused"
        BY <1>0, <1>16, Failed, Cancelled, Cleared DEF Crash, Goto, End, Stall
    <2> QED BY <2>1
  <1>18. CASE MergeLauncher
    <2>1. pc' # "refused"
        BY <1>0, <1>18, Failed DEF MergeLauncher, Goto, End
    <2> QED BY <2>1
  <1>19. CASE Finish
    <2>1. pc' # "refused"
        BY <1>0, <1>19, Failed DEF Finish, Goto, End
    <2> QED BY <2>1
  <1>17. CASE UNCHANGED vars
    <2>1. UNCHANGED <<pc, held, outcome, artefact>>
        BY <1>17 DEF vars, packVars
    <2> QED BY <2>1 DEF Installable
  <1> QED BY <1>1, <1>2, <1>3, <1>4, <1>5, <1>6, <1>7, <1>8, <1>9, <1>10,
         <1>11, <1>12, <1>13, <1>14, <1>15, <1>16, <1>17, <1>18, <1>19 DEF Next

-----------------------------------------------------------------------------
(* Cancels *)

\* What every kind of step does to a request: a pass begins or goes on, fails
\* and is tried again, ends with its marker, is cancelled, or was never there.
LEMMA StepEnds ==
    ASSUME [Next]_vars
    PROVE  \/ Request \/ Cancel
           \/ /\ UNCHANGED <<cancelFlag, asked>>
              /\ \/ UNCHANGED <<marker, pc, outcome>>
                 \/ /\ pc = "off" /\ marker # NoMarker /\ ~cancelFlag
                    /\ outcome' # "cancelled" /\ pc' # "launcher"
                 \/ /\ pc # "off" /\ outcome' \in {"failed", "drift", "unsafe", "damaged"}
                    /\ pc' # "launcher"
                 \/ /\ pc # "off" /\ pc' = "off" /\ UNCHANGED <<marker, outcome>>
                 \/ /\ pc # "off" /\ pc' # "off" /\ UNCHANGED <<marker, outcome>>
                    /\ pc' = "launcher" => pc = "swap" /\ ~cancelFlag
           \/ EndCancelled /\ (cancelFlag \/ pc \in {"send", "read"})
           \/ pc = "finish" /\ End("installed") /\ marker' = NoMarker /\ cancelFlag' = FALSE
  <1> USE DEF Goto, disk, shell, End
  <1>1. CASE Request \/ Cancel
      BY <1>1
  <1>2. CASE ReadMarker
      BY <1>2 DEF ReadMarker, EndCleared
  <1>3. CASE FetchManifest
      BY <1>3 DEF FetchManifest, EndCleared, FailRetryable
  <1>4. CASE BeginDownload \/ EndDownload \/ DropRefused
      BY <1>4 DEF BeginDownload, EndDownload, DropRefused
  <1>5. CASE Send \/ Read \/ WriteFails
      BY <1>5 DEF Send, Read, WriteFails, Stall, FailRetryable
  <1>6. CASE Verify
      BY <1>6 DEF Verify
  <1>7. CASE Extract \/ MergeConfig
      BY <1>7 DEF Extract, MergeConfig, EndCleared
  <1>8. CASE Install
      BY <1>8 DEF Install, EndCleared
  <1>9. CASE MergeLauncher \/ Finish
      BY <1>9 DEF MergeLauncher, Finish, FailRetryable
  <1>10. CASE Publish \/ Crash \/ UNCHANGED vars
      BY <1>10 DEF Publish, Crash, vars
  <1> QED BY <1>1, <1>2, <1>3, <1>4, <1>5, <1>6, <1>7, <1>8, <1>9, <1>10 DEF Next

\* A flag is there because the player asked; and while the player's cancel stands,
\* the flag is there or there is nothing left to cancel. A pass that runs has not
\* been cancelled yet.
AskedInv ==
    /\ cancelFlag => asked
    /\ asked => cancelFlag \/ (marker = NoMarker /\ pc = "off")
    /\ pc # "off" => outcome # "cancelled"

\* Only honouring the flag, or the end of the update, removes it.
LEMMA AskedNext == Typed /\ AskedInv /\ [Next]_vars => AskedInv'
  <1> SUFFICES ASSUME Typed, AskedInv, [Next]_vars PROVE AskedInv'
      OBVIOUS
  <1> USE DEF AskedInv
  <1>1. CASE Request \/ Cancel
      BY <1>1 DEF Request, Cancel
  <1>2. CASE EndCancelled
      BY <1>2 DEF EndCancelled, End, Goto
  <1>3. CASE End("installed") /\ marker' = NoMarker /\ cancelFlag' = FALSE
      BY <1>3 DEF End, Goto
  <1>4. CASE UNCHANGED <<cancelFlag, asked>> /\ ~Request /\ ~Cancel /\ ~EndCancelled
               /\ ~(End("installed") /\ marker' = NoMarker /\ cancelFlag' = FALSE)
      BY <1>4, StepEnds
  <1> QED BY <1>1, <1>2, <1>3, <1>4, StepEnds

-----------------------------------------------------------------------------
(* The theorems *)

\* The invariant holds at the start.
LEMMA DeliveryInvInit == Init => DeliveryInv
  BY TypesInit, SameTypes DEF DeliveryInv

\* Every step keeps the invariant.
LEMMA DeliveryInvNext == DeliveryInv /\ [Next]_vars => DeliveryInv'
  <1> SUFFICES ASSUME DeliveryInv, [Next]_vars PROVE DeliveryInv'
      OBVIOUS
  <1>1. Typed /\ PackInv /\ HeldInv /\ SpliceInv /\ RefusedInv
      BY SameTypes DEF DeliveryInv
  <1>2. Typed' /\ HeldInv'
      BY <1>1, TypesNext
  <1>3. PackInv'
    <2>1. CASE Pack \/ UNCHANGED packVars
        BY <1>1, <2>1, PackNext DEF Packed, Typed
    <2>2. Pack \/ UNCHANGED packVars
      <3>1. held \in Markers
          BY <1>1 DEF Typed
      <3> QED BY <1>1, <3>1, Cancelled, Cleared, Failed DEF Next, Publish, Request, Cancel,
            ReadMarker, FetchManifest, BeginDownload, Send, Read, WriteFails, EndDownload, Verify,
            DropRefused, Extract, MergeConfig, Install, MergeLauncher, Finish, Crash, vars, End,
            Stall, FailRetryable,
            EndCancelled, EndCleared
    <2> QED BY <2>1, <2>2
  <1>4. SpliceInv'
      BY <1>1, SpliceNext
  <1>5. RefusedInv'
      BY <1>1, RefusedNext
  <1>6. TypeOK'
      BY <1>2, ServersAssumption DEF TypeOK, Typed, Markers, Parts, Metas
  <1> QED BY <1>2, <1>3, <1>4, <1>5, <1>6 DEF DeliveryInv

\* The invariant holds of every reachable state.
THEOREM DeliveryInvariant == Spec => []DeliveryInv
  BY DeliveryInvInit, DeliveryInvNext, PTL DEF Spec

\* TypeOK: in particular a partial never outgrows the confirmed size, and no
\* pass works on a request whose attempts are used up.
THEOREM TypeCorrect == Spec => []TypeOK
  <1>1. DeliveryInv => TypeOK
      BY DEF DeliveryInv
  <1> QED BY <1>1, DeliveryInvariant, PTL

\* NoSplice: If-Range with a modification time, in every interleaving of a
\* resumed download with rebuilds, cancels, crashes and retries.
THEOREM NeverSpliced == Spec => []NoSplice
  <1>1. DeliveryInv => NoSplice
      BY DEF DeliveryInv, SpliceInv, NoSplice
  <1> QED BY <1>1, DeliveryInvariant, PTL

\* PackagedIsInstallable: the gates of stageRelease imply those of Verify, and
\* what a build packed does not change after it was verified.
THEOREM PackagedAlwaysInstallable == Spec => []PackagedIsInstallable
  <1>1. DeliveryInv => PackagedIsInstallable
    <2> SUFFICES ASSUME DeliveryInv, pc = "refused", outcome = "unsafe", held.of \in released
                 PROVE  FALSE
        BY DEF PackagedIsInstallable
    <2>1. held.of \in Builds /\ ~Installable(artefact[held.of])
        BY DEF DeliveryInv, RefusedInv
    <2>2. /\ artefact[held.of].members = artefact[held.of].index /\ artefact[held.of].sound
          /\ \A name \in artefact[held.of].members :
                CheckEntry(name) /\ name \in GameNames \cup LauncherNames
        BY <2>1 DEF DeliveryInv, PackInv
    <2> QED BY <2>1, <2>2 DEF Installable
  <1> QED BY <1>1, DeliveryInvariant, PTL

\* The configuration an update installs, setting by setting.
LEMMA MergedSettings ==
    ASSUME NEW b
    PROVE  LET new == Parsed(Merged(config, ReleaseDoc(b)))
           IN  /\ Shipped[b] \subseteq DOMAIN new
               /\ \A p \in DOMAIN new :
                     /\ p[1] \in Owned /\ p \in Shipped[b] => new[p] = b
                     /\ p[1] \in Owned /\ p \notin Shipped[b] /\ new[p] = Player =>
                           \A q \in Shipped[b] : q[1] # p[1]
               /\ \A p \in DOMAIN config :
                     {p[1], p[2]} \cap Owned = {} => p \in DOMAIN new /\ new[p] = config[p]
  <1> DEFINE release == ReleaseDoc(b)
             kept == {p \in DOMAIN config : ~ReleaseOwns(p, release)}
             merged == Merged(config, release)
             new == Parsed(merged)
  <1>1. DOMAIN release = Shipped[b] /\ \A p \in Shipped[b] : release[p] = b
      BY DEF ReleaseDoc
  <1>2. /\ DOMAIN merged = kept \cup Shipped[b]
        /\ \A p \in kept : merged[p] = config[p]
        /\ \A p \in Shipped[b] \ kept : merged[p] = b
      BY <1>1 DEF Merged
  <1>3. /\ DOMAIN new = DOMAIN merged \cup Defaults
        /\ \A p \in DOMAIN merged : new[p] = merged[p]
        /\ \A p \in Defaults \ DOMAIN merged : new[p] = 0
      BY DEF Parsed
  <1>4. /\ \A p \in kept : p[1] \in Owned => \A q \in Shipped[b] : q[1] # p[1]
        /\ \A p \in DOMAIN config : {p[1], p[2]} \cap Owned = {} => p \in kept
      BY <1>1 DEF ReleaseOwns
  <1> HIDE DEF release, kept, merged, new
  <1>5. Shipped[b] \subseteq DOMAIN new
      BY <1>2, <1>3
  <1>6. ASSUME NEW p \in DOMAIN new, p[1] \in Owned, p \in Shipped[b] PROVE new[p] = b
    <2>1. p \notin kept
        BY <1>4, <1>6
    <2> QED BY <1>2, <1>3, <1>6, <2>1
  <1>7. ASSUME NEW p \in DOMAIN new, p[1] \in Owned, p \notin Shipped[b], new[p] = Player
        PROVE  \A q \in Shipped[b] : q[1] # p[1]
    <2>1. p \in kept
        BY <1>2, <1>3, <1>7 DEF Player
    <2> QED BY <1>4, <1>7, <2>1
  <1>8. ASSUME NEW p \in DOMAIN config, {p[1], p[2]} \cap Owned = {}
        PROVE  p \in DOMAIN new /\ new[p] = config[p]
    <2>1. p \in kept
        BY <1>4, <1>8
    <2> QED BY <1>2, <1>3, <2>1
  <1> QED BY <1>5, <1>6, <1>7, <1>8 DEF new, merged, release

\* MergeRespectsOwner: mergeConfigDocs, object by object, and Parse's defaults
\* after it.
THEOREM OwnersRespected == Spec => MergeRespectsOwner
  <1>1. DeliveryInv /\ [Next]_vars
           => [installed' # installed =>
                 /\ Shipped[installed'] \subseteq DOMAIN config'
                 /\ \A p \in DOMAIN config' :
                       /\ p[1] \in Owned /\ p \in Shipped[installed'] => config'[p] = installed'
                       /\ p[1] \in Owned /\ p \notin Shipped[installed'] /\ config'[p] = Player =>
                             \A q \in Shipped[installed'] : q[1] # p[1]
                 /\ \A p \in DOMAIN config :
                       {p[1], p[2]} \cap Owned = {} => p \in DOMAIN config' /\ config'[p] = config[p]]_vars
    <2> SUFFICES ASSUME DeliveryInv, Next, installed' # installed
                 PROVE  installed' = held.of /\ config' = Parsed(Merged(config, ReleaseDoc(held.of)))
        BY MergedSettings
    <2>1. UNCHANGED installed \/ MergeLauncher
        BY DEF Next, Publish, Request, Cancel, ReadMarker, FetchManifest, BeginDownload, Send, Read,
              WriteFails, EndDownload, Verify, DropRefused, Extract, MergeConfig, Install, Finish,
              Crash, folder
    <2> QED BY <2>1 DEF MergeLauncher, NewConfig, folder
  <1> QED BY <1>1, DeliveryInvariant, PTL DEF Spec, MergeRespectsOwner

\* The invariant holds from the first state on.
LEMMA AskedAlways == Spec => []AskedInv
  <1>1. Init => AskedInv
      BY DEF Init, AskedInv
  <1>2. DeliveryInv => Typed
      BY SameTypes DEF DeliveryInv
  <1> QED BY <1>1, <1>2, AskedNext, DeliveryInvariant, PTL DEF Spec

\* OnlyStallsMisreport: whatever is cancelled, retried, requested again and
\* interrupted, the flag is there only while a cancel of the last request stands.
THEOREM OnlyStallsAreMisreported == Spec => OnlyStallsMisreport
  <1>1. AskedInv /\ [Next]_vars => [StallsOrAsked]_vars
    <2> SUFFICES ASSUME AskedInv, [Next]_vars PROVE StallsOrAsked
        OBVIOUS
    <2> QED BY StepEnds DEF AskedInv, StallsOrAsked, Request, Cancel, EndCancelled, End, shell
  <1> QED BY <1>1, AskedAlways, PTL DEF Spec, OnlyStallsMisreport

\* CancelHonoured: a pass that gets to its last check has not been cancelled, or
\* finds the flag.
THEOREM CancelsAreHonoured == Spec => CancelHonoured
  <1>1. AskedInv /\ [Next]_vars => [pc # "launcher" /\ pc' = "launcher" => ~asked]_vars
    <2> SUFFICES ASSUME AskedInv, [Next]_vars, pc # "launcher", pc' = "launcher"
                 PROVE  ~asked
        OBVIOUS
    <2> QED BY StepEnds DEF AskedInv, Request, Cancel, EndCancelled, End, Goto
  <1> QED BY <1>1, AskedAlways, PTL DEF Spec, CancelHonoured

=============================================================================
