------------------------------- MODULE SaveStore -------------------------------
(***************************************************************************)
(* The save slots of the storage engine (launcher/internal/storage:        *)
(* WriteSave, writeAtomic, ReadSave, ListSaves, DeleteSave, InitRevisions) *)
(* as the clients of the data API see them, through failing file           *)
(* operations, lost replies, crashes and restarts.                         *)
(*                                                                         *)
(* A slot is the file <slot>.json (main), its one backup <slot>.json.bak   *)
(* (bak), the temporary file of a write (temp) and the set of revision     *)
(* sidecars <slot>.json.<rev>.  A payload is the number of the write that  *)
(* made it, so "newer" is "greater".  Writes and deletes hold the global   *)
(* writeMu from their first file operation to their reply, so one control  *)
(* point, pc, is enough; reads take it shared and happen between them.     *)
(***************************************************************************)
EXTENDS Integers, FiniteSets, FiniteSetsExt

CONSTANTS
    Slots,          \* the save slots
    Clients,        \* the sessions that use them
    Nobody,         \* no session
    KeepRevisions,  \* data_api.keep_revisions; 0 keeps every sidecar
    Deletes,        \* TRUE: clients may delete slots
    MaxWrites,      \* bound: the number of writes that get past the lock
    Faults          \* the kinds of file operation that may return an error

FaultKinds == {"temp", "rename", "sidecar", "trash"}

ASSUME SaveConstants ==
    /\ Slots # {}
    /\ KeepRevisions \in Nat
    /\ MaxWrites \in Nat
    /\ Deletes \in BOOLEAN
    /\ Nobody \notin Clients
    /\ Faults \subseteq FaultKinds

VARIABLES
    main, bak, temp,  \* the files of each slot
    sidecars,         \* the revision sidecars of each slot
    revisions,        \* the engine's memory: the current revision of each slot
    writer,           \* the session that claimed the writer role
    pc, op,           \* the operation that holds writeMu, and where it is
    token,            \* what each client knows of each slot: revision, payload
    nextVer,          \* the number the next write gets
    acked,            \* history: the newest payload a reply has confirmed
    disturbed         \* history: slots whose revision count started over

files == <<main, bak, temp, sidecars>>
history == <<acked, disturbed>>
vars == <<main, bak, temp, sidecars, revisions, writer, pc, op, token, nextVer,
          acked, disturbed>>

-----------------------------------------------------------------------------

\* Both count writes, so one bound serves for payloads and for revisions.
Vers == 0 .. MaxWrites
File == [rev : Vers, ver : Vers]
NoFile == [rev |-> 0, ver |-> 0]
Present(f) == f.ver # 0

\* One write or delete: who asked, for which slot, the payload, the revision
\* it will carry, and whether it named the revision it replaces.
Ops == [client : Clients \cup {Nobody}, slot : Slots, ver : Vers, rev : Vers,
        conditional : BOOLEAN]
LockPoints == {"temp", "rotate", "move_aside", "install", "bump", "sidecar", "reply",
               "trash_main", "trash_bak"}

MayFail(kind) == kind \in Faults

\* ReadSave: the file, or the backup a failed write may have left alone.
ReadableFile(s) == IF Present(main[s]) THEN main[s] ELSE bak[s]
Readable(s) == ReadableFile(s).ver

\* pruneRevisions keeps the highest KeepRevisions sidecars it finds; it runs
\* before the new one is written.
Pruned(revs) ==
    IF KeepRevisions = 0 THEN revs
    ELSE {r \in revs : Cardinality({q \in revs : q > r}) < KeepRevisions}

\* InitRevisions: slots without their .json file are not counted at all; the
\* highest sidecar counts, and the header only where there is no sidecar.
Rebuilt(s) ==
    IF ~Present(main[s]) THEN 0
    ELSE IF sidecars[s] # {} THEN Max(sidecars[s])
    ELSE main[s].rev

TypeOK ==
    /\ main \in [Slots -> File] /\ bak \in [Slots -> File] /\ temp \in [Slots -> File]
    /\ sidecars \in [Slots -> SUBSET Vers]
    /\ revisions \in [Slots -> Vers]
    /\ writer \in Clients \cup {Nobody}
    /\ pc \in LockPoints \cup {"down", "idle"}
    /\ op \in Ops
    /\ token \in [Clients -> [Slots -> File]]
    /\ nextVer \in 1 .. MaxWrites + 1
    /\ acked \in [Slots -> Vers]
    /\ disturbed \subseteq Slots

Idle == [client |-> Nobody, slot |-> CHOOSE s \in Slots : TRUE, ver |-> 0, rev |-> 0,
         conditional |-> FALSE]
Unknown == [rev |-> 0, ver |-> 0]

Init ==
    /\ main = [s \in Slots |-> NoFile] /\ bak = main /\ temp = main
    /\ sidecars = [s \in Slots |-> {}]
    /\ revisions = [s \in Slots |-> 0]
    /\ writer = Nobody
    /\ pc = "down" /\ op = Idle
    /\ token = [c \in Clients |-> [s \in Slots |-> Unknown]]
    /\ nextVer = 1
    /\ acked = [s \in Slots |-> 0]
    /\ disturbed = {}

Goto(p) == pc' = p
\* The operation is over: its lock is released and its reply is sent.
Finish == pc' = "idle" /\ op' = Idle

-----------------------------------------------------------------------------
(* A launcher starts, and stops *)

\* QuarantineStrayTemps, then InitRevisions.
Start ==
    /\ pc = "down"
    /\ Goto("idle")
    /\ temp' = [s \in Slots |-> NoFile]
    /\ revisions' = [s \in Slots |-> Rebuilt(s)]
    /\ disturbed' = disturbed \cup {s \in Slots : Rebuilt(s) # ReadableFile(s).rev}
    /\ UNCHANGED <<main, bak, sidecars, writer, op, token, nextVer, acked>>

\* The process ends at any point, normally or not: the files stay, the memory
\* of the engine and of its sessions goes.
Crash ==
    /\ pc # "down"
    /\ Goto("down") /\ op' = Idle
    /\ revisions' = [s \in Slots |-> 0]
    /\ writer' = Nobody
    /\ token' = [c \in Clients |-> [s \in Slots |-> Unknown]]
    /\ UNCHANGED <<files, nextVer, history>>

-----------------------------------------------------------------------------
(* Reads, and the writer role *)

\* ListSaves gives the revision of the file's own header (none for a slot
\* without its file), ReadSave the payload.
Load(c, s) ==
    /\ pc = "idle"
    /\ token' = [token EXCEPT ![c][s] = [rev |-> main[s].rev, ver |-> Readable(s)]]
    /\ UNCHANGED <<files, revisions, writer, pc, op, nextVer, history>>

\* ClaimWriter: a write that asks for the role takes it if it is free, before
\* it waits for the lock, and is refused if another session holds it.
ClaimWriter(c) ==
    /\ pc # "down" /\ writer = Nobody
    /\ writer' = c
    /\ UNCHANGED <<files, revisions, pc, op, token, nextVer, history>>

-----------------------------------------------------------------------------
(* WriteSave, under writeMu *)

\* Faulty variant: only a revision from the future is refused.
BeginWriteLenient(c, s, conditional) ==
    /\ pc = "idle" /\ nextVer <= MaxWrites
    /\ conditional => token[c][s].rev <= revisions[s]
    /\ op' = [client |-> c, slot |-> s, ver |-> nextVer, rev |-> revisions[s] + 1,
              conditional |-> conditional]
    /\ nextVer' = nextVer + 1
    /\ Goto("temp")
    /\ UNCHANGED <<files, revisions, writer, token, history>>

\* checkRevision: without if_revision the write is an explicit overwrite; a
\* stale one is answered 409 and changes nothing.
BeginWrite(c, s, conditional) ==
    /\ pc = "idle" /\ nextVer <= MaxWrites
    /\ conditional => token[c][s].rev = revisions[s]
    /\ op' = [client |-> c, slot |-> s, ver |-> nextVer, rev |-> revisions[s] + 1,
              conditional |-> conditional]
    /\ nextVer' = nextVer + 1
    /\ Goto("temp")
    /\ UNCHANGED <<files, revisions, writer, token, history>>

\* writeAtomic up to the close and the check of the temporary file.
WriteTemp ==
    /\ pc = "temp"
    /\ \/ /\ temp' = [temp EXCEPT ![op.slot] = [rev |-> op.rev, ver |-> op.ver]]
          /\ Goto("rotate") /\ UNCHANGED op
       \/ MayFail("temp") /\ UNCHANGED temp /\ Finish
    /\ UNCHANGED <<main, bak, sidecars, revisions, writer, token, nextVer, history>>

\* Faulty variant: the old backup goes whether or not there is a file to keep.
DropOldBackupAlways ==
    /\ pc = "rotate"
    /\ bak' = [bak EXCEPT ![op.slot] = NoFile]
    /\ Goto(IF Present(main[op.slot]) THEN "move_aside" ELSE "install")
    /\ UNCHANGED <<main, temp, sidecars, revisions, writer, op, token, nextVer, history>>

\* There is something to keep: the old backup goes first.
DropOldBackup ==
    /\ pc = "rotate"
    /\ IF Present(main[op.slot])
       THEN bak' = [bak EXCEPT ![op.slot] = NoFile] /\ Goto("move_aside")
       ELSE Goto("install") /\ UNCHANGED bak
    /\ UNCHANGED <<main, temp, sidecars, revisions, writer, op, token, nextVer, history>>

\* Faulty variant: the file makes room for the new one without being kept.
MoveAsideUnlinks ==
    /\ pc = "move_aside"
    /\ main' = [main EXCEPT ![op.slot] = NoFile]
    /\ Goto("install")
    /\ UNCHANGED <<bak, temp, sidecars, revisions, writer, op, token, nextVer, history>>

MoveAside ==
    /\ pc = "move_aside"
    /\ \/ /\ bak' = [bak EXCEPT ![op.slot] = main[op.slot]]
          /\ main' = [main EXCEPT ![op.slot] = NoFile]
          /\ Goto("install") /\ UNCHANGED <<temp, op>>
       \/ /\ MayFail("rename")
          /\ temp' = [temp EXCEPT ![op.slot] = NoFile]
          /\ Finish /\ UNCHANGED <<main, bak>>
    /\ UNCHANGED <<sidecars, revisions, writer, token, nextVer, history>>

\* The rename that makes the write durable.  A failure does not put the backup
\* back: the slot is left to ReadSave's fallback.
Install ==
    /\ pc = "install"
    /\ \/ main' = [main EXCEPT ![op.slot] = temp[op.slot]] /\ Goto("bump") /\ UNCHANGED op
       \/ MayFail("rename") /\ Finish /\ UNCHANGED main
    /\ temp' = [temp EXCEPT ![op.slot] = NoFile]
    /\ UNCHANGED <<bak, sidecars, revisions, writer, token, nextVer, history>>

\* Faulty variant: a write whose client has gone ends before its revision counts.
BumpSkipped ==
    /\ pc = "bump"
    /\ \/ /\ revisions' = [revisions EXCEPT ![op.slot] = op.rev]
          /\ Goto("sidecar") /\ UNCHANGED op
       \/ Finish /\ UNCHANGED revisions
    /\ sidecars' = [sidecars EXCEPT ![op.slot] = Pruned(@)]
    /\ UNCHANGED <<main, bak, temp, writer, token, nextVer, history>>

\* setRevision and pruneRevisions.  The sidecars go one by one, lowest first,
\* which no reader can tell from all at once: only the highest is ever read.
Bump ==
    /\ pc = "bump"
    /\ revisions' = [revisions EXCEPT ![op.slot] = op.rev]
    /\ sidecars' = [sidecars EXCEPT ![op.slot] = Pruned(@)]
    /\ Goto("sidecar")
    /\ UNCHANGED <<main, bak, temp, writer, op, token, nextVer, history>>

\* The sidecar is written like a save.  Its failure (a request whose client
\* has gone is enough) is logged; a sidecar of the same number may already
\* have been rotated away by then.
WriteSidecar ==
    /\ pc = "sidecar"
    /\ \/ sidecars' = [sidecars EXCEPT ![op.slot] = @ \cup {op.rev}]
       \/ MayFail("sidecar") /\ \E kept \in {{}, {op.rev}} :
              sidecars' = [sidecars EXCEPT ![op.slot] = @ \ kept]
    /\ Goto("reply")
    /\ UNCHANGED <<main, bak, temp, revisions, writer, op, token, nextVer, history>>

\* The reply carries the new revision; it may not reach the client.
Reply ==
    /\ pc = "reply"
    /\ \/ token' = [token EXCEPT ![op.client][op.slot] = [rev |-> op.rev, ver |-> op.ver]]
       \/ UNCHANGED token
    /\ acked' = [acked EXCEPT ![op.slot] = op.ver]
    /\ Finish
    /\ UNCHANGED <<files, revisions, writer, nextVer, disturbed>>

-----------------------------------------------------------------------------
(* DeleteSave, under writeMu: the files go to the trash, the sidecars stay *)

BeginDelete(c, s) ==
    /\ Deletes /\ pc = "idle" /\ Present(main[s])
    /\ op' = [client |-> c, slot |-> s, ver |-> 0, rev |-> 0, conditional |-> FALSE]
    /\ Goto("trash_main")
    /\ UNCHANGED <<files, revisions, writer, token, nextVer, history>>

TrashMain ==
    /\ pc = "trash_main"
    /\ \/ /\ main' = [main EXCEPT ![op.slot] = NoFile]
          /\ acked' = [acked EXCEPT ![op.slot] = 0]
          /\ disturbed' = disturbed \cup {op.slot}
          /\ Goto("trash_bak") /\ UNCHANGED op
       \/ MayFail("trash") /\ Finish /\ UNCHANGED <<main, history>>
    /\ UNCHANGED <<bak, temp, sidecars, revisions, writer, token, nextVer>>

\* Faulty variant: a deleted slot is remembered as revision -1.
TrashBakSentinel ==
    /\ pc = "trash_bak"
    /\ bak' = [bak EXCEPT ![op.slot] = NoFile]
    /\ revisions' = [revisions EXCEPT ![op.slot] = -1]
    /\ Finish
    /\ UNCHANGED <<main, temp, sidecars, writer, token, nextVer, history>>

\* A backup that cannot be moved is left, and the delete succeeds.
TrashBak ==
    /\ pc = "trash_bak"
    /\ \/ bak' = [bak EXCEPT ![op.slot] = NoFile]
       \/ MayFail("trash") /\ UNCHANGED bak
    /\ revisions' = [revisions EXCEPT ![op.slot] = 0]
    /\ Finish
    /\ UNCHANGED <<main, temp, sidecars, writer, token, nextVer, history>>

-----------------------------------------------------------------------------

Request ==
    \E c \in Clients :
        \/ ClaimWriter(c)
        \/ \E s \in Slots :
              \/ Load(c, s)
              \/ \E conditional \in BOOLEAN : BeginWrite(c, s, conditional)
              \/ BeginDelete(c, s)

WriteStep ==
    \/ WriteTemp \/ DropOldBackup \/ MoveAside \/ Install
    \/ Bump \/ WriteSidecar \/ Reply

DeleteStep == TrashMain \/ TrashBak

Next == Start \/ Request \/ WriteStep \/ DeleteStep \/ Crash

Spec == Init /\ [][Next]_vars

-----------------------------------------------------------------------------
(* Safety *)

\* A save whose reply was 200 is never lost to a later write that fails or is
\* interrupted: ReadSave still finds it, or something newer (FR-SAVE-5).
AckedReadable == \A s \in Slots : acked[s] # 0 => Readable(s) >= acked[s]

\* "The live revision" a client lists is the one checkRevision compares with:
\* a client that just listed a slot is not refused for nothing.
ListedRevisionCurrent ==
    pc = "idle" =>
        \A s \in Slots \ disturbed : Present(main[s]) => main[s].rev = revisions[s]

\* No step of a write, no failure and no restart makes an older payload the
\* readable one; only a delete takes a payload away.
ReadableNeverRegresses ==
    [][pc \notin {"trash_main", "trash_bak"} =>
          \A s \in Slots : Readable(s)' >= Readable(s)]_vars

\* A write that was accepted for the revision it named replaces the payload
\* its client last knew, and no other.  (if_revision 0 names no revision: it
\* asks to create the slot.)
AcceptsRevision == pc = "idle" /\ pc' = "temp" /\ op'.conditional /\ op'.rev > 1
Fresh(o) == token[o.client][o.slot].ver = Readable(o.slot)

\* This holds of every slot whose count never started over ...
ConflictDetected ==
    [][AcceptsRevision => op'.slot \in disturbed \/ Fresh(op')]_vars

\* ... and is claimed of every slot: "a revision counter always catches" a
\* conflict (functional-specification 11.5), and a lost sidecar means "a false
\* conflict on the next write, an inconvenience, not a data loss"
\* (Launcher-spec 18.3).
ConflictAlwaysDetected == [][AcceptsRevision => Fresh(op')]_vars

-----------------------------------------------------------------------------
(* Why they hold: what a write keeps true between any two of its steps      *)

\* No file is newer than the last write; an absent one has no revision.
Counted(s) ==
    /\ \A f \in {main[s], bak[s], temp[s]} : f.rev < nextVer /\ f.ver < nextVer
    /\ revisions[s] < nextVer
    /\ \A r \in sidecars[s] : r < nextVer
    /\ ~Present(main[s]) => main[s] = NoFile
CountInv == \A s \in Slots : Counted(s)

\* Where the payload being written, and the one it replaces, are.
PayloadInv ==
    /\ pc \in {"temp", "rotate", "move_aside", "install"} =>
          /\ Readable(op.slot) < op.ver
          /\ op.rev = revisions[op.slot] + 1
          /\ op.rev < nextVer /\ op.ver < nextVer
    /\ pc \in {"rotate", "move_aside", "install"} =>
          temp[op.slot] = [rev |-> op.rev, ver |-> op.ver]
    /\ pc = "move_aside" => Present(main[op.slot])
    /\ pc = "install" => ~Present(main[op.slot])
    /\ pc \in {"bump", "sidecar", "reply"} =>
          main[op.slot] = [rev |-> op.rev, ver |-> op.ver] /\ Present(main[op.slot])
    /\ pc = "trash_bak" => acked[op.slot] = 0 /\ op.slot \in disturbed

\* The engine's memory agrees with the readable file, but between the rename
\* and the bump of a write, and a client that names that file's revision knows
\* that file's payload.
Agreed(s) ==
    /\ pc # "down" =>
          ReadableFile(s).rev =
              IF pc = "bump" /\ op.slot = s THEN revisions[s] + 1 ELSE revisions[s]
    /\ pc = "bump" /\ op.slot = s => op.rev = revisions[s] + 1
    /\ \A c \in Clients :
          /\ token[c][s].rev <= ReadableFile(s).rev
          /\ token[c][s].rev = ReadableFile(s).rev /\ token[c][s].rev # 0 =>
                token[c][s].ver = Readable(s)
RevisionInv ==
    /\ pc = "down" => token = [c \in Clients |-> [s \in Slots |-> Unknown]]
    /\ \A s \in Slots \ disturbed : Agreed(s)

\* Files are numbered from 1, the backup is older than the file beside it, a
\* delete goes file first, and no client has seen more than there is.
Ordered(s) ==
    /\ \A f \in {main[s], bak[s], temp[s]} : f.rev = 0 => f.ver = 0
    /\ Present(main[s]) => bak[s].ver < main[s].ver
    /\ s \notin disturbed => \A c \in Clients : token[c][s].ver <= Readable(s)
HistoryInv ==
    /\ \A s \in Slots : Ordered(s)
    /\ pc = "trash_main" => Present(main[op.slot])
    /\ pc = "trash_bak" => ~Present(main[op.slot])

SaveInv == TypeOK /\ AckedReadable /\ CountInv /\ PayloadInv /\ RevisionInv /\ HistoryInv

-----------------------------------------------------------------------------
(* The abstraction: what the files stand for to a client *)

\* A write is being served from its acceptance to its reply, and has taken
\* effect once its file is in place.
WritePoints == {"temp", "rotate", "move_aside", "install"}
DonePoints == {"bump", "sidecar", "reply"}
served(done) == [client |-> op.client, slot |-> op.slot, conditional |-> op.conditional,
                 done |-> done]
beingServed ==
    IF pc \in WritePoints THEN {served(FALSE)}
    ELSE IF pc \in DonePoints THEN {served(TRUE)} ELSE {}

Slotted == INSTANCE SaveSlots WITH
              content <- [s \in Slots |-> Readable(s)],
              promised <- acked,
              known <- [c \in Clients |-> [s \in Slots |-> token[c][s].ver]],
              serving <- beingServed,
              worn <- disturbed

\* Through failing file operations, lost replies and crashes, a client cannot
\* tell the files, backups and revision counts from slots that are written whole
\* or not at all, by one client at a time.
ImplementsSaveSlots == Slotted!Spec
=============================================================================
