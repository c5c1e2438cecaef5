---------------------------- MODULE SaveStoreProofs ----------------------------
(***************************************************************************)
(* Proofs about SaveStore, for any slots, any clients, any retention and   *)
(* any combination of failing file operations: SaveInv is inductive, and   *)
(* with it what the runs check on a small instance: no acknowledged save   *)
(* is lost to a later write, no step makes an older payload the readable   *)
(* one, and an accepted if_revision names the payload it replaces.         *)
(***************************************************************************)
EXTENDS SaveStore, LeastElement, FiniteSetTheorems, TLAPS

-----------------------------------------------------------------------------
(* The highest of some revisions *)

\* Max of a nonempty bounded set of revisions is one of them.
LEMMA MaxOf ==
    ASSUME NEW n \in Nat, NEW S, S \subseteq 0 .. n, S # {}
    PROVE  Max(S) \in S
  <1> DEFINE T == {k \in 0 .. n : n - k \in S}
  <1>1. PICK r \in S : TRUE
      OBVIOUS
  <1>2. T \subseteq Nat /\ n - r \in T
      BY <1>1
  <1>3. PICK k \in T : \A m \in T : k <= m
      BY <1>2, LeastOf
  <1>4. ASSUME NEW y \in S PROVE n - k >= y
    <2>1. n - y \in T
        BY <1>4
    <2> QED BY <2>1, <1>3
  <1> QED BY <1>3, <1>4 DEF Max

\* InitRevisions counts a revision that some file of the slot carries.
LEMMA RebuiltCounts ==
    ASSUME TypeOK, CountInv, NEW s \in Slots
    PROVE  Rebuilt(s) \in Vers /\ Rebuilt(s) < nextVer
  <1>1. MaxWrites \in Nat
      BY SaveConstants
  <1>2. sidecars[s] # {} => Max(sidecars[s]) \in sidecars[s]
      BY <1>1, MaxOf DEF TypeOK, Vers
  <1> QED BY <1>1, <1>2 DEF TypeOK, CountInv, Counted, Rebuilt, Vers, File

-----------------------------------------------------------------------------
(* SaveInv is inductive *)

\* An empty store satisfies the invariant.
LEMMA SaveInit == Init => SaveInv
  <1> SUFFICES ASSUME Init PROVE SaveInv
      OBVIOUS
  <1> USE SaveConstants DEF Init, NoFile, Idle, Unknown, File, Vers, Ops
  <1>1. TypeOK
      BY DEF TypeOK
  <1>2. AckedReadable /\ CountInv /\ PayloadInv
      BY DEF AckedReadable, CountInv, Counted, PayloadInv, Present
  <1>3. RevisionInv
      BY DEF RevisionInv, Agreed, ReadableFile, Readable, Present
  <1>4. HistoryInv
      BY DEF HistoryInv, Ordered, Present, ReadableFile, Readable
  <1> QED BY <1>1, <1>2, <1>3, <1>4 DEF SaveInv

\* The values the operations are made of.
LEMMA Values ==
    /\ NoFile \in File /\ Unknown \in File /\ Idle \in Ops
    /\ \A f \in File : f.rev \in Vers /\ f.ver \in Vers
    /\ \A r, v \in Vers : [rev |-> r, ver |-> v] \in File
    /\ \A o \in Ops : o.rev \in Vers /\ o.ver \in Vers /\ o.slot \in Slots
    /\ Vers = 0 .. MaxWrites /\ MaxWrites \in Nat
  <1> USE SaveConstants DEF Vers
  <1>1. NoFile \in File /\ Unknown \in File
      BY DEF NoFile, Unknown, File
  <1>2. Idle \in Ops
      BY DEF Idle, Ops
  <1> QED BY <1>1, <1>2 DEF File, Ops

\* No operation leaves the types: counters stay below the write bound.
LEMMA TypeStep == SaveInv /\ Next => TypeOK'
  <1> SUFFICES ASSUME SaveInv, Next PROVE TypeOK'
      OBVIOUS
  <1>0. /\ NoFile \in File /\ Unknown \in File /\ Idle \in Ops
        /\ op.slot \in Slots /\ op.rev \in Vers /\ op.ver \in Vers /\ 0 \in Vers
        /\ [rev |-> op.rev, ver |-> op.ver] \in File
      BY Values DEF SaveInv, TypeOK
  <1> USE <1>0, SaveConstants DEF SaveInv, TypeOK, Goto, Finish, files, history,
          LockPoints
  <1>1. CASE Start
      BY <1>1, RebuiltCounts DEF Start
  <1>2. CASE Crash
      BY <1>2 DEF Crash
  <1>3. CASE WriteTemp
      BY <1>3 DEF WriteTemp
  <1>4. CASE DropOldBackup
      BY <1>4 DEF DropOldBackup
  <1>5. CASE MoveAside
      BY <1>5 DEF MoveAside
  <1>6. CASE Install
      BY <1>6 DEF Install
  <1>7. CASE Bump
      BY <1>7 DEF Bump, Pruned
  <1>8. CASE WriteSidecar
      BY <1>8 DEF WriteSidecar
  <1>9. CASE Reply
    <2>1. token' \in [Clients -> [Slots -> File]]
      <3>1. CASE op.client \in Clients
        <4>1. [token[op.client] EXCEPT ![op.slot] = [rev |-> op.rev, ver |-> op.ver]]
                  \in [Slots -> File]
            BY <3>1
        <4> QED BY <1>9, <3>1, <4>1 DEF Reply
      <3>2. CASE op.client \notin Clients
          BY <1>9, <3>2 DEF Reply
      <3> QED BY <3>1, <3>2
    <2> QED BY <1>9, <2>1 DEF Reply
  <1>10. CASE TrashMain
      BY <1>10 DEF TrashMain
  <1>11. CASE TrashBak
      BY <1>11 DEF TrashBak
  <1>12. ASSUME NEW c \in Clients, ClaimWriter(c) PROVE TypeOK'
      BY <1>12 DEF ClaimWriter
  <1>13. ASSUME NEW c \in Clients, NEW s \in Slots, Load(c, s) PROVE TypeOK'
    <2>1. [rev |-> main[s].rev, ver |-> Readable(s)] \in File
        BY Values DEF Readable, ReadableFile
    <2> QED BY <1>13, <2>1 DEF Load
  <1>14. ASSUME NEW c \in Clients, NEW s \in Slots, NEW b \in BOOLEAN,
                 BeginWrite(c, s, b)
         PROVE  TypeOK'
    <2>1. nextVer \in Vers /\ revisions[s] + 1 \in Vers
        BY <1>14, Values DEF BeginWrite, CountInv, Counted
    <2>2. op' \in Ops
        BY <1>14, <2>1 DEF BeginWrite, Ops
    <2>3. nextVer' \in 1 .. MaxWrites + 1
        BY <1>14 DEF BeginWrite
    <2> QED BY <1>14, <2>2, <2>3 DEF BeginWrite
  <1>15. ASSUME NEW c \in Clients, NEW s \in Slots, BeginDelete(c, s) PROVE TypeOK'
    <2>1. op' \in Ops
        BY <1>15 DEF BeginDelete, Ops
    <2> QED BY <1>15, <2>1 DEF BeginDelete
  <1> HIDE DEF SaveInv, TypeOK
  <1> QED
      BY <1>1, <1>2, <1>3, <1>4, <1>5, <1>6, <1>7, <1>8, <1>9, <1>10,
         <1>11, <1>12, <1>13, <1>14, <1>15
      DEF Next, Request, WriteStep, DeleteStep

\* No file, counter or sidecar is ahead of the number of writes begun.
LEMMA CountStep == SaveInv /\ Next => CountInv'
  <1> SUFFICES ASSUME SaveInv, Next, NEW s \in Slots PROVE Counted(s)'
      BY DEF CountInv
  <1>0. /\ op.slot \in Slots /\ NoFile \in File /\ NoFile.ver = 0 /\ NoFile.rev = 0
        /\ \A f \in File : f.rev \in Nat /\ f.ver \in Nat
        /\ op.rev \in Nat /\ op.ver \in Nat /\ nextVer \in Nat \ {0}
      BY Values DEF SaveInv, TypeOK, NoFile, Vers
  <1>a. Counted(s) /\ Counted(op.slot)
      BY <1>0 DEF SaveInv, CountInv
  <1> USE <1>0, <1>a DEF SaveInv, TypeOK, Goto, Finish, files, history, Counted, PayloadInv,
          Present
  <1>1. CASE Start
      BY <1>1, RebuiltCounts DEF Start
  <1>2. CASE Crash
      BY <1>2 DEF Crash
  <1>3. CASE WriteTemp
    <2>1. temp'[s] \in {temp[s], [rev |-> op.rev, ver |-> op.ver]}
        BY <1>3 DEF WriteTemp
    <2>2. temp'[s] # temp[s] => op.rev < nextVer /\ op.ver < nextVer
        BY <1>3 DEF WriteTemp
    <2>3. temp'[s].rev < nextVer /\ temp'[s].ver < nextVer
        BY <2>1, <2>2
    <2> QED BY <1>3, <2>3 DEF WriteTemp
  <1>4. CASE DropOldBackup
      BY <1>4 DEF DropOldBackup
  <1>5. CASE MoveAside
      BY <1>5 DEF MoveAside
  <1>6. CASE Install
    <2>1. main'[s] \in {main[s], temp[op.slot]} /\ temp'[s] \in {temp[s], NoFile}
        BY <1>6 DEF Install
    <2>2. temp[op.slot] = [rev |-> op.rev, ver |-> op.ver] /\ op.ver # 0
        BY <1>6 DEF Install, Readable, ReadableFile
    <2>3. Present(temp[op.slot])
        BY <2>2
    <2> QED BY <1>6, <2>1, <2>3 DEF Install
  <1>7. CASE Bump
      BY <1>7 DEF Bump, Pruned
  <1>8. CASE WriteSidecar
    <2>1. op.rev < nextVer
      <3>1. main[op.slot].rev = op.rev
          BY <1>8 DEF WriteSidecar
      <3> QED BY <3>1
    <2>2. \A r \in sidecars'[s] : r \in sidecars[s] \/ r = op.rev
        BY <1>8 DEF WriteSidecar
    <2> QED BY <1>8, <2>1, <2>2 DEF WriteSidecar
  <1>9. CASE Reply
      BY <1>9 DEF Reply
  <1>10. CASE TrashMain
    <2>1. main'[s] \in {main[s], NoFile}
        BY <1>10 DEF TrashMain
    <2> QED BY <1>10, <2>1 DEF TrashMain
  <1>11. CASE TrashBak
      BY <1>11 DEF TrashBak
  <1>12. ASSUME NEW c \in Clients, ClaimWriter(c)
         PROVE  Counted(s)'
      BY <1>12 DEF ClaimWriter
  <1>13. ASSUME NEW c \in Clients, NEW k \in Slots, Load(c, k)
         PROVE  Counted(s)'
      BY <1>13 DEF Load
  <1>14. ASSUME NEW c \in Clients, NEW k \in Slots, NEW b \in BOOLEAN,
                 BeginWrite(c, k, b)
         PROVE  Counted(s)'
    <2>1. nextVer' = nextVer + 1 /\ main' = main /\ bak' = bak /\ temp' = temp
          /\ revisions' = revisions /\ sidecars' = sidecars
        BY <1>14 DEF BeginWrite
    <2>2. \A r \in sidecars[s] : r \in Nat
        BY Values
    <2>3. revisions[s] \in Nat /\ \A f \in {main[s], bak[s], temp[s]} : f \in File
        BY Values
    <2> HIDE DEF TypeOK, PayloadInv
    <2> QED BY <2>1, <2>2, <2>3
  <1>15. ASSUME NEW c \in Clients, NEW k \in Slots, BeginDelete(c, k)
         PROVE  Counted(s)'
      BY <1>15 DEF BeginDelete
  <1> QED
      BY <1>1, <1>2, <1>3, <1>4, <1>5, <1>6, <1>7, <1>8, <1>9, <1>10,
         <1>11, <1>12, <1>13, <1>14, <1>15
      DEF Next, Request, WriteStep, DeleteStep

\* Each point of a write finds its temporary file, and the file it replaces,
\* where the previous step left them.
LEMMA PayloadStep == SaveInv /\ Next => PayloadInv'
  <1> SUFFICES ASSUME SaveInv, Next PROVE PayloadInv'
      OBVIOUS
  <1>0. /\ op.slot \in Slots /\ NoFile \in File /\ NoFile.ver = 0 /\ NoFile.rev = 0
        /\ \A f \in File : f.rev \in Nat /\ f.ver \in Nat
        /\ op.rev \in Nat /\ op.ver \in Nat /\ nextVer \in Nat \ {0}
      BY Values DEF SaveInv, TypeOK, NoFile, Vers
  <1> USE <1>0 DEF SaveInv, TypeOK, Goto, Finish, files, history, PayloadInv, Present,
          Readable, ReadableFile
  <1>1. CASE Start
      BY <1>1 DEF Start
  <1>2. CASE Crash
      BY <1>2 DEF Crash
  <1>3. CASE WriteTemp
      BY <1>3 DEF WriteTemp
  <1>4. CASE DropOldBackup
      BY <1>4 DEF DropOldBackup
  <1>5. CASE MoveAside
      BY <1>5 DEF MoveAside
  <1>6. CASE Install
      BY <1>6 DEF Install
  <1>7. CASE Bump
      BY <1>7 DEF Bump
  <1>8. CASE WriteSidecar
      BY <1>8 DEF WriteSidecar
  <1>9. CASE Reply
      BY <1>9 DEF Reply
  <1>10. CASE TrashMain
      BY <1>10 DEF TrashMain
  <1>11. CASE TrashBak
      BY <1>11 DEF TrashBak
  <1>12. ASSUME NEW c \in Clients, ClaimWriter(c)
         PROVE  PayloadInv'
      BY <1>12 DEF ClaimWriter
  <1>13. ASSUME NEW c \in Clients, NEW k \in Slots, Load(c, k)
         PROVE  PayloadInv'
      BY <1>13 DEF Load
  <1>14. ASSUME NEW c \in Clients, NEW k \in Slots, NEW b \in BOOLEAN,
                 BeginWrite(c, k, b)
         PROVE  PayloadInv'
    <2>1. Readable(k) < nextVer /\ revisions[k] < nextVer /\ revisions[k] \in Nat
        BY Values DEF CountInv, Counted
    <2>2. /\ op'.slot = k /\ op'.ver = nextVer /\ op'.rev = revisions[k] + 1
          /\ nextVer' = nextVer + 1 /\ pc' = "temp"
          /\ main' = main /\ bak' = bak /\ revisions' = revisions
        BY <1>14 DEF BeginWrite
    <2>3. Readable(k)' = Readable(k)
        BY <2>2
    <2> HIDE DEF Readable, TypeOK
    <2> QED BY <2>1, <2>2, <2>3
  <1>15. ASSUME NEW c \in Clients, NEW k \in Slots, BeginDelete(c, k)
         PROVE  PayloadInv'
      BY <1>15 DEF BeginDelete
  <1> QED
      BY <1>1, <1>2, <1>3, <1>4, <1>5, <1>6, <1>7, <1>8, <1>9, <1>10,
         <1>11, <1>12, <1>13, <1>14, <1>15
      DEF Next, Request, WriteStep, DeleteStep

\* No step takes the readable payload below the acknowledged one.
LEMMA AckedStep == SaveInv /\ Next => AckedReadable'
  <1> SUFFICES ASSUME SaveInv, Next, NEW s \in Slots, acked'[s] # 0
               PROVE  Readable(s)' >= acked'[s]
      BY DEF AckedReadable
  <1>0. /\ op.slot \in Slots /\ NoFile \in File /\ NoFile.ver = 0 /\ NoFile.rev = 0
        /\ \A f \in File : f.rev \in Nat /\ f.ver \in Nat
        /\ op.rev \in Nat /\ op.ver \in Nat /\ nextVer \in Nat \ {0}
      BY Values DEF SaveInv, TypeOK, NoFile, Vers
  <1>a. acked[s] \in Nat /\ (acked[s] # 0 => Readable(s) >= acked[s])
      BY Values DEF SaveInv, AckedReadable, TypeOK
  <1> USE <1>0, <1>a DEF SaveInv, TypeOK, Goto, Finish, files, history, PayloadInv, Present,
          Readable, ReadableFile
  <1>1. CASE Start
      BY <1>1 DEF Start
  <1>2. CASE Crash
      BY <1>2 DEF Crash
  <1>3. CASE WriteTemp
      BY <1>3 DEF WriteTemp
  <1>4. CASE DropOldBackup
      BY <1>4 DEF DropOldBackup
  <1>5. CASE MoveAside
      BY <1>5 DEF MoveAside
  <1>6. CASE Install
    <2>1. main'[s] \in {main[s], temp[op.slot]} /\ bak' = bak /\ acked' = acked
        BY <1>6 DEF Install
    <2>2. main'[s] # main[s] => s = op.slot
        BY <1>6 DEF Install
    <2>3. temp[op.slot].ver = op.ver /\ Readable(op.slot) < op.ver
        BY <1>6 DEF Install
    <2>4. op.ver # 0 /\ main[s].ver \in Nat /\ bak[s].ver \in Nat
        BY <2>3
    <2> QED BY <2>1, <2>2, <2>3, <2>4
  <1>7. CASE Bump
      BY <1>7 DEF Bump
  <1>8. CASE WriteSidecar
      BY <1>8 DEF WriteSidecar
  <1>9. CASE Reply
      BY <1>9 DEF Reply
  <1>10. CASE TrashMain
      BY <1>10 DEF TrashMain
  <1>11. CASE TrashBak
      BY <1>11 DEF TrashBak
  <1>12. ASSUME NEW c \in Clients, ClaimWriter(c)
         PROVE  Readable(s)' >= acked'[s]
      BY <1>12 DEF ClaimWriter
  <1>13. ASSUME NEW c \in Clients, NEW k \in Slots, Load(c, k)
         PROVE  Readable(s)' >= acked'[s]
      BY <1>13 DEF Load
  <1>14. ASSUME NEW c \in Clients, NEW k \in Slots, NEW b \in BOOLEAN,
                 BeginWrite(c, k, b)
         PROVE  Readable(s)' >= acked'[s]
      BY <1>14 DEF BeginWrite
  <1>15. ASSUME NEW c \in Clients, NEW k \in Slots, BeginDelete(c, k)
         PROVE  Readable(s)' >= acked'[s]
      BY <1>15 DEF BeginDelete
  <1> QED
      BY <1>1, <1>2, <1>3, <1>4, <1>5, <1>6, <1>7, <1>8, <1>9, <1>10,
         <1>11, <1>12, <1>13, <1>14, <1>15
      DEF Next, Request, WriteStep, DeleteStep

\* The engine's count, the readable file and the clients' tokens keep agreeing
\* for every slot whose count did not start over.
LEMMA RevisionStep == SaveInv /\ Next => RevisionInv'
  <1>b. SaveInv /\ Next /\ pc' = "down" => token' = [c \in Clients |-> [k \in Slots |-> Unknown]]
      BY DEF Next, Request, WriteStep, DeleteStep, Start, Crash, ClaimWriter, Load, BeginWrite,
             WriteTemp, DropOldBackup, MoveAside, Install, Bump, WriteSidecar, Reply,
             BeginDelete, TrashMain, TrashBak, Goto, Finish
  <1> SUFFICES ASSUME SaveInv, Next, NEW s \in Slots \ disturbed'
               PROVE  Agreed(s)'
      BY <1>b DEF RevisionInv
  <1>0. /\ op.slot \in Slots /\ NoFile \in File /\ NoFile.ver = 0 /\ NoFile.rev = 0
        /\ \A f \in File : f.rev \in Nat /\ f.ver \in Nat
        /\ op.rev \in Nat /\ op.ver \in Nat /\ nextVer \in Nat \ {0}
      BY Values DEF SaveInv, TypeOK, NoFile, Vers
  <1>c. disturbed \subseteq disturbed'
      BY DEF Next, Request, WriteStep, DeleteStep, Start, Crash, ClaimWriter, Load, BeginWrite,
             WriteTemp, DropOldBackup, MoveAside, Install, Bump, WriteSidecar, Reply,
             BeginDelete, TrashMain, TrashBak, history
  <1>a. Agreed(s) /\ (pc = "down" => token = [c \in Clients |-> [k \in Slots |-> Unknown]])
      BY <1>c DEF SaveInv, RevisionInv
  <1> USE <1>0, <1>a DEF Agreed, SaveInv, TypeOK, Goto, Finish, files, history, PayloadInv, Present,
          Readable, ReadableFile
  <1>1. CASE Start
      BY <1>1, RebuiltCounts DEF Start
  <1>2. CASE Crash
    <2>1. \A k \in Clients : token'[k][s].rev = 0
        BY <1>2 DEF Crash, Unknown
    <2>2. pc' = "down" /\ main' = main /\ bak' = bak /\ main[s].rev >= 0 /\ bak[s].rev >= 0
        BY <1>2 DEF Crash
    <2> QED BY <2>1, <2>2
  <1>3. CASE WriteTemp
      BY <1>3 DEF WriteTemp
  <1>4. CASE DropOldBackup
      BY <1>4 DEF DropOldBackup
  <1>5. CASE MoveAside
      BY <1>5 DEF MoveAside
  <1>6. CASE Install
      BY <1>6 DEF Install
  <1>7. CASE Bump
      BY <1>7 DEF Bump
  <1>8. CASE WriteSidecar
      BY <1>8 DEF WriteSidecar
  <1>9. CASE Reply
    <2>1. ASSUME NEW k \in Clients
          PROVE  \/ token'[k][s] = token[k][s]
                 \/ s = op.slot /\ token'[k][s] = [rev |-> op.rev, ver |-> op.ver]
      <3>1. token[k] \in [Slots -> File]
          OBVIOUS
      <3>2. \/ token'[k] = token[k]
            \/ token'[k] = [token[k] EXCEPT ![op.slot] = [rev |-> op.rev, ver |-> op.ver]]
          BY <1>9 DEF Reply
      <3> QED BY <3>1, <3>2
    <2>2. main[op.slot] = [rev |-> op.rev, ver |-> op.ver] /\ Present(main[op.slot])
        BY <1>9 DEF Reply
    <2>3. /\ pc = "reply" /\ pc' = "idle"
          /\ main' = main /\ bak' = bak /\ revisions' = revisions
        BY <1>9 DEF Reply
    <2> HIDE DEF TypeOK, PayloadInv
    <2> QED BY <2>1, <2>2, <2>3
  <1>10. CASE TrashMain
      BY <1>10 DEF TrashMain
  <1>11. CASE TrashBak
      BY <1>11 DEF TrashBak
  <1>12. ASSUME NEW c \in Clients, ClaimWriter(c)
         PROVE  Agreed(s)'
      BY <1>12 DEF ClaimWriter
  <1>13. ASSUME NEW c \in Clients, NEW k \in Slots, Load(c, k)
         PROVE  Agreed(s)'
    <2>1. \A q \in Clients :
              token'[q][s] = token[q][s]
              \/ token'[q][s] = [rev |-> main[s].rev, ver |-> Readable(s)]
        BY <1>13 DEF Load
    <2>2. /\ pc = "idle" /\ pc' = "idle"
          /\ main' = main /\ bak' = bak /\ revisions' = revisions
        BY <1>13 DEF Load
    <2>3. ~Present(main[s]) => main[s].rev = 0
        BY DEF CountInv, Counted
    <2>4. main[s].rev \in Nat /\ bak[s].rev \in Nat
        OBVIOUS
    <2> HIDE DEF TypeOK, PayloadInv
    <2> QED BY <2>1, <2>2, <2>3, <2>4
  <1>14. ASSUME NEW c \in Clients, NEW k \in Slots, NEW b \in BOOLEAN,
                 BeginWrite(c, k, b)
         PROVE  Agreed(s)'
      BY <1>14 DEF BeginWrite
  <1>15. ASSUME NEW c \in Clients, NEW k \in Slots, BeginDelete(c, k)
         PROVE  Agreed(s)'
      BY <1>15 DEF BeginDelete
  <1> QED
      BY <1>1, <1>2, <1>3, <1>4, <1>5, <1>6, <1>7, <1>8, <1>9, <1>10,
         <1>11, <1>12, <1>13, <1>14, <1>15
      DEF Next, Request, WriteStep, DeleteStep

\* No step but a delete's makes an older payload the readable one.
LEMMA ReadableGrows ==
    ASSUME SaveInv, Next, pc \notin {"trash_main", "trash_bak"}, NEW s \in Slots
    PROVE  Readable(s)' >= Readable(s)
  <1>0. /\ op.slot \in Slots /\ NoFile.ver = 0
        /\ main[s].ver \in Nat /\ bak[s].ver \in Nat /\ op.ver \in Nat
      BY Values DEF SaveInv, TypeOK, NoFile, Vers
  <1> USE <1>0 DEF Readable, ReadableFile, Present
  <1>1. CASE main' = main /\ bak' = bak
      BY <1>1
  <1>2. CASE DropOldBackup
      BY <1>2 DEF DropOldBackup, SaveInv, TypeOK
  <1>3. CASE MoveAside
      BY <1>3 DEF MoveAside, SaveInv, TypeOK, PayloadInv
  <1>4. CASE Install
    <2>1. main'[s] \in {main[s], temp[op.slot]} /\ bak' = bak
        BY <1>4 DEF Install, SaveInv, TypeOK
    <2>2. main'[s] # main[s] => s = op.slot
        BY <1>4 DEF Install, SaveInv, TypeOK
    <2>3. temp[op.slot].ver = op.ver /\ Readable(op.slot) < op.ver
        BY <1>4 DEF Install, SaveInv, PayloadInv
    <2> QED BY <2>1, <2>2, <2>3
  <1> QED
      BY <1>1, <1>2, <1>3, <1>4
      DEF Next, Request, WriteStep, DeleteStep, Start, Crash, ClaimWriter, Load, BeginWrite,
          WriteTemp, Bump, WriteSidecar, Reply, BeginDelete, TrashMain, TrashBak,
          Finish, Goto, files

\* What a client knows of a slot comes from a read or from its own reply.
LEMMA TokenSteps ==
    ASSUME SaveInv, Next, NEW c \in Clients, NEW s \in Slots
    PROVE  \/ token'[c][s] \in {token[c][s], Unknown}
           \/ token'[c][s].ver = Readable(s)
  <1> USE DEF SaveInv, TypeOK
  <1>1. CASE Reply
    <2>1. main[op.slot] = [rev |-> op.rev, ver |-> op.ver] /\ Present(main[op.slot])
        BY <1>1 DEF Reply, PayloadInv
    <2>2. Readable(op.slot) = op.ver
        BY <2>1 DEF Readable, ReadableFile
    <2>3. \/ token'[c] = token[c]
          \/ token'[c] = [token[c] EXCEPT ![op.slot] = [rev |-> op.rev, ver |-> op.ver]]
        BY <1>1 DEF Reply
    <2> QED BY <2>2, <2>3
  <1>2. ASSUME NEW q \in Clients, NEW k \in Slots, Load(q, k)
        PROVE  token'[c][s] = token[c][s] \/ token'[c][s].ver = Readable(s)
      BY <1>2 DEF Load
  <1>3. CASE Crash
      BY <1>3 DEF Crash
  <1>4. CASE token' = token
      BY <1>4
  <1> HIDE DEF SaveInv, TypeOK
  <1> QED
      BY <1>1, <1>2, <1>3, <1>4
      DEF Next, Request, WriteStep, DeleteStep, Start, ClaimWriter, BeginWrite, WriteTemp,
          DropOldBackup, MoveAside, Install, Bump, WriteSidecar, BeginDelete, TrashMain,
          TrashBak

\* Files are numbered, backups are older, and clients have seen no more than
\* there is, but for a slot that was deleted.
LEMMA HistoryStep == SaveInv /\ Next => HistoryInv'
  <1> SUFFICES ASSUME SaveInv, Next PROVE HistoryInv'
      OBVIOUS
  <1>0. /\ op.slot \in Slots /\ NoFile \in File /\ NoFile.ver = 0 /\ NoFile.rev = 0
        /\ \A f \in File : f.rev \in Nat /\ f.ver \in Nat
        /\ op.rev \in Nat /\ op.ver \in Nat /\ nextVer \in Nat \ {0}
        /\ revisions[op.slot] \in Nat
      BY Values DEF SaveInv, TypeOK, NoFile, Vers
  <1>1. ASSUME NEW s \in Slots, s \notin disturbed', NEW c \in Clients
        PROVE  token'[c][s].ver <= Readable(s)'
    <2>1. s \notin disturbed /\ token[c][s].ver <= Readable(s)
        BY <1>1 DEF SaveInv, HistoryInv, Ordered, Next, Request, WriteStep, DeleteStep, Start,
             Crash, ClaimWriter, Load, BeginWrite, WriteTemp, DropOldBackup, MoveAside,
             Install, Bump, WriteSidecar, Reply, BeginDelete, TrashMain, TrashBak, history
    <2>2. Readable(s)' >= Readable(s)
      <3>1. CASE pc \notin {"trash_main", "trash_bak"}
          BY <3>1, ReadableGrows
      <3>2. CASE TrashMain \/ TrashBak
        <4>1. main'[s] = main[s] /\ bak'[s] = bak[s]
            BY <1>0, <1>1, <2>1, <3>2 DEF TrashMain, TrashBak, SaveInv, TypeOK, PayloadInv
        <4>2. Readable(s) \in Nat
            BY <1>0 DEF SaveInv, TypeOK, Readable, ReadableFile
        <4> QED BY <4>1, <4>2 DEF Readable, ReadableFile, Present
      <3>3. CASE Crash
        <4>1. Readable(s) \in Nat
            BY <1>0 DEF SaveInv, TypeOK, Readable, ReadableFile
        <4> QED BY <3>3, <4>1 DEF Crash, Readable, ReadableFile, Present, files
      <3>4. CASE \E k \in Clients : ClaimWriter(k)
        <4>1. Readable(s) \in Nat
            BY <1>0 DEF SaveInv, TypeOK, Readable, ReadableFile
        <4> QED BY <3>4, <4>1 DEF ClaimWriter, Readable, ReadableFile, Present, files
      <3> QED
          BY <3>1, <3>2, <3>3, <3>4
          DEF Next, Request, WriteStep, DeleteStep, Start, Load, BeginWrite, WriteTemp,
              DropOldBackup, MoveAside, Install, Bump, WriteSidecar, Reply, BeginDelete
    <2>3. Readable(s) \in Nat /\ Readable(s)' \in Nat /\ token[c][s].ver \in Nat
      <3>1. TypeOK /\ TypeOK'
          BY TypeStep DEF SaveInv
      <3> QED BY <1>0, <3>1 DEF TypeOK, Readable, ReadableFile
    <2>4. token'[c][s].ver \in {token[c][s].ver, 0, Readable(s)}
        BY TokenSteps DEF Unknown
    <2> QED BY <2>1, <2>2, <2>3, <2>4
  <1> USE <1>0 DEF SaveInv, TypeOK, Goto, Finish, files, history, Present
  <1>2. ASSUME NEW s \in Slots
        PROVE  /\ \A f \in {main'[s], bak'[s], temp'[s]} : f.rev = 0 => f.ver = 0
               /\ Present(main[s])' => bak'[s].ver < main'[s].ver
    <2>1. /\ \A f \in {main[s], bak[s], temp[s]} : f.rev = 0 => f.ver = 0
          /\ Present(main[s]) => bak[s].ver < main[s].ver
        BY DEF HistoryInv, Ordered
    <2> HIDE DEF SaveInv
    <2>2. CASE UNCHANGED files
        BY <2>1, <2>2
    <2>3. CASE Start
        BY <2>1, <2>3 DEF Start, SaveInv
    <2>4. CASE WriteTemp
      <3>1. op.rev # 0
          BY <2>4 DEF WriteTemp, SaveInv, PayloadInv
      <3> QED BY <2>1, <2>4, <3>1 DEF WriteTemp, SaveInv
    <2>5. CASE DropOldBackup
        BY <2>1, <2>5 DEF DropOldBackup, SaveInv
    <2>6. CASE MoveAside
        BY <2>1, <2>6 DEF MoveAside, SaveInv
    <2>7. CASE Install
      <3>1. /\ temp[op.slot] = [rev |-> op.rev, ver |-> op.ver] /\ op.rev # 0
            /\ bak[op.slot].ver < op.ver
          BY <2>7 DEF Install, SaveInv, PayloadInv, Readable, ReadableFile
      <3> QED BY <2>1, <2>7, <3>1 DEF Install, SaveInv
    <2>8. CASE TrashMain
      <3>1. main'[s] \in {main[s], NoFile} /\ bak' = bak /\ temp' = temp
          BY <2>8 DEF TrashMain, SaveInv
      <3> QED BY <2>1, <3>1
    <2>10. CASE TrashBak
      <3>1. bak'[s] \in {bak[s], NoFile} /\ main' = main /\ temp' = temp
          BY <2>10 DEF TrashBak, SaveInv
      <3>2. bak[s].ver \in Nat /\ main[s].ver \in Nat
          BY DEF SaveInv
      <3> QED BY <2>1, <3>1, <3>2
    <2>9. CASE main' = main /\ bak' = bak /\ temp' = temp
        BY <2>1, <2>9
    <2> QED
        BY <2>2, <2>3, <2>4, <2>5, <2>6, <2>7, <2>8, <2>9, <2>10
        DEF Next, Request, WriteStep, DeleteStep, Crash, ClaimWriter, Load, BeginWrite,
            Bump, WriteSidecar, Reply, BeginDelete
  <1>3. (pc' = "trash_main" => Present(main'[op'.slot]))
        /\ (pc' = "trash_bak" => ~Present(main'[op'.slot]))
      BY DEF HistoryInv, Next, Request, WriteStep, DeleteStep, Start, Crash, ClaimWriter, Load,
             BeginWrite, WriteTemp, DropOldBackup, MoveAside, Install, Bump, WriteSidecar, Reply,
             BeginDelete, TrashMain, TrashBak
  <1> HIDE DEF SaveInv, TypeOK
  <1> QED BY <1>1, <1>2, <1>3 DEF HistoryInv, Ordered

\* The invariant is inductive.
LEMMA SaveStep == SaveInv /\ [Next]_vars => SaveInv'
  <1>1. SaveInv /\ Next => SaveInv'
      BY TypeStep, CountStep, PayloadStep, AckedStep, RevisionStep, HistoryStep DEF SaveInv
  <1>2. ASSUME SaveInv, UNCHANGED vars PROVE SaveInv'
    <2> USE <1>2 DEF SaveInv, vars
    <2>1. TypeOK' /\ AckedReadable'
        BY DEF TypeOK, AckedReadable, Readable, ReadableFile
    <2>2. CountInv' /\ PayloadInv'
        BY DEF CountInv, Counted, PayloadInv, Readable, ReadableFile
    <2>3. RevisionInv'
        BY DEF RevisionInv, Agreed, Readable, ReadableFile
    <2>4. HistoryInv'
        BY DEF HistoryInv, Ordered, Readable, ReadableFile
    <2> QED BY <2>1, <2>2, <2>3, <2>4
  <1> QED BY <1>1, <1>2

\* It therefore holds of every behaviour.
LEMMA SaveAlways == Spec => []SaveInv
  BY SaveInit, SaveStep, PTL DEF Spec

-----------------------------------------------------------------------------
(* What the runs check, for every value of the constants *)

\* The files, the engine's memory and the operations keep their types: every
\* revision InitRevisions, setRevision or a header gives counts writes.
THEOREM TypeCorrect == Spec => []TypeOK
  BY SaveAlways, PTL DEF SaveInv

\* A save answered 200 stays readable, itself or a newer one, whatever write
\* fails or is interrupted after it (writeAtomic, ReadSave's fallback).
THEOREM AckedAlwaysReadable == Spec => []AckedReadable
  BY SaveAlways, PTL DEF SaveInv

\* The revision ListSaves shows is the one checkRevision compares with.
THEOREM ListedAlwaysCurrent == Spec => []ListedRevisionCurrent
  <1>1. SaveInv => ListedRevisionCurrent
      BY DEF SaveInv, RevisionInv, Agreed, ListedRevisionCurrent, ReadableFile
  <1> QED BY <1>1, SaveAlways, PTL

\* No step but a delete's takes the readable payload back (writeAtomic's order:
\* the backup is dropped, and made, only around a file that is there).
THEOREM ReadableNeverGoesBack == Spec => ReadableNeverRegresses
  <1> DEFINE Keeps == pc \notin {"trash_main", "trash_bak"} =>
                          \A s \in Slots : Readable(s)' >= Readable(s)
  <1>1. SaveInv /\ [Next]_vars => [Keeps]_vars
      BY ReadableGrows
  <1> QED BY <1>1, SaveAlways, PTL DEF Spec, ReadableNeverRegresses

\* checkRevision: an accepted if_revision is the revision of the payload its
\* client last knew, of every slot whose count never started over.
THEOREM ConflictsDetected == Spec => ConflictDetected
  <1> DEFINE Detects == AcceptsRevision => op'.slot \in disturbed \/ Fresh(op')
  <1>1. SaveInv /\ [Next]_vars => [Detects]_vars
    <2> SUFFICES ASSUME SaveInv, Next, AcceptsRevision, op'.slot \notin disturbed
                 PROVE  Fresh(op')
        OBVIOUS
    <2>1. PICK c \in Clients, s \in Slots, b \in BOOLEAN : BeginWrite(c, s, b)
        BY DEF AcceptsRevision, Next, Request, WriteStep, DeleteStep, Start, Crash, ClaimWriter,
               Load, BeginDelete, WriteTemp, DropOldBackup, MoveAside, Install, Bump,
               WriteSidecar, Reply, TrashMain, TrashBak, Goto, Finish
    <2>2. /\ op'.client = c /\ op'.slot = s /\ op'.conditional = b /\ pc = "idle"
          /\ op'.rev = revisions[s] + 1
        BY <2>1 DEF BeginWrite
    <2>3. token[c][s].rev = revisions[s] /\ revisions[s] # 0
      <3>1. b /\ op'.rev > 1
          BY <2>2 DEF AcceptsRevision
      <3>2. revisions[s] \in Nat
          BY Values DEF SaveInv, TypeOK
      <3> QED BY <2>1, <2>2, <3>1, <3>2 DEF BeginWrite
    <2>4. Agreed(s)
        BY <2>2 DEF SaveInv, RevisionInv
    <2> QED BY <2>2, <2>3, <2>4 DEF Agreed, Fresh
  <1> QED BY <1>1, SaveAlways, PTL DEF Spec, ConflictDetected

-----------------------------------------------------------------------------
(* SaveStore implements SaveSlots *)

\* An empty store is a set of empty slots.
LEMMA SlotsInit == Init => Slotted!Init
  <1> SUFFICES ASSUME Init PROVE Slotted!Init
      OBVIOUS
  <1>1. \A s \in Slots : Readable(s) = 0
      BY DEF Init, Readable, ReadableFile, Present, NoFile
  <1>2. beingServed = {}
      BY DEF Init, beingServed, WritePoints, DonePoints
  <1> QED BY <1>1, <1>2 DEF Init, Unknown, Slotted!Init, Slotted!NothingKnown

\* The payloads of all slots, and what the clients know of them.
contents == [s \in Slots |-> Readable(s)]
knowledge == [c \in Clients |-> [s \in Slots |-> token[c][s].ver]]

\* A step that leaves the files a reader sees leaves every slot's payload.
LEMMA SameContents ==
    ASSUME main' = main, bak' = bak PROVE contents' = contents
  BY DEF contents, Readable, ReadableFile

\* A step that changes one slot changes the payloads at that slot.
LEMMA OneContent ==
    ASSUME NEW s \in Slots, \A k \in Slots \ {s} : Readable(k)' = Readable(k)
    PROVE  contents' = [contents EXCEPT ![s] = contents'[s]]
  BY DEF contents

\* A conditional write that was accepted knew what is there: its revision is the
\* engine's, which is the readable file's, whose payload the client has seen.
LEMMA AcceptedKnew ==
    ASSUME SaveInv, NEW c \in Clients, NEW s \in Slots, BeginWrite(c, s, TRUE),
           s \notin disturbed
    PROVE  token[c][s].ver = Readable(s)
  <1>1. /\ token[c][s].rev = revisions[s] /\ revisions[s] = ReadableFile(s).rev
      BY DEF BeginWrite, SaveInv, RevisionInv, Agreed
  <1>2. CASE token[c][s].rev # 0
      BY <1>1, <1>2 DEF SaveInv, RevisionInv, Agreed
  <1>3. CASE token[c][s].rev = 0
    <2>1. Readable(s) = 0
        BY <1>1, <1>3 DEF SaveInv, HistoryInv, Ordered, Readable, ReadableFile
    <2>2. token[c][s].ver <= Readable(s) /\ token[c][s].ver \in Nat
        BY Values DEF SaveInv, HistoryInv, Ordered, TypeOK
    <2> QED BY <2>1, <2>2
  <1> QED BY <1>2, <1>3

\* What a client can tell: the abstract state.
slotState == <<contents, acked, knowledge, beingServed, disturbed>>

\* Which write is being served, point by point.
LEMMA ServedAt ==
    /\ pc \in WritePoints => beingServed = {served(FALSE)}
    /\ pc \in DonePoints => beingServed = {served(TRUE)}
    /\ pc \notin WritePoints \cup DonePoints => beingServed = {}
  BY DEF beingServed, WritePoints, DonePoints

\* A write that ends before its file is in place failed.
LEMMA FailRefines ==
    ASSUME pc \in WritePoints, pc' = "idle", contents' = contents,
           UNCHANGED <<acked, token, disturbed>>
    PROVE  Slotted!Next
  <1>1. beingServed = {served(FALSE)} /\ beingServed' = {}
      BY ServedAt DEF beingServed, WritePoints, DonePoints
  <1>2. Slotted!Fail(served(FALSE))
      BY <1>1 DEF Slotted!Fail, contents, served
  <1> QED BY <1>1, <1>2 DEF Slotted!Next

\* A step of a write between its acceptance and its file, or between its file
\* and its reply, cannot be told.
LEMMA QuietRefines ==
    ASSUME contents' = contents, UNCHANGED <<acked, token, disturbed>>,
           \/ pc \in WritePoints /\ pc' \in WritePoints /\ op' = op
           \/ pc \in DonePoints /\ pc' \in DonePoints /\ op' = op
           \/ /\ pc \notin WritePoints \cup DonePoints
              /\ pc' \notin WritePoints \cup DonePoints
    PROVE  UNCHANGED slotState
  <1>1. beingServed' = beingServed
      BY DEF beingServed, WritePoints, DonePoints, served
  <1>2. knowledge' = knowledge
      BY DEF knowledge
  <1> QED BY <1>1, <1>2 DEF slotState

\* The rename that puts the file in place is the moment a write takes effect.
LEMMA InstallRefines ==
    ASSUME SaveInv, Install, NEW s \in Slots, s = op.slot
    PROVE  Slotted!Next \/ UNCHANGED slotState
  <1>0. /\ op.slot \in Slots /\ main \in [Slots -> File] /\ pc \in WritePoints
        /\ temp \in [Slots -> File]
      BY Values DEF SaveInv, TypeOK, Install, WritePoints
  <1>1. CASE main' = main
    <2>1. contents' = contents
        BY <1>1, SameContents DEF Install
    <2>2. CASE pc' = "idle"
        BY <1>0, <2>1, <2>2, FailRefines DEF Install, history
    <2>3. CASE pc' = "bump"
      <3>1. main[op.slot] = temp[op.slot]
          BY <1>0, <1>1, <2>3 DEF Install, Finish
      <3>2. ~Present(main[op.slot]) /\ temp[op.slot].ver = op.ver
            /\ Readable(op.slot) < op.ver /\ Readable(op.slot) \in Nat
          BY Values DEF Install, SaveInv, PayloadInv, Readable, ReadableFile, TypeOK, Vers
      <3> QED BY <3>1, <3>2 DEF Present
    <2> QED BY <2>2, <2>3 DEF Install, Goto, Finish
  <1>2. CASE main' # main
    <2>1. /\ main' = [main EXCEPT ![op.slot] = temp[op.slot]]
          /\ pc' = "bump" /\ op' = op /\ bak' = bak
          /\ UNCHANGED <<acked, token, disturbed>>
        BY <1>2 DEF Install, Goto, history
    <2>2. /\ temp[op.slot].ver = op.ver /\ Readable(op.slot) < op.ver
          /\ Readable(op.slot) \in Nat /\ op.ver \in Nat
        BY Values DEF Install, SaveInv, PayloadInv, Readable, ReadableFile, TypeOK, Vers
    <2>3. Readable(s)' = op.ver
        BY <1>0, <2>1, <2>2 DEF Readable, ReadableFile, Present
    <2>4. \A k \in Slots \ {s} : Readable(k)' = Readable(k)
        BY <1>0, <2>1 DEF Readable, ReadableFile
    <2>5. contents' = [contents EXCEPT ![s] = contents'[s]]
        BY <1>0, <2>4, OneContent
    <2>6. contents'[s] > contents[s]
        BY <1>0, <2>2, <2>3 DEF contents
    <2>7. beingServed = {served(FALSE)} /\ beingServed' = {[served(FALSE) EXCEPT !.done = TRUE]}
        BY <1>0, <2>1 DEF beingServed, WritePoints, DonePoints, served
    <2>8. Slotted!Put(served(FALSE))
        BY <2>1, <2>5, <2>6, <2>7 DEF Slotted!Put, contents, served
    <2> QED BY <2>7, <2>8 DEF Slotted!Next
  <1> QED BY <1>1, <1>2

\* A reply confirms what is in the slot, whether or not it arrives.
LEMMA ReplyRefines ==
    ASSUME SaveInv, Reply PROVE Slotted!Next
  <1>0. op.slot \in Slots /\ acked \in [Slots -> Vers] /\ pc = "reply" /\ pc' = "idle"
      BY Values DEF SaveInv, TypeOK, Reply, Finish
  <1>1. beingServed = {served(TRUE)} /\ beingServed' = {}
      BY <1>0, ServedAt DEF beingServed, WritePoints, DonePoints
  <1>2. contents' = contents
      BY SameContents DEF Reply, files
  <1>3. contents[op.slot] = op.ver
      BY <1>0 DEF SaveInv, PayloadInv, contents, Readable, ReadableFile
  <1>4. knowledge' \in {knowledge, [knowledge EXCEPT ![op.client][op.slot] = op.ver]}
    <2>1. CASE token' = token
        BY <2>1 DEF knowledge
    <2>2. CASE token' = [token EXCEPT ![op.client][op.slot] = [rev |-> op.rev, ver |-> op.ver]]
        BY <2>2, <1>0 DEF knowledge, SaveInv, TypeOK
    <2> QED BY <2>1, <2>2 DEF Reply
  <1>5. Slotted!Reply(served(TRUE))
      BY <1>0, <1>1, <1>2, <1>3, <1>4 DEF Reply, Slotted!Reply, contents, knowledge, served
  <1>6. \E r \in beingServed : Slotted!Reply(r)
      BY <1>1, <1>5 DEF Slotted!Reply
  <1> QED BY <1>6 DEF Slotted!Next

\* Moving a file to the trash removes what was readable, and nothing confirmed is
\* left in the slot.
LEMMA TrashRefines ==
    ASSUME SaveInv, TrashMain \/ TrashBak, NEW s \in Slots, s = op.slot
    PROVE  Slotted!Next \/ UNCHANGED slotState
  <1>0. /\ NoFile.ver = 0 /\ main \in [Slots -> File]
        /\ bak \in [Slots -> File] /\ acked \in [Slots -> Vers]
        /\ \A f \in File : f.ver \in Nat
      BY Values DEF SaveInv, TypeOK, NoFile, Vers
  <1>1. beingServed = {} /\ beingServed' = {}
      BY DEF TrashMain, TrashBak, beingServed, WritePoints, DonePoints, Goto, Finish
  <1>2. knowledge' = knowledge
      BY DEF TrashMain, TrashBak, knowledge
  <1>3. CASE main' = main /\ bak' = bak /\ UNCHANGED <<acked, disturbed>>
      BY <1>1, <1>2, <1>3, SameContents DEF slotState
  <1>4. CASE /\ Readable(s)' < Readable(s)
             /\ \A k \in Slots \ {s} : Readable(k)' = Readable(k)
             /\ acked' = [acked EXCEPT ![s] = 0]
             /\ disturbed' = disturbed \cup {s}
    <2>1. contents' = [contents EXCEPT ![s] = contents'[s]]
        BY <1>0, <1>4, OneContent
    <2>2. contents'[s] < contents[s]
        BY <1>0, <1>4 DEF contents
    <2>3. Slotted!Remove(s)
        BY <1>1, <1>2, <1>4, <2>1, <2>2 DEF Slotted!Remove, contents, knowledge
    <2> QED BY <1>0, <2>3 DEF Slotted!Next
  <1>5. CASE TrashMain /\ main' = [main EXCEPT ![s] = NoFile] /\ pc' = "trash_bak"
    <2>1. Present(main[s]) /\ bak[s].ver < main[s].ver
        BY <1>0, <1>5 DEF TrashMain, SaveInv, HistoryInv, Ordered
    <2>2. main' = [main EXCEPT ![s] = NoFile] /\ bak' = bak
        BY <1>5 DEF TrashMain
    <2>3. /\ Readable(s)' < Readable(s)
          /\ \A k \in Slots \ {s} : Readable(k)' = Readable(k)
        BY <1>0, <2>1, <2>2 DEF Readable, ReadableFile, Present
    <2> QED BY <1>4, <1>5, <2>3 DEF TrashMain, history, Finish
  <1>6. CASE TrashBak /\ bak' = [bak EXCEPT ![s] = NoFile]
    <2>1. /\ ~Present(main[s]) /\ acked[s] = 0 /\ s \in disturbed
        BY <1>0, <1>6 DEF TrashBak, SaveInv, HistoryInv, PayloadInv
    <2>2. bak' = [bak EXCEPT ![s] = NoFile] /\ main' = main
          /\ UNCHANGED <<acked, disturbed>>
        BY <1>6 DEF TrashBak, history
    <2>3. CASE Present(bak[s])
      <3>1. /\ Readable(s)' < Readable(s)
            /\ \A k \in Slots \ {s} : Readable(k)' = Readable(k)
          BY <1>0, <2>1, <2>2, <2>3 DEF Readable, ReadableFile, Present
      <3>2. acked' = [acked EXCEPT ![s] = 0] /\ disturbed' = disturbed \cup {s}
          BY <1>0, <2>1, <2>2
      <3> QED BY <1>4, <3>1, <3>2
    <2>4. CASE ~Present(bak[s])
      <3>1. \A k \in Slots : Readable(k)' = Readable(k)
          BY <1>0, <2>1, <2>2, <2>4 DEF Readable, ReadableFile, Present
      <3>2. contents' = contents
          BY <3>1 DEF contents
      <3> QED BY <1>1, <1>2, <2>2, <3>2 DEF slotState
    <2> QED BY <2>3, <2>4
  <1> QED BY <1>3, <1>5, <1>6 DEF TrashMain, TrashBak, history, Goto

\* Rotating the backup changes no payload a reader can see.
LEMMA RotateRefines ==
    ASSUME SaveInv, DropOldBackup \/ MoveAside
    PROVE  Slotted!Next \/ UNCHANGED slotState
  <1>0. /\ op.slot \in Slots /\ NoFile.ver = 0 /\ main \in [Slots -> File]
        /\ bak \in [Slots -> File] /\ pc \in WritePoints
      BY Values DEF SaveInv, TypeOK, NoFile, DropOldBackup, MoveAside, WritePoints
  <1>1. \A k \in Slots : Readable(k)' = Readable(k)
    <2>1. CASE DropOldBackup
        BY <1>0, <2>1 DEF DropOldBackup, Readable, ReadableFile, Present
    <2>2. CASE MoveAside
        BY <1>0, <2>2 DEF MoveAside, Readable, ReadableFile, Present, SaveInv, PayloadInv
    <2> QED BY <2>1, <2>2
  <1>2. contents' = contents
      BY <1>1 DEF contents
  <1>3. CASE pc' = "idle"
      BY <1>0, <1>2, <1>3, FailRefines DEF DropOldBackup, MoveAside, history
  <1>4. CASE pc' # "idle"
      BY <1>0, <1>2, <1>4, QuietRefines
         DEF DropOldBackup, MoveAside, history, Goto, Finish, WritePoints
  <1> QED BY <1>3, <1>4

\* Accepting a write, and reading.
LEMMA RequestRefines ==
    ASSUME SaveInv, Request PROVE Slotted!Next \/ UNCHANGED slotState
  <1>1. ASSUME NEW c \in Clients, ClaimWriter(c) PROVE UNCHANGED slotState
      BY <1>1, SameContents
         DEF ClaimWriter, files, history, slotState, knowledge, beingServed, served
  <1>2. ASSUME NEW c \in Clients, NEW s \in Slots, Load(c, s) PROVE Slotted!Next
    <2>1. beingServed = {} /\ beingServed' = {} /\ contents' = contents
        BY <1>2, SameContents
           DEF Load, files, beingServed, served, WritePoints, DonePoints
    <2>2. knowledge' = [knowledge EXCEPT ![c][s] = contents[s]]
        BY <1>2 DEF Load, knowledge, contents, SaveInv, TypeOK
    <2>3. Slotted!Learn(c, s)
        BY <1>2, <2>1, <2>2 DEF Slotted!Learn, Load, history, contents, knowledge
    <2> QED BY <2>3 DEF Slotted!Next
  <1>3. ASSUME NEW c \in Clients, NEW s \in Slots, NEW b \in BOOLEAN, BeginWrite(c, s, b)
        PROVE  Slotted!Next
    <2>1. beingServed = {} /\ contents' = contents /\ knowledge' = knowledge
        BY <1>3, SameContents
           DEF BeginWrite, files, beingServed, WritePoints, DonePoints, knowledge
    <2>2. beingServed' = {[client |-> c, slot |-> s, conditional |-> b, done |-> FALSE]}
        BY <1>3 DEF BeginWrite, beingServed, WritePoints, Goto, served
    <2>3. b /\ s \notin disturbed => knowledge[c][s] = contents[s]
      <3>1. SUFFICES ASSUME b = TRUE, s \notin disturbed
                     PROVE  token[c][s].ver = Readable(s)
          BY DEF knowledge, contents
      <3> QED BY <1>3, <3>1, AcceptedKnew
    <2>4. Slotted!Accept(c, s, b)
        BY <1>3, <2>1, <2>2, <2>3 DEF Slotted!Accept, BeginWrite, history, contents, knowledge
    <2> QED BY <2>4 DEF Slotted!Next
  <1>4. ASSUME NEW c \in Clients, NEW s \in Slots, BeginDelete(c, s)
        PROVE  UNCHANGED slotState
      BY <1>4, SameContents, QuietRefines
         DEF BeginDelete, files, history, Goto, WritePoints, DonePoints
  <1> QED BY <1>1, <1>2, <1>3, <1>4 DEF Request

\* A crash forgets the write and the clients; a restart may wear a slot.
LEMMA RestartRefines ==
    ASSUME SaveInv, Start \/ Crash PROVE Slotted!Next
  <1>1. contents' = contents
      BY SameContents DEF Start, Crash, files
  <1>2. beingServed' = {}
      BY DEF Start, Crash, Goto, beingServed, WritePoints, DonePoints
  <1>3. CASE Crash
    <2>1. knowledge' = Slotted!NothingKnown
        BY <1>3 DEF Crash, Unknown, knowledge, Slotted!NothingKnown
    <2> QED BY <1>1, <1>2, <1>3, <2>1
            DEF Crash, history, Slotted!Next, Slotted!Crash, contents, knowledge
  <1>4. CASE Start
    <2>1. knowledge = Slotted!NothingKnown /\ knowledge' = knowledge
        BY <1>4 DEF Start, Unknown, knowledge, Slotted!NothingKnown, SaveInv, RevisionInv
    <2>2. beingServed = {}
        BY <1>4 DEF Start, beingServed, WritePoints, DonePoints
    <2> QED BY <1>1, <1>2, <1>4, <2>1, <2>2
            DEF Start, Slotted!Next, Slotted!Wear, contents, knowledge
  <1> QED BY <1>3, <1>4

\* Every step of the files is a step of the slots, or cannot be told.
LEMMA SlotsStep ==
    SaveInv /\ [Next]_vars => [Slotted!Next]_(Slotted!svars)
  <1> SUFFICES ASSUME SaveInv, [Next]_vars
               PROVE  Slotted!Next \/ UNCHANGED slotState
      BY DEF slotState, Slotted!svars, contents, knowledge
  <1>1. CASE UNCHANGED vars
      BY <1>1, SameContents DEF vars, slotState, knowledge, beingServed, served
  <1>2. CASE WriteTemp
    <2>1. contents' = contents /\ UNCHANGED <<acked, token, disturbed>>
        BY <1>2, SameContents DEF WriteTemp, history
    <2>2. CASE pc' = "idle"
        BY <1>2, <2>1, <2>2, FailRefines DEF WriteTemp, WritePoints
    <2>3. CASE pc' # "idle"
        BY <1>2, <2>1, <2>3, QuietRefines DEF WriteTemp, WritePoints, Goto, Finish
    <2> QED BY <2>2, <2>3
  <1>3. CASE Bump \/ WriteSidecar
      BY <1>3, SameContents, QuietRefines DEF Bump, WriteSidecar, DonePoints, Goto, history
  <1>4. op.slot \in Slots
      BY Values DEF SaveInv, TypeOK
  <1> QED
      BY <1>1, <1>2, <1>3, <1>4, RotateRefines, InstallRefines, ReplyRefines, TrashRefines,
         RequestRefines, RestartRefines
      DEF Next, WriteStep, DeleteStep

\* To a client, the files, backups, counters and tokens of the engine are slots
\* that are written whole, one request at a time, and never lost.
THEOREM StoreImplementsSaveSlots == Spec => ImplementsSaveSlots
  <1>1. Init => Slotted!Init
      BY SlotsInit
  <1>2. SaveInv /\ [Next]_vars => [Slotted!Next]_(Slotted!svars)
      BY SlotsStep
  <1> QED BY SaveAlways, <1>1, <1>2, PTL DEF Spec, ImplementsSaveSlots, Slotted!Spec
=============================================================================
