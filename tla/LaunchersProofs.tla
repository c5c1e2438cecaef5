--------------------------- MODULE LaunchersProofs ---------------------------
(***************************************************************************)
(* Proofs about Launchers, for any number of starts, any ports and any     *)
(* deny list: type correctness, that at most one of the launchers that are *)
(* started one after the other serves, that each listens on a port of its  *)
(* own, that none gives way to what a stale file says, and that a handoff  *)
(* opens this folder's game.                                               *)
(***************************************************************************)
EXTENDS Launchers, LeastElement, FiniteSetTheorems, TLAPS

-----------------------------------------------------------------------------
(* The inductive invariant *)

\* Of two launchers that run at the same time both have had company; a launcher
\* that is about to create the file and finds one has, or could not read it.
CompanyInv ==
    /\ \A l, m \in Alive : l # m => l \in company
    /\ \A l \in Launchers : pc[l] = "create" /\ lockFile # None => l \in company \cup failed
    /\ GivesWayToLauncher

\* A lock file gets its port once, from the launcher that listens on it, and
\* what was read of it stays true.
ContentInv ==
    /\ \A l \in Launchers :
          /\ pc[l] \in {"off", "write"} \cup Acquiring => content[l] = Blank
          /\ pc[l] \in {"alloc", "bound"} \cup Binding => content[l] = NoPort
    /\ \A l \in Launchers : pc[l] = "check" =>
          /\ seen[l].owner \in Launchers
          /\ seen[l].port \in Ports => content[seen[l].owner] = seen[l].port

\* Launchers that come one after the other and are quick: one starts or stops at
\* a time, and none goes beyond the question while another serves, unless to be
\* refused by a file it could not read.
OneInv ==
    excuse = "none" =>
        /\ slow = {}
        /\ \A l, m \in Alive : pc[l] # "serving" /\ pc[m] # "serving" => l = m
        /\ \A l, m \in Launchers : pc[l] = "serving" /\ pc[m] = "serving" => l = m
        /\ \A l \in Launchers : pc[l] = "serving" =>
              lockFile = l /\ content[l] = bound[l] /\ bound[l] \in Ports
        /\ \A l, s \in Launchers :
              pc[l] \in {"remove"} \cup Holding \cup Leaving => pc[s] # "serving"
        /\ \A l \in Launchers : pc[l] \in Holding => lockFile = l
        /\ \A l, s \in Launchers : pc[l] = "check" /\ pc[s] = "serving" =>
              seen[l].owner = s /\ seen[l].port = bound[s]
        /\ \A l \in Launchers :
              /\ pc[l] \in {"bound", "persist", "replace"} => bound[l] \in Ports
              /\ pc[l] \in {"persist", "replace"} => content[l] = bound[l]

\* A launcher listens from its bind to the end of its drain or of itself, and
\* what it sets out to bind has been validated or scanned.
PortInv ==
    /\ ListensAlone
    /\ \A l \in Launchers :
          /\ pc[l] \in Binding => Valid(pick[l])
          /\ pc[l] \in {"bound", "persist", "replace", "serving"} => bound[l] # NoPort
          /\ bound[l] # NoPort => pc[l] \in {"bound", "persist", "replace", "serving", "draining"}

LaunchersInv == TypeOK /\ CompanyInv /\ ContentInv /\ OneInv /\ PortInv

-----------------------------------------------------------------------------
(* Ports and what is read of a lock *)

\* Ports are positive numbers: neither constant is one.
LEMMA PortFacts == NoPort \notin Ports /\ Blank \notin Ports /\ NoPort # Blank
  BY LauncherConstants DEF NoPort, Blank

\* A set of ports that is not empty has a least one.
LEMMA LowestIsIn ==
    ASSUME NEW S, S \subseteq Ports, S # {}
    PROVE  Lowest(S) \in S
  BY LauncherConstants, LeastOf DEF Lowest

\* A scan that finds a port finds one of the ports it looks at, and one that the
\* deny list admits.
LEMMA ScannedIsIn ==
    ASSUME NEW W, W \subseteq Ports, NEW skip
    PROVE  /\ Scanned(W, skip) \in W \cup {NoPort}
           /\ Scanned(W, skip) # NoPort => Valid(Scanned(W, skip))
  <1> DEFINE found == {k \in W \ skip : Valid(k) /\ Usable(k)}
  <1>1. found \subseteq W /\ \A k \in found : Valid(k)
      OBVIOUS
  <1>2. Scanned(W, skip) = IF found = {} THEN NoPort ELSE Lowest(found)
      BY DEF Scanned
  <1> HIDE DEF found
  <1> QED BY <1>1, <1>2, LowestIsIn

\* What is read of a lock.
SeenRecords == [owner : Launchers \cup {None}, port : Ports \cup {NoPort, Blank}]
Read(o, k) == [owner |-> o, port |-> k]

\* It has an owner and a port.
LEMMA SeenFacts ==
    /\ NothingSeen \in SeenRecords
    /\ \A o \in Launchers, k \in Ports \cup {NoPort, Blank} :
          Read(o, k) \in SeenRecords /\ Read(o, k).owner = o /\ Read(o, k).port = k
    /\ \A s \in SeenRecords : s.owner \in Launchers \cup {None} /\ s.port \in Ports \cup {NoPort, Blank}
  BY DEF SeenRecords, NothingSeen, Read

-----------------------------------------------------------------------------
(* Types *)

\* The first launcher finds the types.
LEMMA TypeInit == Init => TypeOK
  <1> SUFFICES ASSUME Init PROVE TypeOK
      OBVIOUS
  <1>1. seen \in [Launchers -> SeenRecords]
      BY SeenFacts DEF Init
  <1> QED BY <1>1 DEF Init, TypeOK, Pcs, Excuses, SeenRecords, Binding, Acquiring, Holding, Leaving


\* TypeOK with what is read of a lock as a set of its own.
Typed ==
    /\ pc \in [Launchers -> Pcs]
    /\ lockFile \in Launchers \cup {None}
    /\ content \in [Launchers -> Ports \cup {NoPort, Blank}]
    /\ seen \in [Launchers -> SeenRecords]
    /\ cand \in [Launchers -> Ports \cup {NoPort}]
    /\ pick \in [Launchers -> Ports \cup {NoPort}]
    /\ bound \in [Launchers -> Ports \cup {NoPort}]
    /\ savedPort \in Ports \cup {NoPort}
    /\ env \in [Ports -> {"free", "app", "sibling"}]
    /\ \A l \in Launchers : pc[l] \in Binding => pick[l] \in Ports
    /\ slow \subseteq Launchers /\ company \subseteq Launchers /\ failed \subseteq Launchers
    /\ excuse \in Excuses

\* The two say the same.
LEMMA SameTypes == TypeOK <=> Typed
  BY DEF TypeOK, Typed, SeenRecords

\* Every step keeps the types.
LEMMA TypeNext == Typed /\ [Next]_vars => Typed'
  <1> SUFFICES ASSUME Typed, [Next]_vars PROVE Typed'
      OBVIOUS
  <1> USE DEF Typed, lockVars, portVars, Step, ForgetPick, TurnedAway, Excuses, Pcs,
        Binding, Acquiring, Holding, Leaving
  <1>1. ASSUME NEW l \in Launchers, Start(l) PROVE Typed'
    <2>1. company' \subseteq Launchers
        BY <1>1 DEF Start, Alive
    <2>2. excuse' \in Excuses /\ slow' \subseteq Launchers
        BY <1>1 DEF Start
    <2> QED BY <1>1, <2>1, <2>2 DEF Start
  <1>2. ASSUME NEW l \in Launchers, ResetOrigin(l) PROVE Typed'
      BY <1>2 DEF ResetOrigin
  <1>3. ASSUME NEW l \in Launchers, ReadLock(l) PROVE Typed'
    <2>1. CASE UNCHANGED seen
        BY <1>3, <2>1 DEF ReadLock
    <2>2. CASE lockFile # None /\ seen' = [seen EXCEPT ![l] = Read(lockFile, content[lockFile])]
      <3>1. Read(lockFile, content[lockFile]) \in SeenRecords
          BY <2>2, SeenFacts
      <3>2. seen' \in [Launchers -> SeenRecords]
          BY <2>2, <3>1
      <3> QED BY <1>3, <3>2 DEF ReadLock
    <2> QED BY <1>3, <2>1, <2>2 DEF ReadLock, Read
  <1>4. ASSUME NEW l \in Launchers, FoundLive(l) PROVE Typed'
    <2>1. seen' \in [Launchers -> SeenRecords]
        BY <1>4, SeenFacts DEF FoundLive
    <2> QED BY <1>4, <2>1 DEF FoundLive
  <1>5. ASSUME NEW l \in Launchers, FoundStale(l) PROVE Typed'
    <2>1. seen' \in [Launchers -> SeenRecords]
        BY <1>5, SeenFacts DEF FoundStale
    <2> QED BY <1>5, <2>1 DEF FoundStale
  <1>6. ASSUME NEW l \in Launchers, RemoveStale(l) PROVE Typed'
      BY <1>6 DEF RemoveStale
  <1>7. ASSUME NEW l \in Launchers, CreateLock(l) PROVE Typed'
      BY <1>7 DEF CreateLock
  <1>8. ASSUME NEW l \in Launchers, LostRace(l) PROVE Typed'
      BY <1>8 DEF LostRace
  <1>9. ASSUME NEW l \in Launchers, WriteLock(l) PROVE Typed'
      BY <1>9 DEF WriteLock
  <1>10. ASSUME NEW l \in Launchers, ChoosePort(l) PROVE Typed'
      BY <1>10 DEF ChoosePort
  <1>11. ASSUME NEW l \in Launchers, Bind(l) PROVE Typed'
      BY <1>11 DEF Bind
  <1>12. ASSUME NEW l \in Launchers, Rescan(l) PROVE Typed'
    <2>1. /\ Scanned(Window, {cand[l]}) \in Ports \cup {NoPort}
          /\ Scanned(Ports, {cand[l]}) \in Ports \cup {NoPort}
        BY ScannedIsIn, LauncherConstants
    <2>2. \E k \in Ports : pick' = [pick EXCEPT ![l] = k]
        BY <1>12, <2>1 DEF Rescan
    <2>3. \E to \in Pcs : pc' = [pc EXCEPT ![l] = to]
        BY <1>12 DEF Rescan
    <2> QED BY <1>12, <2>2, <2>3 DEF Rescan
  <1>13. ASSUME NEW l \in Launchers, GiveUp(l) PROVE Typed'
      BY <1>13 DEF GiveUp
  <1>14. ASSUME NEW l \in Launchers, PublishPort(l) PROVE Typed'
      BY <1>14 DEF PublishPort
  <1>15. ASSUME NEW l \in Launchers, RotatePortState(l) PROVE Typed'
      BY <1>15 DEF RotatePortState
  <1>16. ASSUME NEW l \in Launchers, SavePortState(l) PROVE Typed'
      BY <1>16 DEF SavePortState
  <1>17. ASSUME NEW l \in Launchers, BeginDrain(l) PROVE Typed'
      BY <1>17 DEF BeginDrain
  <1>18. ASSUME NEW l \in Launchers, EndDrain(l) PROVE Typed'
      BY <1>18 DEF EndDrain
  <1>19. ASSUME NEW l \in Launchers, Release(l) PROVE Typed'
      BY <1>19 DEF Release
  <1>20. ASSUME NEW l \in Launchers, Crash(l) PROVE Typed'
    <2>1. seen' \in [Launchers -> SeenRecords]
        BY <1>20, SeenFacts DEF Crash
    <2> QED BY <1>20, <2>1 DEF Crash
  <1>21. ASSUME NEW k \in Ports, Others(k) PROVE Typed'
      BY <1>21 DEF Others
  <1>22. CASE UNCHANGED vars
      BY <1>22 DEF vars
  <1> QED BY <1>1, <1>2, <1>3, <1>4, <1>5, <1>6, <1>7, <1>8, <1>9, <1>10,
         <1>11, <1>12, <1>13, <1>14, <1>15, <1>16, <1>17, <1>18, <1>19,
         <1>20, <1>21, <1>22 DEF Next, Launcher

-----------------------------------------------------------------------------
(* Company *)

\* Nobody runs yet.
LEMMA CompanyInit == Init => CompanyInv
  BY DEF Init, CompanyInv, GivesWayToLauncher, Alive, Acquiring, Holding, Leaving, Binding

\* Who meets another is written down before either gives way.
LEMMA CompanyNext == Typed /\ CompanyInv /\ [Next]_vars => CompanyInv'
  <1> SUFFICES ASSUME Typed, CompanyInv, [Next]_vars PROVE CompanyInv'
      OBVIOUS
  <1> USE DEF Typed, CompanyInv, GivesWayToLauncher, lockVars, portVars,
        Step, ForgetPick, TurnedAway, Alive, Pcs, Binding, Acquiring, Holding, Leaving
  <1>1. ASSUME NEW l \in Launchers, Start(l) PROVE CompanyInv'
      BY <1>1 DEF Start, Serving
  <1>2. ASSUME NEW l \in Launchers, ResetOrigin(l) PROVE CompanyInv'
      BY <1>2 DEF ResetOrigin
  <1>3. ASSUME NEW l \in Launchers, ReadLock(l) PROVE CompanyInv'
      BY <1>3 DEF ReadLock
  <1>4. ASSUME NEW l \in Launchers, FoundLive(l) PROVE CompanyInv'
    <2>1. seen[l].owner \in Alive /\ seen[l].owner # l /\ l \in Alive
        BY <1>4 DEF FoundLive, Answers, Serving
    <2>2. l \in company
        BY <2>1
    <2> QED BY <1>4, <2>2 DEF FoundLive
  <1>5. ASSUME NEW l \in Launchers, FoundStale(l) PROVE CompanyInv'
      BY <1>5 DEF FoundStale
  <1>6. ASSUME NEW l \in Launchers, RemoveStale(l) PROVE CompanyInv'
      BY <1>6 DEF RemoveStale
  <1>7. ASSUME NEW l \in Launchers, CreateLock(l) PROVE CompanyInv'
      BY <1>7 DEF CreateLock
  <1>8. ASSUME NEW l \in Launchers, LostRace(l) PROVE CompanyInv'
      BY <1>8 DEF LostRace
  <1>9. ASSUME NEW l \in Launchers, WriteLock(l) PROVE CompanyInv'
      BY <1>9 DEF WriteLock
  <1>10. ASSUME NEW l \in Launchers, ChoosePort(l) PROVE CompanyInv'
      BY <1>10 DEF ChoosePort
  <1>11. ASSUME NEW l \in Launchers, Bind(l) PROVE CompanyInv'
      BY <1>11 DEF Bind
  <1>12. ASSUME NEW l \in Launchers, Rescan(l) PROVE CompanyInv'
    <2>1. \E to \in Holding : pc' = [pc EXCEPT ![l] = to] /\ pc[l] \in Binding
        BY <1>12 DEF Rescan
    <2> QED BY <1>12, <2>1 DEF Rescan
  <1>13. ASSUME NEW l \in Launchers, GiveUp(l) PROVE CompanyInv'
      BY <1>13 DEF GiveUp
  <1>14. ASSUME NEW l \in Launchers, PublishPort(l) PROVE CompanyInv'
      BY <1>14 DEF PublishPort
  <1>15. ASSUME NEW l \in Launchers, RotatePortState(l) PROVE CompanyInv'
      BY <1>15 DEF RotatePortState
  <1>16. ASSUME NEW l \in Launchers, SavePortState(l) PROVE CompanyInv'
      BY <1>16 DEF SavePortState
  <1>17. ASSUME NEW l \in Launchers, BeginDrain(l) PROVE CompanyInv'
      BY <1>17 DEF BeginDrain
  <1>18. ASSUME NEW l \in Launchers, EndDrain(l) PROVE CompanyInv'
      BY <1>18 DEF EndDrain
  <1>19. ASSUME NEW l \in Launchers, Release(l) PROVE CompanyInv'
      BY <1>19 DEF Release
  <1>20. ASSUME NEW l \in Launchers, Crash(l) PROVE CompanyInv'
      BY <1>20 DEF Crash
  <1>21. ASSUME NEW k \in Ports, Others(k) PROVE CompanyInv'
      BY <1>21 DEF Others
  <1>22. CASE UNCHANGED vars
      BY <1>22 DEF vars
  <1> QED BY <1>1, <1>2, <1>3, <1>4, <1>5, <1>6, <1>7, <1>8, <1>9, <1>10,
         <1>11, <1>12, <1>13, <1>14, <1>15, <1>16, <1>17, <1>18, <1>19,
         <1>20, <1>21, <1>22 DEF Next, Launcher

-----------------------------------------------------------------------------
(* What the lock files record *)

\* No lock file has been created yet.
LEMMA ContentInit == Init => ContentInv
  BY DEF Init, ContentInv, Acquiring, Binding

\* A file is written when its launcher has the lock and when it has the port.
LEMMA ContentNext == Typed /\ ContentInv /\ [Next]_vars => ContentInv'
  <1> SUFFICES ASSUME Typed, ContentInv, [Next]_vars PROVE ContentInv'
      OBVIOUS
  <1> USE DEF Typed, ContentInv, lockVars, portVars, Step, ForgetPick, TurnedAway, Pcs,
        Binding, Acquiring, Holding, Leaving
  <1>1. ASSUME NEW l \in Launchers, Start(l) PROVE ContentInv'
      BY <1>1 DEF Start
  <1>2. ASSUME NEW l \in Launchers, ResetOrigin(l) PROVE ContentInv'
      BY <1>2 DEF ResetOrigin
  <1>3. ASSUME NEW l \in Launchers, ReadLock(l) PROVE ContentInv'
    <2>1. CASE UNCHANGED seen /\ pc' # [pc EXCEPT ![l] = "check"]
        BY <1>3, <2>1 DEF ReadLock
    <2>2. CASE lockFile # None /\ seen' = [seen EXCEPT ![l] = Read(lockFile, content[lockFile])]
      <3>1. seen'[l].owner = lockFile /\ seen'[l].port = content[lockFile]
          BY <2>2, SeenFacts
      <3>2. \A m \in Launchers \ {l} : seen'[m] = seen[m] /\ pc'[m] = pc[m]
          BY <1>3, <2>2 DEF ReadLock
      <3>3. pc' = [pc EXCEPT ![l] = pc'[l]] /\ pc'[l] \in {"create", "remove", "check", "raced"} /\ content' = content
          BY <1>3 DEF ReadLock
      <3>4. pc[l] = "read"
          BY <1>3 DEF ReadLock
      <3> QED BY <2>2, <3>1, <3>2, <3>3, <3>4
    <2>3. CASE UNCHANGED seen /\ pc' = [pc EXCEPT ![l] = "check"]
      <3>1. pc'[l] = "check"
          BY <2>3
      <3> QED BY <1>3, <3>1, <2>2 DEF ReadLock, Read
    <2> QED BY <1>3, <2>1, <2>2, <2>3 DEF ReadLock, Read
  <1>4. ASSUME NEW l \in Launchers, FoundLive(l) PROVE ContentInv'
      BY <1>4 DEF FoundLive
  <1>5. ASSUME NEW l \in Launchers, FoundStale(l) PROVE ContentInv'
      BY <1>5 DEF FoundStale
  <1>6. ASSUME NEW l \in Launchers, RemoveStale(l) PROVE ContentInv'
      BY <1>6 DEF RemoveStale
  <1>7. ASSUME NEW l \in Launchers, CreateLock(l) PROVE ContentInv'
      BY <1>7 DEF CreateLock
  <1>8. ASSUME NEW l \in Launchers, LostRace(l) PROVE ContentInv'
      BY <1>8 DEF LostRace
  <1>9. ASSUME NEW l \in Launchers, WriteLock(l) PROVE ContentInv'
      BY <1>9, PortFacts DEF WriteLock
  <1>10. ASSUME NEW l \in Launchers, ChoosePort(l) PROVE ContentInv'
      BY <1>10 DEF ChoosePort
  <1>11. ASSUME NEW l \in Launchers, Bind(l) PROVE ContentInv'
      BY <1>11 DEF Bind
  <1>12. ASSUME NEW l \in Launchers, Rescan(l) PROVE ContentInv'
      BY <1>12 DEF Rescan
  <1>13. ASSUME NEW l \in Launchers, GiveUp(l) PROVE ContentInv'
      BY <1>13 DEF GiveUp
  <1>14. ASSUME NEW l \in Launchers, PublishPort(l) PROVE ContentInv'
      BY <1>14, PortFacts DEF PublishPort
  <1>15. ASSUME NEW l \in Launchers, RotatePortState(l) PROVE ContentInv'
      BY <1>15 DEF RotatePortState
  <1>16. ASSUME NEW l \in Launchers, SavePortState(l) PROVE ContentInv'
      BY <1>16 DEF SavePortState
  <1>17. ASSUME NEW l \in Launchers, BeginDrain(l) PROVE ContentInv'
      BY <1>17 DEF BeginDrain
  <1>18. ASSUME NEW l \in Launchers, EndDrain(l) PROVE ContentInv'
      BY <1>18 DEF EndDrain
  <1>19. ASSUME NEW l \in Launchers, Release(l) PROVE ContentInv'
      BY <1>19 DEF Release
  <1>20. ASSUME NEW l \in Launchers, Crash(l) PROVE ContentInv'
      BY <1>20 DEF Crash
  <1>21. ASSUME NEW k \in Ports, Others(k) PROVE ContentInv'
      BY <1>21 DEF Others
  <1>22. CASE UNCHANGED vars
      BY <1>22 DEF vars
  <1> QED BY <1>1, <1>2, <1>3, <1>4, <1>5, <1>6, <1>7, <1>8, <1>9, <1>10,
         <1>11, <1>12, <1>13, <1>14, <1>15, <1>16, <1>17, <1>18, <1>19,
         <1>20, <1>21, <1>22 DEF Next, Launcher

-----------------------------------------------------------------------------
(* One at a time *)

\* Nobody serves yet.
LEMMA OneInit == Init => OneInv
  BY DEF Init, OneInv, Alive, Holding, Leaving, Binding, Acquiring

\* Whoever goes beyond the question has found that nobody serves.
LEMMA OneNext == Typed /\ ContentInv /\ OneInv /\ [Next]_vars => OneInv'
  <1> SUFFICES ASSUME Typed, ContentInv, OneInv, [Next]_vars PROVE OneInv'
      OBVIOUS
  <1> USE DEF Typed, ContentInv, OneInv, lockVars, portVars, Step,
        ForgetPick, TurnedAway, Alive, Pcs, Binding, Acquiring, Holding, Leaving
  <1>1. ASSUME NEW l \in Launchers, Start(l) PROVE OneInv'
    <2> SUFFICES ASSUME excuse' = "none" PROVE OneInv'
        OBVIOUS
    <2>1. excuse = "none" /\ Alive = Serving /\ slow' = slow
        BY <1>1 DEF Start
    <2>2. \A m \in Launchers : pc[m] \in {"off", "serving", "handed", "raced", "gone"}
        BY <2>1 DEF Serving
    <2>3. pc[l] = "off" /\ pc' = [pc EXCEPT ![l] = "read"] /\ UNCHANGED <<lockFile, content, seen, bound>>
        BY <1>1 DEF Start
    <2> QED BY <2>1, <2>2, <2>3
  <1>2. ASSUME NEW l \in Launchers, ResetOrigin(l) PROVE OneInv'
      BY <1>2 DEF ResetOrigin
  <1>3. ASSUME NEW l \in Launchers, ReadLock(l) PROVE OneInv'
    <2> SUFFICES ASSUME excuse = "none" PROVE OneInv'
        BY <1>3 DEF ReadLock
    <2>1. UNCHANGED <<lockFile, content, bound, slow, excuse>> /\ pc[l] = "read"
        BY <1>3 DEF ReadLock
    <2>2. CASE lockFile # None /\ content[lockFile] = Blank /\ pc' = [pc EXCEPT ![l] = "remove"] /\ UNCHANGED seen
      <3>1. \A s \in Launchers : pc[s] # "serving"
          BY <2>2, LauncherConstants, PortFacts
      <3> QED BY <2>1, <2>2, <3>1
    <2>3. CASE /\ lockFile # None /\ content[lockFile] # Blank
               /\ seen' = [seen EXCEPT ![l] = Read(lockFile, content[lockFile])]
               /\ pc' = [pc EXCEPT ![l] = "check"]
      <3>1. /\ seen' = [seen EXCEPT ![l] = Read(lockFile, content[lockFile])]
            /\ pc' = [pc EXCEPT ![l] = "check"]
          BY <2>3
      <3>2. seen'[l].owner = lockFile /\ seen'[l].port = content[lockFile]
          BY <2>3, <3>1, SeenFacts
      <3>3. \A m \in Launchers \ {l} : seen'[m] = seen[m] /\ pc'[m] = pc[m]
          BY <3>1
      <3> QED BY <2>1, <2>3, <3>1, <3>2, <3>3
    <2>4. CASE UNCHANGED seen /\ \E to \in {"create", "raced"} : pc' = [pc EXCEPT ![l] = to]
        BY <2>1, <2>4
    <2> QED BY <1>3, <2>2, <2>3, <2>4 DEF ReadLock, Read
  <1>4. ASSUME NEW l \in Launchers, FoundLive(l) PROVE OneInv'
      BY <1>4 DEF FoundLive
  <1>5. ASSUME NEW l \in Launchers, FoundStale(l) PROVE OneInv'
    <2> SUFFICES ASSUME excuse' = "none" PROVE OneInv'
        OBVIOUS
    <2>1. excuse = "none" /\ (seen[l].owner \in slow \/ ~Answers(seen[l].owner, seen[l].port))
        BY <1>5 DEF FoundStale
    <2>2. pc[l] = "check" /\ pc' = [pc EXCEPT ![l] = "remove"]
        BY <1>5 DEF FoundStale
    <2>3. \A s \in Launchers : pc[s] # "serving"
      <3> SUFFICES ASSUME NEW s \in Launchers, pc[s] = "serving" PROVE FALSE
          OBVIOUS
      <3>1. seen[l].owner = s /\ seen[l].port = bound[s] /\ bound[s] \in Ports /\ slow = {}
          BY <2>1, <2>2
      <3> QED BY <2>1, <3>1, PortFacts DEF Answers, Serving
    <2>4. \A m \in Launchers \ {l} : seen'[m] = seen[m] /\ pc'[m] = pc[m]
        BY <1>5, <2>2 DEF FoundStale
    <2>5. UNCHANGED <<lockFile, content, bound, slow>>
        BY <1>5 DEF FoundStale
    <2> QED BY <2>1, <2>2, <2>3, <2>4, <2>5
  <1>6. ASSUME NEW l \in Launchers, RemoveStale(l) PROVE OneInv'
      BY <1>6 DEF RemoveStale
  <1>7. ASSUME NEW l \in Launchers, CreateLock(l) PROVE OneInv'
    <2> SUFFICES ASSUME excuse = "none" PROVE OneInv'
        BY <1>7 DEF CreateLock
    <2>1. pc[l] = "create" /\ UNCHANGED <<content, seen, bound, slow, excuse>>
        BY <1>7 DEF CreateLock
    <2>2. CASE lockFile = None /\ lockFile' = l /\ pc' = [pc EXCEPT ![l] = "write"]
      <3>1. \A s \in Launchers : pc[s] # "serving"
          BY <2>2, LauncherConstants
      <3>2. \A m \in Alive : m = l
          BY <2>1, <3>1
      <3> QED BY <2>1, <2>2, <3>1, <3>2
    <2>3. CASE lockFile' = lockFile /\ pc' = [pc EXCEPT ![l] = "raced"]
        BY <2>1, <2>3
    <2> QED BY <1>7, <2>2, <2>3 DEF CreateLock
  <1>8. ASSUME NEW l \in Launchers, LostRace(l) PROVE OneInv'
      BY <1>8 DEF LostRace
  <1>9. ASSUME NEW l \in Launchers, WriteLock(l) PROVE OneInv'
      BY <1>9 DEF WriteLock
  <1>10. ASSUME NEW l \in Launchers, ChoosePort(l) PROVE OneInv'
      BY <1>10 DEF ChoosePort
  <1>11. ASSUME NEW l \in Launchers, Bind(l) PROVE OneInv'
      BY <1>11 DEF Bind
  <1>12. ASSUME NEW l \in Launchers, Rescan(l) PROVE OneInv'
      BY <1>12 DEF Rescan
  <1>13. ASSUME NEW l \in Launchers, GiveUp(l) PROVE OneInv'
      BY <1>13 DEF GiveUp
  <1>14. ASSUME NEW l \in Launchers, PublishPort(l) PROVE OneInv'
      BY <1>14 DEF PublishPort
  <1>15. ASSUME NEW l \in Launchers, RotatePortState(l) PROVE OneInv'
      BY <1>15 DEF RotatePortState
  <1>16. ASSUME NEW l \in Launchers, SavePortState(l) PROVE OneInv'
      BY <1>16 DEF SavePortState
  <1>17. ASSUME NEW l \in Launchers, BeginDrain(l) PROVE OneInv'
    <2> SUFFICES ASSUME excuse' = "none" PROVE OneInv'
        OBVIOUS
    <2>1. excuse = "none" /\ Starting = {} /\ pc[l] = "serving"
        BY <1>17 DEF BeginDrain
    <2>2. pc' = [pc EXCEPT ![l] = "draining"] /\ UNCHANGED <<lockFile, content, seen, bound, slow>>
        BY <1>17 DEF BeginDrain
    <2>3. \A m \in Launchers : pc[m] \notin Acquiring \cup Holding
        BY <2>1 DEF Starting
    <2>4. \A m \in Launchers : pc[m] \notin Leaving
        BY <2>1
    <2>5. \A m \in Launchers \ {l} : pc[m] \in {"off", "handed", "raced", "gone"}
        BY <2>1, <2>3, <2>4
    <2> QED BY <2>1, <2>2, <2>5
  <1>18. ASSUME NEW l \in Launchers, EndDrain(l) PROVE OneInv'
      BY <1>18 DEF EndDrain
  <1>19. ASSUME NEW l \in Launchers, Release(l) PROVE OneInv'
      BY <1>19 DEF Release
  <1>20. ASSUME NEW l \in Launchers, Crash(l) PROVE OneInv'
      BY <1>20 DEF Crash
  <1>21. ASSUME NEW k \in Ports, Others(k) PROVE OneInv'
      BY <1>21 DEF Others
  <1>22. CASE UNCHANGED vars
      BY <1>22 DEF vars
  <1> QED BY <1>1, <1>2, <1>3, <1>4, <1>5, <1>6, <1>7, <1>8, <1>9, <1>10,
         <1>11, <1>12, <1>13, <1>14, <1>15, <1>16, <1>17, <1>18, <1>19,
         <1>20, <1>21, <1>22 DEF Next, Launcher

-----------------------------------------------------------------------------
(* The ports *)

\* Nobody listens yet.
LEMMA PortInit == Init => PortInv
  BY PortFacts DEF Init, PortInv, ListensAlone, Binding

\* A port is validated before it is bound, bound only when nobody has it, and
\* given up by its launcher alone.
LEMMA PortNext == Typed /\ ContentInv /\ PortInv /\ [Next]_vars => PortInv'
  <1> SUFFICES ASSUME Typed, ContentInv, PortInv, [Next]_vars PROVE PortInv'
      OBVIOUS
  <1> USE DEF Typed, ContentInv, PortInv, ListensAlone, Valid, lockVars, portVars,
        Step, ForgetPick, TurnedAway, Pcs, Binding, Acquiring, Holding, Leaving
  <1>1. ASSUME NEW l \in Launchers, Start(l) PROVE PortInv'
      BY <1>1, PortFacts DEF Start
  <1>2. ASSUME NEW l \in Launchers, ResetOrigin(l) PROVE PortInv'
      BY <1>2, PortFacts DEF ResetOrigin
  <1>3. ASSUME NEW l \in Launchers, ReadLock(l) PROVE PortInv'
    <2>1. UNCHANGED <<content, bound, pick, env>> /\ pc[l] = "read"
        BY <1>3 DEF ReadLock
    <2>2. pc' = [pc EXCEPT ![l] = pc'[l]] /\ pc'[l] \in {"create", "remove", "check", "raced"}
        BY <1>3 DEF ReadLock
    <2> QED BY <2>1, <2>2
  <1>4. ASSUME NEW l \in Launchers, FoundLive(l) PROVE PortInv'
      BY <1>4, PortFacts DEF FoundLive
  <1>5. ASSUME NEW l \in Launchers, FoundStale(l) PROVE PortInv'
      BY <1>5, PortFacts DEF FoundStale
  <1>6. ASSUME NEW l \in Launchers, RemoveStale(l) PROVE PortInv'
      BY <1>6, PortFacts DEF RemoveStale
  <1>7. ASSUME NEW l \in Launchers, CreateLock(l) PROVE PortInv'
      BY <1>7, PortFacts DEF CreateLock
  <1>8. ASSUME NEW l \in Launchers, LostRace(l) PROVE PortInv'
    <2>1. UNCHANGED <<content, bound, pick, env>> /\ pc[l] = "create"
        BY <1>8 DEF LostRace
    <2>2. pc' = [pc EXCEPT ![l] = pc'[l]] /\ pc'[l] \in {"raced", "handed"}
        BY <1>8 DEF LostRace
    <2> QED BY <2>1, <2>2
  <1>9. ASSUME NEW l \in Launchers, WriteLock(l) PROVE PortInv'
      BY <1>9, PortFacts DEF WriteLock
  <1>10. ASSUME NEW l \in Launchers, ChoosePort(l) PROVE PortInv'
    <2>1. PICK k \in Ports :
             /\ \/ k = Scanned(Window, {Candidate})
                \/ Valid(k)
             /\ pick' = [pick EXCEPT ![l] = k]
        BY <1>10 DEF ChoosePort
    <2>2. Valid(k)
      <3> HIDE DEF Valid
      <3>1. Window \subseteq Ports
          BY LauncherConstants
      <3>2. Scanned(Window, {Candidate}) # NoPort => Valid(Scanned(Window, {Candidate}))
          BY <3>1, ScannedIsIn
      <3> QED BY <2>1, <3>2, PortFacts
    <2> QED BY <1>10, <2>1, <2>2 DEF ChoosePort
  <1>11. ASSUME NEW l \in Launchers, Bind(l) PROVE PortInv'
    <2>1. /\ pc[l] \in Binding /\ Valid(pick[l]) /\ pick[l] \in Ports /\ content[l] = NoPort
          /\ env[pick[l]] = "free" /\ \A m \in Launchers : bound[m] # pick[l]
        BY <1>11 DEF Bind, Free
    <2>2. /\ bound' = [bound EXCEPT ![l] = pick[l]] /\ pc' = [pc EXCEPT ![l] = "bound"]
          /\ pick' = [pick EXCEPT ![l] = NoPort] /\ UNCHANGED <<content, env>>
        BY <1>11 DEF Bind
    <2> QED BY <2>1, <2>2, PortFacts
  <1>12. ASSUME NEW l \in Launchers, Rescan(l) PROVE PortInv'
    <2>1. \E k \in Ports : Valid(k) /\ pick' = [pick EXCEPT ![l] = k]
      <3>1. Window \subseteq Ports
          BY LauncherConstants
      <3>2. \A W \in {Window, Ports} : Scanned(W, {cand[l]}) # NoPort =>
                Scanned(W, {cand[l]}) \in Ports /\ Valid(Scanned(W, {cand[l]}))
          BY <3>1, ScannedIsIn
      <3> QED BY <1>12, <3>2 DEF Rescan
    <2>2. pc[l] \in Binding /\ \E to \in Binding : pc' = [pc EXCEPT ![l] = to]
        BY <1>12 DEF Rescan
    <2>3. UNCHANGED <<content, bound, env>>
        BY <1>12 DEF Rescan
    <2> QED BY <2>1, <2>2, <2>3
  <1>13. ASSUME NEW l \in Launchers, GiveUp(l) PROVE PortInv'
      BY <1>13, PortFacts DEF GiveUp
  <1>14. ASSUME NEW l \in Launchers, PublishPort(l) PROVE PortInv'
      BY <1>14, PortFacts DEF PublishPort
  <1>15. ASSUME NEW l \in Launchers, RotatePortState(l) PROVE PortInv'
      BY <1>15, PortFacts DEF RotatePortState
  <1>16. ASSUME NEW l \in Launchers, SavePortState(l) PROVE PortInv'
      BY <1>16, PortFacts DEF SavePortState
  <1>17. ASSUME NEW l \in Launchers, BeginDrain(l) PROVE PortInv'
      BY <1>17, PortFacts DEF BeginDrain
  <1>18. ASSUME NEW l \in Launchers, EndDrain(l) PROVE PortInv'
      BY <1>18, PortFacts DEF EndDrain
  <1>19. ASSUME NEW l \in Launchers, Release(l) PROVE PortInv'
      BY <1>19, PortFacts DEF Release
  <1>20. ASSUME NEW l \in Launchers, Crash(l) PROVE PortInv'
      BY <1>20, PortFacts DEF Crash
  <1>21. ASSUME NEW k \in Ports, Others(k) PROVE PortInv'
      BY <1>21 DEF Others, Free
  <1>22. CASE UNCHANGED vars
      BY <1>22 DEF vars
  <1> QED BY <1>1, <1>2, <1>3, <1>4, <1>5, <1>6, <1>7, <1>8, <1>9, <1>10,
         <1>11, <1>12, <1>13, <1>14, <1>15, <1>16, <1>17, <1>18, <1>19,
         <1>20, <1>21, <1>22 DEF Next, Launcher

-----------------------------------------------------------------------------
(* The theorems *)

\* The invariant holds at the start.
LEMMA LaunchersInvInit == Init => LaunchersInv
  BY TypeInit, CompanyInit, ContentInit, OneInit, PortInit DEF LaunchersInv

\* Every step keeps the invariant.
LEMMA LaunchersInvNext == LaunchersInv /\ [Next]_vars => LaunchersInv'
  <1> SUFFICES ASSUME LaunchersInv, [Next]_vars PROVE LaunchersInv'
      OBVIOUS
  <1>1. Typed /\ CompanyInv /\ ContentInv /\ OneInv /\ PortInv
      BY SameTypes DEF LaunchersInv
  <1>2. Typed'
      BY <1>1, TypeNext
  <1>3. CompanyInv'
      BY <1>1, CompanyNext
  <1>4. ContentInv'
      BY <1>1, ContentNext
  <1>5. OneInv'
      BY <1>1, OneNext
  <1>6. TypeOK'
      BY <1>2 DEF TypeOK, Typed, SeenRecords
  <1>7. PortInv'
      BY <1>1, PortNext
  <1> QED BY <1>3, <1>4, <1>5, <1>6, <1>7 DEF LaunchersInv

\* The invariant holds of every reachable state.
THEOREM LaunchersInvariant == Spec => []LaunchersInv
  BY LaunchersInvInit, LaunchersInvNext, PTL DEF Spec

\* TypeOK: in particular a launcher never sets out to bind a port that is none,
\* though a scan may find none.
THEOREM TypeCorrect == Spec => []TypeOK
  <1>1. LaunchersInv => TypeOK
      BY DEF LaunchersInv
  <1> QED BY <1>1, LaunchersInvariant, PTL

\* OneServes: launchers that are started one after the other, each once the last
\* is serving or gone, and that are quick to lock and to answer, are never two to
\* serve, whoever crashed holding the lock, gave up or failed on the file, and
\* however often the next one reclaimed it.  Starts that overlap one another or an
\* end, and a slow start, are outside: two may serve after those.
THEOREM AtMostOneServes == Spec => []OneServes
  <1>1. LaunchersInv => OneServes
    <2> SUFFICES ASSUME LaunchersInv, excuse = "none" PROVE Cardinality(Serving) <= 1
        BY DEF OneServes
    <2>1. \A l, m \in Serving : l = m
        BY DEF LaunchersInv, OneInv, Serving
    <2>2. Serving = {} \/ \E l : Serving = {l}
        BY <2>1
    <2>3. CASE Serving = {}
        BY <2>3, FS_EmptySet
    <2>4. CASE \E l : Serving = {l}
        BY <2>4, FS_Singleton
    <2> QED BY <2>2, <2>3, <2>4
  <1> QED BY <1>1, LaunchersInvariant, PTL

\* ListensAlone: whatever the lock could not prevent, two launchers never share
\* an origin, and what a launcher wrote into its lock file is where it listens.
THEOREM EachListensAlone == Spec => []ListensAlone
  <1>1. LaunchersInv => ListensAlone
      BY DEF LaunchersInv, PortInv
  <1> QED BY <1>1, LaunchersInvariant, PTL

\* GivesWayToLauncher: what a file says never turns away a launcher that is alone.
\* Every handoff and every start turned away goes back to a launcher that ran
\* beside it or to an operation on the file that failed under it.
THEOREM NoneTurnedAwayByFile == Spec => []GivesWayToLauncher
  <1>1. LaunchersInv => GivesWayToLauncher
      BY DEF LaunchersInv, CompanyInv
  <1> QED BY <1>1, LaunchersInvariant, PTL

\* HandoffFindsGame: the health check asks for the game and the instance, and
\* the port it asks on was recorded by the launcher that answers.
THEOREM HandoffOpensThisGame == Spec => HandoffFindsGame
  <1>1. LaunchersInv /\ [Next]_vars
           => [\A l \in Launchers :
                 pc[l] = "check" /\ pc'[l] = "handed"
                    => \E o \in Serving : bound[o] = seen[l].port /\ content[o] = bound[o]]_vars
    <2> SUFFICES ASSUME LaunchersInv, Next, NEW l \in Launchers,
                        pc[l] = "check", pc'[l] = "handed"
                 PROVE  \E o \in Serving : bound[o] = seen[l].port /\ content[o] = bound[o]
        OBVIOUS
    <2>1. pc \in [Launchers -> Pcs]
        BY DEF LaunchersInv, TypeOK
    <2>2. FoundLive(l)
      <3>1. PICK m \in Launchers : Launcher(m)
          BY DEF Next, Others
      <3>2. m = l
          BY <2>1, <3>1 DEF Launcher, Step, Start, ResetOrigin, ReadLock, FoundLive, FoundStale,
                RemoveStale, CreateLock, LostRace, WriteLock, TurnedAway, ChoosePort, Bind, Rescan, GiveUp,
                PublishPort, RotatePortState, SavePortState, BeginDrain, EndDrain, Release, Crash
      <3> QED BY <2>1, <3>1, <3>2 DEF Launcher, Step, Start, ResetOrigin, ReadLock, FoundLive,
                FoundStale, RemoveStale, CreateLock, LostRace, WriteLock, TurnedAway, ChoosePort, Bind, Rescan,
                GiveUp, PublishPort, RotatePortState, SavePortState, BeginDrain, EndDrain, Release,
                Crash, Binding, Holding
    <2>3. /\ seen[l].owner \in Serving /\ bound[seen[l].owner] = seen[l].port
          /\ seen[l].port # NoPort /\ bound \in [Launchers -> Ports \cup {NoPort}]
        BY <2>2 DEF FoundLive, Answers, LaunchersInv, TypeOK
    <2>4. seen[l].port \in Ports
        BY <2>3 DEF Serving
    <2>5. content[seen[l].owner] = seen[l].port
        BY <2>4 DEF LaunchersInv, ContentInv
    <2> QED BY <2>3, <2>5
  <1> QED BY <1>1, LaunchersInvariant, PTL DEF Spec, HandoffFindsGame

==============================================================================
