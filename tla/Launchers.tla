----------------------------- MODULE Launchers -----------------------------
(***************************************************************************)
(* Several launchers started in one game folder (launcher/internal/sidecar *)
(* and port, and main's start-up around them): who takes the instance      *)
(* lock, who hands off to whom, which port each binds, and what they write *)
(* into instance.lock and port.json for the next one.                      *)
(*                                                                         *)
(* A launcher is one process and runs once.  "lockFile" is the launcher    *)
(* whose file has the name instance.lock; a file that lost its name is     *)
(* still written by its owner (SetPort).  Other programs, and launchers of *)
(* the same game in other folders (siblings), take and leave ports at any  *)
(* time.  A launcher may crash between any two steps.                      *)
(***************************************************************************)
EXTENDS Integers, FiniteSets

CONSTANTS
    Launchers,    \* one per start
    Ports,        \* the user range, WideScan's
    Window,       \* the deny list's default window
    Denied,       \* the deny list, reserved ranges included
    DefaultPort,  \* Default(game id)
    None

NoPort == 0
Blank == -1       \* an instance.lock that is created and not yet written

ASSUME LauncherConstants ==
    /\ Ports \subseteq Nat \ {0} /\ IsFiniteSet(Ports)
    /\ Window \subseteq Ports /\ Denied \subseteq Ports
    /\ DefaultPort \in Ports
    /\ None \notin Launchers

VARIABLES
    pc,         \* where each launcher is
    lockFile,   \* whose file instance.lock is
    content,    \* the port each launcher's lock file records
    seen,       \* what AcquireLock read of another's: its owner and port
    cand,       \* the port it set out to bind
    pick,       \* the port it binds next
    bound,      \* the port it listens on
    savedPort,  \* port.json
    env,        \* who else holds each port
    slow,       \* running launchers whose lock is more than 2 s younger than they are
    company,    \* history: launchers that shared some time with another
    failed,     \* history: launchers that could not make, read, remove or write the file
    excuse      \* history: what happened that the lock is not made for

vars == <<pc, lockFile, content, seen, cand, pick, bound, savedPort, env, slow, company, failed, excuse>>

-----------------------------------------------------------------------------

Binding == {"bind", "bindWindow", "bindWide"}
Acquiring == {"read", "check", "remove", "create"}
Holding == {"write", "alloc", "bound", "persist", "replace"} \cup Binding
Leaving == {"draining", "release"}
Pcs == {"off", "serving", "handed", "raced", "gone"} \cup Acquiring \cup Holding \cup Leaving
\* "other" stands for launchers that overlap while they start or stop, a health
\* check that timed out on a live one, a lock that could not be completed with
\* its port, and --reset-origin-state.
Excuses == {"none", "slow", "other"}
NothingSeen == [owner |-> None, port |-> NoPort]

TypeOK ==
    /\ pc \in [Launchers -> Pcs]
    /\ lockFile \in Launchers \cup {None}
    /\ content \in [Launchers -> Ports \cup {NoPort, Blank}]
    /\ seen \in [Launchers -> [owner : Launchers \cup {None}, port : Ports \cup {NoPort, Blank}]]
    /\ cand \in [Launchers -> Ports \cup {NoPort}]
    /\ pick \in [Launchers -> Ports \cup {NoPort}]
    /\ bound \in [Launchers -> Ports \cup {NoPort}]
    /\ savedPort \in Ports \cup {NoPort}
    /\ env \in [Ports -> {"free", "app", "sibling"}]
    /\ \A l \in Launchers : pc[l] \in Binding => pick[l] \in Ports
    /\ slow \subseteq Launchers /\ company \subseteq Launchers /\ failed \subseteq Launchers
    /\ excuse \in Excuses

Init ==
    /\ pc = [l \in Launchers |-> "off"]
    /\ lockFile = None
    /\ content = [l \in Launchers |-> Blank]
    /\ seen = [l \in Launchers |-> NothingSeen]
    /\ cand = [l \in Launchers |-> NoPort]
    /\ pick = [l \in Launchers |-> NoPort]
    /\ bound = [l \in Launchers |-> NoPort]
    /\ savedPort \in Ports \cup {NoPort}
    /\ env = [k \in Ports |-> "free"]
    /\ slow = {} /\ company = {} /\ failed = {} /\ excuse = "none"

Alive == {l \in Launchers : pc[l] \in Acquiring \cup Holding \cup Leaving \cup {"serving"}}
Serving == {l \in Launchers : pc[l] = "serving"}
Starting == {l \in Launchers : pc[l] \in Acquiring \cup Holding}

Step(l, from, to) == pc[l] = from /\ pc' = [pc EXCEPT ![l] = to]

Free(k) == env[k] = "free" /\ \A l \in Launchers : bound[l] # k

\* The ports it tried are nothing to a launcher that is bound or gone.
ForgetPick(l) == cand' = [cand EXCEPT ![l] = NoPort] /\ pick' = [pick EXCEPT ![l] = NoPort]

lockVars == <<lockFile, content, seen>>
portVars == <<cand, pick, bound, savedPort>>

-----------------------------------------------------------------------------
(* AcquireLock *)

\* An operation on the file fails: AcquireLock returns the error, and main says of
\* it what it says of a lost race, that another launcher is starting.
TurnedAway(l, from) ==
    /\ Step(l, from, "raced")
    /\ failed' = failed \cup {l}

\* A start.  The start-up pass runs before the lock and may take long: the lock
\* records when it was created, not when its process began.
Start(l) ==
    /\ Step(l, "off", "read")
    /\ company' = IF Alive = {} THEN company ELSE company \cup Alive \cup {l}
    /\ \/ /\ excuse' = IF Alive = Serving THEN excuse ELSE "other"
          /\ UNCHANGED slow
       \/ /\ excuse' = IF Alive = Serving /\ excuse = "none" THEN "slow"
                       ELSE IF Alive = Serving THEN excuse ELSE "other"
          /\ slow' = slow \cup {l}
    /\ UNCHANGED <<lockVars, portVars, env, failed>>

\* --reset-origin-state: both files go, whoever holds them.
ResetOrigin(l) ==
    /\ pc[l] = "read"
    /\ lockFile' = None /\ savedPort' = NoPort
    /\ excuse' = "other"
    /\ UNCHANGED <<pc, content, seen, cand, pick, bound, env, slow, company, failed>>

\* MkdirAll and ReadLock: a file that does not parse is stale without further
\* question, and one that cannot be read is taken for none.
ReadLock(l) ==
    /\ \/ lockFile = None /\ Step(l, "read", "create") /\ UNCHANGED <<seen, failed>>
       \/ /\ lockFile # None /\ content[lockFile] = Blank
          /\ Step(l, "read", "remove") /\ UNCHANGED <<seen, failed>>
       \/ /\ lockFile # None /\ content[lockFile] # Blank
          /\ Step(l, "read", "check")
          /\ seen' = [seen EXCEPT ![l] = [owner |-> lockFile, port |-> content[lockFile]]]
          /\ UNCHANGED failed
       \/ /\ lockFile # None /\ Step(l, "read", "create")
          /\ failed' = failed \cup {l} /\ UNCHANGED seen
       \/ TurnedAway(l, "read") /\ UNCHANGED seen
    /\ UNCHANGED <<lockFile, content, portVars, env, slow, company, excuse>>

\* Faulty variant: a launcher of this game that answers on the port is enough.
AnswersAsAnyInstance(o, k) ==
    k # NoPort /\ (env[k] = "sibling" \/ \E q \in Serving : bound[q] = k)

\* The health check: game and instance must match.
Answers(o, k) == k # NoPort /\ o \in Serving /\ bound[o] = k

\* CheckLiveness: the process exists and began when its lock says, and it
\* answers on the port it recorded.
FoundLive(l) ==
    /\ Step(l, "check", "handed")
    /\ seen[l].owner \notin slow
    /\ Answers(seen[l].owner, seen[l].port)
    /\ seen' = [seen EXCEPT ![l] = NothingSeen]
    /\ UNCHANGED <<lockFile, content, portVars, env, slow, company, failed, excuse>>

FoundStale(l) ==
    /\ Step(l, "check", "remove")
    /\ \/ /\ seen[l].owner \in slow \/ ~Answers(seen[l].owner, seen[l].port)
          /\ UNCHANGED excuse
       \/ excuse' = "other"     \* no answer within 500 ms
    /\ seen' = [seen EXCEPT ![l] = NothingSeen]
    /\ UNCHANGED <<lockFile, content, portVars, env, slow, company, failed>>

\* Reclaim: whatever file has the name by now is removed.
RemoveStale(l) ==
    /\ \/ Step(l, "remove", "create") /\ lockFile' = None /\ UNCHANGED failed
       \/ TurnedAway(l, "remove") /\ UNCHANGED lockFile
    /\ UNCHANGED <<content, seen, portVars, env, slow, company, excuse>>

\* createLock: O_CREATE|O_EXCL, which may fail though the name is free.
CreateLock(l) ==
    /\ \/ /\ lockFile = None /\ Step(l, "create", "write")
          /\ lockFile' = l /\ failed' = failed \ {l}
       \/ TurnedAway(l, "create") /\ UNCHANGED lockFile
    /\ UNCHANGED <<content, seen, portVars, env, slow, company, excuse>>

\* Faulty variant: a file that cannot be created is taken for a lost race.
LostRaceAlways(l) ==
    /\ Step(l, "create", "raced")
    /\ UNCHANGED <<lockVars, portVars, env, slow, company, failed, excuse>>

\* The name is taken, again or by a file that could not be read.  main hands off
\* to the origin the file names, if it can be read now (CreateLock has the other
\* case); nobody asks whether it answers, or whether it is there.
LostRace(l) ==
    /\ lockFile # None
    /\ Step(l, "create", IF content[lockFile] = Blank THEN "raced" ELSE "handed")
    /\ UNCHANGED <<lockVars, portVars, env, slow, company, failed, excuse>>

\* A write or a sync that fails removes whatever file has the name by now, or
\* leaves it when that fails too: blank, or written as a crash after this step
\* leaves it.
WriteLock(l) ==
    /\ \/ /\ Step(l, "write", "alloc") /\ UNCHANGED <<lockFile, failed>>
          /\ content' = [content EXCEPT ![l] = NoPort]
       \/ /\ TurnedAway(l, "write")
          /\ lockFile' \in {None, lockFile} /\ UNCHANGED content
    /\ UNCHANGED <<seen, portVars, env, slow, company, excuse>>

-----------------------------------------------------------------------------
(* The port *)

Valid(k) == k \in Ports \ Denied

\* Probe says free or ours; one that is bound and does not answer is neither.
Usable(k) == Free(k) \/ env[k] = "sibling" \/ \E l \in Serving : bound[l] = k

Lowest(S) == CHOOSE k \in S : \A j \in S : k <= j

\* Scan: the first candidate of the window, or none.
Scanned(window, skip) ==
    LET found == {k \in window \ skip : Valid(k) /\ Usable(k)}
    IN  IF found = {} THEN NoPort ELSE Lowest(found)

Candidate == IF savedPort # NoPort THEN savedPort ELSE DefaultPort

\* Load, selectCandidate, Validate and its scan, confirmPort with its own
\* Validate.
ChoosePort(l) ==
    /\ Step(l, "alloc", "bind")
    /\ \E k \in Ports :
          /\ \/ ~Valid(Candidate) /\ k = Scanned(Window, {Candidate})
             \/ Valid(k)
          /\ cand' = [cand EXCEPT ![l] = k]
          /\ pick' = [pick EXCEPT ![l] = k]
    /\ UNCHANGED <<lockVars, bound, savedPort, env, slow, company, failed, excuse>>

Bind(l) ==
    /\ \E from \in Binding : Step(l, from, "bound")
    /\ Free(pick[l])
    /\ bound' = [bound EXCEPT ![l] = pick[l]] /\ ForgetPick(l)
    /\ UNCHANGED <<lockVars, savedPort, env, slow, company, failed, excuse>>

\* Faulty variant: a scan that found nothing is not noticed.
RescanUnchecked(l) ==
    /\ pc[l] \in {"bind", "bindWindow"} /\ ~Free(pick[l])
    /\ Step(l, pc[l], "bindWide")
    /\ pick' = [pick EXCEPT ![l] = Scanned(Ports, {cand[l]})]
    /\ UNCHANGED <<lockVars, cand, bound, savedPort, env, slow, company, failed, excuse>>

\* EADDRINUSE: one re-entry, a scan of the window and then of everything, the
\* first find of each tried once.
Rescan(l) ==
    LET inWindow == Scanned(Window, {cand[l]})
        anywhere == Scanned(Ports, {cand[l]})
    IN
    /\ pc[l] \in {"bind", "bindWindow"} /\ ~Free(pick[l])
    /\ \/ /\ inWindow # NoPort /\ Step(l, "bind", "bindWindow")
          /\ pick' = [pick EXCEPT ![l] = inWindow]
       \/ /\ pc[l] = "bindWindow" \/ inWindow = NoPort
          /\ anywhere # NoPort /\ Step(l, pc[l], "bindWide")
          /\ pick' = [pick EXCEPT ![l] = anywhere]
    /\ UNCHANGED <<lockVars, cand, bound, savedPort, env, slow, company, failed, excuse>>

\* ErrNoPort, a data folder that cannot be opened, no browser: main returns,
\* and its deferred Release runs.
GiveUp(l) ==
    /\ pc[l] \in Holding \ {"write"}
    /\ pc' = [pc EXCEPT ![l] = "release"]
    /\ bound' = [bound EXCEPT ![l] = NoPort] /\ ForgetPick(l)
    /\ UNCHANGED <<lockVars, savedPort, env, slow, company, failed, excuse>>

\* Faulty variant: the lock keeps the port it was created with.
PublishPortForgotten(l) ==
    /\ Step(l, "bound", "persist")
    /\ UNCHANGED <<lockVars, portVars, env, slow, company, failed, excuse>>

\* SetPort, into the launcher's own file, whatever its name is now.  A failure
\* is logged and start-up goes on.
PublishPort(l) ==
    /\ Step(l, "bound", "persist")
    /\ \/ content' = [content EXCEPT ![l] = bound[l]] /\ UNCHANGED excuse
       \/ excuse' = "other" /\ UNCHANGED content
    /\ UNCHANGED <<lockFile, seen, portVars, env, slow, company, failed>>

\* persistPortState: WriteAtomic moves the old port.json aside, which Load does
\* not look for, and renames the new one in.
RotatePortState(l) ==
    /\ Step(l, "persist", "replace")
    /\ savedPort' = NoPort
    /\ UNCHANGED <<lockVars, cand, pick, bound, env, slow, company, failed, excuse>>

SavePortState(l) ==
    /\ Step(l, "replace", "serving")
    /\ savedPort' \in {bound[l], savedPort}
    /\ UNCHANGED <<lockVars, cand, pick, bound, env, slow, company, failed, excuse>>

-----------------------------------------------------------------------------
(* The end, and the rest of the machine *)

BeginDrain(l) ==
    /\ Step(l, "serving", "draining")
    /\ excuse' = IF Starting = {} THEN excuse ELSE "other"
    /\ UNCHANGED <<lockVars, portVars, env, slow, company, failed>>

EndDrain(l) ==
    /\ Step(l, "draining", "release")
    /\ bound' = [bound EXCEPT ![l] = NoPort]
    /\ UNCHANGED <<lockVars, cand, pick, savedPort, env, slow, company, failed, excuse>>

\* Release: by name.  One that fails leaves what a crash at this point leaves.
Release(l) ==
    /\ Step(l, "release", "gone")
    /\ lockFile' = None /\ slow' = slow \ {l}
    /\ UNCHANGED <<content, seen, portVars, env, company, failed, excuse>>

Crash(l) ==
    /\ l \in Alive
    /\ pc' = [pc EXCEPT ![l] = "gone"]
    /\ bound' = [bound EXCEPT ![l] = NoPort] /\ ForgetPick(l)
    /\ seen' = [seen EXCEPT ![l] = NothingSeen]
    /\ slow' = slow \ {l} /\ failed' = failed \ {l}
    /\ UNCHANGED <<lockFile, content, savedPort, env, company, excuse>>

\* Who holds a denied port matters to nobody.
Others(k) ==
    /\ k \notin Denied /\ (Free(k) \/ env[k] # "free")
    /\ \E e \in {"free", "app", "sibling"} : env' = [env EXCEPT ![k] = e]
    /\ UNCHANGED <<pc, lockVars, portVars, slow, company, failed, excuse>>

-----------------------------------------------------------------------------

Launcher(l) ==
    \/ Start(l) \/ ResetOrigin(l)
    \/ ReadLock(l) \/ FoundLive(l) \/ FoundStale(l) \/ RemoveStale(l)
    \/ CreateLock(l) \/ LostRace(l) \/ WriteLock(l)
    \/ ChoosePort(l) \/ Bind(l) \/ Rescan(l) \/ GiveUp(l)
    \/ PublishPort(l) \/ RotatePortState(l) \/ SavePortState(l)
    \/ BeginDrain(l) \/ EndDrain(l) \/ Release(l) \/ Crash(l)

Next == (\E l \in Launchers : Launcher(l)) \/ (\E k \in Ports : Others(k))

Spec == Init /\ [][Next]_vars

-----------------------------------------------------------------------------
(* Safety *)

\* Launchers that are started one after the other, each once the last is
\* serving or gone, and that are quick to their lock and to their answers:
\* however they crash or give up, at most one serves the folder (FR-SRV-25).
OneServes == excuse = "none" => Cardinality(Serving) <= 1

\* The same of launchers that take their time before the lock, as one that
\* installs an update does: "A live instance of the same game means handoff".
SlowStartKeepsInstance == excuse # "other" => Cardinality(Serving) <= 1

\* Nothing left behind locks the player out: a launcher hands off or gives way
\* only if another one ran beside it or one of its own operations on the file
\* failed, never because of what a stale file says (FR-SRV-25, "stale locks are
\* reclaimed").
GivesWayToLauncher ==
    \A l \in Launchers : pc[l] \in {"handed", "raced"} => l \in company \cup failed

\* What main tells the player, "Another launcher is starting": a launcher that is
\* turned away has met another.  A failing operation on the file is told in the
\* same words.
TurnedAwayByLauncher ==
    \A l \in Launchers : pc[l] = "raced" => l \in company

\* However many launchers run at once and whatever went wrong between them, each
\* listens on a port of its own that the deny list admits (Scan, Validate and
\* bindWithFallback), and the lock file it owns names that port or none yet.
ListensAlone ==
    \A l \in Launchers :
        /\ pc[l] = "serving" => bound[l] # NoPort
        /\ bound[l] # NoPort =>
              /\ Valid(bound[l]) /\ env[bound[l]] = "free"
              /\ \A m \in Launchers : bound[m] = bound[l] => m = l
              /\ content[l] \in {NoPort, bound[l]}

\* A handoff that asked for an answer opens the origin of a launcher of this
\* folder, not of the same game elsewhere or of whoever took the port since.
HandoffFindsGame ==
    [][\A l \in Launchers :
          pc[l] = "check" /\ pc'[l] = "handed"
             => \E o \in Serving : bound[o] = seen[l].port /\ content[o] = bound[o]]_vars

=============================================================================
