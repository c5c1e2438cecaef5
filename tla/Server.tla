------------------------------- MODULE Server -------------------------------
(***************************************************************************)
(* The life of one launcher's HTTP server (launcher/internal/server): the  *)
(* request chain as far as the drain sees it, the page's heartbeats and    *)
(* goodbyes, the watcher, the drain and the exit code.  Several requests   *)
(* are in flight at once; a handler may hang, panic or lose its client.    *)
(*                                                                         *)
(* A request occupies a slot:                                              *)
(*   gated    past drainGate and not yet counted by trackInFlight          *)
(*   running  in its handler                                               *)
(*   first    in the hook of the process's first heartbeat                 *)
(*   unwound  its handler panicked: no longer counted, recovery is writing *)
(*            the crash file                                               *)
(* What the handlers do to sessions, settings and saves is in modules      *)
(* DataApi and SaveStore.                                                  *)
(***************************************************************************)
EXTENDS Integers, FiniteSets

CONSTANTS
    Slots,          \* requests that can be in flight
    MaxConcurrent,  \* MaxConcurrentRequests
    IdleTimeout, DrainTimeout, CloseTimeout  \* in ticks

ASSUME ServerConstants ==
    /\ IsFiniteSet(Slots) /\ MaxConcurrent \in Nat \ {0}
    /\ IdleTimeout \in Nat \ {0} /\ DrainTimeout \in Nat /\ CloseTimeout \in Nat

VARIABLES
    phase,      \* of the process
    reason,     \* why a drain was asked for, once it was
    timer,      \* time spent in the current step of the drain
    lastSeen,   \* age of the last sign of a page
    counted,    \* firstHeartbeat
    panicked,   \* what Panicked returns
    req,        \* the requests
    exit,       \* how the process ended, as main reports it
    past        \* history of the process: heartbeats answered, hooks run, panics

lifecycle == <<phase, reason, timer, exit>>
page == <<lastSeen, counted>>
vars == <<lifecycle, page, panicked, req, past>>

-----------------------------------------------------------------------------

None == "none"
Never == -1                      \* lastSeen before any page has connected
TooOld == IdleTimeout + 1
TimerCap == IF DrainTimeout > CloseTimeout THEN DrainTimeout ELSE CloseTimeout

Reasons == {"api", "idle", "panic", "signal"}
Phases == {"serving", "draining", "closing", "stopped", "down"}
Pcs == {"free", "gated", "running", "first", "unwound"}
Exits == [code : {0, 1, 4}, clean : BOOLEAN, abandoned : BOOLEAN]
NoExit == [code |-> 0, clean |-> TRUE, abandoned |-> FALSE]
Pasts == [heard : BOOLEAN, hooks : 0 .. Cardinality(Slots) + 1, panics : BOOLEAN]
NoPast == [heard |-> FALSE, hooks |-> 0, panics |-> FALSE]

\* Past trackInFlight: what the drain counts.
InFlight == {r \in Slots : req[r] \in {"running", "first"}}
\* What net/http's own Shutdown waits for.
Active == {r \in Slots : req[r] # "free"}

TypeOK ==
    /\ phase \in Phases /\ reason \in Reasons \cup {None}
    /\ timer \in 0 .. TimerCap
    /\ lastSeen \in Never .. TooOld
    /\ counted \in BOOLEAN /\ panicked \in BOOLEAN
    /\ req \in [Slots -> Pcs]
    /\ exit \in Exits /\ past \in Pasts

Init ==
    /\ phase = "serving" /\ reason = None /\ timer = 0
    /\ lastSeen = Never /\ counted = FALSE /\ panicked = FALSE
    /\ req = [r \in Slots |-> "free"]
    /\ exit = NoExit /\ past = NoPast

Older(age, limit) == IF age < limit THEN age + 1 ELSE age

Step(r, from, to) == req[r] = from /\ req' = [req EXCEPT ![r] = to]

\* Shutdown: the first reason wins.
AskShutdown(why) == reason' = IF reason = None THEN why ELSE reason

-----------------------------------------------------------------------------
(* Requests *)

\* drainGate lets a request through; from the drain on there are no more.
Arrive(r) ==
    /\ phase = "serving" /\ Step(r, "free", "gated")
    /\ UNCHANGED <<lifecycle, page, panicked, past>>

\* trackInFlight, then concurrencyLimit, which refuses what is over the bound
\* instead of queueing it.
Admit(r) ==
    /\ Cardinality(InFlight) < MaxConcurrent /\ Step(r, "gated", "running")
    /\ UNCHANGED <<lifecycle, page, panicked, past>>

\* hostGate, originGate and normalisePath refuse before the count, a full
\* semaphore or a failed validation after it; a handler that changes nothing
\* here returns.
Answer(r) ==
    /\ Step(r, "gated", "free") \/ Step(r, "running", "free")
    /\ UNCHANGED <<lifecycle, page, panicked, past>>

\* Faulty variant: the page is new if nothing was seen of it before.
HeartbeatUnseen(r) ==
    /\ lastSeen' = 0
    /\ IF lastSeen = Never
       THEN Step(r, "running", "first") /\ counted' = TRUE /\ UNCHANGED past
       ELSE /\ Step(r, "running", "free") /\ UNCHANGED counted
            /\ past' = [past EXCEPT !.heard = TRUE]
    /\ UNCHANGED <<lifecycle, panicked>>

\* Faulty variant: every heartbeat runs the hook.
HeartbeatEvery(r) ==
    /\ lastSeen' = 0 /\ counted' = TRUE
    /\ Step(r, "running", "first")
    /\ UNCHANGED <<lifecycle, panicked, past>>

\* Heartbeat: one caller of the process wins the hook.
Heartbeat(r) ==
    /\ lastSeen' = 0 /\ counted' = TRUE
    /\ IF ~counted
       THEN Step(r, "running", "first") /\ UNCHANGED past
       ELSE /\ Step(r, "running", "free")
            /\ past' = [past EXCEPT !.heard = TRUE]
    /\ UNCHANGED <<lifecycle, panicked>>

\* OnFirstHeartbeat returns: NoteSuccessfulStart ran (module UpdateSwap has
\* what it does).
FirstHeartbeat(r) ==
    /\ Step(r, "first", "free")
    /\ past' = [past EXCEPT !.hooks = @ + 1, !.heard = TRUE]
    /\ UNCHANGED <<lifecycle, page, panicked>>

Goodbye(r) ==
    /\ Step(r, "running", "free")
    /\ lastSeen' = TooOld
    /\ UNCHANGED <<lifecycle, counted, panicked, past>>

\* handleShutdown.
ShutdownRequest(r) ==
    /\ Step(r, "running", "free")
    /\ AskShutdown("api")
    /\ UNCHANGED <<phase, timer, exit, page, panicked, past>>

\* A panic anywhere in the chain unwinds through trackInFlight first.
Panic(r) ==
    /\ \E pc \in {"gated", "running", "first"} : Step(r, pc, "unwound")
    /\ past' = [past EXCEPT !.panics = TRUE]
    /\ UNCHANGED <<lifecycle, page, panicked>>

\* recovery, once the crash file is written.
Recovered(r) ==
    /\ Step(r, "unwound", "free")
    /\ panicked' = TRUE
    /\ AskShutdown("panic")
    /\ UNCHANGED <<phase, timer, exit, page, past>>

-----------------------------------------------------------------------------
(* The watcher, signals, the drain *)

\* Faulty variant: a goodbye is not old enough to be noticed.
WatchLate ==
    /\ phase = "serving"
    /\ lastSeen > TooOld
    /\ AskShutdown("idle")
    /\ UNCHANGED <<phase, timer, exit, page, panicked, req, past>>

\* watchLoop: a page was seen, and for too long was not.  Without a page there
\* is only the connection watchdog's message.
Watch ==
    /\ phase = "serving"
    /\ lastSeen > IdleTimeout
    /\ AskShutdown("idle")
    /\ UNCHANGED <<phase, timer, exit, page, panicked, req, past>>

\* The signal goroutine, or the testing-only lifetime bound.
Signal ==
    /\ phase # "down" /\ AskShutdown("signal")
    /\ UNCHANGED <<phase, timer, exit, page, panicked, req, past>>

\* Serve receives the reason; drain refuses new requests from here on.
BeginDrain ==
    /\ phase = "serving" /\ reason # None
    /\ phase' = "draining" /\ timer' = 0
    /\ UNCHANGED <<reason, exit, page, panicked, req, past>>

\* The listener fails under Serve: no drain, and main's own exit code.
ListenerFails ==
    /\ phase = "serving"
    /\ phase' = "stopped"
    /\ exit' = [exit EXCEPT !.code = 1, !.clean = FALSE]
    /\ UNCHANGED <<reason, timer, page, panicked, req, past>>

\* Faulty variant: the drain waits until nothing is in flight, however long.
EndDrainPatient ==
    /\ phase = "draining"
    /\ InFlight = {}
    /\ phase' = "closing" /\ timer' = 0
    /\ exit' = [exit EXCEPT !.clean = @ /\ InFlight = {}]
    /\ UNCHANGED <<reason, page, panicked, req, past>>

\* The wait is over: nothing counted is in flight, or its time is up.  The base
\* context is cancelled and the listener goes.
EndDrain ==
    /\ phase = "draining"
    /\ InFlight = {} \/ timer >= DrainTimeout
    /\ phase' = "closing" /\ timer' = 0
    /\ exit' = [exit EXCEPT !.clean = @ /\ InFlight = {}]
    /\ UNCHANGED <<reason, page, panicked, req, past>>

\* Faulty variant: the connections are cut at once.
CloseAtOnce ==
    /\ phase = "closing"
    /\ phase' = "stopped" /\ timer' = 0
    /\ UNCHANGED <<reason, exit, page, panicked, req, past>>

\* httpSrv.Shutdown waits for every connection it knows, counted or not, for a
\* bounded time; then the sessions are cleared.
Close ==
    /\ phase = "closing"
    /\ Active = {} \/ timer >= CloseTimeout
    /\ phase' = "stopped" /\ timer' = 0
    /\ exit' = [exit EXCEPT !.clean = @ /\ Active = {}]
    /\ UNCHANGED <<reason, page, panicked, req, past>>

\* Handlers that outlived the drain end with the process.
Leave ==
    /\ phase' = "down" /\ reason' = None /\ timer' = 0
    /\ lastSeen' = Never /\ counted' = FALSE /\ panicked' = FALSE
    /\ req' = [r \in Slots |-> "free"]

\* Faulty variant: the code tells why the drain began.
ExitByReason ==
    /\ phase = "stopped"
    /\ exit' = [exit EXCEPT !.code = IF @ # 1 /\ reason = "panic" THEN 4 ELSE @,
                            !.abandoned = Active # {}]
    /\ Leave /\ UNCHANGED past

\* main after Serve: exit code 4 if a panic was recovered, whatever began the
\* drain.
Exit ==
    /\ phase = "stopped"
    /\ exit' = [exit EXCEPT !.code = IF @ # 1 /\ panicked THEN 4 ELSE @,
                            !.abandoned = Active # {}]
    /\ Leave /\ UNCHANGED past

Crash ==
    /\ phase # "down"
    /\ Leave /\ exit' = NoExit /\ past' = NoPast

Start ==
    /\ phase = "down" /\ phase' = "serving"
    /\ exit' = NoExit /\ past' = NoPast
    /\ UNCHANGED <<reason, timer, page, panicked, req>>

\* The watcher looks at lastSeen while it serves, the drain at its own clock.
Tick ==
    /\ phase # "down"
    /\ timer' = IF phase \in {"draining", "closing"} THEN Older(timer, TimerCap) ELSE timer
    /\ lastSeen' = IF phase = "serving" /\ lastSeen # Never THEN Older(lastSeen, TooOld)
                                                           ELSE lastSeen
    /\ UNCHANGED <<phase, reason, exit, counted, panicked, req, past>>

-----------------------------------------------------------------------------

Handler(r) ==
    \/ Arrive(r) \/ Admit(r) \/ Answer(r)
    \/ Heartbeat(r) \/ FirstHeartbeat(r) \/ Goodbye(r) \/ ShutdownRequest(r)
    \/ Panic(r) \/ Recovered(r)

Lifecycle == BeginDrain \/ EndDrain \/ Close \/ Exit

Next ==
    \/ \E r \in Slots : Handler(r)
    \/ Watch \/ Signal \/ ListenerFails \/ Lifecycle \/ Crash \/ Start \/ Tick

\* Time passes and the launcher's own goroutines run; nothing is assumed of
\* the pages or of the handlers, which may hang.
Fairness == WF_vars(Tick) /\ WF_vars(Watch) /\ WF_vars(Lifecycle)

Spec == Init /\ [][Next]_vars /\ Fairness

-----------------------------------------------------------------------------
(* Safety *)

\* After a drain, a panic of any handler is reported as exit code 4, also when
\* a signal or an idle page began the drain and the panicking request was no
\* longer counted (FR-SRV-24); the two bounded waits are the only excuse.
PanicReported ==
    phase = "down" /\ past.panics => exit.code = 4 \/ ~exit.clean

\* A process that ends by itself abandons a request only after a wait for it
\* ran out, even one that passed the drain gate uncounted.
ExitAbandonsNone == exit.abandoned => ~exit.clean

\* A start counts as good once, whichever of several heartbeats came first and
\* whether or not a goodbye came before them (OnFirstHeartbeat).
StartCountedOnce ==
    /\ past.hooks <= 1
    /\ past.heard /\ phase = "serving" /\ (\A r \in Slots : req[r] \notin {"first", "unwound"})
          /\ ~past.panics
       => past.hooks = 1

-----------------------------------------------------------------------------
(* The bound of a stop *)

Remaining(limit) == IF timer < limit THEN limit - timer ELSE 0

\* The steps and the ticks a process may still spend on its end.
Left ==
    CASE phase = "serving"  -> DrainTimeout + CloseTimeout + 4
      [] phase = "draining" -> Remaining(DrainTimeout) + CloseTimeout + 3
      [] phase = "closing"  -> Remaining(CloseTimeout) + 2
      [] phase = "stopped"  -> 1
      [] phase = "down"     -> 0

\* One of the two waits goes on: there is a request it waits for, and time.
Waiting ==
    \/ phase = "draining" /\ InFlight # {} /\ timer < DrainTimeout
    \/ phase = "closing" /\ Active # {} /\ timer < CloseTimeout

\* Within a process nothing, a late request least of all, makes the way to its
\* end longer or turns it back; each of Serve's own steps and every tick of a
\* wait makes it shorter; and once a reason to stop is taken it stays, until
\* nothing of the process is left.
TowardsTheEnd ==
    phase # "down" =>
        /\ Left' <= Left
        /\ phase' # phase => Left' < Left
        /\ Waiting /\ Tick => Left' < Left
        /\ reason # None /\ phase' # "down" => reason' = reason

StopIsBounded == [][TowardsTheEnd]_vars

-----------------------------------------------------------------------------
(* Liveness *)

\* A launcher that was asked to stop stops, whatever its handlers do.
StopsWhenAsked == reason # None ~> phase = "down"

\* A launcher whose pages have gone quiet is asked to stop, unless a page is
\* heard again.
StopsWhenIdle ==
    phase = "serving" /\ lastSeen > 0 ~> reason # None \/ phase # "serving" \/ lastSeen = 0

=============================================================================
