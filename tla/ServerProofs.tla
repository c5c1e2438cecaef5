---------------------------- MODULE ServerProofs ----------------------------
(***************************************************************************)
(* Proofs about Server, for any number of request slots, any bound on      *)
(* concurrent requests and any timeouts: type correctness, one counted     *)
(* start per process, no hidden panic, no request that is abandoned        *)
(* without a wait for it that ran out, and a bound on how long a stop      *)
(* takes.                                                                  *)
(***************************************************************************)
EXTENDS Server, FiniteSetTheorems, TLAPS

-----------------------------------------------------------------------------
(* The inductive invariant *)

\* What has a type, without the bound on the number of hooks.
Typed ==
    /\ phase \in Phases /\ reason \in Reasons \cup {None}
    /\ timer \in 0 .. TimerCap
    /\ lastSeen \in Never .. TooOld
    /\ counted \in BOOLEAN /\ panicked \in BOOLEAN
    /\ req \in [Slots -> Pcs]
    /\ exit \in Exits

\* Nothing is left of a process that is down.
DownInv == phase = "down" => ~counted /\ \A r \in Slots : req[r] = "free"

\* The histories a process has, and how the actions extend them.
Histories == [heard : BOOLEAN, hooks : {0, 1}, panics : BOOLEAN]
Heard(p) == [p EXCEPT !.heard = TRUE]
Panicking(p) == [p EXCEPT !.panics = TRUE]
Hooked(p) == [p EXCEPT !.hooks = 1, !.heard = TRUE]

\* How they change the report of an exit.
Waited(e, all) == [e EXCEPT !.clean = all]
Failed(e) == [e EXCEPT !.code = 1, !.clean = FALSE]
Ended(e, code, left) == [e EXCEPT !.code = code, !.abandoned = left]

\* One request at a time is the first heartbeat, and before it ends no hook has
\* run; a heartbeat that was answered was counted, and unless its hook panicked
\* or is running it has run.
HookInv ==
    /\ past \in Histories
    /\ \A r, s \in Slots : req[r] = "first" /\ req[s] = "first" => r = s
    /\ \A r \in Slots : req[r] = "first" => counted /\ past.hooks = 0
    /\ phase # "down" =>
          /\ past.hooks = 1 => counted
          /\ past.heard => counted
          /\ counted /\ past.hooks = 0 /\ ~past.panics => \E r \in Slots : req[r] = "first"

\* A panic is recorded or on its way to be.
PanicInv ==
    past.panics /\ phase # "down" => panicked \/ \E r \in Slots : req[r] = "unwound"

\* Until it is over, exit says only whether a wait ran out; a stopped process
\* that waited for everything has nothing left in flight.
ExitInv ==
    /\ phase # "down" => ~exit.abandoned /\ exit.code \in {0, 1}
    /\ exit.code = 1 => ~exit.clean
    /\ phase = "stopped" /\ exit.clean => Active = {}
    /\ phase = "down" => (exit.abandoned => ~exit.clean)
    /\ phase = "down" /\ past.panics => exit.code = 4 \/ ~exit.clean

ServerInv == Typed /\ DownInv /\ HookInv /\ PanicInv /\ ExitInv

-----------------------------------------------------------------------------
(* Records *)

\* A record with an exit's fields is an exit.
LEMMA ExitFacts ==
    /\ NoExit \in Exits
    /\ \A e \in Exits : e.code \in {0, 1, 4} /\ e.clean \in BOOLEAN /\ e.abandoned \in BOOLEAN
  BY DEF Exits, NoExit

\* A report that is changed in one part keeps the others.
LEMMA ExitChanges ==
    ASSUME NEW e \in Exits, NEW c \in {0, 1, 4}, NEW b \in BOOLEAN
    PROVE  /\ Waited(e, b) \in Exits /\ Waited(e, b).clean = b
           /\ Waited(e, b).code = e.code /\ Waited(e, b).abandoned = e.abandoned
           /\ Failed(e) \in Exits /\ Failed(e).code = 1 /\ ~Failed(e).clean
           /\ Failed(e).abandoned = e.abandoned
           /\ Ended(e, c, b) \in Exits /\ Ended(e, c, b).code = c
           /\ Ended(e, c, b).abandoned = b /\ Ended(e, c, b).clean = e.clean
  <1>1. /\ Waited(e, b) \in Exits /\ Waited(e, b).clean = b
        /\ Waited(e, b).code = e.code /\ Waited(e, b).abandoned = e.abandoned
      BY DEF Exits, Waited
  <1>2. /\ Failed(e) \in Exits /\ Failed(e).code = 1 /\ ~Failed(e).clean
        /\ Failed(e).abandoned = e.abandoned
      BY DEF Exits, Failed
  <1>3. /\ Ended(e, c, b) \in Exits /\ Ended(e, c, b).code = c
        /\ Ended(e, c, b).abandoned = b /\ Ended(e, c, b).clean = e.clean
      BY DEF Exits, Ended
  <1> QED BY <1>1, <1>2, <1>3

\* The clocks are natural numbers.
LEMMA ClockFacts ==
    /\ TimerCap \in Nat /\ TooOld \in Nat \ {0} /\ 0 \in 0 .. TimerCap
    /\ \A t \in 0 .. TimerCap : Older(t, TimerCap) \in 0 .. TimerCap
    /\ \A t \in Never .. TooOld : Older(t, TooOld) \in Never .. TooOld
  BY ServerConstants DEF TimerCap, TooOld, Never, Older

-----------------------------------------------------------------------------
(* Each part is inductive *)

\* A new process has its types.
LEMMA TypedInit == Init => Typed
  <1> SUFFICES ASSUME Init PROVE Typed
      OBVIOUS
  <1>1. 0 \in 0 .. TimerCap /\ Never \in Never .. TooOld
      BY ClockFacts DEF Never
  <1>2. exit \in Exits /\ counted \in BOOLEAN /\ panicked \in BOOLEAN
      BY ExitFacts DEF Init
  <1> QED BY <1>1, <1>2 DEF Init, Typed, Phases, None, Pcs

\* Every action keeps the types.
LEMMA TypedNext == Typed /\ [Next]_vars => Typed'
  <1> SUFFICES ASSUME Typed, [Next]_vars PROVE Typed'
      OBVIOUS
  <1> USE DEF Typed, Step, AskShutdown, Leave, lifecycle, page, Phases,
        Reasons, Pcs, None
  <1>1. ASSUME NEW r \in Slots, Arrive(r) PROVE Typed'
      BY <1>1 DEF Arrive
  <1>2. ASSUME NEW r \in Slots, Admit(r) PROVE Typed'
      BY <1>2 DEF Admit
  <1>3. ASSUME NEW r \in Slots, Answer(r) PROVE Typed'
      BY <1>3 DEF Answer
  <1>4. ASSUME NEW r \in Slots, Heartbeat(r) PROVE Typed'
    <2>1. 0 \in Never .. TooOld /\ counted' \in BOOLEAN
        BY <1>4, ClockFacts DEF Heartbeat, Never
    <2> QED BY <1>4, <2>1 DEF Heartbeat
  <1>5. ASSUME NEW r \in Slots, FirstHeartbeat(r) PROVE Typed'
      BY <1>5 DEF FirstHeartbeat
  <1>6. ASSUME NEW r \in Slots, Goodbye(r) PROVE Typed'
    <2>1. TooOld \in Never .. TooOld
        BY ClockFacts DEF Never
    <2> QED BY <1>6, <2>1 DEF Goodbye
  <1>7. ASSUME NEW r \in Slots, ShutdownRequest(r) PROVE Typed'
      BY <1>7 DEF ShutdownRequest
  <1>8. ASSUME NEW r \in Slots, Panic(r) PROVE Typed'
      BY <1>8 DEF Panic
  <1>9. ASSUME NEW r \in Slots, Recovered(r) PROVE Typed'
    <2>1. panicked' \in BOOLEAN
        BY <1>9 DEF Recovered
    <2> QED BY <1>9, <2>1 DEF Recovered
  <1>10. CASE Watch
      BY <1>10 DEF Watch
  <1>11. CASE Signal
      BY <1>11 DEF Signal
  <1>12. CASE ListenerFails
    <2>1. exit' = Failed(exit)
        BY <1>12 DEF ListenerFails, Failed
    <2>2. exit' \in Exits
        BY <2>1, ExitChanges
    <2> QED BY <1>12, <2>2, ClockFacts DEF ListenerFails
  <1>13. CASE BeginDrain
      BY <1>13, ClockFacts DEF BeginDrain
  <1>14. CASE EndDrain
    <2>1. (exit.clean /\ InFlight = {}) \in BOOLEAN
        OBVIOUS
    <2>2. exit' = Waited(exit, exit.clean /\ InFlight = {})
        BY <1>14 DEF EndDrain, Waited
    <2>3. exit' \in Exits
        BY <2>1, <2>2, ExitChanges
    <2> QED BY <1>14, <2>3, ClockFacts DEF EndDrain
  <1>15. CASE Close
    <2>1. (exit.clean /\ Active = {}) \in BOOLEAN
        OBVIOUS
    <2>2. exit' = Waited(exit, exit.clean /\ Active = {})
        BY <1>15 DEF Close, Waited
    <2>3. exit' \in Exits
        BY <2>1, <2>2, ExitChanges
    <2> QED BY <1>15, <2>3, ClockFacts DEF Close
  <1>16. CASE Exit
    <2>1. 0 \in 0 .. TimerCap /\ Never \in Never .. TooOld
        BY ClockFacts DEF Never
    <2>2. (Active # {}) \in BOOLEAN
        OBVIOUS
    <2>3. (IF exit.code # 1 /\ panicked THEN 4 ELSE exit.code) \in {0, 1, 4}
        BY ExitFacts DEF Typed
    <2>4. exit' = Ended(exit, IF exit.code # 1 /\ panicked THEN 4 ELSE exit.code, Active # {})
        BY <1>16 DEF Exit, Ended
    <2>6. exit' \in Exits
        BY <2>2, <2>3, <2>4, ExitChanges
    <2>5. counted' \in BOOLEAN /\ panicked' \in BOOLEAN
        BY <1>16 DEF Exit, Leave
    <2> QED BY <1>16, <2>1, <2>5, <2>6 DEF Exit
  <1>17. CASE Crash
    <2>1. 0 \in 0 .. TimerCap /\ Never \in Never .. TooOld
        BY ClockFacts DEF Never
    <2>2. counted' \in BOOLEAN /\ panicked' \in BOOLEAN /\ exit' \in Exits
        BY <1>17, ExitFacts DEF Crash, Leave
    <2> QED BY <1>17, <2>1, <2>2 DEF Crash
  <1>18. CASE Start
      BY <1>18, ExitFacts DEF Start
  <1>19. CASE Tick
    <2>1. timer' \in 0 .. TimerCap /\ lastSeen' \in Never .. TooOld
        BY <1>19, ClockFacts DEF Tick, Typed
    <2> QED BY <1>19, <2>1 DEF Tick
  <1>20. CASE UNCHANGED vars
      BY <1>20 DEF vars
  <1> QED BY <1>1, <1>2, <1>3, <1>4, <1>5, <1>6, <1>7, <1>8, <1>9, <1>10,
         <1>11, <1>12, <1>13, <1>14, <1>15, <1>16, <1>17, <1>18, <1>19,
         <1>20 DEF Next, Handler, Lifecycle

\* A new process has no requests.
LEMMA DownInit == Init => DownInv
  BY DEF Init, DownInv

\* A process leaves only with everything it has.
LEMMA DownNext == Typed /\ DownInv /\ [Next]_vars => DownInv'
  <1> SUFFICES ASSUME Typed, DownInv, [Next]_vars PROVE DownInv'
      OBVIOUS
  <1> USE DEF Typed, DownInv, Step, AskShutdown, Leave, lifecycle, page,
        Phases, Pcs
  <1>1. ASSUME NEW r \in Slots, Arrive(r) PROVE DownInv'
      BY <1>1 DEF Arrive
  <1>2. ASSUME NEW r \in Slots, Admit(r) PROVE DownInv'
      BY <1>2 DEF Admit
  <1>3. ASSUME NEW r \in Slots, Answer(r) PROVE DownInv'
      BY <1>3 DEF Answer
  <1>4. ASSUME NEW r \in Slots, Heartbeat(r) PROVE DownInv'
      BY <1>4 DEF Heartbeat
  <1>5. ASSUME NEW r \in Slots, FirstHeartbeat(r) PROVE DownInv'
      BY <1>5 DEF FirstHeartbeat
  <1>6. ASSUME NEW r \in Slots, Goodbye(r) PROVE DownInv'
      BY <1>6 DEF Goodbye
  <1>7. ASSUME NEW r \in Slots, ShutdownRequest(r) PROVE DownInv'
      BY <1>7 DEF ShutdownRequest
  <1>8. ASSUME NEW r \in Slots, Panic(r) PROVE DownInv'
      BY <1>8 DEF Panic
  <1>9. ASSUME NEW r \in Slots, Recovered(r) PROVE DownInv'
      BY <1>9 DEF Recovered
  <1>10. CASE Watch
      BY <1>10 DEF Watch
  <1>11. CASE Signal
      BY <1>11 DEF Signal
  <1>12. CASE ListenerFails
      BY <1>12 DEF ListenerFails
  <1>13. CASE BeginDrain
      BY <1>13 DEF BeginDrain
  <1>14. CASE EndDrain
      BY <1>14 DEF EndDrain
  <1>15. CASE Close
      BY <1>15 DEF Close
  <1>16. CASE Exit
      BY <1>16 DEF Exit
  <1>17. CASE Crash
      BY <1>17 DEF Crash
  <1>18. CASE Start
      BY <1>18 DEF Start
  <1>19. CASE Tick
      BY <1>19 DEF Tick
  <1>20. CASE UNCHANGED vars
      BY <1>20 DEF vars
  <1> QED BY <1>1, <1>2, <1>3, <1>4, <1>5, <1>6, <1>7, <1>8, <1>9, <1>10,
         <1>11, <1>12, <1>13, <1>14, <1>15, <1>16, <1>17, <1>18, <1>19,
         <1>20 DEF Next, Handler, Lifecycle

\* Nothing has been heard of a new process.
LEMMA NoPastFacts == NoPast \in Histories /\ NoPast.hooks = 0 /\ ~NoPast.heard /\ ~NoPast.panics
  BY DEF NoPast, Histories

\* No heartbeat has come yet.
LEMMA HookInit == Init => HookInv
  BY NoPastFacts DEF Init, HookInv

\* A history that is changed in one part keeps the others.
LEMMA PastFacts ==
    ASSUME NEW p \in Histories
    PROVE  /\ p.heard \in BOOLEAN /\ p.hooks \in {0, 1} /\ p.panics \in BOOLEAN
           /\ Heard(p) \in Histories /\ Panicking(p) \in Histories
           /\ Heard(p).heard /\ Heard(p).hooks = p.hooks /\ Heard(p).panics = p.panics
           /\ Panicking(p).heard = p.heard /\ Panicking(p).hooks = p.hooks /\ Panicking(p).panics
           /\ Hooked(p) \in Histories /\ Hooked(p).heard /\ Hooked(p).hooks = 1
           /\ Hooked(p).panics = p.panics
  <1>1. p.heard \in BOOLEAN /\ p.hooks \in {0, 1} /\ p.panics \in BOOLEAN
      BY DEF Histories
  <1>2. /\ Heard(p) \in Histories /\ Heard(p).heard /\ Heard(p).hooks = p.hooks
        /\ Heard(p).panics = p.panics
      BY DEF Histories, Heard
  <1>3. /\ Panicking(p) \in Histories /\ Panicking(p).heard = p.heard
        /\ Panicking(p).hooks = p.hooks /\ Panicking(p).panics
      BY DEF Histories, Panicking
  <1>4. /\ Hooked(p) \in Histories /\ Hooked(p).heard /\ Hooked(p).hooks = 1
        /\ Hooked(p).panics = p.panics
      BY DEF Histories, Hooked
  <1> QED BY <1>1, <1>2, <1>3, <1>4

\* The first heartbeat is one request's, and its hook runs once.
LEMMA HookNext == Typed /\ DownInv /\ HookInv /\ [Next]_vars => HookInv'
  <1> SUFFICES ASSUME Typed, DownInv, HookInv, [Next]_vars PROVE HookInv'
      OBVIOUS
  <1> USE DEF Typed, DownInv, HookInv, Step, AskShutdown, Leave, lifecycle,
        page, Phases, Pcs
  <1>1. ASSUME NEW r \in Slots, Arrive(r) PROVE HookInv'
      BY <1>1 DEF Arrive
  <1>2. ASSUME NEW r \in Slots, Admit(r) PROVE HookInv'
      BY <1>2 DEF Admit
  <1>3. ASSUME NEW r \in Slots, Answer(r) PROVE HookInv'
      BY <1>3 DEF Answer
  <1>4. ASSUME NEW r \in Slots, Heartbeat(r) PROVE HookInv'
    <2>1. CASE counted
      <3>1. req' = [req EXCEPT ![r] = "free"] /\ req[r] = "running" /\ past' = Heard(past)
          BY <1>4, <2>1 DEF Heartbeat, Heard
      <3> QED BY <1>4, <2>1, <3>1, PastFacts DEF Heartbeat
    <2>2. CASE ~counted
      <3>1. req' = [req EXCEPT ![r] = "first"] /\ req[r] = "running" /\ past' = past
          BY <1>4, <2>2 DEF Heartbeat
      <3> QED BY <1>4, <2>2, <3>1, PastFacts DEF Heartbeat
    <2> QED BY <2>1, <2>2
  <1>5. ASSUME NEW r \in Slots, FirstHeartbeat(r) PROVE HookInv'
    <2>1. counted /\ past.hooks = 0 /\ req[r] = "first"
        BY <1>5 DEF FirstHeartbeat
    <2>2. req' = [req EXCEPT ![r] = "free"] /\ past' = Hooked(past)
        BY <1>5, <2>1 DEF FirstHeartbeat, Hooked
    <2> QED BY <1>5, <2>1, <2>2, PastFacts DEF FirstHeartbeat
  <1>6. ASSUME NEW r \in Slots, Goodbye(r) PROVE HookInv'
      BY <1>6 DEF Goodbye
  <1>7. ASSUME NEW r \in Slots, ShutdownRequest(r) PROVE HookInv'
      BY <1>7 DEF ShutdownRequest
  <1>8. ASSUME NEW r \in Slots, Panic(r) PROVE HookInv'
      BY <1>8, PastFacts DEF Panic, Panicking
  <1>9. ASSUME NEW r \in Slots, Recovered(r) PROVE HookInv'
      BY <1>9 DEF Recovered
  <1>10. CASE Watch
      BY <1>10 DEF Watch
  <1>11. CASE Signal
      BY <1>11 DEF Signal
  <1>12. CASE ListenerFails
      BY <1>12 DEF ListenerFails
  <1>13. CASE BeginDrain
      BY <1>13 DEF BeginDrain
  <1>14. CASE EndDrain
      BY <1>14 DEF EndDrain
  <1>15. CASE Close
      BY <1>15 DEF Close
  <1>16. CASE Exit
      BY <1>16 DEF Exit
  <1>17. CASE Crash
      BY <1>17, NoPastFacts DEF Crash
  <1>18. CASE Start
      BY <1>18, NoPastFacts DEF Start
  <1>19. CASE Tick
      BY <1>19 DEF Tick
  <1>20. CASE UNCHANGED vars
      BY <1>20 DEF vars
  <1> QED BY <1>1, <1>2, <1>3, <1>4, <1>5, <1>6, <1>7, <1>8, <1>9, <1>10,
         <1>11, <1>12, <1>13, <1>14, <1>15, <1>16, <1>17, <1>18, <1>19,
         <1>20 DEF Next, Handler, Lifecycle

\* Nothing has panicked in a new process.
LEMMA PanicInit == Init => PanicInv
  BY DEF Init, PanicInv, NoPast

\* A panicking request stays until recovery has recorded it.
LEMMA PanicNext == Typed /\ DownInv /\ HookInv /\ PanicInv /\ [Next]_vars => PanicInv'
  <1> SUFFICES ASSUME Typed, DownInv, HookInv, PanicInv, [Next]_vars PROVE PanicInv'
      OBVIOUS
  <1> USE DEF Typed, DownInv, HookInv, PanicInv, Step, AskShutdown, Leave,
        lifecycle, page, Phases, Pcs
  <1>1. ASSUME NEW r \in Slots, Arrive(r) PROVE PanicInv'
      BY <1>1 DEF Arrive
  <1>2. ASSUME NEW r \in Slots, Admit(r) PROVE PanicInv'
      BY <1>2 DEF Admit
  <1>3. ASSUME NEW r \in Slots, Answer(r) PROVE PanicInv'
      BY <1>3 DEF Answer
  <1>4. ASSUME NEW r \in Slots, Heartbeat(r) PROVE PanicInv'
    <2>1. CASE counted
      <3>1. req' = [req EXCEPT ![r] = "free"] /\ req[r] = "running" /\ past' = Heard(past)
          BY <1>4, <2>1 DEF Heartbeat, Heard
      <3> QED BY <1>4, <2>1, <3>1, PastFacts DEF Heartbeat
    <2>2. CASE ~counted
      <3>1. req' = [req EXCEPT ![r] = "first"] /\ req[r] = "running" /\ past' = past
          BY <1>4, <2>2 DEF Heartbeat
      <3> QED BY <1>4, <2>2, <3>1, PastFacts DEF Heartbeat
    <2> QED BY <2>1, <2>2
  <1>5. ASSUME NEW r \in Slots, FirstHeartbeat(r) PROVE PanicInv'
    <2>1. counted /\ past.hooks = 0 /\ req[r] = "first"
        BY <1>5 DEF FirstHeartbeat
    <2>2. req' = [req EXCEPT ![r] = "free"] /\ past' = Hooked(past)
        BY <1>5, <2>1 DEF FirstHeartbeat, Hooked
    <2> QED BY <1>5, <2>1, <2>2, PastFacts DEF FirstHeartbeat
  <1>6. ASSUME NEW r \in Slots, Goodbye(r) PROVE PanicInv'
      BY <1>6 DEF Goodbye
  <1>7. ASSUME NEW r \in Slots, ShutdownRequest(r) PROVE PanicInv'
      BY <1>7 DEF ShutdownRequest
  <1>8. ASSUME NEW r \in Slots, Panic(r) PROVE PanicInv'
      BY <1>8, PastFacts DEF Panic, Panicking
  <1>9. ASSUME NEW r \in Slots, Recovered(r) PROVE PanicInv'
      BY <1>9 DEF Recovered
  <1>10. CASE Watch
      BY <1>10 DEF Watch
  <1>11. CASE Signal
      BY <1>11 DEF Signal
  <1>12. CASE ListenerFails
      BY <1>12 DEF ListenerFails
  <1>13. CASE BeginDrain
      BY <1>13 DEF BeginDrain
  <1>14. CASE EndDrain
      BY <1>14 DEF EndDrain
  <1>15. CASE Close
      BY <1>15 DEF Close
  <1>16. CASE Exit
      BY <1>16 DEF Exit
  <1>17. CASE Crash
      BY <1>17, NoPastFacts DEF Crash
  <1>18. CASE Start
      BY <1>18, NoPastFacts DEF Start
  <1>19. CASE Tick
      BY <1>19 DEF Tick
  <1>20. CASE UNCHANGED vars
      BY <1>20 DEF vars
  <1> QED BY <1>1, <1>2, <1>3, <1>4, <1>5, <1>6, <1>7, <1>8, <1>9, <1>10,
         <1>11, <1>12, <1>13, <1>14, <1>15, <1>16, <1>17, <1>18, <1>19,
         <1>20 DEF Next, Handler, Lifecycle

\* A new process has not ended.
LEMMA ExitInit == Init => ExitInv
  BY DEF Init, ExitInv, NoExit

\* What a wait did not see end cannot be forgotten before the process ends.
LEMMA ExitNext == Typed /\ DownInv /\ HookInv /\ PanicInv /\ ExitInv /\ [Next]_vars => ExitInv'
  <1> SUFFICES ASSUME Typed, DownInv, HookInv, PanicInv, ExitInv, [Next]_vars PROVE ExitInv'
      OBVIOUS
  <1> USE DEF Typed, DownInv, HookInv, PanicInv, ExitInv, Step, AskShutdown,
        Leave, lifecycle, page, Phases, Pcs, Active
  <1>1. ASSUME NEW r \in Slots, Arrive(r) PROVE ExitInv'
      BY <1>1 DEF Arrive
  <1>2. ASSUME NEW r \in Slots, Admit(r) PROVE ExitInv'
      BY <1>2 DEF Admit
  <1>3. ASSUME NEW r \in Slots, Answer(r) PROVE ExitInv'
      BY <1>3 DEF Answer
  <1>4. ASSUME NEW r \in Slots, Heartbeat(r) PROVE ExitInv'
    <2>1. CASE counted
      <3>1. req' = [req EXCEPT ![r] = "free"] /\ req[r] = "running" /\ past' = Heard(past)
          BY <1>4, <2>1 DEF Heartbeat, Heard
      <3> QED BY <1>4, <2>1, <3>1, PastFacts DEF Heartbeat
    <2>2. CASE ~counted
      <3>1. req' = [req EXCEPT ![r] = "first"] /\ req[r] = "running" /\ past' = past
          BY <1>4, <2>2 DEF Heartbeat
      <3> QED BY <1>4, <2>2, <3>1, PastFacts DEF Heartbeat
    <2> QED BY <2>1, <2>2
  <1>5. ASSUME NEW r \in Slots, FirstHeartbeat(r) PROVE ExitInv'
    <2>1. counted /\ past.hooks = 0 /\ req[r] = "first"
        BY <1>5 DEF FirstHeartbeat
    <2>2. req' = [req EXCEPT ![r] = "free"] /\ past' = Hooked(past)
        BY <1>5, <2>1 DEF FirstHeartbeat, Hooked
    <2> QED BY <1>5, <2>1, <2>2, PastFacts DEF FirstHeartbeat
  <1>6. ASSUME NEW r \in Slots, Goodbye(r) PROVE ExitInv'
      BY <1>6 DEF Goodbye
  <1>7. ASSUME NEW r \in Slots, ShutdownRequest(r) PROVE ExitInv'
      BY <1>7 DEF ShutdownRequest
  <1>8. ASSUME NEW r \in Slots, Panic(r) PROVE ExitInv'
      BY <1>8, PastFacts DEF Panic, Panicking
  <1>9. ASSUME NEW r \in Slots, Recovered(r) PROVE ExitInv'
      BY <1>9 DEF Recovered
  <1>10. CASE Watch
      BY <1>10 DEF Watch
  <1>11. CASE Signal
      BY <1>11 DEF Signal
  <1>12. CASE ListenerFails
    <2>1. exit' = Failed(exit)
        BY <1>12 DEF ListenerFails, Failed
    <2>2. exit'.code = 1 /\ ~exit'.clean /\ exit'.abandoned = exit.abandoned
        BY <2>1, ExitChanges
    <2> QED BY <1>12, <2>2 DEF ListenerFails
  <1>13. CASE BeginDrain
      BY <1>13 DEF BeginDrain
  <1>14. CASE EndDrain
    <2>1. (exit.clean /\ InFlight = {}) \in BOOLEAN
        OBVIOUS
    <2>2. exit' = Waited(exit, exit.clean /\ InFlight = {})
        BY <1>14 DEF EndDrain, Waited
    <2>4. /\ exit'.clean = (exit.clean /\ InFlight = {}) /\ exit'.code = exit.code
          /\ exit'.abandoned = exit.abandoned
        BY <2>1, <2>2, ExitChanges
    <2>5. exit.code \in {0, 1, 4} /\ exit.clean \in BOOLEAN
        BY ExitFacts
    <2> QED BY <1>14, <2>4, <2>5 DEF EndDrain
  <1>15. CASE Close
    <2>1. (exit.clean /\ Active = {}) \in BOOLEAN
        OBVIOUS
    <2>2. exit' = Waited(exit, exit.clean /\ Active = {})
        BY <1>15 DEF Close, Waited
    <2>4. /\ exit'.clean = (exit.clean /\ Active = {}) /\ exit'.code = exit.code
          /\ exit'.abandoned = exit.abandoned
        BY <2>1, <2>2, ExitChanges
    <2>5. exit.code \in {0, 1, 4} /\ exit.clean \in BOOLEAN
        BY ExitFacts
    <2> QED BY <1>15, <2>4, <2>5 DEF Close
  <1>16. CASE Exit
    <2> DEFINE code == IF exit.code # 1 /\ panicked THEN 4 ELSE exit.code
               left == Active # {}
    <2>1. left \in BOOLEAN /\ code \in {0, 1, 4}
        BY ExitFacts
    <2>0. exit' = Ended(exit, code, left)
        BY <1>16 DEF Exit, Ended
    <2>2. exit'.code = code /\ exit'.abandoned = left /\ exit'.clean = exit.clean
      <3> HIDE DEF code, left
      <3> QED BY <2>0, <2>1, ExitChanges
    <2>3. phase = "stopped" /\ phase' = "down" /\ past' = past
        BY <1>16 DEF Exit
    <2>4. exit'.abandoned => ~exit'.clean
        BY <2>2, <2>3
    <2>5. past.panics /\ exit.clean => panicked /\ exit.code # 1
        BY <2>3
    <2>6. exit'.code = 1 => ~exit'.clean
        BY <2>2
    <2> QED BY <2>2, <2>3, <2>4, <2>5, <2>6
  <1>17. CASE Crash
      BY <1>17, NoPastFacts DEF Crash, NoExit
  <1>18. CASE Start
      BY <1>18, NoPastFacts DEF Start, NoExit
  <1>19. CASE Tick
      BY <1>19 DEF Tick
  <1>20. CASE UNCHANGED vars
      BY <1>20 DEF vars
  <1> QED BY <1>1, <1>2, <1>3, <1>4, <1>5, <1>6, <1>7, <1>8, <1>9, <1>10,
         <1>11, <1>12, <1>13, <1>14, <1>15, <1>16, <1>17, <1>18, <1>19,
         <1>20 DEF Next, Handler, Lifecycle

-----------------------------------------------------------------------------
(* The theorems *)

\* The invariant holds at the start.
LEMMA ServerInvInit == Init => ServerInv
  BY TypedInit, DownInit, HookInit, PanicInit, ExitInit DEF ServerInv

\* Every step keeps the invariant.
LEMMA ServerInvNext == ServerInv /\ [Next]_vars => ServerInv'
  BY TypedNext, DownNext, HookNext, PanicNext, ExitNext DEF ServerInv

\* The invariant holds of every reachable state.
THEOREM ServerInvariant == Spec => []ServerInv
  BY ServerInvInit, ServerInvNext, PTL DEF Spec

\* TypeOK: in particular no more hooks run than there are requests for them.
THEOREM TypeCorrect == Spec => []TypeOK
  <1>1. ServerInv => TypeOK
    <2> SUFFICES ASSUME ServerInv PROVE TypeOK
        OBVIOUS
    <2>1. Cardinality(Slots) \in Nat
        BY ServerConstants, FS_CardinalityType
    <2>2. {0, 1} \subseteq 0 .. Cardinality(Slots) + 1
        BY <2>1
    <2>3. past \in Pasts
        BY <2>2 DEF ServerInv, HookInv, Histories, Pasts
    <2> QED BY <2>3 DEF ServerInv, Typed, TypeOK
  <1> QED BY <1>1, ServerInvariant, PTL

\* PanicReported, through PanicInv: trackInFlight stops counting a request whose
\* handler panics before recovery records the panic, so what keeps the exit code
\* is that httpSrv.Shutdown also waits for it.
THEOREM NoHiddenPanic == Spec => []PanicReported
  <1>1. ServerInv => PanicReported
      BY DEF ServerInv, ExitInv, PanicReported
  <1> QED BY <1>1, ServerInvariant, PTL

\* ExitAbandonsNone: the drain's two waits together see every request.
THEOREM NoneAbandoned == Spec => []ExitAbandonsNone
  <1>1. ServerInv => ExitAbandonsNone
    <2> SUFFICES ASSUME ServerInv PROVE ExitAbandonsNone
        OBVIOUS
    <2>1. CASE phase = "down"
        BY <2>1 DEF ServerInv, ExitInv, ExitAbandonsNone
    <2>2. CASE phase # "down"
        BY <2>2 DEF ServerInv, ExitInv, ExitAbandonsNone
    <2> QED BY <2>1, <2>2
  <1> QED BY <1>1, ServerInvariant, PTL

\* StartCountedOnce: firstHeartbeat is swapped under the state's lock, so one
\* heartbeat of the process runs NoteSuccessfulStart.
THEOREM CountedOnce == Spec => []StartCountedOnce
  <1>1. ServerInv => StartCountedOnce
    <2> SUFFICES ASSUME ServerInv PROVE StartCountedOnce
        OBVIOUS
    <2>1. past \in Histories /\ past.hooks \in {0, 1}
        BY PastFacts DEF ServerInv, HookInv
    <2> QED BY <2>1 DEF ServerInv, HookInv, StartCountedOnce
  <1> QED BY <1>1, ServerInvariant, PTL

\* The clocks of the two waits.
LEMMA RemainingFacts ==
    ASSUME Typed
    PROVE  /\ DrainTimeout \in Nat /\ CloseTimeout \in Nat /\ timer \in Nat
           /\ Remaining(DrainTimeout) \in 0 .. DrainTimeout
           /\ Remaining(CloseTimeout) \in 0 .. CloseTimeout
  <1>1. timer \in Nat
      BY ClockFacts DEF Typed
  <1> QED BY <1>1, ServerConstants DEF Remaining

\* A step of the clock, with time left, takes one from what remains.
LEMMA TickFacts ==
    ASSUME Typed, Tick, NEW limit \in {DrainTimeout, CloseTimeout},
           phase \in {"draining", "closing"}
    PROVE  /\ Remaining(limit)' <= Remaining(limit)
           /\ timer < limit => Remaining(limit)' < Remaining(limit)
  <1>1. timer \in Nat /\ limit \in Nat /\ limit <= TimerCap /\ TimerCap \in Nat
      BY ClockFacts, ServerConstants DEF Typed, TimerCap
  <1>2. timer' = IF timer < TimerCap THEN timer + 1 ELSE timer
      BY DEF Tick, Older
  <1> QED BY <1>1, <1>2 DEF Remaining

\* StopIsBounded: the drain and the close are each given their time once and a
\* later reason, request or panic starts neither again.  With the fairness of
\* the clock and of Serve's own steps this is what StopsWhenAsked rests on.
THEOREM StopAlwaysBounded == Spec => StopIsBounded
  <1>1. ServerInv /\ [Next]_vars => [TowardsTheEnd]_vars
    <2> SUFFICES ASSUME ServerInv, Next PROVE TowardsTheEnd
        OBVIOUS
    <2> SUFFICES ASSUME phase # "down" PROVE TowardsTheEnd
        BY DEF TowardsTheEnd
    <2>1. Typed
        BY DEF ServerInv
    <2>2. /\ DrainTimeout \in Nat /\ CloseTimeout \in Nat /\ timer \in Nat
          /\ Remaining(DrainTimeout) \in 0 .. DrainTimeout
          /\ Remaining(CloseTimeout) \in 0 .. CloseTimeout
        BY <2>1, RemainingFacts
    <2> DEFINE Keeps == phase' = phase /\ timer' = timer /\ ~Tick /\ (reason # None => reason' = reason)
    <2>13. Left \in Nat
        BY <2>1, <2>2 DEF Left, Typed, Phases
    <2>3. Keeps => TowardsTheEnd
      <3> SUFFICES ASSUME Keeps PROVE TowardsTheEnd
          OBVIOUS
      <3>1. Left' = Left
          BY DEF Left, Remaining
      <3> QED BY <2>13, <3>1 DEF TowardsTheEnd
    <2>4. ASSUME NEW r \in Slots, Handler(r) PROVE Keeps
      <3>1. req' # req
          BY <2>1, <2>4 DEF Typed, Handler, Step, Arrive, Admit, Answer, Heartbeat, FirstHeartbeat,
                Goodbye, ShutdownRequest, Panic, Recovered
      <3> QED BY <2>4, <3>1 DEF Handler, Step, Arrive, Admit, Answer, Heartbeat, FirstHeartbeat,
                Goodbye, ShutdownRequest, Panic, Recovered, AskShutdown, lifecycle, Tick
    <2>5. CASE Watch \/ Signal
      <3>1. phase' = phase /\ timer' = timer /\ (reason # None => reason' = reason)
          BY <2>5 DEF Watch, Signal, AskShutdown
      <3>2. Waiting /\ Tick => Left' < Left
        <4> SUFFICES ASSUME Waiting, Tick PROVE FALSE
            OBVIOUS
        <4>1. timer < TimerCap /\ timer' = timer + 1
            BY <2>2 DEF Waiting, Tick, Older, TimerCap
        <4> QED BY <2>2, <3>1, <4>1
      <3>3. Left' = Left
          BY <3>1 DEF Left, Remaining
      <3> QED BY <2>13, <3>1, <3>2, <3>3 DEF TowardsTheEnd
    <2>6. CASE ListenerFails
        BY <2>2, <2>6 DEF ListenerFails, TowardsTheEnd, Left, Tick
    <2>7. CASE BeginDrain
        BY <2>2, <2>7 DEF BeginDrain, TowardsTheEnd, Left, Remaining, Tick
    <2>8. CASE EndDrain
        BY <2>2, <2>8 DEF EndDrain, TowardsTheEnd, Left, Remaining, Tick
    <2>9. CASE Close
        BY <2>2, <2>9 DEF Close, TowardsTheEnd, Left, Remaining, Tick
    <2>10. CASE Exit \/ Crash
        BY <2>1, <2>2, <2>10 DEF Exit, Crash, Leave, TowardsTheEnd, Left, Tick, Typed, Phases
    <2>11. CASE Tick
      <3>1. phase' = phase /\ reason' = reason
          BY <2>11 DEF Tick
      <3>2. CASE phase = "draining"
        <4>1. /\ Remaining(DrainTimeout)' <= Remaining(DrainTimeout)
              /\ timer < DrainTimeout => Remaining(DrainTimeout)' < Remaining(DrainTimeout)
            BY <2>1, <2>11, <3>2, TickFacts
        <4>2. Remaining(DrainTimeout)' \in Int
            BY <2>2, <2>11, ServerConstants DEF Remaining, Tick, Older, TimerCap
        <4>3. /\ Left = Remaining(DrainTimeout) + CloseTimeout + 3
              /\ Left' = Remaining(DrainTimeout)' + CloseTimeout + 3
            BY <3>1, <3>2 DEF Left
        <4>4. Waiting => timer < DrainTimeout
            BY <3>2 DEF Waiting
        <4> QED BY <2>2, <3>1, <4>1, <4>2, <4>3, <4>4 DEF TowardsTheEnd
      <3>3. CASE phase = "closing"
        <4>1. /\ Remaining(CloseTimeout)' <= Remaining(CloseTimeout)
              /\ timer < CloseTimeout => Remaining(CloseTimeout)' < Remaining(CloseTimeout)
            BY <2>1, <2>11, <3>3, TickFacts
        <4>2. Remaining(CloseTimeout)' \in Int
            BY <2>2, <2>11, ServerConstants DEF Remaining, Tick, Older, TimerCap
        <4>3. /\ Left = Remaining(CloseTimeout) + 2
              /\ Left' = Remaining(CloseTimeout)' + 2
            BY <3>1, <3>3 DEF Left
        <4>4. Waiting => timer < CloseTimeout
            BY <3>3 DEF Waiting
        <4> QED BY <2>2, <3>1, <4>1, <4>2, <4>3, <4>4 DEF TowardsTheEnd
      <3>4. CASE phase \in {"serving", "stopped"}
          BY <2>2, <3>1, <3>4 DEF TowardsTheEnd, Left, Waiting
      <3> QED BY <2>1, <3>2, <3>3, <3>4 DEF Typed, Phases
    <2>12. CASE Start
        BY <2>12 DEF Start
    <2> HIDE DEF Keeps
    <2> QED BY <2>3, <2>4, <2>5, <2>6, <2>7, <2>8, <2>9, <2>10, <2>11, <2>12 DEF Next, Lifecycle
  <1> QED BY <1>1, ServerInvariant, PTL DEF Spec, StopIsBounded

=============================================================================
