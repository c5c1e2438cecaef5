------------------------------ MODULE Sessions ------------------------------
(***************************************************************************)
(* The session store (launcher/internal/session): bootstrap tokens that    *)
(* are exchanged once for a session, the two ways a session dies, the      *)
(* bound on live sessions and the write quota of each.                     *)
(*                                                                         *)
(* One mutex guards the store, so each of its methods is one step here.    *)
(* Times are ages: Tick makes everything one unit older, and an age stops  *)
(* at the limit it is compared with.  The store's own writer role has no   *)
(* caller outside the tests; the role that is used is the storage          *)
(* engine's (module Server).                                               *)
(***************************************************************************)
EXTENDS Integers, FiniteSets

CONSTANTS
    Tokens,           \* the bootstrap tokens a start issues
    Ids,              \* session ids
    MaxSessions,
    BootstrapTTL, SessionTTL, Inactivity,  \* in ticks
    QuotaWindow,      \* in ticks
    WritesPerMinute, BytesPerMinute

ASSUME SessionConstants ==
    /\ MaxSessions \in Nat \ {0}
    /\ BootstrapTTL \in Nat \ {0} /\ SessionTTL \in Nat \ {0} /\ Inactivity \in Nat \ {0}
    /\ QuotaWindow \in Nat \ {0}
    /\ WritesPerMinute \in Nat /\ BytesPerMinute \in Nat
    /\ IsFiniteSet(Ids)

VARIABLES
    tokens,    \* what the store knows of each token
    sessions   \* the session table

sessionVars == <<tokens, sessions>>

-----------------------------------------------------------------------------

NoToken == "none"
ASSUME NoTokenIsNone == NoToken \notin Tokens

\* A used token, a deleted one and one that never was get the same answer:
\* all three are spent.
TokenRecords == [state : {"pending", "spent"}, age : 0 .. BootstrapTTL]
Spent == [state |-> "spent", age |-> 0]
\* "from" is the token a session was exchanged for, kept after it is gone.
SessionRecords == [state : {"unborn", "open", "gone"}, from : Tokens \cup {NoToken},
                   age : 0 .. SessionTTL, idle : 0 .. Inactivity,
                   window : 0 .. QuotaWindow,
                   writes : 0 .. WritesPerMinute, bytes : 0 .. BytesPerMinute]

SessionsTypeOK ==
    /\ tokens \in [Tokens -> TokenRecords]
    /\ sessions \in [Ids -> SessionRecords]

Unborn == [state |-> "unborn", from |-> NoToken, age |-> 0, idle |-> 0,
           window |-> 0, writes |-> 0, bytes |-> 0]
Opened(t) == [Unborn EXCEPT !.state = "open", !.from = t]
Gone(s) == [Unborn EXCEPT !.state = "gone", !.from = s.from]

\* A new process: an empty table, and the tokens it issued.
Fresh ==
    /\ tokens = [t \in Tokens |-> [state |-> "pending", age |-> 0]]
    /\ sessions = [i \in Ids |-> Unborn]

FreshAgain ==
    /\ tokens' = [t \in Tokens |-> [state |-> "pending", age |-> 0]]
    /\ sessions' = [i \in Ids |-> Unborn]

-----------------------------------------------------------------------------

IsOpen(i) == sessions[i].state = "open"

\* deadReason.
Dead(i) == IsOpen(i) /\ (sessions[i].age >= SessionTTL \/ sessions[i].idle >= Inactivity)

Live == {i \in Ids : IsOpen(i) /\ ~Dead(i)}

\* evictDeadLocked.
Evicted == [i \in Ids |-> IF Dead(i) THEN Gone(sessions[i]) ELSE sessions[i]]

Expired(t) == tokens[t].age >= BootstrapTTL
Exchangeable(t) == tokens[t].state = "pending" /\ ~Expired(t)

\* Ids are random: a session takes any that was never used.
FreshIds == {i \in Ids : sessions[i].state = "unborn"}
NextId == CHOOSE i \in FreshIds : TRUE

\* Faulty variant: the token survives its exchange.
ExchangeKeepsToken(t) ==
    /\ Exchangeable(t) /\ Cardinality(Live) < MaxSessions
    /\ FreshIds # {}
    /\ sessions' = [Evicted EXCEPT ![NextId] = Opened(t)]
    /\ UNCHANGED tokens

\* Exchange, when there is room: the token is spent and a session begins.
Exchange(t) ==
    /\ Exchangeable(t) /\ Cardinality(Live) < MaxSessions
    /\ FreshIds # {}
    /\ sessions' = [Evicted EXCEPT ![NextId] = Opened(t)]
    /\ tokens' = [tokens EXCEPT ![t] = Spent]

\* Faulty variant: the token is spent before the table is found full.
ExchangeFullSpendsToken(t) ==
    /\ Exchangeable(t) /\ Cardinality(Live) >= MaxSessions
    /\ sessions' = Evicted
    /\ tokens' = [tokens EXCEPT ![t] = Spent]

\* No room: the tab may come back with the same token.
ExchangeFull(t) ==
    /\ Exchangeable(t) /\ Cardinality(Live) >= MaxSessions
    /\ sessions' = Evicted
    /\ UNCHANGED tokens

\* Spent and expired tokens get one answer; an expired one is dropped.
ExchangeRefused(t) ==
    /\ ~Exchangeable(t)
    /\ tokens' = [tokens EXCEPT ![t] = Spent]
    /\ UNCHANGED sessions

\* Get, for a live session.
Found(i) ==
    /\ i \in Live
    /\ sessions' = [sessions EXCEPT ![i].idle = 0]
    /\ UNCHANGED tokens

\* Get, otherwise: a dead session is removed on the spot.
NotFound(i) ==
    /\ i \notin Live
    /\ sessions' = IF Dead(i) THEN [sessions EXCEPT ![i] = Gone(@)] ELSE sessions
    /\ UNCHANGED tokens

Reap ==
    /\ sessions' = Evicted
    /\ tokens' = [t \in Tokens |-> IF Expired(t) THEN Spent ELSE tokens[t]]

Clear ==
    /\ sessions' = [i \in Ids |-> IF IsOpen(i) THEN Gone(sessions[i]) ELSE sessions[i]]
    /\ tokens' = [t \in Tokens |-> Spent]

\* The quota counters as Allow sees them: a window that is over starts again.
Counted(i) ==
    IF sessions[i].window >= QuotaWindow
    THEN [sessions[i] EXCEPT !.window = 0, !.writes = 0, !.bytes = 0]
    ELSE sessions[i]

\* Faulty variant: the write that is asked for is not counted in.
WithinQuotaLenient(i, n) ==
    /\ Counted(i).writes <= WritesPerMinute
    /\ Counted(i).bytes <= BytesPerMinute

WithinQuota(i, n) ==
    /\ Counted(i).writes + 1 <= WritesPerMinute
    /\ Counted(i).bytes + n <= BytesPerMinute

\* Allow.  The caller holds the session, which may have left the table since
\* (it then counts on an object nothing will read again); a refused write is
\* not counted.
Allowed(i, n) ==
    /\ WithinQuota(i, n)
    /\ sessions' = IF IsOpen(i)
                   THEN [sessions EXCEPT ![i] = [Counted(i) EXCEPT !.writes = @ + 1, !.bytes = @ + n]]
                   ELSE sessions
    /\ UNCHANGED tokens

Refused(i, n) ==
    /\ ~WithinQuota(i, n)
    /\ sessions' = IF IsOpen(i) THEN [sessions EXCEPT ![i] = Counted(i)] ELSE sessions
    /\ UNCHANGED tokens

Older(age, limit) == IF age < limit THEN age + 1 ELSE age

SessionsTick ==
    /\ tokens' = [t \in Tokens |->
                    IF tokens[t].state = "pending"
                    THEN [tokens[t] EXCEPT !.age = Older(@, BootstrapTTL)] ELSE tokens[t]]
    /\ sessions' = [i \in Ids |->
                      IF IsOpen(i)
                      THEN [sessions[i] EXCEPT !.age = Older(@, SessionTTL),
                                               !.idle = Older(@, Inactivity),
                                               !.window = Older(@, QuotaWindow)]
                      ELSE sessions[i]]

-----------------------------------------------------------------------------
(* Safety *)

\* A bootstrap token opens at most one session, however many tabs race with it
\* and however often it is refused first (FR-API-13).
SingleUse ==
    /\ \A i, j \in Ids : sessions[i].from = sessions[j].from /\ i # j
                            => sessions[i].from = NoToken
    /\ \A i \in Ids : sessions[i].from # NoToken => tokens[sessions[i].from].state # "pending"

\* The table never holds more sessions than MaxSessions, dead ones that nobody
\* has evicted yet included: Exchange evicts before it counts (section 11.3).
SessionsBounded == Cardinality({i \in Ids : IsOpen(i)}) <= MaxSessions

\* A token that is still good stops being so only by opening a session, or at
\* the end of the process: a tab that met a full table can still get in
\* (Exchange: "the token is not consumed").
TokenOutlivesRefusal ==
    [][\A t \in Tokens :
          Exchangeable(t) /\ tokens'[t].state # "pending"
             => \/ \E i \in FreshIds : sessions'[i].state = "open" /\ sessions'[i].from = t
                \/ \A i \in Ids : sessions'[i].state # "open"]_sessionVars

=============================================================================
