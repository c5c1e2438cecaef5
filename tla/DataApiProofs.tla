---------------------------- MODULE DataApiProofs ----------------------------
(***************************************************************************)
(* Proofs about Sessions and DataApi, for any tokens, sessions, requests,  *)
(* settings keys, limits and quotas: type correctness, the single use of a *)
(* token and its survival of a refusal, the bound on the session table,    *)
(* one update request per session, that no answered settings value is lost *)
(* and that a reader of the settings sees one merge at a time.             *)
(***************************************************************************)
EXTENDS DataApi, FiniteSetTheorems, TLAPS

-----------------------------------------------------------------------------
(* The session store: records *)

\* What the store's methods do to one session.
Seen(s) == [s EXCEPT !.idle = 0]
Restarted(s) == [s EXCEPT !.window = 0, !.writes = 0, !.bytes = 0]
Charged(s) == [s EXCEPT !.writes = @ + 1, !.bytes = @ + 1]
Aged(s) == [s EXCEPT !.age = Older(@, SessionTTL), !.idle = Older(@, Inactivity),
                     !.window = Older(@, QuotaWindow)]

\* An age stays within its limit.
LEMMA OlderWithin ==
    ASSUME NEW limit \in Nat, NEW age \in 0 .. limit
    PROVE  Older(age, limit) \in 0 .. limit
  BY DEF Older

\* A new session and the empty entries of the table are sessions.
LEMMA OpenedFacts ==
    /\ Unborn \in SessionRecords /\ Unborn.from = NoToken /\ Unborn.state = "unborn"
    /\ \A t \in Tokens : /\ Opened(t) \in SessionRecords
                         /\ Opened(t).from = t /\ Opened(t).state = "open"
  <1>1. Unborn \in SessionRecords /\ Unborn.from = NoToken /\ Unborn.state = "unborn"
      BY SessionConstants DEF Unborn, SessionRecords
  <1>2. ASSUME NEW t \in Tokens
        PROVE  /\ Opened(t) \in SessionRecords
               /\ Opened(t).from = t /\ Opened(t).state = "open"
      BY <1>1 DEF Opened, SessionRecords
  <1> QED BY <1>1, <1>2

\* No other method changes whose token a session came from.
LEMMA SessionChanges ==
    ASSUME NEW s \in SessionRecords
    PROVE  /\ s.state \in {"unborn", "open", "gone"} /\ s.from \in Tokens \cup {NoToken}
           /\ Gone(s) \in SessionRecords /\ Gone(s).from = s.from /\ Gone(s).state = "gone"
           /\ Seen(s) \in SessionRecords /\ Seen(s).from = s.from
           /\ Restarted(s) \in SessionRecords /\ Restarted(s).from = s.from
           /\ Aged(s) \in SessionRecords /\ Aged(s).from = s.from
           /\ s.writes + 1 <= WritesPerMinute /\ s.bytes + 1 <= BytesPerMinute
                 => Charged(s) \in SessionRecords /\ Charged(s).from = s.from
  <1>1. s.state \in {"unborn", "open", "gone"} /\ s.from \in Tokens \cup {NoToken}
      BY DEF SessionRecords
  <1>2. /\ s.age \in 0 .. SessionTTL /\ s.idle \in 0 .. Inactivity
        /\ s.window \in 0 .. QuotaWindow
        /\ s.writes \in 0 .. WritesPerMinute /\ s.bytes \in 0 .. BytesPerMinute
      BY DEF SessionRecords
  <1>3. Gone(s) \in SessionRecords /\ Gone(s).from = s.from /\ Gone(s).state = "gone"
      BY <1>1, OpenedFacts DEF Gone, SessionRecords
  <1>4. Seen(s) \in SessionRecords /\ Seen(s).from = s.from
      BY SessionConstants DEF SessionRecords, Seen
  <1>5. Restarted(s) \in SessionRecords /\ Restarted(s).from = s.from
    <2>1. /\ 0 \in 0 .. QuotaWindow /\ 0 \in 0 .. WritesPerMinute
          /\ 0 \in 0 .. BytesPerMinute
        BY SessionConstants
    <2> QED BY <2>1 DEF SessionRecords, Restarted
  <1>6. Aged(s) \in SessionRecords /\ Aged(s).from = s.from
    <2>1. /\ Older(s.age, SessionTTL) \in 0 .. SessionTTL
          /\ Older(s.idle, Inactivity) \in 0 .. Inactivity
          /\ Older(s.window, QuotaWindow) \in 0 .. QuotaWindow
        BY <1>2, OlderWithin, SessionConstants
    <2> QED BY <2>1 DEF SessionRecords, Aged
  <1>7. ASSUME s.writes + 1 <= WritesPerMinute, s.bytes + 1 <= BytesPerMinute
        PROVE  Charged(s) \in SessionRecords /\ Charged(s).from = s.from
    <2>1. s.writes + 1 \in 0 .. WritesPerMinute /\ s.bytes + 1 \in 0 .. BytesPerMinute
        BY <1>2, <1>7, SessionConstants
    <2> QED BY <2>1 DEF SessionRecords, Charged
  <1> QED BY <1>1, <1>3, <1>4, <1>5, <1>6, <1>7

\* What happens to one token.
LEMMA TokenChanges ==
    /\ Spent \in TokenRecords /\ Spent.state = "spent"
    /\ [state |-> "pending", age |-> 0] \in TokenRecords
    /\ \A k \in TokenRecords :
          LET f == [k EXCEPT !.age = Older(@, BootstrapTTL)]
          IN  f \in TokenRecords /\ f.state = k.state
  <1>1. /\ Spent \in TokenRecords /\ Spent.state = "spent"
        /\ [state |-> "pending", age |-> 0] \in TokenRecords
      BY SessionConstants DEF Spent, TokenRecords
  <1>2. ASSUME NEW k \in TokenRecords
        PROVE  LET f == [k EXCEPT !.age = Older(@, BootstrapTTL)]
               IN  f \in TokenRecords /\ f.state = k.state
    <2>1. Older(k.age, BootstrapTTL) \in 0 .. BootstrapTTL
        BY OlderWithin, SessionConstants DEF TokenRecords
    <2> QED BY <2>1 DEF TokenRecords
  <1> QED BY <1>1, <1>2

-----------------------------------------------------------------------------
(* The session store: one step *)

\* A step of the store that opens no session.
KeepsFrom == \A i \in Ids : sessions'[i].from = sessions[i].from
SpendsOnly == \A t \in Tokens : tokens'[t].state = "pending" => tokens[t].state = "pending"

\* A token that is good stays so, unless the process ends.
KeepsGood ==
    \/ \A t \in Tokens : Exchangeable(t) => tokens'[t].state = "pending"
    \/ \A i \in Ids : sessions'[i].state # "open"

Quiet == SessionsTypeOK' /\ KeepsFrom /\ SpendsOnly /\ KeepsGood

\* The methods that open no session.
QuietStep ==
    \/ \E t \in Tokens : ExchangeFull(t) \/ ExchangeRefused(t)
    \/ \E i \in Ids : Found(i) \/ NotFound(i) \/ Allowed(i, 1) \/ Refused(i, 1)
    \/ Reap \/ Clear \/ SessionsTick \/ UNCHANGED sessionVars

\* Eviction keeps the table a table.
LEMMA EvictedFacts ==
    SessionsTypeOK =>
        /\ Evicted \in [Ids -> SessionRecords]
        /\ \A i \in Ids : Evicted[i].from = sessions[i].from
  <1> SUFFICES ASSUME SessionsTypeOK, NEW i \in Ids
               PROVE  Evicted[i] \in SessionRecords /\ Evicted[i].from = sessions[i].from
      BY DEF Evicted
  <1>1. sessions[i] \in SessionRecords
      BY DEF SessionsTypeOK
  <1> QED BY <1>1, SessionChanges DEF Evicted

\* Counting changes only the counters.
LEMMA CountedFacts ==
    ASSUME SessionsTypeOK, NEW i \in Ids
    PROVE  Counted(i) \in SessionRecords /\ Counted(i).from = sessions[i].from
  <1>1. sessions[i] \in SessionRecords
      BY DEF SessionsTypeOK
  <1> QED BY <1>1, SessionChanges DEF Counted, Restarted

\* Every method but Exchange opens no session and spends no good token.
LEMMA QuietSteps == SessionsTypeOK /\ QuietStep => Quiet
  <1> SUFFICES ASSUME SessionsTypeOK, QuietStep PROVE Quiet
      OBVIOUS
  <1> USE DEF Quiet, KeepsFrom, SpendsOnly, KeepsGood
  <1>0. /\ tokens \in [Tokens -> TokenRecords] /\ sessions \in [Ids -> SessionRecords]
        /\ \A i \in Ids : sessions[i] \in SessionRecords
      BY DEF SessionsTypeOK
  <1>1. ASSUME NEW t \in Tokens, ExchangeFull(t) PROVE Quiet
      BY <1>0, <1>1, EvictedFacts DEF ExchangeFull, Exchangeable, SessionsTypeOK
  <1>2. ASSUME NEW t \in Tokens, ExchangeRefused(t) PROVE Quiet
      BY <1>0, <1>2, TokenChanges DEF ExchangeRefused, Exchangeable, SessionsTypeOK
  <1>3. ASSUME NEW i \in Ids, Found(i) PROVE Quiet
    <2>1. sessions' = [sessions EXCEPT ![i] = Seen(sessions[i])] /\ tokens' = tokens
        BY <1>0, <1>3 DEF Found, Seen
    <2>2. Seen(sessions[i]) \in SessionRecords /\ Seen(sessions[i]).from = sessions[i].from
        BY <1>0, SessionChanges
    <2> QED BY <1>0, <2>1, <2>2 DEF SessionsTypeOK, Exchangeable
  <1>4. ASSUME NEW i \in Ids, NotFound(i) PROVE Quiet
    <2>1. Gone(sessions[i]) \in SessionRecords /\ Gone(sessions[i]).from = sessions[i].from
        BY <1>0, SessionChanges
    <2> QED BY <1>0, <1>4, <2>1 DEF NotFound, SessionsTypeOK, Exchangeable
  <1>5. ASSUME NEW i \in Ids, Allowed(i, 1) PROVE Quiet
    <2>1. /\ Counted(i) \in SessionRecords /\ Counted(i).from = sessions[i].from
          /\ Counted(i).writes + 1 <= WritesPerMinute /\ Counted(i).bytes + 1 <= BytesPerMinute
        BY <1>5, CountedFacts DEF Allowed, WithinQuota
    <2>2. Charged(Counted(i)) \in SessionRecords /\ Charged(Counted(i)).from = sessions[i].from
        BY <2>1, SessionChanges
    <2>3. /\ tokens' = tokens
          /\ \/ sessions' = [sessions EXCEPT ![i] = Charged(Counted(i))]
             \/ sessions' = sessions
        BY <1>5 DEF Allowed, Charged
    <2> QED BY <1>0, <2>2, <2>3 DEF SessionsTypeOK, Exchangeable
  <1>6. ASSUME NEW i \in Ids, Refused(i, 1) PROVE Quiet
    <2>1. Counted(i) \in SessionRecords /\ Counted(i).from = sessions[i].from
        BY CountedFacts
    <2>2. /\ tokens' = tokens
          /\ sessions' = [sessions EXCEPT ![i] = Counted(i)] \/ sessions' = sessions
        BY <1>6 DEF Refused
    <2> QED BY <1>0, <2>1, <2>2 DEF SessionsTypeOK, Exchangeable
  <1>7. CASE Reap
      BY <1>0, <1>7, EvictedFacts, TokenChanges DEF Reap, Exchangeable, SessionsTypeOK
  <1>8. CASE Clear
    <2>1. ASSUME NEW i \in Ids
          PROVE  /\ sessions'[i] \in SessionRecords /\ sessions'[i].from = sessions[i].from
                 /\ sessions'[i].state # "open"
        BY <1>0, <1>8, SessionChanges DEF Clear, IsOpen
    <2>2. sessions' \in [Ids -> SessionRecords]
        BY <1>8, <2>1 DEF Clear
    <2>3. tokens' \in [Tokens -> TokenRecords] /\ \A t \in Tokens : tokens'[t].state = "spent"
        BY <1>8, TokenChanges DEF Clear
    <2> QED BY <2>1, <2>2, <2>3 DEF SessionsTypeOK
  <1>9. CASE SessionsTick
    <2>1. ASSUME NEW i \in Ids
          PROVE  sessions'[i] \in SessionRecords /\ sessions'[i].from = sessions[i].from
      <3>1. sessions'[i] = Aged(sessions[i]) \/ sessions'[i] = sessions[i]
          BY <1>9 DEF SessionsTick, Aged
      <3> QED BY <1>0, <3>1, SessionChanges
    <2>2. sessions' \in [Ids -> SessionRecords]
        BY <1>9, <2>1 DEF SessionsTick
    <2>3. ASSUME NEW t \in Tokens
          PROVE  tokens'[t] \in TokenRecords /\ tokens'[t].state = tokens[t].state
        BY <1>0, <1>9, TokenChanges DEF SessionsTick
    <2>4. tokens' \in [Tokens -> TokenRecords]
        BY <1>9, <2>3 DEF SessionsTick
    <2> QED BY <2>1, <2>2, <2>3, <2>4 DEF SessionsTypeOK, Exchangeable
  <1>10. CASE UNCHANGED sessionVars
      BY <1>0, <1>10 DEF sessionVars, SessionsTypeOK, Exchangeable
  <1> QED BY <1>1, <1>2, <1>3, <1>4, <1>5, <1>6, <1>7, <1>8, <1>9, <1>10 DEF QuietStep

\* A quiet step keeps every token's use single.
LEMMA QuietKeepsSingleUse == SessionsTypeOK /\ SingleUse /\ Quiet => SingleUse'
  <1> SUFFICES ASSUME SessionsTypeOK, SingleUse, Quiet PROVE SingleUse'
      OBVIOUS
  <1>1. \A i \in Ids : sessions[i].from \in Tokens \cup {NoToken}
      BY SessionChanges DEF SessionsTypeOK
  <1> QED BY <1>1 DEF Quiet, KeepsFrom, SpendsOnly, SingleUse

\* Exchange gives the new session a token no session has, and spends it.
LEMMA ExchangeStep ==
    ASSUME SessionsTypeOK, SingleUse, NEW t \in Tokens, Exchange(t)
    PROVE  /\ SessionsTypeOK' /\ SingleUse'
           /\ NextId \in FreshIds /\ sessions'[NextId].state = "open" /\ sessions'[NextId].from = t
           /\ \A u \in Tokens \ {t} : tokens'[u] = tokens[u]
  <1>1. NextId \in FreshIds /\ NextId \in Ids
      BY DEF Exchange, NextId, FreshIds
  <1>2. tokens \in [Tokens -> TokenRecords] /\ sessions \in [Ids -> SessionRecords]
      BY DEF SessionsTypeOK
  <1>3. tokens' = [tokens EXCEPT ![t] = Spent] /\ tokens[t].state = "pending"
      BY DEF Exchange, Exchangeable
  <1>4. sessions' = [Evicted EXCEPT ![NextId] = Opened(t)]
      BY DEF Exchange
  <1>5. /\ sessions'[NextId] = Opened(t)
        /\ \A i \in Ids \ {NextId} : sessions'[i] = Evicted[i]
      BY <1>1, <1>4, EvictedFacts
  <1>6. SessionsTypeOK'
      BY <1>1, <1>2, <1>3, <1>4, EvictedFacts, OpenedFacts, TokenChanges DEF SessionsTypeOK
  <1>7. \A i \in Ids : sessions[i].from # t
      BY <1>3, NoTokenIsNone DEF SingleUse
  <1>8. /\ sessions'[NextId].from = t
        /\ \A i \in Ids \ {NextId} : sessions'[i].from = sessions[i].from
      BY <1>5, EvictedFacts, OpenedFacts
  <1>9. /\ tokens'[t].state = "spent"
        /\ \A u \in Tokens \ {t} : tokens'[u] = tokens[u]
      BY <1>2, <1>3, TokenChanges
  <1>10. \A i \in Ids : sessions[i].from \in Tokens \cup {NoToken}
      BY <1>2, SessionChanges
  <1>11. SingleUse'
      BY <1>1, <1>7, <1>8, <1>9, <1>10 DEF SingleUse
  <1> QED BY <1>1, <1>5, <1>6, <1>9, <1>11, OpenedFacts

\* A new store is a store whose tokens nobody used.
LEMMA FreshStep ==
    ASSUME NEW k, NEW s,
           k = [t \in Tokens |-> [state |-> "pending", age |-> 0]], s = [i \in Ids |-> Unborn]
    PROVE  /\ k \in [Tokens -> TokenRecords] /\ s \in [Ids -> SessionRecords]
           /\ \A t \in Tokens : k[t].state = "pending"
           /\ \A i \in Ids : s[i].from = NoToken /\ s[i].state = "unborn"
  BY TokenChanges, OpenedFacts

-----------------------------------------------------------------------------
(* The inductive invariant *)

\* Past authentication a request has a session's name; a request that installs
\* the settings holds the lock and has a document; a process that is down has
\* no requests.
ReqInv ==
    /\ \A r \in Slots : req[r].pc \in {"work", "lock", "install", "record"} => req[r].who \in Ids
    /\ \A r \in Slots : req[r].pc = "install" =>
          lock = r /\ req[r].key \in Keys /\ req[r].doc \in Doc
    /\ ~up => \A r \in Slots : req[r] = Free

\* One request in flight per marked session, and none recorded before it.
UpdateInv ==
    /\ UpdateRecordedOnce
    /\ up => \A i \in Ids \ updateUsed : recorded[i] = 0
    /\ \A r \in Slots : req[r].pc = "record" =>
          req[r].who \in updateUsed /\ recorded[req[r].who] = 0
    /\ \A r, s \in Slots : req[r].pc = "record" /\ req[s].pc = "record" /\ req[r].who = req[s].who
          => r = s
    /\ ~up => updateUsed = {}

\* What is readable, and what the one request that merges is about to make
\* readable, is no older than what was answered and older than what is next;
\* that request's document is what is readable but for its own key.
DocInv ==
    /\ SettingsKept
    /\ \A k \in Keys : ReadableSettings[k] < nextVer /\ acked[k] < nextVer
    /\ \A r \in Slots : req[r].pc = "install" =>
          /\ ~Present(settings)
          /\ \A k \in Keys : req[r].doc[k] >= acked[k] /\ req[r].doc[k] < nextVer
          /\ req[r].doc[req[r].key] > ReadableSettings[req[r].key]
          /\ \A k \in Keys \ {req[r].key} : req[r].doc[k] = ReadableSettings[k]

DataApiInv == TypeOK /\ ReqInv /\ SingleUse /\ SessionsBounded /\ UpdateInv /\ DocInv

-----------------------------------------------------------------------------
(* Requests and documents *)

\* How a request changes.
At(q, pc) == [q EXCEPT !.pc = pc]
Sent(w) == [Free EXCEPT !.pc = "auth", !.who = w]
Merging(q, k, d) == [q EXCEPT !.pc = "install", !.key = k, !.doc = d]

\* A changed request is a request.
LEMMA RequestFacts ==
    /\ Free \in Requests /\ Free.pc = "free"
    /\ \A w \in Ids \cup Tokens : Sent(w) \in Requests /\ Sent(w).pc = "auth" /\ Sent(w).who = w
    /\ \A q \in Requests, pc \in Pcs :
          /\ At(q, pc) \in Requests /\ At(q, pc).pc = pc /\ At(q, pc).who = q.who
    /\ \A q \in Requests, k \in Keys, d \in Doc :
          LET m == Merging(q, k, d)
          IN  m \in Requests /\ m.pc = "install" /\ m.who = q.who /\ m.key = k /\ m.doc = d
  <1>1. Free \in Requests /\ Free.pc = "free"
      BY DEF Free, Requests, Pcs
  <1>2. ASSUME NEW w \in Ids \cup Tokens
        PROVE  Sent(w) \in Requests /\ Sent(w).pc = "auth" /\ Sent(w).who = w
      BY <1>1 DEF Requests, Sent, Pcs
  <1>3. ASSUME NEW q \in Requests, NEW pc \in Pcs
        PROVE  At(q, pc) \in Requests /\ At(q, pc).pc = pc /\ At(q, pc).who = q.who
      BY DEF Requests, At
  <1>4. ASSUME NEW q \in Requests, NEW k \in Keys, NEW d \in Doc
        PROVE  LET m == Merging(q, k, d)
               IN  m \in Requests /\ m.pc = "install" /\ m.who = q.who /\ m.key = k /\ m.doc = d
      BY DEF Requests, Merging, Pcs
  <1> QED BY <1>1, <1>2, <1>3, <1>4

\* A request that is answered is free, and no other changes.
LEMMA Replied ==
    ASSUME req \in [Slots -> Requests], NEW r \in Slots, Reply(r)
    PROVE  /\ req' \in [Slots -> Requests] /\ req'[r] = Free /\ req'[r].pc = "free"
           /\ \A s \in Slots \ {r} : req'[s] = req[s]
  BY RequestFacts DEF Reply

\* A request that goes on keeps what it asks for, and no other changes.
LEMMA Stepped ==
    ASSUME req \in [Slots -> Requests], NEW r \in Slots, NEW pc \in Pcs, Step(r, pc)
    PROVE  /\ req' \in [Slots -> Requests] /\ req'[r].pc = pc /\ req'[r].who = req[r].who
           /\ \A s \in Slots \ {r} : req'[s] = req[s]
  <1>1. req' = [req EXCEPT ![r] = At(req[r], pc)]
      BY DEF Step, At
  <1>2. At(req[r], pc) \in Requests /\ At(req[r], pc).pc = pc /\ At(req[r], pc).who = req[r].who
      BY RequestFacts
  <1> QED BY <1>1, <1>2

\* The program counters the actions give.
LEMMA PcFacts == {"free", "auth", "work", "lock", "install", "record"} \subseteq Pcs
  BY DEF Pcs

\* A document, if there is any key to have, is not an absent one; what is read
\* is a document.
LEMMA DocFacts ==
    /\ Empty \in Doc
    /\ \A k \in Keys, d \in Doc : Present(d)
    /\ \A k \in Keys, d \in Doc, v \in Vers :
          /\ [d EXCEPT ![k] = v] \in Doc /\ [d EXCEPT ![k] = v][k] = v
          /\ \A j \in Keys \ {k} : [d EXCEPT ![k] = v][j] = d[j]
    /\ ~Present(NoDoc)
    /\ settings \in Doc \cup {NoDoc} /\ settingsBak \in Doc \cup {NoDoc} => ReadableSettings \in Doc
  <1>1. Empty \in Doc
      BY DataApiConstants DEF Empty, Doc, Vers
  <1>2. ASSUME NEW k \in Keys, NEW d \in Doc PROVE Present(d)
    <2>1. k \in DOMAIN d
        BY DEF Doc
    <2>2. k \notin DOMAIN NoDoc
        BY DEF NoDoc
    <2> QED BY <2>1, <2>2 DEF Present
  <1>3. ASSUME NEW k \in Keys, NEW d \in Doc, NEW v \in Vers
        PROVE  /\ [d EXCEPT ![k] = v] \in Doc /\ [d EXCEPT ![k] = v][k] = v
               /\ \A j \in Keys \ {k} : [d EXCEPT ![k] = v][j] = d[j]
      BY DEF Doc
  <1> QED BY <1>1, <1>2, <1>3 DEF ReadableSettings, Present

-----------------------------------------------------------------------------
(* The sessions *)

\* What a step may do to the tokens and to the sessions they opened.
Stored ==
    /\ SessionsTypeOK' /\ SingleUse'
    /\ \A t \in Tokens :
          Exchangeable(t) /\ tokens'[t].state # "pending"
             => \/ \E i \in FreshIds : sessions'[i].state = "open" /\ sessions'[i].from = t
                \/ \A i \in Ids : sessions'[i].state # "open"

\* Every action of the API is one call of the store, or none.
LEMMA StoreCalls ==
    ReqInv /\ [Next]_vars => QuietStep \/ (\E t \in Tokens : Exchange(t)) \/ FreshAgain
  <1> SUFFICES ASSUME ReqInv, [Next]_vars
               PROVE  QuietStep \/ (\E t \in Tokens : Exchange(t)) \/ FreshAgain
      OBVIOUS
  <1>1. ASSUME NEW r \in Slots, NEW who \in Ids \cup Tokens, Arrive(r, who) PROVE QuietStep
      BY <1>1 DEF Arrive, QuietStep
  <1>2. ASSUME NEW r \in Slots, ExchangeToken(r)
        PROVE  QuietStep \/ \E t \in Tokens : Exchange(t)
    <2> DEFINE t == req[r].who
    <2>1. t \in Tokens /\ (Exchange(t) \/ ExchangeFull(t) \/ ExchangeRefused(t))
        BY <1>2 DEF ExchangeToken
    <2> HIDE DEF t
    <2> QED BY <2>1 DEF QuietStep
  <1>3. ASSUME NEW r \in Slots, Authenticate(r) PROVE QuietStep
    <2> DEFINE i == req[r].who
    <2>1. i \in Ids /\ (Found(i) \/ NotFound(i))
        BY <1>3 DEF Authenticate
    <2> HIDE DEF i
    <2> QED BY <2>1 DEF QuietStep
  <1>4. ASSUME NEW r \in Slots, Save(r) \/ ConfigQuota(r) PROVE QuietStep
    <2> DEFINE i == req[r].who
    <2>1. i \in Ids /\ (Refused(i, 1) \/ Allowed(i, 1))
        BY <1>4 DEF Save, ConfigQuota, ReqInv, Working
    <2> HIDE DEF i
    <2> QED BY <2>1 DEF QuietStep
  <1>5. ASSUME NEW r \in Slots, Reject(r) \/ ClaimUpdate(r) \/ RecordUpdate(r) \/ Panic(r)
        PROVE  QuietStep
      BY <1>5 DEF Reject, ClaimUpdate, RecordUpdate, Panic, QuietStep
  <1>6. ASSUME NEW r \in Slots, (\E key \in Keys : Rotate(r, key)) \/ Install(r)
        PROVE  QuietStep
      BY <1>6 DEF Rotate, Install, QuietStep
  <1>7. ReapSessions \/ End \/ Tick \/ UNCHANGED vars => QuietStep
      BY DEF ReapSessions, End, Tick, vars, QuietStep
  <1>8. Start => FreshAgain
      BY DEF Start
  <1> QED BY <1>1, <1>2, <1>3, <1>4, <1>5, <1>6, <1>7, <1>8 DEF Next, Handler

\* So every action keeps the uses of a token single.
LEMMA SessionsNext == TypeOK /\ ReqInv /\ SingleUse /\ [Next]_vars => Stored
  <1> SUFFICES ASSUME TypeOK, ReqInv, SingleUse, [Next]_vars PROVE Stored
      OBVIOUS
  <1>0. SessionsTypeOK
      BY DEF TypeOK
  <1>1. CASE QuietStep
      BY <1>0, <1>1, QuietSteps, QuietKeepsSingleUse DEF Quiet, KeepsGood, Stored
  <1>2. ASSUME NEW t \in Tokens, Exchange(t) PROVE Stored
      BY <1>0, <1>2, ExchangeStep DEF Stored, Exchangeable
  <1>3. CASE FreshAgain
    <2> DEFINE fresh == [t \in Tokens |-> [state |-> "pending", age |-> 0]]
               table == [i \in Ids |-> Unborn]
    <2>1. tokens' = fresh /\ sessions' = table
        BY <1>3 DEF FreshAgain
    <2>2. /\ fresh \in [Tokens -> TokenRecords] /\ table \in [Ids -> SessionRecords]
          /\ \A t \in Tokens : fresh[t].state = "pending"
          /\ \A i \in Ids : table[i].from = NoToken /\ table[i].state = "unborn"
        BY FreshStep
    <2> HIDE DEF fresh, table
    <2> QED BY <2>1, <2>2 DEF Stored, SessionsTypeOK, SingleUse
  <1> QED BY <1>1, <1>2, <1>3, StoreCalls

-----------------------------------------------------------------------------
(* The bound on the session table *)

Open == {i \in Ids : IsOpen(i)}

\* No method but Gone changes whether a session is open.
LEMMA StateKept ==
    ASSUME NEW s \in SessionRecords
    PROVE  /\ Seen(s).state = s.state /\ Restarted(s).state = s.state
           /\ Charged(s).state = s.state /\ Aged(s).state = s.state
  BY DEF SessionRecords, Seen, Restarted, Charged, Aged

\* A set of sessions has a size, and a part of it has no larger one.
LEMMA OpenSizes ==
    /\ \A S \in SUBSET Ids : IsFiniteSet(S) /\ Cardinality(S) \in Nat
    /\ \A S, T \in SUBSET Ids : S \subseteq T => Cardinality(S) <= Cardinality(T)
  <1>1. \A S \in SUBSET Ids : IsFiniteSet(S) /\ Cardinality(S) \in Nat
      BY SessionConstants, FS_Subset, FS_CardinalityType
  <1> QED BY <1>1, FS_Subset

\* Only Exchange opens a session.
LEMMA QuietOpensNone == SessionsTypeOK /\ QuietStep => Open' \subseteq Open
  <1> SUFFICES ASSUME SessionsTypeOK, QuietStep, NEW j \in Ids, sessions'[j].state = "open"
               PROVE  sessions[j].state = "open"
      BY DEF Open, IsOpen
  <1>0. /\ sessions \in [Ids -> SessionRecords]
        /\ \A i \in Ids : sessions[i] \in SessionRecords /\ Gone(sessions[i]).state = "gone"
      BY SessionChanges DEF SessionsTypeOK
  <1>1. CASE (\E t \in Tokens : ExchangeFull(t)) \/ Reap
      BY <1>0, <1>1 DEF ExchangeFull, Reap, Evicted
  <1>2. CASE (\E t \in Tokens : ExchangeRefused(t)) \/ UNCHANGED sessionVars
      BY <1>2 DEF ExchangeRefused, sessionVars
  <1>3. ASSUME NEW i \in Ids, Found(i) PROVE sessions[j].state = "open"
    <2>1. sessions' = [sessions EXCEPT ![i] = Seen(sessions[i])]
        BY <1>0, <1>3 DEF Found, Seen
    <2> QED BY <1>0, <2>1, StateKept
  <1>4. ASSUME NEW i \in Ids, NotFound(i) PROVE sessions[j].state = "open"
      BY <1>0, <1>4 DEF NotFound
  <1>5. ASSUME NEW i \in Ids, Allowed(i, 1) \/ Refused(i, 1) PROVE sessions[j].state = "open"
    <2>1. \/ sessions' = [sessions EXCEPT ![i] = Charged(Counted(i))]
          \/ sessions' = [sessions EXCEPT ![i] = Counted(i)]
          \/ sessions' = sessions
        BY <1>5 DEF Allowed, Refused, Charged
    <2>2. Counted(i) \in SessionRecords /\ Counted(i).state = sessions[i].state
        BY <1>0, StateKept, CountedFacts DEF Counted, Restarted
    <2> QED BY <1>0, <2>1, <2>2, StateKept
  <1>6. CASE Clear
      BY <1>0, <1>6 DEF Clear, IsOpen
  <1>7. CASE SessionsTick
    <2>1. sessions'[j] = Aged(sessions[j]) \/ sessions'[j] = sessions[j]
        BY <1>7 DEF SessionsTick, Aged
    <2> QED BY <1>0, <2>1, StateKept
  <1> QED BY <1>1, <1>2, <1>3, <1>4, <1>5, <1>6, <1>7 DEF QuietStep

\* Exchange adds one session to the live ones, of which there are too few.
LEMMA ExchangeOpensOne ==
    ASSUME SessionsTypeOK, NEW t \in Tokens, Exchange(t)
    PROVE  Cardinality(Open') <= MaxSessions
  <1>1. /\ Live \in SUBSET Ids /\ IsFiniteSet(Live) /\ Cardinality(Live) \in Nat
        /\ Cardinality(Live) < MaxSessions /\ MaxSessions \in Nat
      BY OpenSizes, SessionConstants DEF Live, Exchange
  <1>2. NextId \in Ids
      BY DEF Exchange, NextId, FreshIds
  <1>3. ASSUME NEW i \in Ids \ {NextId}, sessions'[i].state = "open" PROVE i \in Live
    <2>1. sessions'[i] = Evicted[i]
        BY <1>2, EvictedFacts DEF Exchange
    <2>2. Gone(sessions[i]).state = "gone"
        BY SessionChanges DEF SessionsTypeOK
    <2> QED BY <1>3, <2>1, <2>2 DEF Evicted, Live, IsOpen
  <1>4. Open' \subseteq Live \cup {NextId}
      BY <1>3 DEF Open, IsOpen
  <1>5. /\ Live \cup {NextId} \in SUBSET Ids /\ Open' \in SUBSET Ids
        /\ Cardinality(Live \cup {NextId}) <= Cardinality(Live) + 1
      BY <1>1, <1>2, FS_AddElement DEF Open
  <1>6. Cardinality(Open') <= Cardinality(Live \cup {NextId})
      BY <1>4, <1>5, OpenSizes
  <1> QED BY <1>1, <1>5, <1>6, OpenSizes

\* So the table stays within its bound.
LEMMA BoundedNext ==
    TypeOK /\ ReqInv /\ SessionsBounded /\ [Next]_vars => SessionsBounded'
  <1> SUFFICES ASSUME TypeOK, ReqInv, SessionsBounded, [Next]_vars
               PROVE  Cardinality(Open') <= MaxSessions
      BY DEF SessionsBounded, Open
  <1>0. SessionsTypeOK /\ Cardinality(Open) <= MaxSessions /\ MaxSessions \in Nat
      BY SessionConstants DEF TypeOK, SessionsBounded, Open
  <1>1. Open \in SUBSET Ids /\ Open' \in SUBSET Ids
      BY DEF Open
  <1>2. CASE QuietStep
    <2>1. Cardinality(Open') <= Cardinality(Open)
        BY <1>0, <1>1, <1>2, QuietOpensNone, OpenSizes
    <2> QED BY <1>0, <1>1, <2>1, OpenSizes
  <1>3. ASSUME NEW t \in Tokens, Exchange(t) PROVE Cardinality(Open') <= MaxSessions
      BY <1>0, <1>3, ExchangeOpensOne
  <1>4. CASE FreshAgain
    <2>1. Open' = {}
        BY <1>4 DEF FreshAgain, Open, IsOpen, Unborn
    <2> QED BY <1>0, <2>1, FS_EmptySet
  <1> QED BY <1>2, <1>3, <1>4, StoreCalls

-----------------------------------------------------------------------------
(* Types and requests *)

\* A new process has its types.
LEMMA TypesInit == Init => TypeOK /\ ReqInv /\ SingleUse
  <1> SUFFICES ASSUME Init PROVE TypeOK /\ ReqInv /\ SingleUse
      OBVIOUS
  <1>1. /\ tokens \in [Tokens -> TokenRecords] /\ sessions \in [Ids -> SessionRecords]
        /\ \A t \in Tokens : tokens[t].state = "pending"
        /\ \A i \in Ids : sessions[i].from = NoToken /\ sessions[i].state = "unborn"
      BY FreshStep DEF Init, Fresh
  <1>2. SessionsTypeOK /\ SingleUse
      BY <1>1, NoTokenIsNone DEF SessionsTypeOK, SingleUse
  <1>3. req \in [Slots -> Requests] /\ \A r \in Slots : req[r].pc = "free"
      BY RequestFacts DEF Init
  <1>4. ReqInv
      BY <1>3 DEF Init, ReqInv
  <1>5. nextVer \in 1 .. MaxMerges + 1
      BY DataApiConstants DEF Init
  <1>6. acked \in Doc /\ recorded \in [Ids -> Nat]
      BY DocFacts DEF Init
  <1> QED BY <1>2, <1>3, <1>4, <1>5, <1>6 DEF Init, TypeOK

\* Every action keeps the types.
LEMMA TypesNext == TypeOK /\ ReqInv /\ SingleUse /\ [Next]_vars => (TypeOK /\ ReqInv)'
  <1> SUFFICES ASSUME TypeOK, ReqInv, SingleUse, [Next]_vars PROVE (TypeOK /\ ReqInv)'
      OBVIOUS
  <1> USE DEF TypeOK, ReqInv, dataVars, updateVars
  <1>0. SessionsTypeOK'
      BY SessionsNext DEF Stored
  <1>1. ASSUME NEW r \in Slots, NEW who \in Ids \cup Tokens, Arrive(r, who) PROVE (TypeOK /\ ReqInv)'
    <2>1. req' = [req EXCEPT ![r] = Sent(who)]
        BY <1>0, <1>1 DEF Arrive, Sent
    <2>2. /\ req' \in [Slots -> Requests] /\ req'[r].pc = "auth"
          /\ \A s \in Slots \ {r} : req'[s] = req[s]
        BY <2>1, RequestFacts
    <2> QED BY <1>0, <1>1, <2>2 DEF Arrive
  <1>2. ASSUME NEW r \in Slots, Reject(r) PROVE (TypeOK /\ ReqInv)'
      BY <1>0, <1>2, Replied DEF Reject
  <1>3. ASSUME NEW r \in Slots, ExchangeToken(r) PROVE (TypeOK /\ ReqInv)'
      BY <1>0, <1>3, Replied DEF ExchangeToken
  <1>4. ASSUME NEW r \in Slots, Authenticate(r) PROVE (TypeOK /\ ReqInv)'
    <2>1. up /\ req[r].who \in Ids /\ UNCHANGED <<up, lock, settings, settingsBak, nextVer, acked>>
        BY <1>0, <1>4, RequestFacts DEF Authenticate, Working
    <2>2. CASE Step(r, "work")
        BY <1>0, <1>4, <2>1, <2>2, Stepped, PcFacts DEF Authenticate
    <2>3. CASE Reply(r)
        BY <1>0, <1>4, <2>1, <2>3, Replied DEF Authenticate
    <2> QED BY <1>0, <1>4, <2>2, <2>3 DEF Authenticate
  <1>5. ASSUME NEW r \in Slots, Save(r) PROVE (TypeOK /\ ReqInv)'
      BY <1>0, <1>5, Replied DEF Save
  <1>6. ASSUME NEW r \in Slots, ClaimUpdate(r) PROVE (TypeOK /\ ReqInv)'
    <2>1. up /\ req[r].who \in Ids /\ updateUsed' \subseteq Ids
        BY <1>0, <1>6, RequestFacts DEF ClaimUpdate, Working
    <2>2. CASE Step(r, "record")
        BY <1>0, <1>6, <2>1, <2>2, Stepped, PcFacts DEF ClaimUpdate
    <2>3. CASE Reply(r)
        BY <1>0, <1>6, <2>1, <2>3, Replied DEF ClaimUpdate
    <2> QED BY <1>0, <1>6, <2>2, <2>3 DEF ClaimUpdate
  <1>7. ASSUME NEW r \in Slots, RecordUpdate(r) PROVE (TypeOK /\ ReqInv)'
    <2>1. req[r].who \in Ids /\ Reply(r)
        BY <1>0, <1>7 DEF RecordUpdate
    <2>2. recorded' \in [Ids -> Nat]
        BY <1>0, <1>7, <2>1 DEF RecordUpdate
    <2> QED BY <1>0, <1>7, <2>1, <2>2, Replied DEF RecordUpdate
  <1>8. ASSUME NEW r \in Slots, ConfigQuota(r) PROVE (TypeOK /\ ReqInv)'
    <2>1. up /\ req[r].who \in Ids /\ UNCHANGED <<up, lock, settings, settingsBak, nextVer, acked>>
        BY <1>0, <1>8, RequestFacts DEF ConfigQuota, Working
    <2>2. CASE Step(r, "lock")
        BY <1>0, <1>8, <2>1, <2>2, Stepped, PcFacts DEF ConfigQuota
    <2>3. CASE Reply(r)
        BY <1>0, <1>8, <2>1, <2>3, Replied DEF ConfigQuota
    <2> QED BY <1>0, <1>8, <2>2, <2>3 DEF ConfigQuota
  <1>9. ASSUME NEW r \in Slots, NEW key \in Keys, Rotate(r, key) PROVE (TypeOK /\ ReqInv)'
    <2>1. CASE Reply(r) /\ UNCHANGED <<nextVer, lock, settings, settingsBak>>
        BY <1>0, <1>9, <2>1, Replied DEF Rotate
    <2>2. CASE ~Reply(r) \/ ~UNCHANGED <<nextVer, lock, settings, settingsBak>>
      <3> DEFINE d == [ReadableSettings EXCEPT ![key] = nextVer]
      <3>1. /\ nextVer <= MaxMerges /\ nextVer' = nextVer + 1 /\ lock' = r /\ lock = None
            /\ req[r].pc = "lock"
            /\ req' = [req EXCEPT ![r] = Merging(req[r], key, d)]
            /\ settings' = NoDoc /\ settingsBak' \in {settings, settingsBak}
            /\ UNCHANGED <<up, acked, updateUsed, recorded>>
          BY <1>0, <1>9, <2>2 DEF Rotate, Merging
      <3>2. nextVer \in Vers /\ nextVer' \in 1 .. MaxMerges + 1
          BY <3>1, DataApiConstants DEF Vers
      <3>3. d \in Doc
          BY <3>2, DocFacts
      <3> HIDE DEF d
      <3>4. /\ Merging(req[r], key, d) \in Requests /\ Merging(req[r], key, d).pc = "install"
            /\ Merging(req[r], key, d).who = req[r].who
            /\ Merging(req[r], key, d).key = key /\ Merging(req[r], key, d).doc = d
          BY <3>3, RequestFacts
      <3>5. /\ req' \in [Slots -> Requests] /\ req'[r] = Merging(req[r], key, d)
            /\ \A s \in Slots \ {r} : req'[s] = req[s]
          BY <3>1, <3>4
      <3>6. \A s \in Slots : req[s].pc # "install"
          BY <3>1, NoneIsNoSlot
      <3>7. up
          BY <3>1, RequestFacts
      <3> QED BY <1>0, <3>1, <3>2, <3>3, <3>4, <3>5, <3>6, <3>7
    <2> QED BY <2>1, <2>2
  <1>10. ASSUME NEW r \in Slots, Install(r) PROVE (TypeOK /\ ReqInv)'
    <2>1. Reply(r) /\ req[r].pc = "install" /\ req[r].key \in Keys /\ req[r].doc \in Doc
        BY <1>0, <1>10 DEF Install
    <2>2. req[r].doc[req[r].key] \in Vers
        BY <2>1 DEF Doc
    <2>3. acked' \in Doc /\ settings' \in Doc \cup {NoDoc}
        BY <1>0, <1>10, <2>1, <2>2, DocFacts DEF Install
    <2>4. \A s \in Slots \ {r} : req[s].pc # "install"
        BY <2>1
    <2> QED BY <1>0, <1>10, <2>1, <2>3, <2>4, Replied DEF Install
  <1>11. ASSUME NEW r \in Slots, Panic(r) PROVE (TypeOK /\ ReqInv)'
      BY <1>0, <1>11, Replied DEF Panic
  <1>12. CASE ReapSessions
      BY <1>0, <1>12 DEF ReapSessions
  <1>13. CASE End
      BY <1>0, <1>13, RequestFacts DEF End
  <1>14. CASE Start
    <2>1. recorded' \in [Ids -> Nat] /\ \A r \in Slots : req[r].pc = "free"
        BY <1>0, <1>14, RequestFacts DEF Start
    <2> QED BY <1>0, <1>14, <2>1 DEF Start
  <1>15. CASE Tick
      BY <1>0, <1>15 DEF Tick
  <1>16. CASE UNCHANGED vars
      BY <1>0, <1>16 DEF vars
  <1> QED BY <1>1, <1>2, <1>3, <1>4, <1>5, <1>6, <1>7, <1>8, <1>9, <1>10,
         <1>11, <1>12, <1>13, <1>14, <1>15, <1>16 DEF Next, Handler

-----------------------------------------------------------------------------
(* The update requests *)

\* No session of a new process has asked for the update.
LEMMA UpdateInit == Init => UpdateInv
  <1> SUFFICES ASSUME Init PROVE UpdateInv
      OBVIOUS
  <1>1. \A r \in Slots : req[r].pc = "free"
      BY RequestFacts DEF Init
  <1> QED BY <1>1 DEF Init, UpdateInv, UpdateRecordedOnce

\* The test and set of a session's mark makes its request the only one.
LEMMA UpdateNext == TypeOK /\ ReqInv /\ UpdateInv /\ [Next]_vars => UpdateInv'
  <1> SUFFICES ASSUME TypeOK, ReqInv, UpdateInv, [Next]_vars PROVE UpdateInv'
      OBVIOUS
  <1> USE DEF TypeOK, ReqInv, UpdateInv, UpdateRecordedOnce, dataVars,
        updateVars
  <1>1. ASSUME NEW r \in Slots, NEW who \in Ids \cup Tokens, Arrive(r, who) PROVE UpdateInv'
    <2>1. req' = [req EXCEPT ![r] = Sent(who)]
        BY <1>1 DEF Arrive, Sent
    <2>2. req'[r].pc = "auth" /\ \A s \in Slots \ {r} : req'[s] = req[s]
        BY <2>1, RequestFacts
    <2> QED BY <1>1, <2>2 DEF Arrive
  <1>2. ASSUME NEW r \in Slots, Reject(r) PROVE UpdateInv'
      BY <1>2, Replied DEF Reject
  <1>3. ASSUME NEW r \in Slots, ExchangeToken(r) PROVE UpdateInv'
      BY <1>3, Replied DEF ExchangeToken
  <1>4. ASSUME NEW r \in Slots, Authenticate(r) PROVE UpdateInv'
    <2>1. Reply(r) \/ Step(r, "work")
        BY <1>4 DEF Authenticate
    <2>2. req'[r].pc \in {"free", "work"} /\ \A s \in Slots \ {r} : req'[s] = req[s]
        BY <2>1, Replied, Stepped, PcFacts
    <2> QED BY <1>4, <2>2 DEF Authenticate
  <1>5. ASSUME NEW r \in Slots, Save(r) PROVE UpdateInv'
      BY <1>5, Replied DEF Save
  <1>6. ASSUME NEW r \in Slots, ClaimUpdate(r) PROVE UpdateInv'
    <2> DEFINE i == req[r].who
    <2>1. up /\ i \in Ids /\ updateUsed' = updateUsed \cup {i} /\ UNCHANGED <<up, recorded>>
        BY <1>6, RequestFacts DEF ClaimUpdate, Working
    <2>2. CASE i \in updateUsed
      <3>1. Reply(r)
          BY <1>6, <2>2 DEF ClaimUpdate
      <3> QED BY <2>1, <2>2, <3>1, Replied
    <2>3. CASE i \notin updateUsed
      <3>1. Step(r, "record")
          BY <1>6, <2>3 DEF ClaimUpdate
      <3>2. recorded[i] = 0 /\ \A s \in Slots : req[s].pc = "record" => req[s].who # i
          BY <2>1, <2>3
      <3>3. /\ req'[r].pc = "record" /\ req'[r].who = i
            /\ \A s \in Slots \ {r} : req'[s] = req[s]
          BY <3>1, Stepped, PcFacts
      <3> QED BY <2>1, <2>3, <3>2, <3>3
    <2> QED BY <2>2, <2>3
  <1>7. ASSUME NEW r \in Slots, RecordUpdate(r) PROVE UpdateInv'
    <2> DEFINE i == req[r].who
    <2>1. /\ i \in Ids /\ i \in updateUsed /\ recorded[i] = 0 /\ Reply(r)
          /\ \A s \in Slots \ {r} : req[s].pc = "record" => req[s].who # i
          /\ UNCHANGED <<up, updateUsed>>
        BY <1>7 DEF RecordUpdate
    <2>2. /\ recorded'[i] \in {0, 1}
          /\ \A j \in Ids \ {i} : recorded'[j] = recorded[j]
        BY <1>7, <2>1 DEF RecordUpdate
    <2> HIDE DEF i
    <2>3. req'[r].pc = "free" /\ \A s \in Slots \ {r} : req'[s] = req[s]
        BY <2>1, Replied
    <2>4. \A s \in Slots : req[s].pc = "record" => req[s].who \in Ids
        OBVIOUS
    <2> QED BY <2>1, <2>2, <2>3, <2>4
  <1>8. ASSUME NEW r \in Slots, ConfigQuota(r) PROVE UpdateInv'
    <2>1. Reply(r) \/ Step(r, "lock")
        BY <1>8 DEF ConfigQuota
    <2>2. req'[r].pc \in {"free", "lock"} /\ \A s \in Slots \ {r} : req'[s] = req[s]
        BY <2>1, Replied, Stepped, PcFacts
    <2> QED BY <1>8, <2>2 DEF ConfigQuota
  <1>9. ASSUME NEW r \in Slots, NEW key \in Keys, Rotate(r, key) PROVE UpdateInv'
    <2>1. Reply(r) \/ \E d : req' = [req EXCEPT ![r] = Merging(req[r], key, d)]
        BY <1>9 DEF Rotate, Merging
    <2>2. req'[r].pc \in {"free", "install"} /\ \A s \in Slots \ {r} : req'[s] = req[s]
      <3>1. CASE Reply(r)
          BY <3>1, Replied
      <3>2. ASSUME NEW d, req' = [req EXCEPT ![r] = Merging(req[r], key, d)]
            PROVE  req'[r].pc = "install" /\ \A s \in Slots \ {r} : req'[s] = req[s]
          BY <3>2 DEF Merging, Requests
      <3> QED BY <2>1, <3>1, <3>2
    <2> QED BY <1>9, <2>2 DEF Rotate
  <1>10. ASSUME NEW r \in Slots, Install(r) PROVE UpdateInv'
      BY <1>10, Replied DEF Install
  <1>11. ASSUME NEW r \in Slots, Panic(r) PROVE UpdateInv'
      BY <1>11, Replied DEF Panic
  <1>12. CASE ReapSessions
      BY <1>12 DEF ReapSessions
  <1>13. CASE End
      BY <1>13, RequestFacts DEF End
  <1>14. CASE Start
    <2>1. /\ recorded' = [i \in Ids |-> 0] /\ \A r \in Slots : req[r].pc = "free"
          /\ UNCHANGED <<req, updateUsed>> /\ updateUsed = {} /\ up'
        BY <1>14, RequestFacts DEF Start
    <2> QED BY <2>1
  <1>15. CASE Tick
      BY <1>15 DEF Tick
  <1>16. CASE UNCHANGED vars
      BY <1>16 DEF vars
  <1> QED BY <1>1, <1>2, <1>3, <1>4, <1>5, <1>6, <1>7, <1>8, <1>9, <1>10,
         <1>11, <1>12, <1>13, <1>14, <1>15, <1>16 DEF Next, Handler

-----------------------------------------------------------------------------
(* The settings *)

\* Nothing has been merged into a new data directory.
LEMMA DocInit == Init => DocInv
  <1> SUFFICES ASSUME Init PROVE DocInv
      OBVIOUS
  <1>1. \A r \in Slots : req[r].pc = "free"
      BY RequestFacts DEF Init
  <1>2. ReadableSettings = Empty
      BY DocFacts DEF Init, ReadableSettings
  <1> QED BY <1>1, <1>2 DEF Init, DocInv, SettingsKept, Empty

\* What is read depends on nothing but the two files.
LEMMA SameFiles ==
    UNCHANGED <<settings, settingsBak>> => ReadableSettings' = ReadableSettings
  BY DEF ReadableSettings, Present

\* The lock keeps what one request read true until it has written.
LEMMA DocNext == TypeOK /\ ReqInv /\ DocInv /\ [Next]_vars => DocInv'
  <1> SUFFICES ASSUME TypeOK, ReqInv, DocInv, [Next]_vars PROVE DocInv'
      OBVIOUS
  <1> USE DEF DocInv, SettingsKept, dataVars, updateVars
  <1>0. /\ req \in [Slots -> Requests] /\ acked \in Doc /\ nextVer \in 1 .. MaxMerges + 1
        /\ settings \in Doc \cup {NoDoc} /\ settingsBak \in Doc \cup {NoDoc}
        /\ \A r \in Slots : req[r].pc = "install" =>
              lock = r /\ req[r].key \in Keys /\ req[r].doc \in Doc
      BY DEF TypeOK, ReqInv
  <1>1. ASSUME NEW r \in Slots, NEW who \in Ids \cup Tokens, Arrive(r, who) PROVE DocInv'
    <2>1. \A s \in Slots : req'[s].pc = "install" => req'[s] = req[s]
      <3>1. req' = [req EXCEPT ![r] = Sent(who)]
          BY <1>1 DEF Arrive, Sent
      <3> QED BY <1>0, <3>1, RequestFacts
    <2>2. UNCHANGED <<settings, settingsBak, nextVer, acked>>
        BY <1>1 DEF Arrive
    <2> QED BY <1>0, <2>1, <2>2, SameFiles DEF Present
  <1>2. ASSUME NEW r \in Slots, Reject(r) PROVE DocInv'
    <2>1. \A s \in Slots : req'[s].pc = "install" => req'[s] = req[s]
        BY <1>0, <1>2, Replied DEF Reject
    <2>2. UNCHANGED <<settings, settingsBak, nextVer, acked>>
        BY <1>2 DEF Reject
    <2> QED BY <1>0, <2>1, <2>2, SameFiles DEF Present
  <1>3. ASSUME NEW r \in Slots, ExchangeToken(r) PROVE DocInv'
    <2>1. \A s \in Slots : req'[s].pc = "install" => req'[s] = req[s]
        BY <1>0, <1>3, Replied DEF ExchangeToken
    <2>2. UNCHANGED <<settings, settingsBak, nextVer, acked>>
        BY <1>3 DEF ExchangeToken
    <2> QED BY <1>0, <2>1, <2>2, SameFiles DEF Present
  <1>4. ASSUME NEW r \in Slots, Authenticate(r) PROVE DocInv'
    <2>1. \A s \in Slots : req'[s].pc = "install" => req'[s] = req[s]
      <3>1. Reply(r) \/ Step(r, "work")
          BY <1>4 DEF Authenticate
      <3> QED BY <1>0, <3>1, Replied, Stepped, PcFacts
    <2>2. UNCHANGED <<settings, settingsBak, nextVer, acked>>
        BY <1>4 DEF Authenticate
    <2> QED BY <1>0, <2>1, <2>2, SameFiles DEF Present
  <1>5. ASSUME NEW r \in Slots, Save(r) PROVE DocInv'
    <2>1. \A s \in Slots : req'[s].pc = "install" => req'[s] = req[s]
        BY <1>0, <1>5, Replied DEF Save
    <2>2. UNCHANGED <<settings, settingsBak, nextVer, acked>>
        BY <1>5 DEF Save
    <2> QED BY <1>0, <2>1, <2>2, SameFiles DEF Present
  <1>6. ASSUME NEW r \in Slots, ClaimUpdate(r) PROVE DocInv'
    <2>1. \A s \in Slots : req'[s].pc = "install" => req'[s] = req[s]
      <3>1. Reply(r) \/ Step(r, "record")
          BY <1>6 DEF ClaimUpdate
      <3> QED BY <1>0, <3>1, Replied, Stepped, PcFacts
    <2>2. UNCHANGED <<settings, settingsBak, nextVer, acked>>
        BY <1>6 DEF ClaimUpdate
    <2> QED BY <1>0, <2>1, <2>2, SameFiles DEF Present
  <1>7. ASSUME NEW r \in Slots, RecordUpdate(r) PROVE DocInv'
    <2>1. \A s \in Slots : req'[s].pc = "install" => req'[s] = req[s]
        BY <1>0, <1>7, Replied DEF RecordUpdate
    <2>2. UNCHANGED <<settings, settingsBak, nextVer, acked>>
        BY <1>7 DEF RecordUpdate
    <2> QED BY <1>0, <2>1, <2>2, SameFiles DEF Present
  <1>8. ASSUME NEW r \in Slots, ConfigQuota(r) PROVE DocInv'
    <2>1. \A s \in Slots : req'[s].pc = "install" => req'[s] = req[s]
      <3>1. Reply(r) \/ Step(r, "lock")
          BY <1>8 DEF ConfigQuota
      <3> QED BY <1>0, <3>1, Replied, Stepped, PcFacts
    <2>2. UNCHANGED <<settings, settingsBak, nextVer, acked>>
        BY <1>8 DEF ConfigQuota
    <2> QED BY <1>0, <2>1, <2>2, SameFiles DEF Present
  <1>9. ASSUME NEW r \in Slots, NEW key \in Keys, Rotate(r, key) PROVE DocInv'
    <2>0. \A s \in Slots : req[s].pc # "install"
        BY <1>0, <1>9, NoneIsNoSlot DEF Rotate
    <2>1. CASE Reply(r) /\ UNCHANGED <<nextVer, lock, settings, settingsBak>>
        BY <1>0, <1>9, <2>0, <2>1, Replied, SameFiles DEF Rotate
    <2>2. CASE ~Reply(r) \/ ~UNCHANGED <<nextVer, lock, settings, settingsBak>>
      <3> DEFINE d == [ReadableSettings EXCEPT ![key] = nextVer]
      <3>1. /\ nextVer <= MaxMerges /\ nextVer' = nextVer + 1 /\ acked' = acked
            /\ req' = [req EXCEPT ![r] = Merging(req[r], key, d)]
            /\ settings' = NoDoc
            /\ settingsBak' = IF Present(settings) THEN settings ELSE settingsBak
          BY <1>9, <2>2 DEF Rotate, Merging
      <3>2. /\ nextVer \in Vers /\ nextVer \in Nat
            /\ ReadableSettings \in Doc /\ acked \in Doc
          BY <1>0, <3>1, DataApiConstants, DocFacts DEF Vers
      <3>3. ReadableSettings' = ReadableSettings /\ ~Present(settings')
        <4>1. ~Present(settings') /\ Present(settings)' = Present(settings')
            BY <3>1, DocFacts DEF Present
        <4>2. Present(settingsBak)' = Present(settingsBak')
            BY DEF Present
        <4> QED BY <3>1, <4>1, <4>2 DEF ReadableSettings
      <3>4. /\ d \in Doc /\ d[key] = nextVer
            /\ \A k \in Keys \ {key} : d[k] = ReadableSettings[k]
          BY <3>2, DocFacts
      <3> HIDE DEF d
      <3>5. /\ req'[r].pc = "install" /\ req'[r].doc = d /\ req'[r].key = key
            /\ \A s \in Slots \ {r} : req'[s] = req[s]
        <4>1. /\ Merging(req[r], key, d) \in Requests /\ Merging(req[r], key, d).pc = "install"
              /\ Merging(req[r], key, d).doc = d /\ Merging(req[r], key, d).key = key
            BY <1>0, <3>4, RequestFacts
        <4> QED BY <1>0, <3>1, <4>1
      <3>6. \A k \in Keys : ReadableSettings[k] \in Nat /\ acked[k] \in Nat
          BY <3>2, DataApiConstants DEF Doc, Vers
      <3>7. \A k \in Keys : d[k] >= acked[k] /\ d[k] < nextVer'
          BY <3>1, <3>2, <3>4, <3>6
      <3>8. \A k \in Keys : /\ ReadableSettings'[k] >= acked'[k]
                            /\ ReadableSettings'[k] < nextVer' /\ acked'[k] < nextVer'
          BY <3>1, <3>2, <3>3, <3>6
      <3>9. \A s \in Slots : req'[s].pc = "install" => s = r
          BY <2>0, <3>5
      <3>10. \A s \in Slots : req'[s].pc = "install" =>
                /\ \A k \in Keys : req'[s].doc[k] >= acked'[k] /\ req'[s].doc[k] < nextVer'
                /\ req'[s].doc[req'[s].key] > ReadableSettings'[req'[s].key]
                /\ \A k \in Keys \ {req'[s].key} : req'[s].doc[k] = ReadableSettings'[k]
        <4>1. d[key] > ReadableSettings'[key]
            BY <3>2, <3>3, <3>4, <3>6
        <4>2. \A k \in Keys \ {key} : d[k] = ReadableSettings'[k]
            BY <3>3, <3>4
        <4> QED BY <3>1, <3>5, <3>7, <3>9, <4>1, <4>2
      <3>11. ~Present(settings)'
          BY <3>3 DEF Present
      <3> QED BY <3>8, <3>10, <3>11
    <2> QED BY <2>1, <2>2
  <1>10. ASSUME NEW r \in Slots, Install(r) PROVE DocInv'
    <2> DEFINE d == req[r].doc
               key == req[r].key
    <2>1. /\ d \in Doc /\ key \in Keys /\ Reply(r) /\ UNCHANGED <<settingsBak, nextVer>>
          /\ \A k \in Keys : d[k] >= acked[k] /\ d[k] < nextVer
        BY <1>0, <1>10 DEF Install
    <2>2. \A s \in Slots : req'[s].pc # "install"
      <3>1. \A s \in Slots \ {r} : req[s].pc # "install"
          BY <1>0, <1>10 DEF Install
      <3> QED BY <1>0, <2>1, <3>1, Replied
    <2>3. CASE UNCHANGED <<settings, acked>>
        BY <2>1, <2>2, <2>3, SameFiles
    <2>4. CASE settings' = d /\ acked' = [acked EXCEPT ![key] = d[key]]
      <3>1. ReadableSettings' = d
        <4>1. Present(d) /\ Present(settings)' = Present(d)
            BY <2>1, <2>4, DocFacts DEF Present
        <4> QED BY <2>4, <4>1 DEF ReadableSettings
      <3>2. /\ \A k \in Keys : acked'[k] = IF k = key THEN d[k] ELSE acked[k]
            /\ \A k \in Keys : d[k] \in Nat
          BY <1>0, <2>1, <2>4, DataApiConstants DEF Doc, Vers
      <3> HIDE DEF d, key
      <3>3. \A k \in Keys : /\ ReadableSettings'[k] >= acked'[k]
                            /\ ReadableSettings'[k] < nextVer' /\ acked'[k] < nextVer'
          BY <2>1, <3>1, <3>2
      <3> QED BY <2>2, <3>3
    <2> QED BY <1>10, <2>3, <2>4 DEF Install
  <1>11. ASSUME NEW r \in Slots, Panic(r) PROVE DocInv'
    <2>1. \A s \in Slots : req'[s].pc = "install" => req'[s] = req[s]
        BY <1>0, <1>11, Replied DEF Panic
    <2>2. UNCHANGED <<settings, settingsBak, nextVer, acked>>
        BY <1>11 DEF Panic
    <2> QED BY <1>0, <2>1, <2>2, SameFiles DEF Present
  <1>12. CASE ReapSessions
    <2>1. \A s \in Slots : req'[s].pc = "install" => req'[s] = req[s]
        BY <1>12 DEF ReapSessions
    <2>2. UNCHANGED <<settings, settingsBak, nextVer, acked>>
        BY <1>12 DEF ReapSessions
    <2> QED BY <1>0, <2>1, <2>2, SameFiles DEF Present
  <1>13. CASE End
    <2>1. \A s \in Slots : req'[s].pc = "install" => req'[s] = req[s]
        BY <1>13, RequestFacts DEF End
    <2>2. UNCHANGED <<settings, settingsBak, nextVer, acked>>
        BY <1>13 DEF End
    <2> QED BY <1>0, <2>1, <2>2, SameFiles DEF Present
  <1>14. CASE Start
    <2>1. \A s \in Slots : req'[s].pc = "install" => req'[s] = req[s]
        BY <1>14 DEF Start
    <2>2. UNCHANGED <<settings, settingsBak, nextVer, acked>>
        BY <1>14 DEF Start
    <2> QED BY <1>0, <2>1, <2>2, SameFiles DEF Present
  <1>15. CASE Tick
    <2>1. \A s \in Slots : req'[s].pc = "install" => req'[s] = req[s]
        BY <1>15 DEF Tick
    <2>2. UNCHANGED <<settings, settingsBak, nextVer, acked>>
        BY <1>15 DEF Tick
    <2> QED BY <1>0, <2>1, <2>2, SameFiles DEF Present
  <1>16. CASE UNCHANGED vars
    <2>1. UNCHANGED <<settings, settingsBak, nextVer, acked, req>>
        BY <1>16 DEF vars
    <2> QED BY <1>0, <2>1, SameFiles DEF Present
  <1> QED BY <1>1, <1>2, <1>3, <1>4, <1>5, <1>6, <1>7, <1>8, <1>9, <1>10,
         <1>11, <1>12, <1>13, <1>14, <1>15, <1>16 DEF Next, Handler

\* A reader sees a merge when its document is installed, and nothing before.
LEMMA MergeSeen == TypeOK /\ ReqInv /\ DocInv /\ [Next]_vars => ReadsOneMerge
  <1> SUFFICES ASSUME TypeOK, ReqInv, DocInv, [Next]_vars PROVE ReadsOneMerge
      OBVIOUS
  <1> USE DEF ReadsOneMerge
  <1>1. ASSUME NEW r \in Slots, NEW key \in Keys, Rotate(r, key) PROVE ReadsOneMerge
    <2>1. CASE UNCHANGED <<settings, settingsBak>>
        BY <2>1, SameFiles
    <2>2. CASE /\ settings' = NoDoc
               /\ settingsBak' = IF Present(settings) THEN settings ELSE settingsBak
      <3>1. ~Present(settings)' /\ Present(settingsBak)' = Present(settingsBak')
          BY <2>2 DEF Present
      <3>2. ReadableSettings' = ReadableSettings
          BY <2>2, <3>1 DEF ReadableSettings
      <3> QED BY <3>2
    <2> QED BY <1>1, <2>1, <2>2 DEF Rotate
  <1>2. ASSUME NEW r \in Slots, Install(r) PROVE ReadsOneMerge
    <2>1. CASE settings' = settings
        BY <1>2, <2>1, SameFiles DEF Install
    <2>2. CASE settings' = req[r].doc
      <3>1. req[r].pc = "install" /\ req[r].doc \in Doc /\ req[r].key \in Keys
          BY <1>2 DEF Install, ReqInv
      <3>2. Present(settings)'
          BY <2>2, <3>1, DocFacts DEF Present
      <3>3. ReadableSettings' = req[r].doc
          BY <2>2, <3>2 DEF ReadableSettings
      <3> QED BY <3>1, <3>3 DEF DocInv
    <2> QED BY <1>2, <2>1, <2>2 DEF Install
  <1>3. \/ UNCHANGED <<settings, settingsBak>>
        \/ \E r \in Slots : (\E key \in Keys : Rotate(r, key)) \/ Install(r)
      BY DEF Next, Handler, vars, dataVars, Arrive, Reject, ExchangeToken, Authenticate, Save,
             ClaimUpdate, RecordUpdate, ConfigQuota, Panic, ReapSessions, End, Start, Tick
  <1> QED BY <1>1, <1>2, <1>3, SameFiles

-----------------------------------------------------------------------------
(* The theorems *)

\* The invariant holds at the start.
LEMMA DataApiInvInit == Init => DataApiInv
  <1>1. Init => SessionsBounded
    <2>1. Init => {i \in Ids : IsOpen(i)} = {}
        BY DEF Init, Fresh, IsOpen, Unborn
    <2> QED BY <2>1, FS_EmptySet, SessionConstants DEF SessionsBounded
  <1> QED BY <1>1, TypesInit, UpdateInit, DocInit DEF DataApiInv

\* Every step keeps the invariant.
LEMMA DataApiInvNext == DataApiInv /\ [Next]_vars => DataApiInv'
  <1> SUFFICES ASSUME DataApiInv, [Next]_vars PROVE DataApiInv'
      OBVIOUS
  <1>1. TypeOK' /\ ReqInv'
      BY TypesNext DEF DataApiInv
  <1>2. SingleUse'
      BY SessionsNext DEF DataApiInv, Stored
  <1>3. UpdateInv'
      BY UpdateNext DEF DataApiInv
  <1>4. DocInv'
      BY DocNext DEF DataApiInv
  <1>5. SessionsBounded'
      BY BoundedNext DEF DataApiInv
  <1> QED BY <1>1, <1>2, <1>3, <1>4, <1>5 DEF DataApiInv

\* The invariant holds of every reachable state.
THEOREM DataApiInvariant == Spec => []DataApiInv
  BY DataApiInvInit, DataApiInvNext, PTL DEF Spec

\* TypeOK: in particular no quota counter passes its limit and no request of an
\* unauthenticated page reaches a handler.
THEOREM TypeCorrect == Spec => []TypeOK
  <1>1. DataApiInv => TypeOK
      BY DEF DataApiInv
  <1> QED BY <1>1, DataApiInvariant, PTL

\* SingleUse: Exchange tests and spends a token under the store's one mutex.
THEOREM TokensOpenOneSession == Spec => []SingleUse
  <1>1. DataApiInv => SingleUse
      BY DEF DataApiInv
  <1> QED BY <1>1, DataApiInvariant, PTL

\* UpdateRecordedOnce: handleUpdateApply marks the session before it asks the
\* network, so a second request of the session finds the mark.
THEOREM OneUpdatePerSession == Spec => []UpdateRecordedOnce
  <1>1. DataApiInv => UpdateRecordedOnce
      BY DEF DataApiInv, UpdateInv
  <1> QED BY <1>1, DataApiInvariant, PTL

\* SettingsKept: the merge reads the document under the lock it writes under,
\* and at every point of the two renames one of the files has what was answered.
THEOREM MergesAreKept == Spec => []SettingsKept
  <1>1. DataApiInv => SettingsKept
      BY DEF DataApiInv, DocInv
  <1> QED BY <1>1, DataApiInvariant, PTL

\* TokenOutlivesRefusal: a token is spent by the session it opens or by the end
\* of the process, never by a table that is full.
THEOREM RefusalKeepsToken == Spec => TokenOutlivesRefusal
  <1>1. DataApiInv /\ [Next]_vars => Stored
      BY SessionsNext DEF DataApiInv
  <1>2. DataApiInv /\ [Next]_vars
           => [\A t \in Tokens :
                 Exchangeable(t) /\ tokens'[t].state # "pending"
                    => \/ \E i \in FreshIds : sessions'[i].state = "open" /\ sessions'[i].from = t
                       \/ \A i \in Ids : sessions'[i].state # "open"]_sessionVars
      BY <1>1 DEF Stored
  <1> QED BY <1>2, DataApiInvariant, PTL DEF Spec, TokenOutlivesRefusal

\* SessionsBounded: Exchange counts the table it has just cleared of dead
\* sessions, under the one mutex under which it adds to it.
THEOREM TableAlwaysBounded == Spec => []SessionsBounded
  <1>1. DataApiInv => SessionsBounded
      BY DEF DataApiInv
  <1> QED BY <1>1, DataApiInvariant, PTL

\* SettingsChangeByOneMerge: a document is merged from what is readable, and
\* nothing that is readable changes until it is installed.
THEOREM ReadersSeeWholeMerges == Spec => SettingsChangeByOneMerge
  <1>1. DataApiInv /\ [Next]_vars => [ReadsOneMerge]_vars
      BY MergeSeen DEF DataApiInv
  <1> QED BY <1>1, DataApiInvariant, PTL DEF Spec, SettingsChangeByOneMerge

=============================================================================
