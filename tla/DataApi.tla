------------------------------ MODULE DataApi ------------------------------
(***************************************************************************)
(* What the data API's handlers (launcher/internal/dataapi) do to the      *)
(* session store, to the update requests and to the settings document      *)
(* while several requests are in flight and the process may end between    *)
(* any two steps.                                                          *)
(*                                                                         *)
(* A request occupies a slot.  Rejections that touch no state (host,       *)
(* origin, method, media type, length, a malformed body, a bad identifier) *)
(* are one step, Reject.  What a request asks for is settled when its      *)
(* handler begins: nothing before reads it.  Saves are module SaveStore's; *)
(* here a save is the quota it needs before it reaches the engine.  The    *)
(* drain and the way the process ends are module Server's.                 *)
(***************************************************************************)
EXTENDS Sessions

CONSTANTS
    Slots,          \* requests that can be in flight
    Keys,           \* top-level settings keys
    MaxMerges       \* bound: settings writes

ASSUME DataApiConstants == IsFiniteSet(Slots) /\ MaxMerges \in Nat

VARIABLES
    up,           \* the process runs
    req,          \* the requests
    lock,         \* the slot that holds the engine's writeMu
    settings, settingsBak,  \* settings.json and its backup: a version per key
    nextVer,      \* the version the next merge writes
    updateUsed,   \* sessions that used up their one update request
    acked,        \* history: the newest merge of each key that was answered
    recorded      \* history: update requests recorded, by session

dataVars == <<lock, settings, settingsBak, nextVer, acked>>
updateVars == <<updateUsed, recorded>>
vars == <<sessionVars, up, req, dataVars, updateVars>>

-----------------------------------------------------------------------------

None == "none"
ASSUME NoneIsNoSlot == None \notin Slots

Vers == 0 .. MaxMerges
Doc == [Keys -> Vers]
Empty == [k \in Keys |-> 0]
NoDoc == [k \in {} |-> 0]
Present(d) == d # NoDoc

Pcs == {"free", "auth", "work", "lock", "install", "record"}
Requests == [pc : Pcs, who : Ids \cup Tokens \cup {None}, key : Keys \cup {None},
             doc : Doc \cup {NoDoc}]
Free == [pc |-> "free", who |-> None, key |-> None, doc |-> NoDoc]

TypeOK ==
    /\ SessionsTypeOK
    /\ up \in BOOLEAN
    /\ req \in [Slots -> Requests]
    /\ lock \in Slots \cup {None}
    /\ settings \in Doc \cup {NoDoc} /\ settingsBak \in Doc \cup {NoDoc}
    /\ nextVer \in 1 .. MaxMerges + 1
    /\ updateUsed \subseteq Ids
    /\ acked \in Doc
    /\ recorded \in [Ids -> Nat]

Init ==
    /\ Fresh
    /\ up = TRUE
    /\ req = [r \in Slots |-> Free]
    /\ lock = None /\ settings = NoDoc /\ settingsBak = NoDoc /\ nextVer = 1
    /\ updateUsed = {}
    /\ acked = Empty
    /\ recorded = [i \in Ids |-> 0]

Reply(r) == req' = [req EXCEPT ![r] = Free]
Step(r, pc) == req' = [req EXCEPT ![r].pc = pc]

-----------------------------------------------------------------------------
(* Up to the handler *)

\* A page sends what it has: a token, or the session it was given, perhaps
\* long ago.
Arrive(r, who) ==
    /\ up /\ req[r].pc = "free"
    /\ who \in Tokens \cup {i \in Ids : sessions[i].state # "unborn"}
    /\ req' = [req EXCEPT ![r] = [Free EXCEPT !.pc = "auth", !.who = who]]
    /\ UNCHANGED <<sessionVars, up, dataVars, updateVars>>

\* Any of the checks that answer without touching state: validate's, the CSRF
\* double submit, decodeJSON, routePath.  A handler that only reads ends like
\* this too.
Reject(r) ==
    /\ req[r].pc \in {"auth", "work"}
    /\ Reply(r)
    /\ UNCHANGED <<sessionVars, up, dataVars, updateVars>>

\* handleSession.
ExchangeToken(r) ==
    /\ req[r].pc = "auth" /\ req[r].who \in Tokens
    /\ \/ Exchange(req[r].who)
       \/ ExchangeFull(req[r].who)
       \/ ExchangeRefused(req[r].who)
    /\ Reply(r)
    /\ UNCHANGED <<up, dataVars, updateVars>>

\* validate, up to its session gate.
Authenticate(r) ==
    /\ req[r].pc = "auth" /\ req[r].who \in Ids
    /\ \/ Found(req[r].who) /\ Step(r, "work")
       \/ NotFound(req[r].who) /\ Reply(r)
    /\ UNCHANGED <<up, dataVars, updateVars>>

-----------------------------------------------------------------------------
(* Handlers *)

Working(r) == req[r].pc = "work"

\* handleSaveWrite, up to the engine: the quota.
Save(r) ==
    /\ Working(r) /\ Reply(r)
    /\ Refused(req[r].who, 1) \/ Allowed(req[r].who, 1)
    /\ UNCHANGED <<up, dataVars, updateVars>>

\* Faulty variant: the session is marked once its request is recorded.
ClaimUpdateLate(r) ==
    LET i == req[r].who IN
    /\ Working(r)
    /\ IF i \in updateUsed THEN Reply(r) ELSE Step(r, "record")
    /\ UNCHANGED updateUsed
    /\ UNCHANGED <<sessionVars, up, dataVars, recorded>>

\* handleUpdateApply: one request per session, tested and set under updateMu,
\* before the network is asked.
ClaimUpdate(r) ==
    LET i == req[r].who IN
    /\ Working(r)
    /\ IF i \in updateUsed THEN Reply(r) ELSE Step(r, "record")
    /\ updateUsed' = updateUsed \cup {i}
    /\ UNCHANGED <<sessionVars, up, dataVars, recorded>>

\* RecordUpdateIntent, with or without success; the mark stays either way.
RecordUpdate(r) ==
    /\ req[r].pc = "record" /\ Reply(r)
    /\ \/ recorded' = [recorded EXCEPT ![req[r].who] = @ + 1]
       \/ UNCHANGED recorded
    /\ UNCHANGED <<sessionVars, up, dataVars, updateUsed>>

-----------------------------------------------------------------------------
(* handleConfigWrite and MergeConfig *)

ConfigQuota(r) ==
    LET i == req[r].who IN
    /\ Working(r)
    /\ \/ Refused(i, 1) /\ Reply(r)
       \/ Allowed(i, 1) /\ Step(r, "lock")
    /\ UNCHANGED <<up, dataVars, updateVars>>

\* readConfigBytes.
ReadableSettings ==
    IF Present(settings) THEN settings
    ELSE IF Present(settingsBak) THEN settingsBak ELSE Empty

\* Faulty variant: the document is read before the lock is taken, and another
\* request's is overwritten.
RotateUnlocked(r, key) ==
    /\ req[r].pc = "lock"
    /\ \/ /\ nextVer <= MaxMerges
          /\ req' = [req EXCEPT ![r].pc = "install", ![r].key = key,
                                ![r].doc = [ReadableSettings EXCEPT ![key] = nextVer]]
          /\ settings' = NoDoc
          /\ settingsBak' = IF Present(settings) THEN settings ELSE settingsBak
          /\ nextVer' = nextVer + 1 /\ lock' = r
       \/ Reply(r) /\ UNCHANGED <<nextVer, lock, settings, settingsBak>>
    /\ UNCHANGED <<sessionVars, up, acked, updateVars>>

\* Under writeMu: the current document with the request's key replaced goes to a
\* temporary file, and the live file is renamed to the backup.  A stale
\* if_revision, a cancelled context or a failing write end it here with nothing
\* changed.
Rotate(r, key) ==
    /\ req[r].pc = "lock" /\ lock = None
    /\ \/ /\ nextVer <= MaxMerges
          /\ req' = [req EXCEPT ![r].pc = "install", ![r].key = key,
                                ![r].doc = [ReadableSettings EXCEPT ![key] = nextVer]]
          /\ settings' = NoDoc
          /\ settingsBak' = IF Present(settings) THEN settings ELSE settingsBak
          /\ nextVer' = nextVer + 1 /\ lock' = r
       \/ Reply(r) /\ UNCHANGED <<nextVer, lock, settings, settingsBak>>
    /\ UNCHANGED <<sessionVars, up, acked, updateVars>>

\* The temporary file becomes the live one, or that rename fails.
Install(r) ==
    /\ req[r].pc = "install" /\ Reply(r) /\ lock' = None
    /\ \/ /\ settings' = req[r].doc
          /\ acked' = [acked EXCEPT ![req[r].key] = req[r].doc[req[r].key]]
       \/ UNCHANGED <<settings, acked>>
    /\ UNCHANGED <<sessionVars, up, settingsBak, nextVer, updateVars>>

-----------------------------------------------------------------------------
(* The process *)

\* A handler that panics: its deferred functions release the lock.
Panic(r) ==
    /\ req[r].pc # "free" /\ Reply(r)
    /\ lock' = IF lock = r THEN None ELSE lock
    /\ UNCHANGED <<sessionVars, up, settings, settingsBak, nextVer, acked, updateVars>>

\* watchLoop's call, once a second.
ReapSessions ==
    /\ up /\ Reap
    /\ UNCHANGED <<up, req, dataVars, updateVars>>

\* The process ends, by a crash or by itself: the files stay.
End ==
    /\ up /\ up' = FALSE
    /\ Clear
    /\ req' = [r \in Slots |-> Free]
    /\ lock' = None /\ updateUsed' = {}
    /\ UNCHANGED <<settings, settingsBak, nextVer, acked, recorded>>

Start ==
    /\ ~up /\ up' = TRUE
    /\ FreshAgain
    /\ recorded' = [i \in Ids |-> 0]
    /\ UNCHANGED <<req, dataVars, updateUsed>>

Tick ==
    /\ up /\ SessionsTick
    /\ UNCHANGED <<up, req, dataVars, updateVars>>

-----------------------------------------------------------------------------

Handler(r) ==
    \/ Reject(r) \/ ExchangeToken(r) \/ Authenticate(r)
    \/ Save(r) \/ ClaimUpdate(r) \/ RecordUpdate(r)
    \/ ConfigQuota(r) \/ (\E key \in Keys : Rotate(r, key)) \/ Install(r)
    \/ Panic(r)

Next ==
    \/ \E r \in Slots : (\E who \in Ids \cup Tokens : Arrive(r, who)) \/ Handler(r)
    \/ ReapSessions \/ End \/ Start \/ Tick

Spec == Init /\ [][Next]_vars

-----------------------------------------------------------------------------
(* Safety *)

\* A session records at most one update request, though two of its requests
\* may be in flight at once (handleUpdateApply's test and set).
UpdateRecordedOnce == \A i \in Ids : recorded[i] <= 1

\* A settings value whose merge was answered 200 is what a reader gets until a
\* later merge of the same key: not lost to a merge of another key by another
\* tab, to a failed write or to a crash between the two renames.
SettingsKept == \A k \in Keys : ReadableSettings[k] >= acked[k]

\* What a reader gets stays, or changes by one merge: at that merge's key, to a
\* newer value.
ReadsOneMerge ==
    \/ ReadableSettings' = ReadableSettings
    \/ \E k \in Keys : /\ ReadableSettings'[k] > ReadableSettings[k]
                      /\ \A j \in Keys \ {k} : ReadableSettings'[j] = ReadableSettings[j]

\* The two renames, a failure of either, a panic and the end of the process
\* between them are never seen as a document nobody wrote: a merge preserves the
\* keys its request does not mention (section 16.3), those just merged included.
SettingsChangeByOneMerge == [][ReadsOneMerge]_vars

=============================================================================
