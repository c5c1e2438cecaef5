------------------------------- MODULE SaveSlots -------------------------------
(***************************************************************************)
(* What the storage engine promises the clients of its save slots, without *)
(* a single file: a slot has one payload, a write replaces it whole or not *)
(* at all, a reply is given only for what is in the slot, and a write that *)
(* names what it replaces replaces nothing else.  A crash forgets who was  *)
(* asking and what they knew, and no payload.                              *)
(*                                                                         *)
(* SaveStore implements this with its files, backups and revision counts   *)
(* (see Slotted there).                                                    *)
(***************************************************************************)
EXTENDS Naturals

CONSTANTS Slots, Clients

VARIABLES
    content,   \* the payload a read of each slot returns, 0 for none
    promised,  \* the newest payload of each slot that a reply has confirmed
    known,     \* the payload each client last saw in each slot
    serving,   \* the write that is being served: a set of at most one request
    worn       \* the slots in which a conflict may go unnoticed

svars == <<content, promised, known, serving, worn>>

NothingKnown == [c \in Clients |-> [s \in Slots |-> 0]]

Init ==
    /\ content = [s \in Slots |-> 0]
    /\ promised = [s \in Slots |-> 0]
    /\ known = NothingKnown
    /\ serving = {}
    /\ worn = {}

Learn(c, s) ==
    /\ serving = {}
    /\ known' = [known EXCEPT ![c][s] = content[s]]
    /\ UNCHANGED <<content, promised, serving, worn>>

\* A conditional write is accepted from a client that knows what is there.
Accept(c, s, conditional) ==
    /\ serving = {}
    /\ conditional /\ s \notin worn => known[c][s] = content[s]
    /\ serving' = {[client |-> c, slot |-> s, conditional |-> conditional, done |-> FALSE]}
    /\ UNCHANGED <<content, promised, known, worn>>

\* The one moment at which a write takes effect.
Put(r) ==
    /\ ~r.done
    /\ content'[r.slot] > content[r.slot]
    /\ content' = [content EXCEPT ![r.slot] = content'[r.slot]]
    /\ serving' = {[r EXCEPT !.done = TRUE]}
    /\ UNCHANGED <<promised, known, worn>>

\* A write is confirmed after it took effect; the reply may be lost.
Reply(r) ==
    /\ r.done
    /\ promised' = [promised EXCEPT ![r.slot] = content[r.slot]]
    /\ known' \in {known, [known EXCEPT ![r.client][r.slot] = content[r.slot]]}
    /\ serving' = {}
    /\ UNCHANGED <<content, worn>>

\* A write that fails leaves the slot as it was.
Fail(r) ==
    /\ ~r.done
    /\ serving' = {}
    /\ UNCHANGED <<content, promised, known, worn>>

\* A delete takes the payload, or leaves the one before it, and with it the
\* means to tell a conflict.
Remove(s) ==
    /\ serving = {}
    /\ content'[s] < content[s]
    /\ content' = [content EXCEPT ![s] = content'[s]]
    /\ promised' = [promised EXCEPT ![s] = 0]
    /\ worn' = worn \cup {s}
    /\ UNCHANGED <<known, serving>>

Crash ==
    /\ serving' = {}
    /\ known' = NothingKnown
    /\ UNCHANGED <<content, promised, worn>>

\* A restart that cannot tell how often a slot was written.
Wear ==
    /\ serving = {} /\ known = NothingKnown
    /\ worn \subseteq worn'
    /\ UNCHANGED <<content, promised, known, serving>>

Next ==
    \/ \E c \in Clients, s \in Slots :
          Learn(c, s) \/ \E conditional \in BOOLEAN : Accept(c, s, conditional)
    \/ \E r \in serving : Put(r) \/ Reply(r) \/ Fail(r)
    \/ \E s \in Slots : Remove(s)
    \/ Crash \/ Wear

Spec == Init /\ [][Next]_svars
=============================================================================
