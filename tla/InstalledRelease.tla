--------------------------- MODULE InstalledRelease ---------------------------
(***************************************************************************)
(* What an update promises the player, without a single directory: one     *)
(* release is current, at most one earlier release is kept to fall back    *)
(* to, and an installation may be undone only until it has settled.        *)
(*                                                                         *)
(* UpdateSwap implements this directory by directory, through any number   *)
(* of crashes, and UpdateApply implements it over requests, starts and     *)
(* retention (see Installed in both).                                      *)
(***************************************************************************)
CONSTANTS
    Releases, None,
    Shared   \* TRUE: a second process may remove the fallback at any time

VARIABLES
    current,   \* the installed release, or None: lost
    fallback,  \* the release kept beside it, or None
    settled    \* FALSE from an installation until it is confirmed

ivars == <<current, fallback, settled>>

Init == current \in Releases /\ fallback = None /\ settled = TRUE

\* A whole release replaces the current one, which becomes the fallback; beside
\* one that was lost there is nothing to fall back to.
Install ==
    /\ settled
    /\ current' \in Releases
    /\ fallback' = current
    /\ settled' = (fallback' = None)

Settle == ~settled /\ settled' = TRUE /\ UNCHANGED <<current, fallback>>

\* An installation that has not settled is taken back.
RollBack ==
    /\ ~settled
    /\ fallback # None
    /\ current' = fallback
    /\ fallback' = None
    /\ UNCHANGED settled

\* The fallback makes room for the next one, or has served its time; without
\* it there is nothing to take back.
DropFallback ==
    /\ settled \/ Shared
    /\ fallback # None
    /\ fallback' = None
    /\ settled' = TRUE
    /\ UNCHANGED current

\* A second process removes the current release, which an installation or a
\* rollback under way has where a fallback is kept.
Lose ==
    /\ Shared
    /\ current # None /\ fallback = None
    /\ current' = None
    /\ settled' = TRUE
    /\ UNCHANGED fallback

Next == Install \/ Settle \/ RollBack \/ DropFallback \/ Lose

Spec == Init /\ [][Next]_ivars
=============================================================================
