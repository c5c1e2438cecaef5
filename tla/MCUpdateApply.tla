---------------------------- MODULE MCUpdateApply ----------------------------
(* Instances of UpdateApply for TLC.  Release 2 is published twice, with      *)
(* different archives, so that a manifest can drift under a request.          *)
EXTENDS UpdateApply, TLC

MCRelease == (1 :> 1) @@ (2 :> 2) @@ (3 :> 2) @@ (4 :> 3)
=============================================================================
