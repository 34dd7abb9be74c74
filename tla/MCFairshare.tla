---------------------------- MODULE MCFairshare ----------------------------
(***************************************************************************)
(* Instances of Fairshare for TLC: a job of one user, and another user     *)
(* who only has used something before.                                     *)
(***************************************************************************)
EXTENDS Fairshare, TLC

CONSTANTS j1

MCOwner == j1 :> 1
MCProcs == j1 :> 2
MCSavedUsage == <<3, 4>>
=============================================================================
