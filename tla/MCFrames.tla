------------------------------ MODULE MCFrames ------------------------------
(***************************************************************************)
(* A small instance of Frames for TLC: one screen is the rack's from the   *)
(* start, and one more may be added.                                       *)
(***************************************************************************)
EXTENDS Frames, TLC

CONSTANTS r1, s1, s2

MCConfigured == s1 :> r1 @@ s2 :> None
=============================================================================
