---------------------------- MODULE MCRackLink ----------------------------
(***************************************************************************)
(* Small instances of RackLink for TLC.  Racks and sockets are model       *)
(* values that nothing tells apart, so safety runs may permute them; the   *)
(* run with a liveness property does not.  The proofs are extended for the *)
(* inductive invariant they rest on, which a run checks too.               *)
(***************************************************************************)
EXTENDS RackLinkClaimProofs, TLC

Symmetry == Permutations(Rack) \cup Permutations(Conn)

===========================================================================
