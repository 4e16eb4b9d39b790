----------------------------- MODULE MCGathering -----------------------------
(***************************************************************************)
(* Gathering for TLC.  Nothing but its place in a list tells an address    *)
(* from another one.                                                       *)
(***************************************************************************)
EXTENDS Gathering, TLC

Alike == Permutations(Address)
==============================================================================
