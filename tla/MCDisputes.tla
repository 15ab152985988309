----------------------------- MODULE MCDisputes -----------------------------
(***************************************************************************)
(* Two guests, two moderators.  The coins are chosen so that no two sums   *)
(* of what a guest can get back are equal.                                 *)
(***************************************************************************)
EXTENDS Disputes, TLC

Alike == Permutations(Guest) \cup Permutations(Moderator)
=============================================================================
