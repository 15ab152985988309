------------------------------ MODULE MCGrants ------------------------------
(***************************************************************************)
(* Two people and one founding rank fewer than would be needed for three;  *)
(* tiers, code terms and rewards are distinct amounts.                     *)
(***************************************************************************)
EXTENDS Grants, TLC

TwoTables == {[upTo |-> <<1, 2>>, coins |-> <<8, 4, 2>>],
              [upTo |-> <<0, 1>>, coins |-> <<8, 16, 2>>]}
People == Permutations(User)
=============================================================================
