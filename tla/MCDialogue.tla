----------------------------- MODULE MCDialogue -----------------------------
(***************************************************************************)
(* One province, one city, two ages.  Updates need no bound: an id is only *)
(* ever compared with that of the update before it.                        *)
(***************************************************************************)
EXTENDS Dialogue, TLC

TwoAges == "18" :> 18 @@ "30" :> 30
=============================================================================
