-------------------------- MODULE MCParticipation --------------------------
(* Small instances of Participation for TLC. *)
EXTENDS Participation

CONSTANTS g1, g2, s1

TwoGuests == {g1, g2}
OneSeed   == {s1}
NoSeed    == {}
====
