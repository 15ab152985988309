----------------------------- MODULE MCReviews -----------------------------
(* Small instances of Reviews for TLC. *)
EXTENDS Reviews

CONSTANTS x1, host, guest, c1, c2

OnePair     == {x1}
TwoPeople   == {host, guest}
TwoCallers  == {c1, c2}
HostAndGuest == [x \in OnePair |-> [s \in Side |-> IF s = "HOST" THEN host ELSE guest]]

\* Three stars move nobody's trust.
ThreeOrFive == {3, 5}
StarsTrust  == [r \in ThreeOrFive |-> IF r = 3 THEN 0 ELSE 2]
=============================================================================
