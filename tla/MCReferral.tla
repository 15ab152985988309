----------------------------- MODULE MCReferral -----------------------------
(* Small instances of Referral for TLC. *)
EXTENDS Referral

CONSTANTS u1, u2, u3, a1

ThreeUsers == {u1, u2, u3}
OneInviter == {u1}
OneAdmin   == {a1}
====
