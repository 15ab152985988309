---------------------------- MODULE MCCoinLedger ----------------------------
(* Small instances of CoinLedger with the product's transactions, for TLC. *)
EXTENDS CoinLedger, LedgerJobs

CONSTANTS e1, e2, p1, p2

TwoUsers     == {1, 2}
TwoProcesses == {p1, p2}
TwoEvents    == {e1, e2}

Wallets == {wallet(u) : u \in TwoUsers}
Scores  == {score(u) : u \in TwoUsers}
Gates   == {Event(e) : e \in TwoEvents} \cup {<<"user", u>> : u \in TwoUsers}

\* Each user hosts an activity the other one joins.
Everyday ==
  {Onboard(1), Onboard(2),
   Open(e1, 1), Join(e1, 2), TurnDown(e1, 2), Withdraw(e1, 2), CancelByHost(e1, 1, 2),
   Join(e2, 1), JoinFree(e2, 1), CancelByHost(e2, 2, 1), Open(e2, 2), Complete(e1, 2), SettleHost(e1, 1)}

Causes == UNION {{j.steps[k].cause : k \in DOMAIN j.steps} : j \in Everyday}
Marks  == UNION {j.needs \cup j.bars \cup j.marks : j \in Everyday}
=============================================================================
