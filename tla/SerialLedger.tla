---------------------------- MODULE SerialLedger ----------------------------
(***************************************************************************)
(* What callers of the ledger rely on: a transaction happens in one step,  *)
(* alone, on the accounts as they are at that moment, or not at all.       *)
(***************************************************************************)
EXTENDS CoinMoves

VARIABLES
  balance,  \* coin_account.balance, trust_score.score
  ledger,   \* the rows of each account, in the order of their insertion
  done      \* marks left by the transactions so far

\* What one statement makes of the accounts w.
After(j, s, w) ==
  CASE s.op = "lock"  -> w
    [] s.op = "check" -> [w EXCEPT !.ok = @ /\ j.needs \subseteq done
                                             /\ j.bars \cap done = {}]
    [] s.op = "find"  -> [w EXCEPT !.found = Unreversed(w.ledger[s.on], s.cause)]
    [] OTHER ->
         LET bal  == w.balance[s.on]
             rows == w.ledger[s.on]
             new  == Written(s, bal, rows, w.found)
         IN [w EXCEPT !.ok = @ /\ ~ Overdrawn(s, bal, rows, w.found),
                      !.balance[s.on] = Closing(@, new),
                      !.ledger[s.on] = @ \o new]

\* The accounts after the whole of a transaction.
Outcome(j) ==
  LET run[k \in 0 .. Len(j.steps)] ==
        IF k = 0
        THEN [balance |-> balance, ledger |-> ledger, found |-> 0, ok |-> TRUE]
        ELSE After(j, j.steps[k], run[k - 1])
  IN run[Len(j.steps)]

Init ==
  /\ balance = [a \in Account |-> 0]
  /\ ledger = [a \in Account |-> <<>>]
  /\ done = {}

Do(j) ==
  /\ Outcome(j).ok
  /\ balance' = Outcome(j).balance
  /\ ledger' = Outcome(j).ledger
  /\ done' = done \cup j.marks

Next == \E j \in Job : Do(j)

Spec == Init /\ [][Next]_<<balance, ledger, done>>
=============================================================================
