----------------------------- MODULE CoinMoves -----------------------------
(***************************************************************************)
(* What one statement of a transaction does to one account: CoinService    *)
(* (apply, penalize, reverse) for wallets and TrustService (apply) for     *)
(* scores.  Both keep a balance beside an append-only ledger, both are     *)
(* idempotent by key; a wallet refuses an overdraft, a score is clamped.   *)
(*                                                                         *)
(* Only the operators are here.  CoinLedger interleaves the statements of  *)
(* several transactions, SerialLedger runs one transaction at a time.      *)
(***************************************************************************)
EXTENDS Integers, Sequences

CONSTANTS
  Wallet,        \* rows of coin_account
  Score,         \* rows of trust_score
  Gate,          \* other rows a transaction locks: events, users, referrals
  Cause,         \* what a movement is for: the idempotency keys
  Mark,          \* facts a transaction leaves behind for the next to check
  Job,           \* transactions the program runs
  MaxScore,      \* TRUST_MAX_SCORE
  InitialScore   \* trust.initial_score

Account == Wallet \cup Score

\* A statement: "lock" takes a row, "check" reads the marks, "find" looks for a
\* movement that has not been reversed, the others move what an account holds.
Statement == [op : {"lock", "check", "find", "apply", "penalize", "reverse"},
              on : Account \cup Gate, cause : Cause, amount : Int]

\* A transaction: its statements, what it checks and what it leaves behind.
Transaction == [steps : Seq(Statement), needs : SUBSET Mark, bars : SUBSET Mark,
                marks : SUBSET Mark]

ASSUME ScoreAssumption == MaxScore \in Nat /\ InitialScore \in 0 .. MaxScore
ASSUME KindsAssumption ==
  Wallet \cap Score = {} /\ Gate \cap Account = {}
ASSUME JobAssumption ==
  /\ Job \subseteq Transaction
  /\ \A j \in Job : \A k \in DOMAIN j.steps :
       /\ j.steps[k].op \in {"find", "apply", "penalize", "reverse"}
            => j.steps[k].on \in Account
       /\ j.steps[k].op = "penalize" => j.steps[k].amount <= 0
\* Every reversal comes straight after the query for the movement it reverses.
ASSUME RefundAssumption ==
  \A j \in Job : \A k \in DOMAIN j.steps :
    j.steps[k].op = "reverse" =>
      /\ k > 1 /\ j.steps[k - 1].op = "find"
      /\ j.steps[k - 1].on = j.steps[k].on /\ j.steps[k - 1].cause = j.steps[k].cause

RowKind == {"original", "reversal", "seed"}

\* kind and cause are the idempotency key: `reversal:<id>` for a reversal,
\* `trust:initial:<user>` for the seed.
Row == [kind : RowKind, cause : Cause \cup {"initial"}, amount : Int,
        before : Int, after : Int]

NewRow(kind, cause, before, amount) ==
  [kind |-> kind, cause |-> cause, amount |-> amount,
   before |-> before, after |-> before + amount]

HasRow(rows, kind, cause) ==
  \E i \in DOMAIN rows : rows[i].kind = kind /\ rows[i].cause = cause

\* findMany({ reversal: null }): the amount of a movement that may be reversed,
\* 0 when there is none.
Unreversed(rows, cause) ==
  IF HasRow(rows, "original", cause) /\ ~ HasRow(rows, "reversal", cause)
  THEN rows[CHOOSE i \in DOMAIN rows :
              rows[i].kind = "original" /\ rows[i].cause = cause].amount
  ELSE 0

KindOf(s) == IF s.op = "reverse" THEN "reversal" ELSE "original"

\* Deviation: a reversal repeats the movement.
AskedAgain(s, found) == IF s.op = "reverse" THEN found ELSE s.amount

Asked(s, found) == IF s.op = "reverse" THEN - found ELSE s.amount

\* clampScore
ClampScore(n) == IF n < 0 THEN 0 ELSE IF n > MaxScore THEN MaxScore ELSE n

\* How far the balance moves: a score stays between its bounds, a penalty takes
\* what there is.
Moved(s, balance, found) ==
  IF s.on \in Score THEN ClampScore(balance + Asked(s, found)) - balance
  ELSE IF s.op = "penalize" /\ balance + s.amount < 0 THEN - balance
  ELSE Asked(s, found)

\* Deviation: the key is not looked up before the row is written.
NothingToReverse(s, rows, found) == s.op = "reverse" /\ found = 0

\* Nothing is written for a key that has a row, nor for a charge not found.
Settled(s, rows, found) ==
  \/ HasRow(rows, KindOf(s), s.cause)
  \/ s.op = "reverse" /\ found = 0

\* INSUFFICIENT_COINS
Overdrawn(s, balance, rows, found) ==
  /\ s.on \in Wallet
  /\ ~ Settled(s, rows, found)
  /\ balance + Moved(s, balance, found) < 0

\* seedIfNeeded: the first movement of a score records where it started.
Seed(s, rows) ==
  IF s.on \in Score /\ InitialScore > 0 /\ ~ HasRow(rows, "seed", "initial")
  THEN <<NewRow("seed", "initial", 0, InitialScore)>>
  ELSE <<>>

Closing(balance, rows) == IF rows = <<>> THEN balance ELSE rows[Len(rows)].after

\* Deviation: a penalty that finds an empty wallet is recorded all the same.
WrittenEmpty(s, balance, rows, found) ==
  LET seed   == Seed(s, rows)
      before == Closing(balance, seed)
  IN IF Settled(s, rows, found)
     THEN seed
     ELSE Append(seed, NewRow(KindOf(s), s.cause, before, Moved(s, before, found)))

\* The rows a movement inserts.  A wallet's row may not be worth nothing.
Written(s, balance, rows, found) ==
  LET seed   == Seed(s, rows)
      before == Closing(balance, seed)
      moved  == Moved(s, before, found)
  IN IF Settled(s, rows, found) \/ (s.on \in Wallet /\ moved = 0)
     THEN seed
     ELSE Append(seed, NewRow(KindOf(s), s.cause, before, moved))
=============================================================================
