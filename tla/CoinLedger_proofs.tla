------------------------- MODULE CoinLedger_proofs -------------------------
(***************************************************************************)
(* What holds of the coin and trust ledgers for every set of connections,  *)
(* accounts and transactions: the row locks alone keep balances, keys and  *)
(* reversals exact; taken in order they never end in a deadlock; and where *)
(* they protect what is looked up, the statements implement SerialLedger.  *)
(***************************************************************************)
EXTENDS CoinLedger, LedgerJobs, SequenceTheorems, WellFoundedInduction, TLAPS

\* The first row of a score says where it started.
Seeded(rows) ==
  InitialScore > 0 /\ rows # <<>> => HasRow(rows, "seed", "initial")

\* The rows of an account and its balance agree, and the rows are sound.
Sound(a, rows, bal) ==
  /\ Chained(rows)
  /\ bal = Closing(0, rows)
  /\ \A i \in DOMAIN rows : Bounded(a, rows[i].after)
  /\ Keyed(rows)
  /\ a \in Wallet => Mirrored(rows) /\ \A i \in DOMAIN rows : rows[i].amount # 0
  /\ a \in Score => Seeded(rows)

\* No two transactions have locked the same row.
LocksExclude ==
  \A p, q \in Process : p # q => held[p] \cap held[q] = {}

\* Only who has an account locked has rows of it to commit.
OwnUnderLock ==
  \A p \in Process : \A a \in Account : a \notin held[p] => own[p][a] = <<>>

\* Committed accounts are sound.
CommittedSound ==
  \A a \in Account : Sound(a, ledger[a], balance[a])

\* So is an account as the transaction that has it locked will commit it.
LockedSound ==
  \A p \in Process : \A a \in Account :
    a \in held[p] => Sound(a, Rows(p, a), seen[p][a])

\* A movement of that amount is on the account the next statement reverses.
Originates(rows, cause, amount) ==
  \E i \in DOMAIN rows :
    rows[i].kind = "original" /\ rows[i].cause = cause /\ rows[i].amount = amount

FoundIsThere ==
  \A p \in Process :
    Busy(p) /\ Now(p).op = "reverse" /\ found[p] # 0 =>
      Originates(Rows(p, Now(p).on), Now(p).cause, found[p])

\* The inductive invariant.
IInv ==
  /\ TypeOK
  /\ LocksExclude
  /\ OwnUnderLock
  /\ CommittedSound
  /\ LockedSound
  /\ FoundIsThere

-----------------------------------------------------------------------------
(* Rows *)

\* What appending a row does to a sequence of rows.
LEMMA AppendFacts ==
  ASSUME NEW S, NEW s \in Seq(S), NEW e \in S
  PROVE  /\ Append(s, e) \in Seq(S)
         /\ Len(s) \in Nat
         /\ Len(Append(s, e)) = Len(s) + 1
         /\ DOMAIN s = 1 .. Len(s)
         /\ DOMAIN Append(s, e) = 1 .. Len(s) + 1
         /\ \A i \in 1 .. Len(s) : Append(s, e)[i] = s[i]
         /\ Append(s, e)[Len(s) + 1] = e
         /\ Append(s, e) # <<>>
         /\ s = <<>> <=> Len(s) = 0
  OBVIOUS

\* Rows written one after another are appended one after another.
LEMMA ConcatFacts ==
  ASSUME NEW S, NEW s \in Seq(S), NEW t \in Seq(S), NEW e \in S
  PROVE  /\ s \o <<>> = s
         /\ s \o t \in Seq(S)
         /\ s \o Append(t, e) = Append(s \o t, e)
  <1>1. s \o <<>> = s /\ s \o t \in Seq(S)
    BY ConcatEmptySeq, ConcatProperties
  <1>2. Append(t, e) = t \o <<e>> /\ Append(s \o t, e) = (s \o t) \o <<e>>
        /\ <<e>> \in Seq(S)
    BY <1>1
  <1> QED BY <1>1, <1>2, ConcatAssociative

\* One more row whose key is new, which begins at the balance and stays within
\* the bounds, leaves an account sound.
LEMMA OneMoreRow ==
  ASSUME NEW a \in Account, NEW rows \in Seq(Row), NEW bal \in Int, NEW r \in Row,
         Sound(a, rows, bal),
         r.before = bal, r.after = bal + r.amount, Bounded(a, r.after),
         ~ HasRow(rows, r.kind, r.cause),
         a \in Wallet => r.amount # 0,
         a \in Wallet /\ r.kind = "reversal" => Originates(rows, r.cause, - r.amount),
         a \in Score /\ InitialScore > 0 =>
           \/ r.kind = "seed" /\ r.cause = "initial"
           \/ HasRow(rows, "seed", "initial")
  PROVE  Sound(a, Append(rows, r), r.after)
  <1> DEFINE new == Append(rows, r)
  <1> DEFINE n == Len(rows)
  <1>1. /\ new \in Seq(Row) /\ n \in Nat
        /\ DOMAIN rows = 1 .. n /\ DOMAIN new = 1 .. n + 1
        /\ new # <<>> /\ Len(new) = n + 1
        /\ \A i \in 1 .. n : new[i] = rows[i]
        /\ new[n + 1] = r
        /\ rows = <<>> <=> n = 0
    BY AppendFacts
  <1> HIDE DEF new, n
  <1>2. n = 0 => bal = 0
    BY <1>1 DEF Sound, Closing
  <1>3. n # 0 => bal = rows[n].after
    BY <1>1 DEF Sound, Closing, n
  <1>4. Chained(new)
    <2> SUFFICES ASSUME NEW i \in 1 .. n + 1
                 PROVE  /\ new[i].before = IF i = 1 THEN 0 ELSE new[i - 1].after
                        /\ new[i].after = new[i].before + new[i].amount
      BY <1>1 DEF Chained
    <2>1. CASE i = n + 1
      BY <2>1, <1>1, <1>2, <1>3
    <2>2. CASE i # n + 1
      <3>1. i \in 1 .. n /\ (i # 1 => i - 1 \in 1 .. n)
        BY <2>2, <1>1
      <3>2. /\ rows[i].before = IF i = 1 THEN 0 ELSE rows[i - 1].after
            /\ rows[i].after = rows[i].before + rows[i].amount
        BY <3>1, <1>1 DEF Sound, Chained
      <3>3. new[i] = rows[i] /\ (i # 1 => new[i - 1] = rows[i - 1])
        BY <3>1, <1>1
      <3> QED BY <3>2, <3>3
    <2> QED BY <2>1, <2>2
  <1>5. r.after = Closing(0, new)
    BY <1>1 DEF Closing
  <1>6. \A i \in DOMAIN new : Bounded(a, new[i].after)
    BY <1>1 DEF Sound
  <1>7. Keyed(new)
    <2>1. \A i \in 1 .. n : ~ (rows[i].kind = r.kind /\ rows[i].cause = r.cause)
      BY <1>1 DEF HasRow
    <2>2. \A i, k \in 1 .. n :
            rows[i].kind = rows[k].kind /\ rows[i].cause = rows[k].cause => i = k
      BY <1>1 DEF Sound, Keyed
    <2>3. \A i \in 1 .. n + 1 : i \in 1 .. n \/ i = n + 1
      BY <1>1
    <2> QED BY <1>1, <2>1, <2>2, <2>3 DEF Keyed
  <1>8. ASSUME a \in Wallet
        PROVE  Mirrored(new) /\ \A i \in DOMAIN new : new[i].amount # 0
    <2>1. \A i \in DOMAIN new : new[i].amount # 0
      BY <1>1, <1>8 DEF Sound
    <2>2. ASSUME NEW i \in 1 .. n + 1, new[i].kind = "reversal"
          PROVE  \E k \in 1 .. i - 1 :
                   /\ new[k].kind = "original" /\ new[k].cause = new[i].cause
                   /\ new[k].amount = - new[i].amount
      <3>1. CASE i = n + 1
        <4>1. PICK k \in 1 .. n :
                /\ rows[k].kind = "original" /\ rows[k].cause = r.cause
                /\ rows[k].amount = - r.amount
          <5>1. Originates(rows, r.cause, - r.amount)
            BY <3>1, <2>2, <1>1, <1>8
          <5> QED BY <5>1, <1>1 DEF Originates
        <4> QED BY <4>1, <3>1, <1>1
      <3>2. CASE i # n + 1
        <4>1. i \in 1 .. n /\ rows[i].kind = "reversal"
          BY <3>2, <2>2, <1>1
        <4>2. PICK k \in 1 .. i - 1 :
                /\ rows[k].kind = "original" /\ rows[k].cause = rows[i].cause
                /\ rows[k].amount = - rows[i].amount
          BY <4>1, <1>1, <1>8 DEF Sound, Mirrored
        <4>3. k \in 1 .. n
          BY <4>1, <4>2, <1>1
        <4> QED BY <4>1, <4>2, <4>3, <1>1
      <3> QED BY <3>1, <3>2
    <2> QED BY <2>1, <2>2, <1>1 DEF Mirrored
  <1>9. ASSUME a \in Score
        PROVE  Seeded(new)
    <2>1. CASE r.kind = "seed" /\ r.cause = "initial"
      <3>1. n + 1 \in DOMAIN new
        BY <1>1
      <3> QED BY <2>1, <3>1, <1>1 DEF Seeded, HasRow
    <2>2. CASE HasRow(rows, "seed", "initial")
      <3>1. PICK i \in 1 .. n : rows[i].kind = "seed" /\ rows[i].cause = "initial"
        BY <2>2, <1>1 DEF HasRow
      <3>2. i \in DOMAIN new
        BY <3>1, <1>1
      <3> QED BY <3>1, <3>2, <1>1 DEF Seeded, HasRow
    <2>3. CASE ~ InitialScore > 0
      BY <2>3 DEF Seeded
    <2> QED BY <2>1, <2>2, <2>3, <1>9
  <1> QED BY <1>4, <1>5, <1>6, <1>7, <1>8, <1>9 DEF Sound, new

-----------------------------------------------------------------------------
(* Movements *)

\* A balance is a number.
LEMMA ClosingIsInt ==
  ASSUME NEW rows \in Seq(Row), NEW bal \in Int
  PROVE  Closing(bal, rows) \in Int
  <1>1. CASE rows = <<>>
    BY <1>1 DEF Closing
  <1>2. CASE rows # <<>>
    <2>1. rows[Len(rows)] \in Row
      BY <1>2
    <2> QED BY <2>1, <1>2 DEF Closing, Row
  <1> QED BY <1>1, <1>2

\* A movement moves a whole number, and takes a score nowhere outside its bounds.
LEMMA MovedFacts ==
  ASSUME NEW s \in Statement, NEW bal \in Int, NEW f \in Int
  PROVE  /\ Asked(s, f) \in Int
         /\ Moved(s, bal, f) \in Int
         /\ s.on \in Score => bal + Moved(s, bal, f) \in 0 .. MaxScore
  <1>1. s.amount \in Int /\ MaxScore \in Nat
    BY ScoreAssumption DEF Statement
  <1>2. Asked(s, f) \in Int
    BY <1>1 DEF Asked
  <1>3. ClampScore(bal + Asked(s, f)) \in 0 .. MaxScore
    BY <1>1, <1>2 DEF ClampScore
  <1> QED BY <1>1, <1>2, <1>3 DEF Moved

\* seedIfNeeded: a score that has no row yet gets its first one, a score that
\* has one and a wallet stay as they are.
LEMMA SeedIsSound ==
  ASSUME NEW a \in Account, NEW rows \in Seq(Row), NEW bal \in Int,
         NEW s, s.on = a, Sound(a, rows, bal)
  PROVE  /\ Seed(s, rows) \in Seq(Row)
         /\ rows \o Seed(s, rows) \in Seq(Row)
         /\ Closing(bal, Seed(s, rows)) \in Int
         /\ Sound(a, rows \o Seed(s, rows), Closing(bal, Seed(s, rows)))
         /\ a \in Wallet => Seed(s, rows) = <<>>
         /\ a \in Score /\ InitialScore > 0 =>
              HasRow(rows \o Seed(s, rows), "seed", "initial")
         /\ Seed(s, rows) # <<>> => rows = <<>>
  <1> DEFINE first == NewRow("seed", "initial", 0, InitialScore)
  <1>1. CASE a \in Score /\ InitialScore > 0 /\ ~ HasRow(rows, "seed", "initial")
    <2>1. rows = <<>> /\ bal = 0
      BY <1>1 DEF Sound, Seeded, Closing
    <2>2. Seed(s, rows) = <<first>> /\ first \in Row
      BY <1>1, ScoreAssumption DEF Seed, NewRow, Row, RowKind
    <2>3. /\ first.before = 0 /\ first.after = InitialScore
          /\ first.amount = InitialScore
          /\ first.kind = "seed" /\ first.cause = "initial"
      BY ScoreAssumption DEF NewRow
    <2>4. Bounded(a, first.after)
      BY <2>3, ScoreAssumption DEF Bounded
    <2>5. Sound(a, Append(rows, first), first.after)
      <3>1. a \notin Wallet
        BY <1>1, KindsAssumption
      <3>2. Sound(a, rows, 0) /\ 0 \in Int /\ InitialScore = 0 + InitialScore
        BY <2>1, ScoreAssumption
      <3>3. ~ HasRow(rows, first.kind, first.cause)
        BY <1>1, <2>3
      <3> HIDE DEF first
      <3> QED BY <2>2, <2>3, <2>4, <3>1, <3>2, <3>3, OneMoreRow
    <2>6. rows \o Seed(s, rows) = Append(rows, first)
          /\ Closing(bal, Seed(s, rows)) = first.after
      <3> HIDE DEF first
      <3>1. <<first>> \in Seq(Row) /\ Append(<<>>, first) = <<first>>
        BY <2>2
      <3>2. <<>> \o <<first>> = <<first>>
        BY <3>1, ConcatEmptySeq
      <3>3. Closing(bal, <<first>>) = first.after
        BY DEF Closing
      <3> QED BY <2>1, <2>2, <3>1, <3>2, <3>3
    <2>7. HasRow(Append(rows, first), "seed", "initial")
      <3> HIDE DEF first
      <3>1. 1 \in DOMAIN Append(rows, first) /\ Append(rows, first)[1] = first
        BY <2>1, <2>2
      <3> QED BY <3>1, <2>3 DEF HasRow
    <2>8. Append(rows, first) \in Seq(Row) /\ <<first>> \in Seq(Row)
          /\ first.after \in Int /\ a \notin Wallet
      BY <2>2, <2>3, <1>1, KindsAssumption, ScoreAssumption
    <2> HIDE DEF first
    <2> QED BY <2>1, <2>2, <2>5, <2>6, <2>7, <2>8
  <1>2. CASE ~ (a \in Score /\ InitialScore > 0 /\ ~ HasRow(rows, "seed", "initial"))
    <2>1. Seed(s, rows) = <<>>
      BY <1>2 DEF Seed
    <2>2. rows \o <<>> = rows /\ Closing(bal, <<>>) = bal
      BY ConcatEmptySeq DEF Closing
    <2> QED BY <2>1, <2>2, <1>2
  <1> QED BY <1>1, <1>2

\* apply, penalize and reverse leave a sound account sound: what they insert
\* begins at the balance, has a new key, overdraws no wallet and takes no score
\* outside its bounds.
LEMMA WrittenIsSound ==
  ASSUME NEW a \in Account, NEW rows \in Seq(Row), NEW bal \in Int, NEW f \in Int,
         NEW s \in Statement, s.on = a, s.op \in {"apply", "penalize", "reverse"},
         Sound(a, rows, bal), ~ Overdrawn(s, bal, rows, f),
         s.op = "reverse" /\ f # 0 => Originates(rows, s.cause, f)
  PROVE  /\ Written(s, bal, rows, f) \in Seq(Row)
         /\ Closing(bal, Written(s, bal, rows, f)) \in Int
         /\ Sound(a, rows \o Written(s, bal, rows, f),
                  Closing(bal, Written(s, bal, rows, f)))
  <1> DEFINE seed == Seed(s, rows)
  <1> DEFINE before == Closing(bal, seed)
  <1> DEFINE moved == Moved(s, before, f)
  <1> DEFINE row == NewRow(KindOf(s), s.cause, before, moved)
  <1>1. /\ seed \in Seq(Row) /\ rows \o seed \in Seq(Row) /\ before \in Int
        /\ Sound(a, rows \o seed, before)
        /\ a \in Wallet => seed = <<>>
        /\ a \in Score /\ InitialScore > 0 => HasRow(rows \o seed, "seed", "initial")
        /\ seed # <<>> => rows = <<>>
    BY SeedIsSound
  <1>2. CASE Settled(s, rows, f) \/ (a \in Wallet /\ moved = 0)
    <2>1. Written(s, bal, rows, f) = seed
      BY <1>2 DEF Written
    <2> HIDE DEF seed
    <2> QED BY <2>1, <1>1
  <1>3. CASE ~ (Settled(s, rows, f) \/ (a \in Wallet /\ moved = 0))
    <2>1. Written(s, bal, rows, f) = Append(seed, row)
      BY <1>3 DEF Written
    <2>2. moved \in Int /\ (a \in Score => before + moved \in 0 .. MaxScore)
      <3> HIDE DEF before
      <3> QED BY <1>1, MovedFacts
    <2>3. /\ row.kind = KindOf(s) /\ row.cause = s.cause /\ row.amount = moved
          /\ row.before = before /\ row.after = before + moved
      BY DEF NewRow
    <2>4. row \in Row
      <3>1. KindOf(s) \in RowKind /\ s.cause \in Cause
        BY DEF KindOf, RowKind, Statement
      <3> HIDE DEF before, moved
      <3> QED BY <3>1, <1>1, <2>2 DEF NewRow, Row
    <2>5. Bounded(a, row.after)
      <3>1. CASE a \in Wallet
        <4>1. before = bal /\ a \notin Score
          BY <3>1, <1>1, KindsAssumption DEF Closing
        <4>2. Moved(s, bal, f) = moved
          BY <4>1
        <4>3. s.on \in Wallet /\ ~ Settled(s, rows, f)
          BY <3>1, <1>3
        <4>4. ~ (bal + Moved(s, bal, f) < 0)
          BY <4>3 DEF Overdrawn
        <4> HIDE DEF before, moved, row
        <4> QED BY <4>1, <4>2, <4>4, <2>2, <2>3, <1>1 DEF Bounded
      <3>2. CASE a \in Score
        <4> HIDE DEF before, moved, row
        <4> QED BY <3>2, <2>2, <2>3, <1>1, ScoreAssumption DEF Bounded
      <3> QED BY <3>1, <3>2 DEF Account
    <2>6. row.kind # "seed" /\ (row.kind = "reversal" => s.op = "reverse")
      BY <2>3 DEF KindOf
    <2>7. \A i \in DOMAIN (rows \o seed) :
            (rows \o seed)[i].kind # "seed" => i \in DOMAIN rows /\ (rows \o seed)[i] = rows[i]
      <3>1. CASE seed = <<>>
        BY <3>1, ConcatEmptySeq
      <3>2. CASE seed # <<>>
        <4>1. rows \o seed = <<NewRow("seed", "initial", 0, InitialScore)>>
          BY <3>2, <1>1 DEF Seed
        <4> QED BY <4>1 DEF NewRow
      <3> QED BY <3>1, <3>2
    <2>8. ~ HasRow(rows \o seed, row.kind, row.cause)
      <3>1. ~ HasRow(rows, row.kind, row.cause)
        BY <2>3, <1>3 DEF Settled
      <3> HIDE DEF row, seed
      <3> QED BY <3>1, <2>6, <2>7 DEF HasRow
    <2>9. a \in Wallet /\ row.kind = "reversal" =>
            Originates(rows \o seed, row.cause, - row.amount)
      <3> SUFFICES ASSUME a \in Wallet, row.kind = "reversal"
                   PROVE  Originates(rows \o seed, row.cause, - row.amount)
        OBVIOUS
      <3>1. s.op = "reverse" /\ f # 0
        BY <2>6, <1>3 DEF Settled
      <3>2. Originates(rows, s.cause, f)
        BY <3>1
      <3>3. seed = <<>>
        BY <1>1
      <3>4. moved = - f /\ - moved = f
        BY <3>1, KindsAssumption DEF Moved, Asked
      <3> HIDE DEF row, moved, seed
      <3> QED BY <3>2, <3>3, <3>4, <2>3, ConcatEmptySeq
    <2>10. Sound(a, Append(rows \o seed, row), row.after)
      <3>1. a \in Wallet => row.amount # 0
        BY <1>3, <2>3
      <3> HIDE DEF row, seed, before, moved
      <3> QED BY <1>1, <2>2, <2>3, <2>4, <2>5, <2>8, <2>9, <3>1, OneMoreRow
    <2> HIDE DEF row, seed, before, moved
    <2>11. rows \o Append(seed, row) = Append(rows \o seed, row)
      BY <1>1, <2>4, ConcatFacts
    <2>12. /\ Append(seed, row) \in Seq(Row)
           /\ Closing(bal, Append(seed, row)) = row.after
      BY <1>1, <2>4, AppendFacts DEF Closing
    <2>13. row.after \in Int
      BY <2>2, <2>3, <1>1
    <2> QED BY <2>1, <2>10, <2>11, <2>12, <2>13
  <1> QED BY <1>2, <1>3

-----------------------------------------------------------------------------
(* Steps *)

\* An idle connection runs nothing.
LEMMA NowFacts ==
  ASSUME TypeOK, NEW p \in Process, Busy(p)
  PROVE  /\ job[p] \in Job /\ job[p] # NoJob /\ at[p] \in Nat
         /\ Now(p) \in Statement
         /\ Now(p).op \in {"find", "apply", "penalize", "reverse"} => Now(p).on \in Account
         /\ Now(p).op = "reverse" =>
              /\ at[p] # 1 /\ job[p].steps[at[p] - 1].op = "find"
              /\ job[p].steps[at[p] - 1].on = Now(p).on
              /\ job[p].steps[at[p] - 1].cause = Now(p).cause
  <1>1. NoJob.steps = <<>> /\ job[p] \in Job \cup {NoJob} /\ at[p] \in Nat
    BY DEF TypeOK, NoJob
  <1>2. job[p] \in Job /\ job[p] # NoJob
    BY <1>1 DEF Busy
  <1>3. job[p].steps \in Seq(Statement)
    BY <1>2, JobAssumption DEF Transaction
  <1>4. Now(p) \in Statement
    BY <1>3 DEF Busy, Now
  <1>5. Now(p).op \in {"find", "apply", "penalize", "reverse"} => Now(p).on \in Account
    BY <1>2, JobAssumption DEF Busy, Now
  <1>6. Now(p).op = "reverse" =>
          /\ at[p] > 1 /\ job[p].steps[at[p] - 1].op = "find"
          /\ job[p].steps[at[p] - 1].on = Now(p).on
          /\ job[p].steps[at[p] - 1].cause = Now(p).cause
    BY <1>2, RefundAssumption DEF Busy, Now
  <1> QED BY <1>1, <1>2, <1>4, <1>5, <1>6

\* The statement before a reversal is the query of the same account and cause.
LEMMA AfterFind ==
  ASSUME TypeOK, TypeOK', NEW p \in Process, Busy(p), Advance(p),
         Busy(p)', Now(p)'.op = "reverse"
  PROVE  Now(p).op = "find" /\ Now(p)'.on = Now(p).on /\ Now(p)'.cause = Now(p).cause
  <1>1. job' = job /\ at'[p] = at[p] + 1 /\ at[p] \in Nat
    BY DEF Advance, TypeOK
  <1>2. job[p] \in Job
    BY NowFacts
  <1>3. at[p] + 1 \in DOMAIN job[p].steps /\ Now(p)' = job[p].steps[at[p] + 1]
    BY <1>1 DEF Busy, Now
  <1>4. /\ job[p].steps[(at[p] + 1) - 1].op = "find"
        /\ job[p].steps[(at[p] + 1) - 1].on = job[p].steps[at[p] + 1].on
        /\ job[p].steps[(at[p] + 1) - 1].cause = job[p].steps[at[p] + 1].cause
    BY <1>2, <1>3, RefundAssumption
  <1>5. (at[p] + 1) - 1 = at[p]
    BY <1>1
  <1> QED BY <1>3, <1>4, <1>5 DEF Now

\* A movement that is on an account stays there when rows are added.
LEMMA OriginatesGrows ==
  ASSUME NEW s \in Seq(Row), NEW t \in Seq(Row), NEW cause, NEW n, Originates(s, cause, n)
  PROVE  Originates(s \o t, cause, n)
  <1>1. PICK i \in DOMAIN s : s[i].kind = "original" /\ s[i].cause = cause /\ s[i].amount = n
    BY DEF Originates
  <1>2. i \in DOMAIN (s \o t) /\ (s \o t)[i] = s[i]
    BY <1>1, ConcatProperties
  <1> QED BY <1>1, <1>2 DEF Originates

\* What a transaction sees of an account is sound, whether it has it locked.
LEMMA ViewIsSound ==
  ASSUME IInv, NEW p \in Process, NEW a \in Account
  PROVE  /\ Rows(p, a) \in Seq(Row) /\ Bal(p, a) \in Int
         /\ Sound(a, Rows(p, a), Bal(p, a))
         /\ a \notin held[p] => Rows(p, a) = ledger[a]
  <1>1. ledger[a] \in Seq(Row) /\ own[p][a] \in Seq(Row)
        /\ balance[a] \in Int /\ seen[p][a] \in Int
    BY DEF IInv, TypeOK
  <1>2. Rows(p, a) \in Seq(Row)
    BY <1>1, ConcatProperties DEF Rows
  <1>3. CASE a \in held[p]
    BY <1>1, <1>2, <1>3 DEF IInv, LockedSound, Bal
  <1>4. CASE a \notin held[p]
    <2>1. Rows(p, a) = ledger[a]
      BY <1>1, <1>4, ConcatEmptySeq DEF IInv, OwnUnderLock, Rows
    <2> QED BY <1>1, <1>2, <1>4, <2>1 DEF IInv, CommittedSound, Bal
  <1> QED BY <1>3, <1>4

\* Nobody has anything, nobody does anything.
LEMMA InitHolds == Init => IInv
  <1> SUFFICES ASSUME Init PROVE IInv
    OBVIOUS
  <1>1. /\ \A p \in Process : job[p] = NoJob /\ at[p] = 0 /\ held[p] = {}
                               /\ own[p] = NoRows /\ ~ Busy(p)
        /\ \A a \in Account : ledger[a] = <<>> /\ balance[a] = 0
    BY DEF Init, Busy, NoJob
  <1>2. TypeOK
    <2>1. <<>> \in Seq(Row) /\ Wallet \subseteq Account
      BY DEF Account
    <2> QED BY <1>1, <2>1 DEF Init, TypeOK, Unseen, NoRows
  <1>3. \A a : Sound(a, <<>>, 0)
    BY DEF Sound, Chained, Closing, Keyed, Mirrored, Seeded
  <1> QED BY <1>1, <1>2, <1>3 DEF IInv, LocksExclude, OwnUnderLock, CommittedSound,
                                  LockedSound, FoundIsThere, NoRows

\* A call that begins reverses nothing with its first statement.
LEMMA StartKeeps ==
  ASSUME IInv, NEW p \in Process, NEW j \in Job, Start(p, j)
  PROVE  IInv'
  <1>1. /\ TypeOK /\ job[p] = NoJob /\ job' = [job EXCEPT ![p] = j]
        /\ at' = [at EXCEPT ![p] = 1] /\ UNCHANGED <<committed, held, seen, own, found>>
    BY DEF IInv, Start
  <1>2. UNCHANGED <<balance, ledger, done>>
    BY <1>1 DEF committed
  <1>3. TypeOK'
    BY <1>1, <1>2 DEF TypeOK
  <1>4. \A q \in Process : \A a : Rows(q, a)' = Rows(q, a)
    BY <1>1, <1>2 DEF Rows
  <1>5. LocksExclude' /\ OwnUnderLock' /\ CommittedSound'
    BY <1>1, <1>2 DEF IInv, LocksExclude, OwnUnderLock, CommittedSound
  <1>6. LockedSound'
    BY <1>1, <1>4 DEF IInv, LockedSound
  <1>7. FoundIsThere'
    <2> SUFFICES ASSUME NEW q \in Process, Busy(q)', Now(q)'.op = "reverse", found'[q] # 0
                 PROVE  Originates(Rows(q, Now(q).on), Now(q).cause, found[q])'
      BY DEF FoundIsThere
    <2>1. q # p
      <3>1. SUFFICES ASSUME q = p PROVE FALSE
        OBVIOUS
      <3>2. 1 \in DOMAIN j.steps /\ j.steps[1].op = "reverse"
        BY <1>1, <3>1 DEF TypeOK, Busy, Now
      <3> QED BY <3>2, RefundAssumption
    <2>2. Busy(q) /\ Now(q)' = Now(q) /\ found'[q] = found[q]
      BY <1>1, <2>1 DEF TypeOK, Busy, Now
    <2> QED BY <2>2, <1>4 DEF IInv, FoundIsThere
  <1> QED BY <1>3, <1>5, <1>6, <1>7 DEF IInv

\* What a statement of p does to the others: nothing.
LEMMA OthersStay ==
  ASSUME TypeOK, NEW p \in Process, Advance(p), NEW q \in Process, q # p
  PROVE  Busy(q)' = Busy(q) /\ Now(q)' = Now(q)
  BY DEF TypeOK, Advance, Busy, Now

\* A statement that changes no row and no lock, and is no query, changes nothing
\* the invariant speaks of.
LEMMA QuietKeeps ==
  ASSUME IInv, NEW p \in Process, Busy(p), Now(p).op # "find", Advance(p),
         UNCHANGED <<committed, held, seen, own, found>>
  PROVE  IInv'
  <1>1. TypeOK /\ UNCHANGED <<balance, ledger, done, job>> /\ at' = [at EXCEPT ![p] = @ + 1]
    BY DEF IInv, committed, Advance
  <1>2. TypeOK'
    BY <1>1 DEF TypeOK
  <1>3. \A q \in Process : \A a : Rows(q, a)' = Rows(q, a)
    BY <1>1 DEF Rows
  <1>4. LocksExclude' /\ OwnUnderLock' /\ CommittedSound'
    BY <1>1 DEF IInv, LocksExclude, OwnUnderLock, CommittedSound
  <1>5. LockedSound'
    BY <1>1, <1>3 DEF IInv, LockedSound
  <1>6. FoundIsThere'
    <2> SUFFICES ASSUME NEW q \in Process, Busy(q)', Now(q)'.op = "reverse", found'[q] # 0
                 PROVE  Originates(Rows(q, Now(q).on), Now(q).cause, found[q])'
      BY DEF FoundIsThere
    <2>1. q # p
      BY <1>1, <1>2, AfterFind
    <2>2. Busy(q) /\ Now(q)' = Now(q) /\ found'[q] = found[q]
      BY <1>1, <2>1, OthersStay
    <2> QED BY <2>2, <1>3 DEF IInv, FoundIsThere
  <1> QED BY <1>2, <1>4, <1>5, <1>6 DEF IInv

\* SELECT ... FOR UPDATE: the row was free, and the balance it returns is sound.
LEMMA LockKeeps ==
  ASSUME IInv, NEW p \in Process, Lock(p)
  PROVE  IInv'
  <1> DEFINE r == Now(p).on
  <1>1. /\ TypeOK /\ Busy(p) /\ Now(p).op = "lock" /\ Advance(p) /\ Free(r, p)
        /\ held' = [held EXCEPT ![p] = @ \cup {r}]
        /\ seen' = IF r \in Account THEN [seen EXCEPT ![p][r] = Bal(p, r)] ELSE seen
        /\ UNCHANGED <<balance, ledger, done, job, own, found>>
        /\ at' = [at EXCEPT ![p] = @ + 1]
    BY DEF IInv, Lock, committed, Advance
  <1>2. r \in Account \cup Gate /\ job[p] # NoJob
    BY <1>1, NowFacts DEF Statement
  <1>3. r \in Account => Bal(p, r) \in Int /\ Sound(r, Rows(p, r), Bal(p, r))
    BY ViewIsSound
  <1> HIDE DEF r
  <1>4. TypeOK'
    BY <1>1, <1>2, <1>3 DEF TypeOK
  <1>5. \A q \in Process : \A a : Rows(q, a)' = Rows(q, a)
    BY <1>1 DEF Rows
  <1>6. LocksExclude'
    BY <1>1 DEF IInv, TypeOK, LocksExclude, Free
  <1>7. OwnUnderLock' /\ CommittedSound'
    BY <1>1 DEF IInv, TypeOK, OwnUnderLock, CommittedSound
  <1>8. LockedSound'
    <2> SUFFICES ASSUME NEW q \in Process, NEW a \in Account, a \in held'[q]
                 PROVE  Sound(a, Rows(q, a), seen'[q][a])
      BY <1>5 DEF LockedSound
    <2>1. CASE q = p /\ a = r
      BY <2>1, <1>1, <1>3 DEF TypeOK
    <2>2. CASE q # p \/ a # r
      <3>1. a \in held[q] /\ seen'[q][a] = seen[q][a]
        BY <2>2, <1>1 DEF TypeOK
      <3> QED BY <3>1 DEF IInv, LockedSound
    <2> QED BY <2>1, <2>2
  <1>9. FoundIsThere'
    <2> SUFFICES ASSUME NEW q \in Process, Busy(q)', Now(q)'.op = "reverse", found'[q] # 0
                 PROVE  Originates(Rows(q, Now(q).on), Now(q).cause, found[q])'
      BY DEF FoundIsThere
    <2>1. q # p
      BY <1>1, <1>4, AfterFind
    <2>2. Busy(q) /\ Now(q)' = Now(q) /\ found'[q] = found[q]
      BY <1>1, <2>1, OthersStay
    <2> QED BY <2>2, <1>5 DEF IInv, FoundIsThere
  <1> QED BY <1>4, <1>6, <1>7, <1>8, <1>9 DEF IInv

\* The query: what it finds is on the account, whatever is committed after it.
LEMMA FindKeeps ==
  ASSUME IInv, NEW p \in Process, Find(p)
  PROVE  IInv'
  <1> DEFINE a == Now(p).on
  <1> DEFINE amount == Unreversed(Rows(p, a), Now(p).cause)
  <1>1. /\ TypeOK /\ Busy(p) /\ Now(p).op = "find" /\ Advance(p)
        /\ found' = [found EXCEPT ![p] = amount]
        /\ UNCHANGED <<balance, ledger, done, job, held, seen, own>>
        /\ at' = [at EXCEPT ![p] = @ + 1]
    BY DEF IInv, Find, committed, Advance
  <1>2. a \in Account /\ Rows(p, a) \in Seq(Row)
    BY <1>1, NowFacts, ViewIsSound
  <1>3. amount \in Int /\ (amount # 0 => Originates(Rows(p, a), Now(p).cause, amount))
    <2>1. CASE ~ (/\ HasRow(Rows(p, a), "original", Now(p).cause)
                  /\ ~ HasRow(Rows(p, a), "reversal", Now(p).cause))
      BY <2>1 DEF Unreversed
    <2>2. CASE /\ HasRow(Rows(p, a), "original", Now(p).cause)
               /\ ~ HasRow(Rows(p, a), "reversal", Now(p).cause)
      <3> DEFINE i == CHOOSE i \in DOMAIN Rows(p, a) :
                        /\ Rows(p, a)[i].kind = "original"
                        /\ Rows(p, a)[i].cause = Now(p).cause
      <3>1. /\ i \in DOMAIN Rows(p, a) /\ Rows(p, a)[i].kind = "original"
            /\ Rows(p, a)[i].cause = Now(p).cause
        BY <2>2 DEF HasRow
      <3>2. amount = Rows(p, a)[i].amount
        BY <2>2 DEF Unreversed
      <3> HIDE DEF i, amount
      <3>3. Rows(p, a)[i] \in Row
        BY <3>1, <1>2
      <3> QED BY <3>1, <3>2, <3>3 DEF Originates, Row
    <2> QED BY <2>1, <2>2
  <1> HIDE DEF amount
  <1>4. TypeOK'
    BY <1>1, <1>3 DEF TypeOK
  <1>5. \A q \in Process : \A b : Rows(q, b)' = Rows(q, b)
    BY <1>1 DEF Rows
  <1>6. LocksExclude' /\ OwnUnderLock' /\ CommittedSound'
    BY <1>1 DEF IInv, LocksExclude, OwnUnderLock, CommittedSound
  <1>7. LockedSound'
    BY <1>1, <1>5 DEF IInv, LockedSound
  <1>8. FoundIsThere'
    <2> SUFFICES ASSUME NEW q \in Process, Busy(q)', Now(q)'.op = "reverse", found'[q] # 0
                 PROVE  Originates(Rows(q, Now(q).on), Now(q).cause, found[q])'
      BY DEF FoundIsThere
    <2>1. CASE q = p
      <3>1. Now(p)'.on = a /\ Now(p)'.cause = Now(p).cause
        BY <2>1, <1>1, <1>4, AfterFind
      <3>2. found'[p] = amount
        BY <1>1 DEF TypeOK
      <3> QED BY <2>1, <3>1, <3>2, <1>2, <1>3, <1>5
    <2>2. CASE q # p
      <3>1. Busy(q) /\ Now(q)' = Now(q) /\ found'[q] = found[q]
        BY <1>1, <2>2, OthersStay DEF TypeOK
      <3> QED BY <3>1, <1>5 DEF IInv, FoundIsThere
    <2> QED BY <2>1, <2>2
  <1> QED BY <1>4, <1>6, <1>7, <1>8 DEF IInv

\* applyWithin, penalizeWithin and reverseWithin: the account was free, so nobody
\* else has rows on it to commit, and the rows inserted leave it sound.
LEMMA MoveKeeps ==
  ASSUME IInv, NEW p \in Process, Move(p)
  PROVE  IInv'
  <1>0. TypeOK /\ Busy(p) /\ Now(p).op \in {"apply", "penalize", "reverse"}
    BY DEF IInv, Move
  <1> PICK a \in Account : a = Now(p).on
    BY <1>0, NowFacts
  <1> DEFINE new == Written(Now(p), Bal(p, a), Rows(p, a), found[p])
  <1>1. /\ TypeOK /\ Busy(p) /\ Advance(p) /\ Free(a, p)
        /\ Now(p).op \in {"apply", "penalize"} \/ (Now(p).op = "reverse" /\ found[p] # 0)
        /\ ~ Overdrawn(Now(p), Bal(p, a), Rows(p, a), found[p])
        /\ held' = [held EXCEPT ![p] = @ \cup {a}]
        /\ seen' = [seen EXCEPT ![p][a] = Closing(Bal(p, a), new)]
        /\ own' = [own EXCEPT ![p][a] = @ \o new]
        /\ UNCHANGED <<balance, ledger, done, job, found>>
        /\ at' = [at EXCEPT ![p] = @ + 1]
    BY <1>0 DEF IInv, Move, committed, Advance
  <1>2. /\ a \in Account /\ Now(p) \in Statement /\ job[p] # NoJob
        /\ Now(p).op \in {"apply", "penalize", "reverse"}
    BY <1>1, NowFacts
  <1>3. /\ Rows(p, a) \in Seq(Row) /\ Bal(p, a) \in Int /\ found[p] \in Int
        /\ Sound(a, Rows(p, a), Bal(p, a))
    BY <1>1, <1>2, ViewIsSound DEF TypeOK
  <1>4. Now(p).op = "reverse" /\ found[p] # 0 =>
          Originates(Rows(p, a), Now(p).cause, found[p])
    BY <1>1 DEF IInv, FoundIsThere
  <1>5. /\ new \in Seq(Row) /\ Closing(Bal(p, a), new) \in Int
        /\ Sound(a, Rows(p, a) \o new, Closing(Bal(p, a), new))
    BY <1>1, <1>2, <1>3, <1>4, WrittenIsSound
  <1>6. ledger[a] \in Seq(Row) /\ own[p][a] \in Seq(Row)
        /\ own[p][a] \o new \in Seq(Row)
    BY <1>1, <1>2, <1>5, ConcatProperties DEF TypeOK
  <1>7. Rows(p, a) \o new = ledger[a] \o (own[p][a] \o new)
    <2> HIDE DEF new
    <2>1. ledger[a] \in Seq(Row) /\ own[p][a] \in Seq(Row) /\ new \in Seq(Row)
      BY <1>5, <1>6
    <2>2. \A l, o, n \in Seq(Row) : (l \o o) \o n = l \o (o \o n)
      BY ConcatAssociative
    <2>3. (ledger[a] \o own[p][a]) \o new = ledger[a] \o (own[p][a] \o new)
      BY <2>1, <2>2
    <2> QED BY <2>3 DEF Rows
  <1> HIDE DEF new
  <1>8. TypeOK'
    <2>1. own' \in [Process -> [Account -> Seq(Row)]]
      BY <1>1, <1>2, <1>6 DEF TypeOK
    <2>2. seen' \in [Process -> [Account -> Int]]
      BY <1>1, <1>2, <1>5 DEF TypeOK
    <2>3. \A q \in Process : job'[q] = NoJob => held'[q] = {} /\ own'[q] = NoRows
      BY <1>1, <1>2 DEF TypeOK
    <2> QED BY <1>1, <1>2, <2>1, <2>2, <2>3 DEF TypeOK
  <1>9. /\ own'[p][a] = own[p][a] \o new /\ seen'[p][a] = Closing(Bal(p, a), new)
        /\ \A q \in Process : \A b \in Account :
             q # p \/ b # a => own'[q][b] = own[q][b] /\ seen'[q][b] = seen[q][b]
    BY <1>1, <1>2 DEF TypeOK
  <1>10. /\ Rows(p, a)' = Rows(p, a) \o new
         /\ \A q \in Process : \A b \in Account :
              q # p \/ b # a => Rows(q, b)' = Rows(q, b)
    BY <1>1, <1>7, <1>9 DEF Rows
  <1>11. LocksExclude'
    BY <1>1 DEF IInv, TypeOK, LocksExclude, Free
  <1>12. OwnUnderLock' /\ CommittedSound'
    <2>1. \A q \in Process : held[q] \subseteq held'[q]
      BY <1>1 DEF TypeOK
    <2>2. a \in held'[p]
      BY <1>1 DEF TypeOK
    <2> QED BY <1>1, <1>9, <2>1, <2>2 DEF IInv, OwnUnderLock, CommittedSound
  <1>13. LockedSound'
    <2> SUFFICES ASSUME NEW q \in Process, NEW b \in Account, b \in held'[q]
                 PROVE  Sound(b, Rows(q, b)', seen'[q][b])
      BY DEF LockedSound
    <2>1. CASE q = p /\ b = a
      BY <2>1, <1>5, <1>9, <1>10
    <2>2. CASE q # p \/ b # a
      <3>1. b \in held[q]
        BY <2>2, <1>1 DEF TypeOK
      <3> QED BY <2>2, <3>1, <1>9, <1>10 DEF IInv, LockedSound
    <2> QED BY <2>1, <2>2
  <1>14. FoundIsThere'
    <2> SUFFICES ASSUME NEW q \in Process, Busy(q)', Now(q)'.op = "reverse", found'[q] # 0
                 PROVE  Originates(Rows(q, Now(q).on), Now(q).cause, found[q])'
      BY DEF FoundIsThere
    <2>1. q # p
      BY <1>1, <1>8, AfterFind
    <2>2. Busy(q) /\ Now(q)' = Now(q) /\ found'[q] = found[q]
      BY <1>1, <2>1, OthersStay
    <2>3. Now(q).on \in Account
      BY <1>1, <2>2, NowFacts
    <2>4. Originates(Rows(q, Now(q).on), Now(q).cause, found[q])
      BY <2>2 DEF IInv, FoundIsThere
    <2> QED BY <2>1, <2>2, <2>3, <2>4, <1>10
  <1> QED BY <1>8, <1>11, <1>12, <1>13, <1>14 DEF IInv

\* What remains of a transaction that is over: nothing.
LEMMA EndFacts ==
  ASSUME TypeOK, NEW p \in Process, End(p)
  PROVE  /\ job' \in [Process -> Job \cup {NoJob}] /\ at' \in [Process -> Nat]
         /\ held' \in [Process -> SUBSET (Account \cup Gate)]
         /\ seen' \in [Process -> [Account -> Int]]
         /\ own' \in [Process -> [Account -> Seq(Row)]]
         /\ found' \in [Process -> Int]
         /\ job'[p] = NoJob /\ held'[p] = {} /\ own'[p] = NoRows
         /\ ~ Busy(p)'
         /\ \A q \in Process \ {p} :
              /\ job'[q] = job[q] /\ held'[q] = held[q] /\ own'[q] = own[q]
              /\ seen'[q] = seen[q] /\ found'[q] = found[q]
              /\ Busy(q)' = Busy(q) /\ Now(q)' = Now(q)
  <1>1. Unseen \in [Account -> Int] /\ NoRows \in [Account -> Seq(Row)]
    <2>1. <<>> \in Seq(Row)
      OBVIOUS
    <2> QED BY <2>1 DEF Unseen, NoRows
  <1>2. /\ job' \in [Process -> Job \cup {NoJob}] /\ at' \in [Process -> Nat]
        /\ held' \in [Process -> SUBSET (Account \cup Gate)]
        /\ seen' \in [Process -> [Account -> Int]]
        /\ own' \in [Process -> [Account -> Seq(Row)]]
        /\ found' \in [Process -> Int]
    BY <1>1 DEF End, TypeOK
  <1>3. job'[p] = NoJob /\ held'[p] = {} /\ own'[p] = NoRows
    BY DEF End, TypeOK
  <1>4. ~ Busy(p)'
    BY <1>3 DEF Busy, NoJob
  <1>5. \A q \in Process \ {p} :
          /\ job'[q] = job[q] /\ held'[q] = held[q] /\ own'[q] = own[q]
          /\ seen'[q] = seen[q] /\ found'[q] = found[q] /\ at'[q] = at[q]
    BY DEF End, TypeOK
  <1> QED BY <1>2, <1>3, <1>4, <1>5 DEF Busy, Now

\* Rows not committed are forgotten with the lock they were written under.
LEMMA EndKeepsOwn ==
  ASSUME TypeOK, OwnUnderLock, NEW p \in Process, End(p)
  PROVE  OwnUnderLock'
  <1> SUFFICES ASSUME NEW q \in Process, NEW a \in Account, a \notin held'[q]
               PROVE  own'[q][a] = <<>>
    BY DEF OwnUnderLock
  <1>1. CASE q = p
    <2>1. own'[q] = NoRows
      BY <1>1, EndFacts
    <2> QED BY <2>1 DEF NoRows
  <1>2. CASE q # p
    <2>1. own'[q] = own[q] /\ a \notin held[q]
      BY <1>2, EndFacts
    <2> QED BY <2>1 DEF OwnUnderLock
  <1> QED BY <1>1, <1>2

\* A rollback leaves what others see and have locked as it is.
LEMMA RollbackKeeps ==
  ASSUME IInv, NEW p \in Process, Rollback(p)
  PROVE  IInv'
  <1>1. TypeOK /\ End(p) /\ UNCHANGED <<balance, ledger, done>>
    BY DEF IInv, Rollback, committed
  <1>2. TypeOK'
    BY <1>1, EndFacts DEF TypeOK
  <1>3. \A q \in Process \ {p} : \A a : Rows(q, a)' = Rows(q, a)
    BY <1>1, EndFacts DEF Rows
  <1>4. LocksExclude' /\ CommittedSound'
    BY <1>1, EndFacts DEF IInv, LocksExclude, CommittedSound
  <1>5. OwnUnderLock'
    BY <1>1, EndKeepsOwn DEF IInv
  <1>6. LockedSound'
    <2> SUFFICES ASSUME NEW q \in Process, NEW a \in Account, a \in held'[q]
                 PROVE  Sound(a, Rows(q, a)', seen'[q][a])
      BY DEF LockedSound
    <2>1. q \in Process \ {p} /\ a \in held[q] /\ seen'[q] = seen[q]
      BY <1>1, EndFacts
    <2>2. Rows(q, a)' = Rows(q, a)
      BY <1>3, <2>1
    <2> QED BY <2>1, <2>2 DEF IInv, LockedSound
  <1>7. FoundIsThere'
    <2> SUFFICES ASSUME NEW q \in Process, Busy(q)', Now(q)'.op = "reverse", found'[q] # 0
                 PROVE  Originates(Rows(q, Now(q).on), Now(q).cause, found[q])'
      BY DEF FoundIsThere
    <2>1. q \in Process \ {p}
      BY <1>1, EndFacts
    <2>2. Busy(q) /\ Now(q)' = Now(q) /\ found'[q] = found[q]
      BY <1>1, <2>1, EndFacts
    <2> QED BY <2>1, <2>2, <1>3 DEF IInv, FoundIsThere
  <1> QED BY <1>2, <1>4, <1>5, <1>6, <1>7 DEF IInv

\* A commit makes what the transaction saw the truth; nobody else has what it
\* changed locked.
LEMMA CommitKeeps ==
  ASSUME IInv, NEW p \in Process, Commit(p)
  PROVE  IInv'
  <1>1. /\ TypeOK /\ End(p) /\ job[p] # NoJob
        /\ balance' = [a \in Account |-> Bal(p, a)]
        /\ ledger' = [a \in Account |-> Rows(p, a)]
        /\ done' = done \cup job[p].marks
    BY DEF IInv, Commit
  <1>2. job[p] \in Job /\ job[p].marks \subseteq Mark
    <2>1. job[p] \in Job
      BY <1>1 DEF TypeOK
    <2> QED BY <2>1, JobAssumption DEF Transaction
  <1>3. CommittedSound'
    <2> SUFFICES ASSUME NEW a \in Account
                 PROVE  Sound(a, ledger'[a], balance'[a])
      BY DEF CommittedSound
    <2>1. ledger'[a] = Rows(p, a) /\ balance'[a] = Bal(p, a)
      BY <1>1
    <2> QED BY <2>1, ViewIsSound
  <1>4. TypeOK'
    <2>1. balance' \in [Account -> Int] /\ ledger' \in [Account -> Seq(Row)]
      <3>1. ASSUME NEW a \in Account PROVE Rows(p, a) \in Seq(Row)
        BY ViewIsSound
      <3>2. ASSUME NEW a \in Account PROVE Bal(p, a) \in Int
        BY ViewIsSound
      <3> QED BY <1>1, <3>1, <3>2
    <2>2. done' \subseteq Mark
      BY <1>1, <1>2 DEF TypeOK
    <2>3. \A a \in Wallet : \A i \in DOMAIN ledger'[a] : ledger'[a][i].amount # 0
      <3>1. Wallet \subseteq Account
        BY DEF Account
      <3> QED BY <1>3, <3>1 DEF CommittedSound, Sound
    <2>4. \A q \in Process : job'[q] = NoJob => held'[q] = {} /\ own'[q] = NoRows
      BY <1>1, EndFacts DEF TypeOK
    <2> QED BY <1>1, <2>1, <2>2, <2>3, <2>4, EndFacts DEF TypeOK
  <1>5. LocksExclude'
    BY <1>1, EndFacts DEF IInv, LocksExclude
  <1>6. OwnUnderLock'
    BY <1>1, EndKeepsOwn DEF IInv
  <1>7. \A q \in Process \ {p} : \A a \in held[q] \cap Account : Rows(q, a)' = Rows(q, a)
    <2> SUFFICES ASSUME NEW q \in Process \ {p}, NEW a \in held[q] \cap Account
                 PROVE  Rows(q, a)' = Rows(q, a)
      OBVIOUS
    <2>1. a \notin held[p]
      BY DEF IInv, LocksExclude
    <2>2. ledger'[a] = Rows(p, a) /\ own'[q] = own[q]
      BY <1>1, EndFacts
    <2>3. Rows(p, a) = ledger[a]
      BY <2>1, ViewIsSound
    <2> QED BY <2>2, <2>3 DEF Rows
  <1>8. LockedSound'
    <2> SUFFICES ASSUME NEW q \in Process, NEW a \in Account, a \in held'[q]
                 PROVE  Sound(a, Rows(q, a)', seen'[q][a])
      BY DEF LockedSound
    <2>1. q \in Process \ {p} /\ a \in held[q] /\ seen'[q] = seen[q]
      BY <1>1, EndFacts
    <2> QED BY <2>1, <1>7 DEF IInv, LockedSound
  <1>9. FoundIsThere'
    <2> SUFFICES ASSUME NEW q \in Process, Busy(q)', Now(q)'.op = "reverse", found'[q] # 0
                 PROVE  Originates(Rows(q, Now(q).on), Now(q).cause, found[q])'
      BY DEF FoundIsThere
    <2>1. q \in Process \ {p}
      BY <1>1, EndFacts
    <2>2. Busy(q) /\ Now(q)' = Now(q) /\ found'[q] = found[q]
      BY <1>1, <2>1, EndFacts
    <2>3. PICK a \in Account : a = Now(q).on
      BY <1>1, <2>1, <2>2, NowFacts
    <2>4. Originates(Rows(q, a), Now(q).cause, found[q])
      BY <2>1, <2>2, <2>3 DEF IInv, FoundIsThere
    <2>5. CASE a \in held[q]
      <3>1. Rows(q, a)' = Rows(q, a)
        BY <2>1, <2>3, <2>5, <1>7
      <3> QED BY <2>2, <2>3, <2>4, <3>1
    <2>6. CASE a \notin held[q]
      <3>1. ledger[a] \in Seq(Row) /\ own[p][a] \in Seq(Row) /\ own[q][a] = <<>>
        BY <1>1, <2>1, <2>3, <2>6 DEF IInv, TypeOK, OwnUnderLock
      <3>2. Rows(q, a) = ledger[a]
        BY <2>1, <2>3, <2>6, ViewIsSound
      <3>3. ledger'[a] = ledger[a] \o own[p][a]
        BY <1>1, <2>3 DEF Rows
      <3>4. own'[q][a] = <<>>
        BY <1>1, <2>1, <3>1, EndFacts
      <3>5. Rows(q, a)' = ledger[a] \o own[p][a]
        <4>1. ledger[a] \o own[p][a] \in Seq(Row)
          BY <3>1, ConcatProperties
        <4> QED BY <3>3, <3>4, <4>1, ConcatEmptySeq DEF Rows
      <3>6. Originates(ledger[a] \o own[p][a], Now(q).cause, found[q])
        BY <2>4, <3>1, <3>2, OriginatesGrows
      <3> QED BY <2>2, <2>3, <3>5, <3>6
    <2> QED BY <2>5, <2>6
  <1> QED BY <1>3, <1>4, <1>5, <1>6, <1>8, <1>9 DEF IInv

\* Every statement of every transaction keeps the invariant.
LEMMA NextKeeps == IInv /\ [Next]_vars => IInv'
  <1> SUFFICES ASSUME IInv, [Next]_vars PROVE IInv'
    OBVIOUS
  <1>1. ASSUME NEW p \in Process, NEW j \in Job, Start(p, j) PROVE IInv'
    BY <1>1, StartKeeps
  <1>2. ASSUME NEW p \in Process, Lock(p) PROVE IInv'
    BY <1>2, LockKeeps
  <1>3. ASSUME NEW p \in Process, Check(p) \/ NothingFound(p) PROVE IInv'
    <2>1. /\ Busy(p) /\ Now(p).op # "find" /\ Advance(p)
          /\ UNCHANGED <<committed, held, seen, own, found>>
      BY <1>3 DEF Check, NothingFound
    <2> QED BY <2>1, QuietKeeps
  <1>4. ASSUME NEW p \in Process, Find(p) PROVE IInv'
    BY <1>4, FindKeeps
  <1>5. ASSUME NEW p \in Process, Move(p) PROVE IInv'
    BY <1>5, MoveKeeps
  <1>6. ASSUME NEW p \in Process, Commit(p) PROVE IInv'
    BY <1>6, CommitKeeps
  <1>7. ASSUME NEW p \in Process, Rollback(p) PROVE IInv'
    BY <1>7, RollbackKeeps
  <1>8. CASE UNCHANGED vars
    BY <1>8 DEF vars, committed, IInv, TypeOK, LocksExclude, OwnUnderLock, CommittedSound,
                LockedSound, FoundIsThere, Rows, Busy, Now
  <1> QED BY <1>1, <1>2, <1>3, <1>4, <1>5, <1>6, <1>7, <1>8 DEF Next, Statements

\* The invariant holds in every state that can be reached.
LEMMA InvariantHolds == Spec => []IInv
  BY InitHolds, NextKeeps, PTL DEF Spec

-----------------------------------------------------------------------------
(* Theorems *)

\* Accounts, rows, locks and transactions always have the values the tables and
\* a connection allow (TypeOK).
THEOREM LedgerTypeCorrect == Spec => []TypeOK
  <1>1. IInv => TypeOK
    BY DEF IInv
  <1> QED BY <1>1, InvariantHolds, PTL

\* ADR-0007: however the statements of the transactions interleave, whatever the
\* transactions are, a balance is what the rows add up to, no wallet is overdrawn
\* and no score leaves its bounds (CoinService and TrustService applyWithin).
THEOREM BalanceAlwaysLedger == Spec => []BalanceIsLedger
  <1>1. IInv => BalanceIsLedger
    BY DEF IInv, CommittedSound, Sound, BalanceIsLedger
  <1> QED BY <1>1, InvariantHolds, PTL

\* "Exactly once" needs no unique index: the lookup under the account's lock is
\* enough for any number of retries and concurrent calls (idempotencyKey).
THEOREM KeysAreUnique == Spec => []OncePerKey
  <1>1. IInv => OncePerKey
    BY DEF IInv, CommittedSound, Sound, OncePerKey
  <1> QED BY <1>1, InvariantHolds, PTL

\* A reversal in a wallet gives back exactly what one earlier row took, although
\* the charge is looked up without a lock (refundJoinCharge, reverseWithin).
THEOREM ReversalsGiveBack == Spec => []ReversalsMirror
  <1>1. IInv => ReversalsMirror
    <2>1. Wallet \subseteq Account
      BY DEF Account
    <2> QED BY <2>1 DEF IInv, CommittedSound, Sound, ReversalsMirror
  <1> QED BY <1>1, InvariantHolds, PTL

-----------------------------------------------------------------------------
(***************************************************************************)
(* The order in which rows are taken.                                      *)
(***************************************************************************)

\* Statements that take a row, and the one that does if something was found.
Takes(s) == s.op \in {"lock", "apply", "penalize"}
MayTake(s) == Takes(s) \/ s.op = "reverse"

\* Rows are taken by falling rank, or have been taken before.
InOrder(steps, rank) ==
  \A k \in DOMAIN steps : MayTake(steps[k]) =>
    \/ \E i \in DOMAIN steps : i < k /\ Takes(steps[i]) /\ steps[i].on = steps[k].on
    \/ \A i \in DOMAIN steps :
         i < k /\ MayTake(steps[i]) /\ steps[i].on # steps[k].on =>
           rank[steps[i].on] > rank[steps[k].on]

\* A transaction has the rows its statements so far have taken, and no other.
HeldIsTaken ==
  \A p \in Process :
    /\ \A r \in held[p] : \E i \in DOMAIN job[p].steps :
         i < at[p] /\ MayTake(job[p].steps[i]) /\ job[p].steps[i].on = r
    /\ \A i \in DOMAIN job[p].steps :
         i < at[p] /\ Takes(job[p].steps[i]) => job[p].steps[i].on \in held[p]

\* One statement, with the row it takes if it takes one.
LEMMA StatementTakes ==
  ASSUME TypeOK, HeldIsTaken, NEW p \in Process, Busy(p), Advance(p),
         \/ held' = held /\ ~ Takes(Now(p))
         \/ held' = [held EXCEPT ![p] = @ \cup {Now(p).on}] /\ MayTake(Now(p))
  PROVE  HeldIsTaken'
  <1>1. job' = job /\ at' = [at EXCEPT ![p] = @ + 1] /\ at \in [Process -> Nat]
          /\ held \in [Process -> SUBSET (Account \cup Gate)]
    BY DEF Advance, TypeOK
  <1>2. at[p] \in DOMAIN job[p].steps /\ Now(p) = job[p].steps[at[p]]
    BY DEF Busy, Now
  <1>3. job[p] \in Job /\ job[p].steps \in Seq(Statement)
    BY NowFacts, JobAssumption DEF Transaction
  <1>4. DOMAIN job[p].steps \subseteq Nat
    BY <1>3
  <1> SUFFICES ASSUME NEW q \in Process
               PROVE  /\ \A r \in held'[q] : \E i \in DOMAIN job[q].steps :
                           i < at'[q] /\ MayTake(job[q].steps[i]) /\ job[q].steps[i].on = r
                      /\ \A i \in DOMAIN job[q].steps :
                           i < at'[q] /\ Takes(job[q].steps[i]) =>
                             job[q].steps[i].on \in held'[q]
    BY <1>1 DEF HeldIsTaken
  <1>5. CASE q = p
    <2>1. at'[p] = at[p] + 1 /\ at[p] \in Nat
      BY <1>1
    <2>2. held[p] \subseteq held'[p] /\ (Takes(Now(p)) => Now(p).on \in held'[p])
      BY <1>1
    <2>3. \A r \in held'[p] : r \in held[p] \/ (r = Now(p).on /\ MayTake(Now(p)))
      BY <1>1
    <2>4. \A r \in held'[p] : \E i \in DOMAIN job[p].steps :
            i < at'[p] /\ MayTake(job[p].steps[i]) /\ job[p].steps[i].on = r
      <3> SUFFICES ASSUME NEW r \in held'[p]
                   PROVE  \E i \in DOMAIN job[p].steps :
                            /\ i < at'[p] /\ MayTake(job[p].steps[i])
                            /\ job[p].steps[i].on = r
        OBVIOUS
      <3>1. CASE r \in held[p]
        <4>1. PICK i \in DOMAIN job[p].steps :
                i < at[p] /\ MayTake(job[p].steps[i]) /\ job[p].steps[i].on = r
          BY <3>1 DEF HeldIsTaken
        <4> QED BY <1>4, <2>1, <4>1
      <3>2. CASE r = Now(p).on /\ MayTake(Now(p))
        BY <1>2, <2>1, <3>2
      <3> QED BY <2>3, <3>1, <3>2
    <2>5. \A i \in DOMAIN job[p].steps :
            i < at'[p] /\ Takes(job[p].steps[i]) => job[p].steps[i].on \in held'[p]
      <3>1. \A i \in DOMAIN job[p].steps : i < at'[p] => i < at[p] \/ i = at[p]
        BY <1>4, <2>1
      <3> QED BY <1>2, <2>2, <3>1 DEF HeldIsTaken
    <2> QED BY <1>5, <2>4, <2>5
  <1>6. CASE q # p
    <2>1. held'[q] = held[q] /\ at'[q] = at[q]
      BY <1>1, <1>6
    <2> QED BY <2>1 DEF HeldIsTaken
  <1> QED BY <1>5, <1>6

LEMMA HeldIsTakenInit == Init => HeldIsTaken
  BY DEF Init, HeldIsTaken, NoJob

LEMMA HeldIsTakenStep == TypeOK /\ HeldIsTaken /\ [Next]_vars => HeldIsTaken'
  <1> SUFFICES ASSUME TypeOK, HeldIsTaken, [Next]_vars PROVE HeldIsTaken'
    OBVIOUS
  <1>1. ASSUME NEW p \in Process, NEW j \in Job, Start(p, j) PROVE HeldIsTaken'
    <2>1. /\ job' = [job EXCEPT ![p] = j] /\ at' = [at EXCEPT ![p] = 1]
          /\ held' = held /\ held[p] = {}
      BY <1>1 DEF Start, TypeOK
    <2>2. /\ job'[p] = j /\ at'[p] = 1 /\ held'[p] = {}
          /\ \A q \in Process : q # p =>
               job'[q] = job[q] /\ at'[q] = at[q] /\ held'[q] = held[q]
      BY <2>1 DEF TypeOK
    <2>3. \A i \in DOMAIN j.steps : ~ (i < 1)
      <3>1. j.steps \in Seq(Statement)
        BY JobAssumption DEF Transaction
      <3> QED BY <3>1
    <2> SUFFICES ASSUME NEW q \in Process
                 PROVE  /\ \A r \in held'[q] : \E i \in DOMAIN job'[q].steps :
                             /\ i < at'[q] /\ MayTake(job'[q].steps[i])
                             /\ job'[q].steps[i].on = r
                        /\ \A i \in DOMAIN job'[q].steps :
                             i < at'[q] /\ Takes(job'[q].steps[i]) =>
                               job'[q].steps[i].on \in held'[q]
      BY DEF HeldIsTaken
    <2>4. CASE q = p
      BY <2>2, <2>3, <2>4
    <2>5. CASE q # p
      BY <2>2, <2>5 DEF HeldIsTaken
    <2> QED BY <2>4, <2>5
  <1>2. ASSUME NEW p \in Process, Statements(p) PROVE HeldIsTaken'
    <2>1. Busy(p) /\ Advance(p)
      BY <1>2 DEF Statements, Lock, Check, Find, NothingFound, Move
    <2>2. CASE Lock(p) \/ Move(p)
      <3>1. held' = [held EXCEPT ![p] = @ \cup {Now(p).on}] /\ MayTake(Now(p))
        BY <2>2 DEF Lock, Move, MayTake, Takes
      <3> QED BY <2>1, <3>1, StatementTakes
    <2>3. CASE Check(p) \/ Find(p) \/ NothingFound(p)
      <3>1. held' = held /\ ~ Takes(Now(p))
        BY <2>3 DEF Check, Find, NothingFound, Takes
      <3> QED BY <2>1, <3>1, StatementTakes
    <2> QED BY <1>2, <2>2, <2>3 DEF Statements
  <1>3. ASSUME NEW p \in Process, Commit(p) \/ Rollback(p) PROVE HeldIsTaken'
    <2>1. End(p)
      BY <1>3 DEF Commit, Rollback
    <2>2. /\ held'[p] = {} /\ job'[p] = NoJob
          /\ \A q \in Process : q # p =>
               job'[q] = job[q] /\ at'[q] = at[q] /\ held'[q] = held[q]
      BY <2>1 DEF End, TypeOK
    <2> QED BY <2>2 DEF HeldIsTaken, NoJob
  <1>4. CASE UNCHANGED vars
    BY <1>4 DEF vars, HeldIsTaken
  <1> QED BY <1>1, <1>2, <1>3, <1>4 DEF Next

\* If everybody waits for somebody, whoever waits for the row of least rank waits
\* for someone who took that row and now wants one of an even lower rank.
LEMMA NobodyWaitsInACircle ==
  ASSUME IInv, HeldIsTaken, NEW rank \in [Account \cup Gate -> Nat],
         \A j \in Job : InOrder(j.steps, rank)
  PROVE  NoWaitCycle
  <1> SUFFICES ASSUME NEW S \in SUBSET Process, S # {},
                      \A p \in S : \E q \in S : WaitsFor(p, q)
               PROVE  FALSE
    BY DEF NoWaitCycle
  <1> DEFINE W == {rank[Now(p).on] : p \in S}
  <1>1. \A p \in S : /\ Busy(p) /\ MayTake(Now(p)) /\ Wanted(p) = {Now(p).on}
                     /\ Now(p).on \in Account \cup Gate
    <2> SUFFICES ASSUME NEW p \in S
                 PROVE  /\ Busy(p) /\ MayTake(Now(p)) /\ Wanted(p) = {Now(p).on}
                        /\ Now(p).on \in Account \cup Gate
      OBVIOUS
    <2>1. PICK q \in S : Wanted(p) \cap held[q] # {}
      BY DEF WaitsFor
    <2>2. Busy(p) /\ MayTake(Now(p)) /\ Wanted(p) = {Now(p).on}
      BY <2>1 DEF Wanted, MayTake, Takes
    <2>3. held[q] \subseteq Account \cup Gate
      BY DEF IInv, TypeOK
    <2> QED BY <2>1, <2>2, <2>3
  <1>2. W \subseteq Nat /\ W # {}
    BY <1>1
  <1>3. PICK w \in W : \A v \in W : ~ (v < w)
    <2>1. PICK x \in W : \A y \in W : ~ (<<y, x>> \in OpToRel(<, Nat))
      BY <1>2, NatLessThanWellFounded, WFMin
    <2>2. \A i, k \in Nat : i < k => <<i, k>> \in OpToRel(<, Nat)
      BY DEF OpToRel
    <2> QED BY <1>2, <2>1, <2>2
  <1>4. PICK p \in S : w = rank[Now(p).on]
    BY <1>3
  <1>5. PICK q \in S : p # q /\ Now(p).on \in held[q]
    BY <1>1 DEF WaitsFor
  <1>6. Now(q).on \notin held[q]
    <2>1. PICK o \in S : q # o /\ Now(q).on \in held[o]
      BY <1>1 DEF WaitsFor
    <2> QED BY <2>1 DEF IInv, LocksExclude
  <1>7. /\ job[q] \in Job /\ at[q] \in DOMAIN job[q].steps
        /\ Now(q) = job[q].steps[at[q]] /\ MayTake(job[q].steps[at[q]])
    BY <1>1, NowFacts DEF IInv, Busy, Now
  <1>8. PICK i \in DOMAIN job[q].steps :
          i < at[q] /\ MayTake(job[q].steps[i]) /\ job[q].steps[i].on = Now(p).on
    BY <1>5 DEF HeldIsTaken
  <1>9. ~ \E k \in DOMAIN job[q].steps :
            k < at[q] /\ Takes(job[q].steps[k]) /\ job[q].steps[k].on = Now(q).on
    BY <1>6 DEF HeldIsTaken
  <1>10. rank[Now(p).on] > rank[Now(q).on]
    BY <1>5, <1>6, <1>7, <1>8, <1>9 DEF InOrder
  <1>11. rank[Now(q).on] \in W /\ rank[Now(q).on] \in Nat /\ rank[Now(p).on] \in Nat
    BY <1>1
  <1> QED BY <1>3, <1>4, <1>10, <1>11

\* lockAccounts: where there is an order all transactions take their rows in, they
\* never wait for one another in a circle, however many there are.
THEOREM OrderedLocksNeverDeadlock ==
  ASSUME NEW CONSTANT rank \in [Account \cup Gate -> Nat],
         \A j \in Job : InOrder(j.steps, rank)
  PROVE  Spec => []NoWaitCycle
  <1>1. Spec => []HeldIsTaken
    <2>1. Spec => []TypeOK
      BY LedgerTypeCorrect
    <2> QED BY <2>1, HeldIsTakenInit, HeldIsTakenStep, PTL DEF Spec
  <1>2. IInv /\ HeldIsTaken => NoWaitCycle
    <2> SUFFICES ASSUME IInv, HeldIsTaken PROVE NoWaitCycle
      OBVIOUS
    <2>1. \A j \in Job : InOrder(j.steps, rank)
      OBVIOUS
    <2> QED BY <2>1, NobodyWaitsInACircle, Zenon
  <1> QED BY <1>1, <1>2, InvariantHolds, PTL

\* The transactions of LedgerJobs for users with the ids 1 .. n.
IsOfProduct(j, n) ==
  \E u, v \in 1 .. n : \E e :
    \/ j \in {Onboard(u), Open(e, u), Join(e, u), JoinFree(e, u), TurnDown(e, u)}
    \/ j \in {Withdraw(e, u), Complete(e, u), SettleHost(e, u)}
    \/ j = CancelByHost(e, u, v) /\ u # v

\* Events and users first, then wallets by user id, then scores by user id.
RankOf(r, n) ==
  IF r \in {wallet(u) : u \in 1 .. n} THEN 2 * n - r[2]
  ELSE IF r \in {score(u) : u \in 1 .. n} THEN n - r[2]
  ELSE 2 * n

LEMMA RankFacts ==
  ASSUME NEW n \in Nat, NEW u \in 1 .. n
  PROVE  /\ RankOf(wallet(u), n) = 2 * n - u
         /\ RankOf(score(u), n) = n - u
         /\ \A e : RankOf(Event(e), n) = 2 * n /\ RankOf(<<"user", e>>, n) = 2 * n
  <1>1. /\ \A v, w : wallet(v) # score(w)
        /\ \A e, v : Event(e) # wallet(v) /\ Event(e) # score(v)
        /\ \A e, v : <<"user", e>> # wallet(v) /\ <<"user", e>> # score(v)
    BY DEF wallet, score, Event
  <1>2. wallet(u)[2] = u /\ score(u)[2] = u
    BY DEF wallet, score
  <1> QED BY <1>1, <1>2 DEF RankOf

LEMMA RankIsNatural ==
  ASSUME NEW n \in Nat, NEW r
  PROVE  RankOf(r, n) \in Nat
  <1>1. CASE r \in {wallet(u) : u \in 1 .. n}
    <2>1. PICK u \in 1 .. n : r = wallet(u)
      BY <1>1
    <2> QED BY <2>1, RankFacts
  <1>2. CASE r \in {score(u) : u \in 1 .. n}
    <2>1. PICK u \in 1 .. n : r = score(u)
      BY <1>2
    <2> QED BY <2>1, RankFacts
  <1> QED BY <1>1, <1>2 DEF RankOf

\* Four pairs of statements, one after the other.
LEMMA FourPairs ==
  ASSUME NEW a, NEW b, NEW c, NEW d, NEW e, NEW f, NEW g, NEW h
  PROVE  LET s == <<a, b>> \o <<c, d>> \o <<e, f>> \o <<g, h>> IN
         /\ Len(s) = 8
         /\ s[1] = a /\ s[2] = b /\ s[3] = c /\ s[4] = d
         /\ s[5] = e /\ s[6] = f /\ s[7] = g /\ s[8] = h
  <1> DEFINE s == <<a, b>> \o <<c, d>> \o <<e, f>> \o <<g, h>>
  <1>1. Len(s) = 8
    OBVIOUS
  <1>2. s[1] = a /\ s[2] = b /\ s[3] = c
    OBVIOUS
  <1>3. s[4] = d /\ s[5] = e /\ s[6] = f
    OBVIOUS
  <1>4. s[7] = g /\ s[8] = h
    OBVIOUS
  <1> QED BY <1>1, <1>2, <1>3, <1>4

\* Each of the product's transactions takes its rows in that order.
LEMMA ProductIsInOrder ==
  ASSUME NEW n \in Nat, NEW rank \in [Account \cup Gate -> Nat],
         \A r \in Account \cup Gate : rank[r] = RankOf(r, n),
         NEW j \in Job, IsOfProduct(j, n)
  PROVE  InOrder(j.steps, rank)
  <1> PICK u \in 1 .. n, v \in 1 .. n : \E e :
        \/ j \in {Onboard(u), Open(e, u), Join(e, u), JoinFree(e, u), TurnDown(e, u)}
        \/ j \in {Withdraw(e, u), Complete(e, u), SettleHost(e, u)}
        \/ j = CancelByHost(e, u, v) /\ u # v
    BY DEF IsOfProduct
  <1> PICK e :
        \/ j \in {Onboard(u), Open(e, u), Join(e, u), JoinFree(e, u), TurnDown(e, u)}
        \/ j \in {Withdraw(e, u), Complete(e, u), SettleHost(e, u)}
        \/ j = CancelByHost(e, u, v) /\ u # v
    OBVIOUS
  <1> DEFINE steps == j.steps
             R(i) == rank[steps[i].on]
  <1> SUFFICES InOrder(steps, rank)
    OBVIOUS
  <1>0. /\ RankOf(wallet(u), n) = 2 * n - u /\ RankOf(score(u), n) = n - u
        /\ RankOf(wallet(v), n) = 2 * n - v
        /\ RankOf(Event(e), n) = 2 * n /\ RankOf(<<"user", u>>, n) = 2 * n
    BY RankFacts
  <1>1. steps \in Seq(Statement) /\ \A i \in DOMAIN steps : steps[i].on \in Account \cup Gate
    <2>1. steps \in Seq(Statement)
      BY JobAssumption DEF Transaction
    <2>2. \A i \in DOMAIN steps : steps[i] \in Statement
      BY <2>1
    <2> QED BY <2>1, <2>2 DEF Statement
  <1>2. \A i \in DOMAIN steps : R(i) = RankOf(steps[i].on, n)
    BY <1>1
  <1>3. (\A i, k \in 1 .. Len(steps) :
           i < k /\ MayTake(steps[i]) /\ MayTake(steps[k]) => R(i) > R(k))
        => InOrder(steps, rank)
    BY <1>1 DEF InOrder
  <1>4. CASE j = Onboard(u)
    <2>1. /\ Len(steps) = 3 /\ steps[1].on = <<"user", u>> /\ steps[2].on = wallet(u)
          /\ steps[3].on = score(u)
      BY <1>4 DEF Onboard, Step, TakeLock, Give, Tx
    <2> HIDE DEF steps
    <2>2. R(1) = 2 * n /\ R(2) = 2 * n - u /\ R(3) = n - u
      <3>1. 1 \in DOMAIN steps /\ 2 \in DOMAIN steps /\ 3 \in DOMAIN steps
        BY <1>1, <2>1
      <3>2. /\ R(1) = RankOf(<<"user", u>>, n) /\ R(2) = RankOf(wallet(u), n)
            /\ R(3) = RankOf(score(u), n)
        BY <1>2, <2>1, <3>1
      <3> QED BY <1>0, <3>2
    <2> HIDE DEF R
    <2> QED BY <1>3, <2>1, <2>2
  <1>5. CASE j = Open(e, u) \/ j = Join(e, u)
    <2>1. /\ Len(steps) = 3 /\ steps[1].on = Event(e) /\ steps[3].on = wallet(u)
          /\ steps[2].op = "check"
      <3>1. CASE j = Open(e, u)
        BY <3>1 DEF Open, Step, TakeLock, CheckMarks, Spend, Tx
      <3>2. CASE j = Join(e, u)
        BY <3>2 DEF Join, Step, TakeLock, CheckMarks, Spend, Tx
      <3> QED BY <1>5, <3>1, <3>2
    <2> HIDE DEF steps
    <2>2. R(1) = 2 * n /\ R(3) = 2 * n - u
      BY <1>1, <1>2, <2>1, <1>0
    <2> HIDE DEF R
    <2> QED BY <1>3, <2>1, <2>2 DEF MayTake, Takes
  <1>6. CASE j = JoinFree(e, u) \/ j = Complete(e, u)
    <2>1. Len(steps) = 2 /\ steps[2].op = "check"
      BY <1>6 DEF JoinFree, Complete, Step, TakeLock, CheckMarks, Tx
    <2> HIDE DEF steps, R
    <2> QED BY <1>3, <2>1 DEF MayTake, Takes
  <1>7. CASE j = SettleHost(e, u)
    <2>1. Len(steps) = 2 /\ steps[1].op = "check"
      BY <1>7 DEF SettleHost, Step, CheckMarks, Give, Tx
    <2> HIDE DEF steps, R
    <2> QED BY <1>3, <2>1 DEF MayTake, Takes
  <1>8. CASE j = TurnDown(e, u)
    <2>1. /\ Len(steps) = 4 /\ steps[1].on = Event(e) /\ steps[2].op = "check"
          /\ steps[3].op = "find" /\ steps[4].on = wallet(u)
      BY <1>8 DEF TurnDown, Step, TakeLock, CheckMarks, Refund, Tx
    <2> HIDE DEF steps
    <2>2. R(1) = 2 * n /\ R(4) = 2 * n - u
      BY <1>1, <1>2, <2>1, <1>0
    <2> HIDE DEF R
    <2> QED BY <1>3, <2>1, <2>2 DEF MayTake, Takes
  <1>9. CASE j = Withdraw(e, u)
    <2>1. /\ Len(steps) = 4 /\ steps[1].on = Event(e) /\ steps[2].op = "check"
          /\ steps[3].on = wallet(u) /\ steps[4].on = score(u)
      BY <1>9 DEF Withdraw, Step, TakeLock, CheckMarks, Penalize, Spend, Tx
    <2> HIDE DEF steps
    <2>2. R(1) = 2 * n /\ R(3) = 2 * n - u /\ R(4) = n - u
      BY <1>1, <1>2, <2>1, <1>0
    <2> HIDE DEF R
    <2> QED BY <1>3, <2>1, <2>2 DEF MayTake, Takes
  <1>10. CASE j = CancelByHost(e, u, v) /\ u # v
    <2> DEFINE a == IF u < v THEN u ELSE v
               b == IF u < v THEN v ELSE u
    <2>1. /\ a \in 1 .. n /\ b \in 1 .. n /\ a < b
          /\ (u = a /\ v = b) \/ (u = b /\ v = a)
      BY <1>10
    <2>2. LockAccounts(u, v) = <<TakeLock(wallet(a)), TakeLock(wallet(b))>>
      BY DEF LockAccounts
    <2> HIDE DEF a, b
    <2>3. /\ Len(steps) = 8 /\ steps[1].on = Event(e) /\ steps[2].op = "check"
          /\ steps[3].on = wallet(a) /\ steps[3].op = "lock"
          /\ steps[4].on = wallet(b) /\ steps[4].op = "lock"
          /\ steps[5].op = "find" /\ steps[6].on = wallet(v)
          /\ steps[7].on = wallet(u) /\ steps[8].on = score(u)
      <3>1. steps = <<TakeLock(Event(e)), CheckMarks(Event(e))>>
                      \o <<TakeLock(wallet(a)), TakeLock(wallet(b))>>
                      \o <<Step("find", wallet(v), <<"join", e, v>>, 0),
                           Step("reverse", wallet(v), <<"join", e, v>>, 0)>>
                      \o <<Penalize(wallet(u), <<"hostfine", e>>, FineCoins),
                           Spend(score(u), <<"hostfine", e>>, FineTrust)>>
        BY <1>10, <2>2, Zenon DEF CancelByHost, Refund, Tx
      <3> HIDE DEF steps
      <3>2. /\ Len(steps) = 8
            /\ steps[1] = TakeLock(Event(e)) /\ steps[2] = CheckMarks(Event(e))
            /\ steps[3] = TakeLock(wallet(a)) /\ steps[4] = TakeLock(wallet(b))
            /\ steps[5] = Step("find", wallet(v), <<"join", e, v>>, 0)
            /\ steps[6] = Step("reverse", wallet(v), <<"join", e, v>>, 0)
            /\ steps[7] = Penalize(wallet(u), <<"hostfine", e>>, FineCoins)
            /\ steps[8] = Spend(score(u), <<"hostfine", e>>, FineTrust)
        BY <3>1, FourPairs
      <3> QED BY <3>2 DEF Step, TakeLock, CheckMarks, Penalize, Spend
    <2> HIDE DEF steps
    <2>4. /\ R(1) = 2 * n /\ R(3) = 2 * n - a /\ R(4) = 2 * n - b
          /\ R(6) \in {2 * n - a, 2 * n - b} /\ R(7) \in {2 * n - a, 2 * n - b}
          /\ R(8) = n - u
      <3>1. /\ RankOf(wallet(a), n) = 2 * n - a /\ RankOf(wallet(b), n) = 2 * n - b
            /\ RankOf(wallet(v), n) \in {2 * n - a, 2 * n - b}
            /\ RankOf(wallet(u), n) \in {2 * n - a, 2 * n - b}
        BY <1>0, <2>1
      <3>2. \A i \in 1 .. 8 : R(i) = RankOf(steps[i].on, n)
        BY <1>1, <1>2, <2>3
      <3> HIDE DEF R
      <3> QED BY <1>0, <2>3, <3>1, <3>2
    <2>5. /\ steps[6].on \in {steps[3].on, steps[4].on}
          /\ steps[7].on \in {steps[3].on, steps[4].on}
      BY <2>1, <2>3
    <2> HIDE DEF R
    <2>6. \A i \in DOMAIN steps : i \in 1 .. 8
      BY <1>1, <2>3
    <2>7. \A i \in 1 .. 7 : i < 4 /\ MayTake(steps[i]) => R(i) \in {2 * n, 2 * n - a}
      BY <2>3, <2>4 DEF MayTake, Takes
    <2>8. \A i \in 1 .. 7 : MayTake(steps[i]) => R(i) \in Int /\ R(i) > R(8)
      BY <2>1, <2>3, <2>4 DEF MayTake, Takes
    <2>9. /\ 3 \in DOMAIN steps /\ 4 \in DOMAIN steps /\ Takes(steps[3]) /\ Takes(steps[4])
          /\ ~ MayTake(steps[2]) /\ ~ MayTake(steps[5])
      BY <1>1, <2>3 DEF MayTake, Takes
    <2> SUFFICES ASSUME NEW k \in DOMAIN steps, MayTake(steps[k])
                 PROVE  \/ \E i \in DOMAIN steps :
                              i < k /\ Takes(steps[i]) /\ steps[i].on = steps[k].on
                        \/ \A i \in DOMAIN steps :
                              i < k /\ MayTake(steps[i]) /\ steps[i].on # steps[k].on => R(i) > R(k)
      BY DEF InOrder, R, steps
    <2>10. CASE k \in {6, 7}
      BY <2>5, <2>9, <2>10
    <2>11. CASE k \in {1, 3, 4}
      BY <2>1, <2>4, <2>6, <2>7, <2>9, <2>11
    <2>12. CASE k = 8
      BY <2>6, <2>8, <2>12
    <2> QED BY <2>6, <2>9, <2>10, <2>11, <2>12
  <1> QED BY <1>4, <1>5, <1>6, <1>7, <1>8, <1>9, <1>10

\* The transactions of LedgerJobs, lockAccounts among them, have that order: no
\* number of them, for no number of users and events, ends in a deadlock.  (A
\* referral's payout and a reveal, which do not lock by id, are not among them.)
THEOREM LedgerJobsNeverDeadlock ==
  ASSUME NEW CONSTANT n \in Nat, \A j \in Job : IsOfProduct(j, n)
  PROVE  Spec => []NoWaitCycle
  <1> DEFINE rank == [r \in Account \cup Gate |-> RankOf(r, n)]
  <1>1. rank \in [Account \cup Gate -> Nat]
    BY RankIsNatural
  <1>2. \A r \in Account \cup Gate : rank[r] = RankOf(r, n)
    OBVIOUS
  <1> HIDE DEF rank
  <1>3. \A j \in Job : InOrder(j.steps, rank)
    BY <1>1, <1>2, ProductIsInOrder
  <1> QED BY <1>1, <1>3, OrderedLocksNeverDeadlock

-----------------------------------------------------------------------------
(***************************************************************************)
(* The statements implement the serial ledger.                             *)
(***************************************************************************)

Moves(s) == s.op \in {"apply", "penalize", "reverse"}

\* Accounts in the middle of a transaction, and the charge it has found.
State == [balance : [Account -> Int], ledger : [Account -> Seq(Row)], found : Int]

Begun == [balance |-> balance, ledger |-> ledger, found |-> 0]

\* What a transaction sees.
View(p) == [balance |-> [a \in Account |-> Bal(p, a)],
            ledger  |-> [a \in Account |-> Rows(p, a)],
            found   |-> found[p]]

\* What the statement s inserts into the account a of w.
Inserted(s, w, a) ==
  IF Moves(s) /\ a = s.on
  THEN Written(s, w.balance[a], w.ledger[a], w.found) ELSE <<>>

\* The statement s of j, which is not refused, makes v of the accounts w when the
\* marks are d.
Makes(j, s, w, v, d) ==
  /\ s.op = "check" => j.needs \subseteq d /\ j.bars \cap d = {}
  /\ v.found = IF s.op = "find" THEN Unreversed(w.ledger[s.on], s.cause) ELSE w.found
  /\ Moves(s) => ~ Overdrawn(s, w.balance[s.on], w.ledger[s.on], w.found)
  /\ \A a \in Account :
       /\ v.balance[a] = Closing(w.balance[a], Inserted(s, w, a))
       /\ v.ledger[a] = w.ledger[a] \o Inserted(s, w, a)

\* The statements of p so far, run alone on what is committed now.
Runs(p, f) ==
  /\ f \in [0 .. at[p] - 1 -> State]
  /\ f[0] = Begun
  /\ \A k \in 1 .. at[p] - 1 : Makes(job[p], job[p].steps[k], f[k - 1], f[k], done)
  /\ f[at[p] - 1] = View(p)

\* They have changed nothing but what p has locked.
Secluded(p, f) ==
  /\ \A k \in 0 .. at[p] - 1 : \A a \in Account \ held[p] :
       f[k].balance[a] = balance[a] /\ f[k].ledger[a] = ledger[a]
  /\ \A k \in 1 .. at[p] - 1 : Moves(job[p].steps[k]) =>
       \/ job[p].steps[k].on \in held[p]
       \/ job[p].steps[k].op = "reverse" /\ f[k - 1].found = 0

\* What a transaction has done so far it would have done alone, had it begun now.
Simulated(p) ==
  /\ job[p] = NoJob => found[p] = 0
  /\ job[p] # NoJob => /\ at[p] \in 1 .. Len(job[p].steps) + 1
                       /\ \E f : Runs(p, f) /\ Secluded(p, f)

\* Rows to be committed are those of the transaction's own statements.
OwnRows ==
  \A p \in Process : \A a \in Account : \A i \in DOMAIN own[p][a] :
    \/ own[p][a][i].kind = "seed"
    \/ \E k \in DOMAIN job[p].steps :
         /\ Moves(job[p].steps[k]) /\ job[p].steps[k].on = a
         /\ job[p].steps[k].cause = own[p][a][i].cause

\* Before its statement k, j takes a row that j2 takes too.
Excludes(j, k, j2) ==
  \E i \in DOMAIN j.steps, i2 \in DOMAIN j2.steps :
    i < k /\ Takes(j.steps[i]) /\ Takes(j2.steps[i2]) /\ j.steps[i].on = j2.steps[i2].on

\* The discipline of transactions: what is looked up or checked is protected by a
\* lock on a row that everybody takes who changes the answer.
Disciplined ==
  /\ \A j \in Job : \A k \in DOMAIN j.steps : j.steps[k].op = "reverse" => j.steps[k].on \in Wallet
  /\ \A j, j2 \in Job : \A k \in DOMAIN j.steps, i \in DOMAIN j2.steps :
       /\ j.steps[k].op = "find" /\ Moves(j2.steps[i])
       /\ j.steps[k].on = j2.steps[i].on /\ j.steps[k].cause = j2.steps[i].cause
       => Excludes(j, k, j2)
  /\ \A j, j2 \in Job : \A k \in DOMAIN j.steps :
       j.steps[k].op = "check" /\ j.bars \cap j2.marks # {} => Excludes(j, k, j2)

\* The invariant of the refinement.
SInv ==
  /\ IInv
  /\ HeldIsTaken
  /\ OwnRows
  /\ \A p \in Process : Simulated(p)

\* A set of numbers has a least one.
LEMMA LeastNumber ==
  ASSUME NEW T \in SUBSET Nat, T # {}
  PROVE  \E k \in T : \A i \in T : ~ (i < k)
  <1>1. PICK k \in T : \A i \in T : ~ (<<i, k>> \in OpToRel(<, Nat))
    BY NatLessThanWellFounded, WFMin
  <1>2. \A i, k2 \in Nat : i < k2 => <<i, k2>> \in OpToRel(<, Nat)
    BY DEF OpToRel
  <1> QED BY <1>1, <1>2

\* A transaction of SerialLedger that has not been refused.
Whole(w) == [balance |-> w.balance, ledger |-> w.ledger, found |-> w.found, ok |-> TRUE]

\* SerialLedger moves coins as CoinLedger does.
LEMMA SameMoves ==
  /\ Serial!Account = Account
  /\ \A s, b, r, f : /\ Serial!Written(s, b, r, f) = Written(s, b, r, f)
                     /\ Serial!Overdrawn(s, b, r, f) = Overdrawn(s, b, r, f)
  /\ \A r, c : Serial!Unreversed(r, c) = Unreversed(r, c)
  /\ \A b, r : Serial!Closing(b, r) = Closing(b, r)
  <1>1. \A b, r : Serial!Closing(b, r) = Closing(b, r)
    BY DEF Closing, Serial!Closing
  <1>2. \A r, k, c : Serial!HasRow(r, k, c) = HasRow(r, k, c)
    BY DEF HasRow, Serial!HasRow
  <1>3. \A s, r, f : Serial!Settled(s, r, f) = Settled(s, r, f)
    BY DEF Settled, Serial!Settled, HasRow, Serial!HasRow, KindOf, Serial!KindOf
  <1>4. \A s, b, f : Serial!Moved(s, b, f) = Moved(s, b, f)
    BY DEF Moved, Serial!Moved, Asked, Serial!Asked, ClampScore, Serial!ClampScore
  <1>5. \A s, r : Serial!Seed(s, r) = Seed(s, r)
    BY DEF Seed, Serial!Seed, HasRow, Serial!HasRow, NewRow, Serial!NewRow
  <1>6. \A s, b, r, f : Serial!Written(s, b, r, f) = Written(s, b, r, f)
    BY <1>1, <1>3, <1>4, <1>5 DEF Written, Serial!Written, NewRow, Serial!NewRow,
       KindOf, Serial!KindOf
  <1>7. \A s, b, r, f : Serial!Overdrawn(s, b, r, f) = Overdrawn(s, b, r, f)
    BY <1>3, <1>4 DEF Overdrawn, Serial!Overdrawn
  <1>8. \A r, c : Serial!Unreversed(r, c) = Unreversed(r, c)
    BY <1>2 DEF Unreversed, Serial!Unreversed
  <1>9. Serial!Account = Account
    BY DEF Account, Serial!Account
  <1> QED BY <1>1, <1>6, <1>7, <1>8, <1>9

\* A row more or none, and the balance after it.
LEMMA NothingInserted ==
  ASSUME NEW w \in State, NEW a \in Account
  PROVE  /\ w.ledger[a] \in Seq(Row) /\ w.balance[a] \in Int
         /\ Closing(w.balance[a], <<>>) = w.balance[a]
         /\ w.ledger[a] \o <<>> = w.ledger[a]
  <1>1. w.ledger[a] \in Seq(Row) /\ w.balance[a] \in Int
    BY DEF State
  <1> QED BY <1>1, ConcatEmptySeq DEF Closing

\* Makes is what After does.
LEMMA MakesIsAfter ==
  ASSUME NEW j, NEW s \in Statement, NEW w \in State, NEW v \in State,
         Makes(j, s, w, v, done),
         s.op \in {"find", "apply", "penalize", "reverse"} => s.on \in Account
  PROVE  Serial!After(j, s, Whole(w)) = Whole(v)
  <1>1. /\ w.balance \in [Account -> Int] /\ w.ledger \in [Account -> Seq(Row)]
        /\ v.balance \in [Account -> Int] /\ v.ledger \in [Account -> Seq(Row)]
    BY DEF State
  <1>2. Whole(w).balance = w.balance /\ Whole(w).ledger = w.ledger
        /\ Whole(w).found = w.found /\ Whole(w).ok = TRUE
    BY DEF Whole
  <1>3. ASSUME ~ Moves(s)
        PROVE  v.balance = w.balance /\ v.ledger = w.ledger
    <2>1. ASSUME NEW a \in Account
          PROVE  v.balance[a] = w.balance[a] /\ v.ledger[a] = w.ledger[a]
      <3>1. Inserted(s, w, a) = <<>>
        BY <1>3 DEF Inserted
      <3> QED BY <3>1, NothingInserted DEF Makes
    <2> QED BY <1>1, <2>1
  <1>4. s.op \in {"lock", "check", "find", "apply", "penalize", "reverse"}
    BY DEF Statement
  <1>5. CASE s.op = "lock"
    <2>1. v.found = w.found /\ ~ Moves(s)
      BY <1>5 DEF Makes, Moves
    <2>2. Serial!After(j, s, Whole(w)) = Whole(w)
      BY <1>5 DEF Serial!After
    <2> QED BY <2>1, <2>2, <1>3 DEF Whole
  <1>6. CASE s.op = "check"
    <2>1. v.found = w.found /\ ~ Moves(s) /\ j.needs \subseteq done /\ j.bars \cap done = {}
      BY <1>6 DEF Makes, Moves
    <2>2. Serial!After(j, s, Whole(w)) = Whole(w)
      BY <1>6, <2>1 DEF Serial!After, Whole
    <2> QED BY <2>1, <2>2, <1>3 DEF Whole
  <1>7. CASE s.op = "find"
    <2>1. v.found = Unreversed(w.ledger[s.on], s.cause) /\ ~ Moves(s)
      BY <1>7 DEF Makes, Moves
    <2>2. Serial!After(j, s, Whole(w))
            = [Whole(w) EXCEPT !.found = Unreversed(w.ledger[s.on], s.cause)]
      BY <1>7, <1>2, SameMoves DEF Serial!After
    <2> QED BY <2>1, <2>2, <1>3 DEF Whole
  <1>8. CASE Moves(s)
    <2> DEFINE a == s.on
               new == Written(s, w.balance[a], w.ledger[a], w.found)
    <2>1. /\ v.found = w.found /\ a \in Account
          /\ ~ Overdrawn(s, w.balance[a], w.ledger[a], w.found)
      BY <1>8 DEF Makes, Moves
    <2>2. \A b \in Account : Inserted(s, w, b) = IF b = a THEN new ELSE <<>>
      BY <1>8 DEF Inserted
    <2> HIDE DEF new
    <2>3. \A b \in Account :
            /\ v.balance[b] = IF b = a THEN Closing(w.balance[a], new) ELSE w.balance[b]
            /\ v.ledger[b] = IF b = a THEN w.ledger[a] \o new ELSE w.ledger[b]
      <3> SUFFICES ASSUME NEW b \in Account
                   PROVE  /\ v.balance[b] = IF b = a THEN Closing(w.balance[a], new)
                                                     ELSE w.balance[b]
                          /\ v.ledger[b] = IF b = a THEN w.ledger[a] \o new ELSE w.ledger[b]
        OBVIOUS
      <3>1. /\ v.balance[b] = Closing(w.balance[b], Inserted(s, w, b))
            /\ v.ledger[b] = w.ledger[b] \o Inserted(s, w, b)
        BY DEF Makes
      <3>2. CASE b = a
        BY <2>2, <3>1, <3>2
      <3>3. CASE b # a
        <4>1. Inserted(s, w, b) = <<>>
          BY <2>2, <3>3
        <4> QED BY <3>1, <3>3, <4>1, NothingInserted
      <3> QED BY <3>2, <3>3
    <2>4. /\ v.balance = [w.balance EXCEPT ![a] = Closing(w.balance[a], new)]
          /\ v.ledger = [w.ledger EXCEPT ![a] = w.ledger[a] \o new]
      <3>1. PICK n : n = Closing(w.balance[a], new)
        OBVIOUS
      <3>2. PICK m : m = w.ledger[a] \o new
        OBVIOUS
      <3>3. \A b \in Account : /\ v.balance[b] = IF b = a THEN n ELSE w.balance[b]
                               /\ v.ledger[b] = IF b = a THEN m ELSE w.ledger[b]
        BY <2>3, <3>1, <3>2
      <3>4. v.balance = [w.balance EXCEPT ![a] = n]
        BY <1>1, <2>1, <3>3
      <3>5. v.ledger = [w.ledger EXCEPT ![a] = m]
        BY <1>1, <2>1, <3>3
      <3> QED BY <3>1, <3>2, <3>4, <3>5
    <2>5. Serial!After(j, s, Whole(w)) =
            [Whole(w) EXCEPT !.ok = Whole(w).ok /\ ~ Overdrawn(s, w.balance[a], w.ledger[a], w.found),
                             !.balance[a] = Closing(w.balance[a], new),
                             !.ledger[a] = w.ledger[a] \o new]
      <3>1. PICK x : x = Whole(w)
        OBVIOUS
      <3>2. x.balance = w.balance /\ x.ledger = w.ledger /\ x.found = w.found
        BY <1>2, <3>1
      <3>3. new = Written(s, x.balance[s.on], x.ledger[s.on], x.found)
        BY <3>2 DEF new
      <3>4. s.op # "lock" /\ s.op # "check" /\ s.op # "find"
        BY <1>8 DEF Moves
      <3>5. Serial!After(j, s, x) =
              [x EXCEPT !.ok = x.ok /\ ~ Overdrawn(s, x.balance[a], x.ledger[a], x.found),
                        !.balance[a] = Closing(x.balance[a], new),
                        !.ledger[a] = x.ledger[a] \o new]
        BY <3>3, <3>4, SameMoves DEF Serial!After
      <3> QED BY <3>1, <3>2, <3>5
    <2> QED BY <1>2, <2>1, <2>4, <2>5 DEF Whole
  <1> QED BY <1>4, <1>5, <1>6, <1>7, <1>8 DEF Moves

\* The whole of a transaction run alone is what SerialLedger makes of it.
LEMMA OutcomeOfRun ==
  ASSUME TypeOK, NEW p \in Process, job[p] \in Job, NEW f, Runs(p, f),
         at[p] - 1 = Len(job[p].steps)
  PROVE  Serial!Outcome(job[p]) = Whole(View(p))
  <1> DEFINE j == job[p]
             n == Len(j.steps)
             start == [balance |-> balance, ledger |-> ledger, found |-> 0, ok |-> TRUE]
             whole == [k \in 0 .. n |-> Whole(f[k])]
             Run(g) == g = [k \in 0 .. n |->
                              IF k = 0 THEN start ELSE Serial!After(j, j.steps[k], g[k - 1])]
  <1>1. j.steps \in Seq(Statement) /\ n \in Nat
    BY JobAssumption DEF Transaction
  <1>2. \A k \in 1 .. n : /\ k \in DOMAIN j.steps /\ j.steps[k] \in Statement
                          /\ j.steps[k].op \in {"find", "apply", "penalize", "reverse"}
                               => j.steps[k].on \in Account
    BY <1>1, JobAssumption
  <1>3. /\ f \in [0 .. n -> State] /\ f[0] = Begun /\ f[n] = View(p)
        /\ \A k \in 1 .. n : Makes(j, j.steps[k], f[k - 1], f[k], done)
    BY DEF Runs
  <1> HIDE DEF j, n
  <1>4. Run(whole)
    <2> SUFFICES ASSUME NEW k \in 0 .. n
                 PROVE  whole[k] = IF k = 0 THEN start
                                   ELSE Serial!After(j, j.steps[k], whole[k - 1])
      OBVIOUS
    <2>1. CASE k = 0
      <3>1. Whole(f[0]) = start
        BY <1>3 DEF Whole, Begun
      <3> QED BY <2>1, <3>1
    <2>2. CASE k # 0
      <3>1. k \in 1 .. n /\ k - 1 \in 0 .. n
        BY <2>2, <1>1
      <3>2. f[k - 1] \in State /\ f[k] \in State
        BY <1>3, <3>1
      <3>3. Serial!After(j, j.steps[k], Whole(f[k - 1])) = Whole(f[k])
        BY <1>2, <1>3, <3>1, <3>2, MakesIsAfter
      <3> QED BY <2>2, <3>1, <3>3
    <2> QED BY <2>1, <2>2
  <1>5. \A g : Run(g) => g[n] = whole[n]
    <2> SUFFICES ASSUME NEW g, Run(g), g[n] # whole[n] PROVE FALSE
      OBVIOUS
    <2> DEFINE T == {k \in 0 .. n : g[k] # whole[k]}
    <2>1. T \subseteq Nat /\ n \in T
      BY <1>1
    <2>2. PICK k \in T : \A i \in T : ~ (i < k)
      BY <2>1, LeastNumber
    <2>3. k # 0
      <3>1. 0 \in 0 .. n
        BY <1>1
      <3>2. g[0] = start
        BY <3>1
      <3>3. whole[0] = start
        BY <1>4, <3>1
      <3> QED BY <2>2, <3>2, <3>3
    <2>4. k - 1 \in 0 .. n /\ k - 1 \notin T
      <3>1. k \in 0 .. n /\ k - 1 \in 0 .. n /\ k - 1 < k
        BY <1>1, <2>2, <2>3
      <3> HIDE DEF T
      <3> QED BY <2>2, <3>1
    <2>5. g[k - 1] = whole[k - 1]
      BY <2>4
    <2>6. /\ g[k] = Serial!After(j, j.steps[k], g[k - 1])
          /\ whole[k] = Serial!After(j, j.steps[k], whole[k - 1])
      BY <1>4, <2>2, <2>3
    <2> QED BY <2>2, <2>5, <2>6
  <1>6. Serial!Outcome(j) = (CHOOSE g : Run(g))[n]
    BY DEF Serial!Outcome, n
  <1>7. Run(CHOOSE g : Run(g))
    BY <1>4
  <1>8. whole[n] = Whole(View(p))
    BY <1>1, <1>3
  <1> HIDE DEF Run, whole
  <1> QED BY <1>5, <1>6, <1>7, <1>8 DEF j

\* A reversal in a wallet that finds nothing does nothing.
LEMMA NothingBack ==
  ASSUME NEW s, s.op = "reverse", s.on \in Wallet, NEW b, NEW r
  PROVE  Written(s, b, r, 0) = <<>> /\ ~ Overdrawn(s, b, r, 0)
  <1>1. Settled(s, r, 0) /\ s.on \notin Score
    BY KindsAssumption DEF Settled
  <1> QED BY <1>1 DEF Written, Overdrawn, Seed

\* What a statement that moves nothing leaves.
LEMMA MakesNothing ==
  ASSUME NEW j, NEW s, NEW w \in State, NEW d, s.op # "find",
         s.op = "check" => j.needs \subseteq d /\ j.bars \cap d = {},
         Moves(s) => s.op = "reverse" /\ s.on \in Wallet /\ w.found = 0
  PROVE  Makes(j, s, w, w, d)
  <1>1. \A a \in Account : Inserted(s, w, a) = <<>>
    BY NothingBack DEF Inserted
  <1>2. Moves(s) => ~ Overdrawn(s, w.balance[s.on], w.ledger[s.on], w.found)
    BY NothingBack
  <1>3. \A a \in Account : /\ w.balance[a] = Closing(w.balance[a], Inserted(s, w, a))
                           /\ w.ledger[a] = w.ledger[a] \o Inserted(s, w, a)
    BY <1>1, NothingInserted
  <1> QED BY <1>2, <1>3 DEF Makes

\* The accounts in H as in w, all others as they are committed.
Mix(w, H, b, l) ==
  [balance |-> [a \in Account |-> IF a \in H THEN w.balance[a] ELSE b[a]],
   ledger  |-> [a \in Account |-> IF a \in H THEN w.ledger[a] ELSE l[a]],
   found   |-> w.found]

LEMMA MixFacts ==
  ASSUME NEW w \in State, NEW H, NEW b \in [Account -> Int], NEW l \in [Account -> Seq(Row)]
  PROVE  Mix(w, H, b, l) \in State
  <1>1. w.balance \in [Account -> Int] /\ w.ledger \in [Account -> Seq(Row)] /\ w.found \in Int
    BY DEF State
  <1> DEFINE m == Mix(w, H, b, l)
             mb == [a \in Account |-> IF a \in H THEN w.balance[a] ELSE b[a]]
             ml == [a \in Account |-> IF a \in H THEN w.ledger[a] ELSE l[a]]
  <1>2. mb \in [Account -> Int] /\ ml \in [Account -> Seq(Row)]
    BY <1>1
  <1>3. m = [balance |-> mb, ledger |-> ml, found |-> w.found]
    BY DEF Mix
  <1> HIDE DEF m, mb, ml
  <1> QED BY <1>1, <1>2, <1>3 DEF State, m

\* A statement does the same on accounts that others have changed, if those are
\* not the ones it moves and neither its query nor its check sees the difference.
LEMMA MakesAgain ==
  ASSUME NEW j, NEW s \in Statement, NEW w \in State, NEW v \in State, NEW d, NEW e,
         NEW H, NEW b \in [Account -> Int], NEW l \in [Account -> Seq(Row)],
         Makes(j, s, w, v, d),
         s.op = "check" => j.needs \subseteq e /\ j.bars \cap e = {},
         s.op = "find" => s.on \in Account,
         s.op = "find" /\ s.on \notin H =>
           Unreversed(l[s.on], s.cause) = Unreversed(w.ledger[s.on], s.cause),
         Moves(s) => /\ s.on \in Account
                     /\ s.on \in H \/ (s.op = "reverse" /\ s.on \in Wallet /\ w.found = 0)
  PROVE  Makes(j, s, Mix(w, H, b, l), Mix(v, H, b, l), e)
  <1> DEFINE w2 == Mix(w, H, b, l)
             v2 == Mix(v, H, b, l)
  <1>1. /\ w2 \in State /\ w2.found = w.found
        /\ \A a \in Account : /\ w2.balance[a] = IF a \in H THEN w.balance[a] ELSE b[a]
                              /\ w2.ledger[a] = IF a \in H THEN w.ledger[a] ELSE l[a]
    <2>1. w2 \in State
      BY MixFacts
    <2>2. w2.found = w.found
      BY DEF Mix
    <2>3. \A a \in Account : w2.balance[a] = IF a \in H THEN w.balance[a] ELSE b[a]
      BY DEF Mix
    <2>4. \A a \in Account : w2.ledger[a] = IF a \in H THEN w.ledger[a] ELSE l[a]
      BY DEF Mix
    <2> HIDE DEF w2
    <2> QED BY <2>1, <2>2, <2>3, <2>4
  <1>2. /\ v2 \in State /\ v2.found = v.found
        /\ \A a \in Account : /\ v2.balance[a] = IF a \in H THEN v.balance[a] ELSE b[a]
                              /\ v2.ledger[a] = IF a \in H THEN v.ledger[a] ELSE l[a]
    <2>1. v2 \in State
      BY MixFacts
    <2>2. v2.found = v.found
      BY DEF Mix
    <2>3. \A a \in Account : v2.balance[a] = IF a \in H THEN v.balance[a] ELSE b[a]
      BY DEF Mix
    <2>4. \A a \in Account : v2.ledger[a] = IF a \in H THEN v.ledger[a] ELSE l[a]
      BY DEF Mix
    <2> HIDE DEF v2
    <2> QED BY <2>1, <2>2, <2>3, <2>4
  <1> HIDE DEF w2, v2
  <1>3. v2.found = IF s.op = "find" THEN Unreversed(w2.ledger[s.on], s.cause) ELSE w2.found
    <2>1. v.found = IF s.op = "find" THEN Unreversed(w.ledger[s.on], s.cause) ELSE w.found
      BY DEF Makes
    <2> QED BY <1>1, <1>2, <2>1
  <1>4. Moves(s) => ~ Overdrawn(s, w2.balance[s.on], w2.ledger[s.on], w2.found)
    <2> SUFFICES ASSUME Moves(s)
                 PROVE  ~ Overdrawn(s, w2.balance[s.on], w2.ledger[s.on], w2.found)
      OBVIOUS
    <2>1. CASE s.on \in H
      BY <1>1, <2>1 DEF Makes
    <2>2. CASE s.op = "reverse" /\ s.on \in Wallet /\ w.found = 0
      BY <1>1, <2>2, NothingBack
    <2> QED BY <2>1, <2>2
  <1>5. ASSUME NEW a \in Account
        PROVE  /\ v2.balance[a] = Closing(w2.balance[a], Inserted(s, w2, a))
               /\ v2.ledger[a] = w2.ledger[a] \o Inserted(s, w2, a)
    <2>1. CASE a \in H
      <3>1. w2.balance[a] = w.balance[a] /\ w2.ledger[a] = w.ledger[a]
            /\ v2.balance[a] = v.balance[a] /\ v2.ledger[a] = v.ledger[a]
        BY <1>1, <1>2, <2>1
      <3>2. Inserted(s, w2, a) = Inserted(s, w, a)
        BY <1>1, <3>1 DEF Inserted
      <3> QED BY <3>1, <3>2 DEF Makes
    <2>2. CASE a \notin H
      <3>1. w2.balance[a] = b[a] /\ w2.ledger[a] = l[a]
            /\ v2.balance[a] = b[a] /\ v2.ledger[a] = l[a]
        BY <1>1, <1>2, <2>2
      <3>2. Inserted(s, w2, a) = <<>>
        <4>1. CASE Moves(s) /\ a = s.on
          BY <1>1, <2>2, <4>1, NothingBack DEF Inserted
        <4>2. CASE ~ (Moves(s) /\ a = s.on)
          BY <4>2 DEF Inserted
        <4> QED BY <4>1, <4>2
      <3>3. Closing(w2.balance[a], <<>>) = w2.balance[a] /\ w2.ledger[a] \o <<>> = w2.ledger[a]
        BY <1>1, NothingInserted
      <3> QED BY <3>1, <3>2, <3>3
    <2> QED BY <2>1, <2>2
  <1> QED BY <1>3, <1>4, <1>5 DEF Makes, w2, v2

\* Rows of other causes do not change what a query finds.
LEMMA UnreversedStays ==
  ASSUME NEW rows \in Seq(Row), NEW more \in Seq(Row), NEW c, Keyed(rows),
         \A i \in DOMAIN more : more[i].kind = "seed" \/ more[i].cause # c
  PROVE  Unreversed(rows \o more, c) = Unreversed(rows, c)
  <1> DEFINE all == rows \o more
             n == Len(rows)
  <1>1. /\ all \in Seq(Row) /\ n \in Nat /\ DOMAIN rows = 1 .. n
        /\ Len(all) = n + Len(more) /\ Len(more) \in Nat
        /\ DOMAIN all = 1 .. Len(all) /\ DOMAIN more = 1 .. Len(more)
        /\ \A i \in 1 .. n : i \in DOMAIN all /\ all[i] = rows[i]
        /\ \A i \in DOMAIN all : i \notin 1 .. n =>
             i - n \in DOMAIN more /\ all[i] = more[i - n]
    <2>1. all \in Seq(Row) /\ Len(all) = n + Len(more)
      BY ConcatProperties
    <2>2. \A i \in 1 .. Len(all) : all[i] = IF i <= n THEN rows[i] ELSE more[i - n]
      BY ConcatProperties
    <2>3. /\ n \in Nat /\ DOMAIN rows = 1 .. n /\ Len(more) \in Nat
          /\ DOMAIN more = 1 .. Len(more)
      OBVIOUS
    <2> HIDE DEF all, n
    <2>4. DOMAIN all = 1 .. Len(all)
      BY <2>1
    <2> QED BY <2>1, <2>2, <2>3, <2>4
  <1> HIDE DEF all, n
  <1>2. \A i \in DOMAIN all : all[i].kind # "seed" /\ all[i].cause = c =>
          i \in DOMAIN rows /\ all[i] = rows[i]
    BY <1>1
  <1>3. \A k \in {"original", "reversal"} : HasRow(all, k, c) <=> HasRow(rows, k, c)
    BY <1>1, <1>2 DEF HasRow
  <1>4. CASE ~ (HasRow(rows, "original", c) /\ ~ HasRow(rows, "reversal", c))
    <2>1. Unreversed(all, c) = 0 /\ Unreversed(rows, c) = 0
      BY <1>3, <1>4 DEF Unreversed
    <2> QED BY <2>1 DEF all
  <1>5. CASE HasRow(rows, "original", c) /\ ~ HasRow(rows, "reversal", c)
    <2> DEFINE i == CHOOSE i \in DOMAIN rows : rows[i].kind = "original" /\ rows[i].cause = c
               k == CHOOSE k \in DOMAIN all : all[k].kind = "original" /\ all[k].cause = c
    <2>1. Unreversed(rows, c) = rows[i].amount
      BY <1>5 DEF Unreversed
    <2>2. Unreversed(all, c) = all[k].amount
      BY <1>3, <1>5 DEF Unreversed
    <2>3. i \in DOMAIN rows /\ rows[i].kind = "original" /\ rows[i].cause = c
      BY <1>5 DEF HasRow
    <2>4. k \in DOMAIN all /\ all[k].kind = "original" /\ all[k].cause = c
      <3>1. HasRow(all, "original", c)
        BY <1>3, <1>5
      <3> QED BY <3>1 DEF HasRow
    <2> HIDE DEF i, k
    <2>5. k \in DOMAIN rows /\ all[k] = rows[k]
      BY <1>2, <2>4
    <2>6. k = i
      BY <2>3, <2>4, <2>5 DEF Keyed
    <2> QED BY <2>1, <2>2, <2>5, <2>6 DEF all
  <1> QED BY <1>4, <1>5

\* What a transaction sees are accounts, those it has not locked as committed.
LEMMA ViewFacts ==
  IInv => \A p \in Process :
    /\ View(p) \in State
    /\ View(p).found = found[p]
    /\ \A a \in Account :
         /\ View(p).balance[a] = Bal(p, a) /\ View(p).ledger[a] = Rows(p, a)
         /\ a \notin held[p] => Bal(p, a) = balance[a] /\ Rows(p, a) = ledger[a]
  <1> SUFFICES ASSUME IInv, NEW p \in Process
               PROVE  /\ View(p) \in State
                      /\ View(p).found = found[p]
                      /\ \A a \in Account :
                           /\ View(p).balance[a] = Bal(p, a) /\ View(p).ledger[a] = Rows(p, a)
                           /\ a \notin held[p] => Bal(p, a) = balance[a] /\ Rows(p, a) = ledger[a]
    OBVIOUS
  <1>1. \A a \in Account : Rows(p, a) \in Seq(Row) /\ Bal(p, a) \in Int
    BY ViewIsSound
  <1>2. \A a \in Account : a \notin held[p] => Bal(p, a) = balance[a] /\ Rows(p, a) = ledger[a]
    BY ViewIsSound DEF Bal
  <1>3. View(p) \in State
    <2>1. found[p] \in Int
      BY DEF IInv, TypeOK
    <2> QED BY <1>1, <2>1 DEF View, State
  <1>4. /\ View(p).found = found[p]
        /\ \A a \in Account : View(p).balance[a] = Bal(p, a) /\ View(p).ledger[a] = Rows(p, a)
    BY DEF View
  <1> QED BY <1>2, <1>3, <1>4

\* What nobody does anything to stays simulated.
LEMMA StaysSimulated ==
  ASSUME NEW q \in Process, Simulated(q), UNCHANGED <<balance, ledger, done>>,
         job'[q] = job[q], at'[q] = at[q], held'[q] = held[q], seen'[q] = seen[q],
         own'[q] = own[q], found'[q] = found[q]
  PROVE  Simulated(q)'
  <1>1. View(q)' = View(q) /\ Begun' = Begun
    BY DEF View, Begun, Bal, Rows
  <1>2. \A f : Runs(q, f) => Runs(q, f)'
    BY <1>1 DEF Runs
  <1>3. \A f : Secluded(q, f) => Secluded(q, f)'
    BY DEF Secluded
  <1> QED BY <1>2, <1>3 DEF Simulated

\* One statement more.
LEMMA StatementSimulated ==
  ASSUME IInv, IInv', NEW p \in Process, Simulated(p), Busy(p), Advance(p),
         UNCHANGED <<balance, ledger, done>>, held[p] \subseteq held'[p],
         Makes(job[p], Now(p), View(p), View(p)', done),
         Moves(Now(p)) => Now(p).on \in held'[p] \/ (Now(p).op = "reverse" /\ found[p] = 0)
  PROVE  Simulated(p)'
  <1> PICK n : n = at[p]
    OBVIOUS
  <1>1. /\ job' = job /\ at'[p] = n + 1 /\ n \in DOMAIN job[p].steps
        /\ Now(p) = job[p].steps[n] /\ job[p] \in Job /\ job[p] # NoJob
    BY NowFacts DEF Advance, Busy, Now, IInv, TypeOK
  <1>2. job[p].steps \in Seq(Statement)
    BY <1>1, JobAssumption DEF Transaction
  <1>3. n \in 1 .. Len(job[p].steps) /\ Len(job[p].steps) \in Nat
    BY <1>1, <1>2
  <1> PICK f : Runs(p, f) /\ Secluded(p, f)
    BY <1>1 DEF Simulated
  <1> PICK w : w = View(p)'
    OBVIOUS
  <1> DEFINE g == [k \in 0 .. n |-> IF k = n THEN w ELSE f[k]]
  <1>4. ASSUME NEW a \in Account
        PROVE  /\ Bal(p, a)' \in Int /\ Rows(p, a)' \in Seq(Row)
               /\ a \notin held'[p] => Bal(p, a)' = balance[a] /\ Rows(p, a)' = ledger[a]
    <2>1. /\ ledger'[a] \in Seq(Row) /\ own'[p][a] \in Seq(Row)
          /\ balance'[a] \in Int /\ seen'[p][a] \in Int
          /\ a \notin held'[p] => own'[p][a] = <<>>
      BY DEF IInv, TypeOK, OwnUnderLock
    <2>2. ledger'[a] \o own'[p][a] \in Seq(Row) /\ ledger'[a] \o <<>> = ledger'[a]
      BY <2>1, ConcatProperties, ConcatEmptySeq
    <2> QED BY <2>1, <2>2 DEF Rows, Bal
  <1>5. /\ w \in State
        /\ \A a \in Account : a \notin held'[p] =>
             w.balance[a] = balance[a] /\ w.ledger[a] = ledger[a]
    <2>1. found'[p] \in Int
      BY DEF IInv, TypeOK
    <2>2. w = [balance |-> [a \in Account |-> Bal(p, a)'],
               ledger  |-> [a \in Account |-> Rows(p, a)'], found |-> found'[p]]
      BY DEF View
    <2> QED BY <1>4, <2>1, <2>2 DEF State
  <1>6. View(p).found = found[p]
    BY ViewFacts
  <1>7. /\ f \in [0 .. n - 1 -> State] /\ f[0] = Begun /\ f[n - 1] = View(p)
        /\ \A k \in 1 .. n - 1 : Makes(job[p], job[p].steps[k], f[k - 1], f[k], done)
    BY DEF Runs
  <1>8. /\ \A k \in 0 .. n - 1 : \A a \in Account \ held[p] :
             f[k].balance[a] = balance[a] /\ f[k].ledger[a] = ledger[a]
        /\ \A k \in 1 .. n - 1 : Moves(job[p].steps[k]) =>
             \/ job[p].steps[k].on \in held[p]
             \/ job[p].steps[k].op = "reverse" /\ f[k - 1].found = 0
    BY DEF Secluded
  <1>9. Begun' = Begun
    BY DEF Begun
  <1>10. (at[p] - 1)' = n /\ n \in Nat /\ n # 0
    BY <1>1, <1>3
  <1>11. Makes(job[p], job[p].steps[n], f[n - 1], w, done)
    BY <1>1, <1>7
  <1>12. Moves(job[p].steps[n]) =>
           \/ job[p].steps[n].on \in held'[p]
           \/ job[p].steps[n].op = "reverse" /\ f[n - 1].found = 0
    BY <1>1, <1>6, <1>7
  <1>13. /\ g \in [0 .. n -> State] /\ g[0] = Begun /\ g[n] = w
         /\ \A k \in 0 .. n - 1 : g[k] = f[k]
    <2>1. \A k \in 0 .. n : k # n => k \in 0 .. n - 1
      BY <1>10
    <2> QED BY <1>5, <1>7, <1>10, <2>1
  <1>14. \A k \in 1 .. n : /\ k - 1 \in 0 .. n - 1 /\ g[k - 1] = f[k - 1]
                           /\ k # n => k \in 1 .. n - 1 /\ k \in 0 .. n - 1 /\ g[k] = f[k]
    BY <1>10, <1>13
  <1> HIDE DEF g
  <1>15. \A k \in 1 .. n : Makes(job[p], job[p].steps[k], g[k - 1], g[k], done)
    <2> SUFFICES ASSUME NEW k \in 1 .. n
                 PROVE  Makes(job[p], job[p].steps[k], g[k - 1], g[k], done)
      OBVIOUS
    <2>1. CASE k = n
      BY <1>11, <1>13, <1>14, <2>1
    <2>2. CASE k # n
      BY <1>7, <1>14, <2>2
    <2> QED BY <2>1, <2>2
  <1>16. Runs(p, g)'
    <2>1. at'[p] - 1 = n /\ job'[p] = job[p] /\ done' = done
      BY <1>1, <1>10
    <2>2. g \in [0 .. n -> State] /\ g[0] = Begun' /\ g[n] = View(p)'
      BY <1>9, <1>13
    <2>3. \A k \in 1 .. n : Makes(job'[p], job'[p].steps[k], g[k - 1], g[k], done')
      BY <1>15, <2>1
    <2> QED BY <2>1, <2>2, <2>3 DEF Runs
  <1>17. \A k \in 0 .. n : \A a \in Account \ held'[p] :
           g[k].balance[a] = balance[a] /\ g[k].ledger[a] = ledger[a]
    <2> SUFFICES ASSUME NEW k \in 0 .. n, NEW a \in Account \ held'[p]
                 PROVE  g[k].balance[a] = balance[a] /\ g[k].ledger[a] = ledger[a]
      OBVIOUS
    <2>1. CASE k = n
      BY <1>5, <1>13, <2>1
    <2>2. CASE k # n
      <3>1. k \in 0 .. n - 1
        BY <1>10, <2>2
      <3> QED BY <1>8, <1>13, <3>1
    <2> QED BY <2>1, <2>2
  <1>18. \A k \in 1 .. n : Moves(job[p].steps[k]) =>
           \/ job[p].steps[k].on \in held'[p]
           \/ job[p].steps[k].op = "reverse" /\ g[k - 1].found = 0
    <2> SUFFICES ASSUME NEW k \in 1 .. n, Moves(job[p].steps[k])
                 PROVE  \/ job[p].steps[k].on \in held'[p]
                        \/ job[p].steps[k].op = "reverse" /\ g[k - 1].found = 0
      OBVIOUS
    <2>1. CASE k = n
      BY <1>12, <1>14, <2>1
    <2>2. CASE k # n
      BY <1>8, <1>14, <2>2
    <2> QED BY <2>1, <2>2
  <1>19. Secluded(p, g)'
    <2>1. at'[p] - 1 = n /\ job'[p] = job[p] /\ balance' = balance /\ ledger' = ledger
      BY <1>1, <1>10
    <2> QED BY <1>17, <1>18, <2>1 DEF Secluded
  <1>20. at'[p] \in 1 .. Len(job'[p].steps) + 1 /\ job'[p] # NoJob
    BY <1>1, <1>3
  <1> QED BY <1>16, <1>19, <1>20 DEF Simulated

\* Who has a lock in common with a transaction about to commit is not past it.
LEMMA NoInterference ==
  ASSUME SInv, NEW p \in Process, NEW q \in Process, p # q,
         job[p] # NoJob, ~ Busy(p), job[q] # NoJob,
         NEW k \in DOMAIN job[q].steps, k < at[q], Excludes(job[q], k, job[p])
  PROVE  FALSE
  <1>1. /\ TypeOK /\ HeldIsTaken /\ LocksExclude /\ Simulated(p)
        /\ job[p] \in Job /\ job[q] \in Job /\ at[p] \in Nat /\ at[q] \in Nat
    BY DEF SInv, IInv, TypeOK
  <1>2. job[p].steps \in Seq(Statement) /\ job[q].steps \in Seq(Statement)
    BY <1>1, JobAssumption DEF Transaction
  <1>3. \A i \in DOMAIN job[p].steps : i < at[p]
    <2>1. at[p] \in 1 .. Len(job[p].steps) + 1 /\ at[p] \notin DOMAIN job[p].steps
      BY <1>1 DEF Simulated, Busy
    <2> QED BY <1>2, <2>1
  <1>4. PICK i \in DOMAIN job[q].steps, i2 \in DOMAIN job[p].steps :
          /\ i < k /\ Takes(job[q].steps[i]) /\ Takes(job[p].steps[i2])
          /\ job[q].steps[i].on = job[p].steps[i2].on
    BY DEF Excludes
  <1>5. i < at[q]
    BY <1>1, <1>2, <1>4
  <1>6. job[q].steps[i].on \in held[q] /\ job[p].steps[i2].on \in held[p]
    BY <1>1, <1>3, <1>4, <1>5 DEF HeldIsTaken
  <1> QED BY <1>1, <1>4, <1>6 DEF LocksExclude

\* What others have done so far would have come out the same after a commit.
LEMMA CommitSimulated ==
  ASSUME SInv, Disciplined, NEW p \in Process, Commit(p), NEW q \in Process, p # q
  PROVE  Simulated(q)'
  <1>1. /\ IInv /\ TypeOK /\ End(p) /\ job[p] # NoJob /\ ~ Busy(p)
        /\ balance' = [a \in Account |-> Bal(p, a)]
        /\ ledger' = [a \in Account |-> Rows(p, a)]
        /\ done' = done \cup job[p].marks
    BY DEF SInv, IInv, Commit
  <1>2. /\ job'[q] = job[q] /\ held'[q] = held[q] /\ own'[q] = own[q]
        /\ seen'[q] = seen[q] /\ found'[q] = found[q] /\ at'[q] = at[q]
    BY <1>1 DEF End, TypeOK
  <1>3. CASE job[q] = NoJob
    BY <1>2, <1>3 DEF SInv, Simulated
  <1>4. CASE job[q] # NoJob
    <2> PICK j : j = job[q]
      OBVIOUS
    <2> PICK n : n = at[q]
      OBVIOUS
    <2> PICK H : H = held[q]
      OBVIOUS
    <2> PICK b, l : b = balance' /\ l = ledger'
      OBVIOUS
    <2>1. n \in 1 .. Len(j.steps) + 1 /\ \E f : Runs(q, f) /\ Secluded(q, f)
      BY <1>4 DEF SInv, Simulated
    <2> PICK f : Runs(q, f) /\ Secluded(q, f)
      BY <2>1
    <2>2. j \in Job /\ job[p] \in Job /\ j.steps \in Seq(Statement) /\ Len(j.steps) \in Nat
      <3>1. j \in Job /\ job[p] \in Job
        BY <1>1, <1>4 DEF TypeOK
      <3> QED BY <3>1, JobAssumption DEF Transaction
    <2>3. /\ f \in [0 .. n - 1 -> State] /\ f[0] = Begun /\ f[n - 1] = View(q)
          /\ \A k \in 1 .. n - 1 : Makes(j, j.steps[k], f[k - 1], f[k], done)
      BY DEF Runs
    <2>4. /\ \A k \in 0 .. n - 1 : \A a \in Account \ H :
               f[k].balance[a] = balance[a] /\ f[k].ledger[a] = ledger[a]
          /\ \A k \in 1 .. n - 1 : Moves(j.steps[k]) =>
               \/ j.steps[k].on \in H
               \/ j.steps[k].op = "reverse" /\ f[k - 1].found = 0
      BY DEF Secluded
    <2>5. b \in [Account -> Int] /\ l \in [Account -> Seq(Row)]
      <3>1. \A a \in Account : Bal(p, a) \in Int /\ Rows(p, a) \in Seq(Row)
        BY <1>1, ViewIsSound
      <3> QED BY <1>1, <3>1
    <2>6. \A a \in Account \cap H : b[a] = balance[a] /\ l[a] = ledger[a]
      <3> SUFFICES ASSUME NEW a \in Account \cap H
                   PROVE  b[a] = balance[a] /\ l[a] = ledger[a]
        OBVIOUS
      <3>1. a \notin held[p]
        BY <1>1 DEF IInv, LocksExclude
      <3>2. Bal(p, a) = balance[a] /\ Rows(p, a) = ledger[a]
        BY <1>1, <3>1, ViewFacts
      <3> QED BY <1>1, <3>2
    <2> DEFINE g == [k \in 0 .. n - 1 |-> Mix(f[k], H, b, l)]
    <2>7. g \in [0 .. n - 1 -> State]
      <3>1. \A k \in 0 .. n - 1 : f[k] \in State
        BY <2>3
      <3>2. \A k \in 0 .. n - 1 : Mix(f[k], H, b, l) \in State
        BY <2>5, <3>1, MixFacts
      <3> QED BY <3>2
    <2>8. Mix(Begun, H, b, l) = Begun'
      <3>1. \A a \in Account : /\ (IF a \in H THEN balance[a] ELSE b[a]) = b[a]
                               /\ (IF a \in H THEN ledger[a] ELSE l[a]) = l[a]
        BY <2>6
      <3>2. /\ [a \in Account |-> IF a \in H THEN balance[a] ELSE b[a]] = b
            /\ [a \in Account |-> IF a \in H THEN ledger[a] ELSE l[a]] = l
        BY <2>5, <3>1
      <3> QED BY <3>2 DEF Mix, Begun
    <2>9. Mix(View(q), H, b, l) = View(q)'
      <3>1. ASSUME NEW a \in Account
            PROVE  /\ (IF a \in H THEN Bal(q, a) ELSE b[a]) = Bal(q, a)'
                   /\ (IF a \in H THEN Rows(q, a) ELSE l[a]) = Rows(q, a)'
        <4>1. CASE a \in H
          <5>1. l[a] = ledger[a]
            BY <2>6, <4>1
          <5> QED BY <1>2, <4>1, <5>1 DEF Bal, Rows
        <4>2. CASE a \notin H
          <5>1. own[q][a] = <<>>
            BY <1>1, <4>2 DEF IInv, OwnUnderLock
          <5>2. l[a] \o <<>> = l[a]
            BY <2>5, ConcatEmptySeq
          <5> QED BY <1>2, <4>2, <5>1, <5>2 DEF Bal, Rows
        <4> QED BY <4>1, <4>2
      <3>2. View(q)' = [balance |-> [a \in Account |-> Bal(q, a)'],
                        ledger  |-> [a \in Account |-> Rows(q, a)'], found |-> found'[q]]
        BY DEF View
      <3>3. Mix(View(q), H, b, l)
              = [balance |-> [a \in Account |-> IF a \in H THEN Bal(q, a) ELSE b[a]],
                 ledger  |-> [a \in Account |-> IF a \in H THEN Rows(q, a) ELSE l[a]],
                 found   |-> found[q]]
        BY DEF Mix, View
      <3> QED BY <1>2, <3>1, <3>2, <3>3
    <2>10. ASSUME NEW k \in 1 .. n - 1
           PROVE  Makes(j, j.steps[k], Mix(f[k - 1], H, b, l), Mix(f[k], H, b, l), done')
      <3> DEFINE s == j.steps[k]
                 w == f[k - 1]
      <3>1. /\ k \in DOMAIN job[q].steps /\ k < at[q]
            /\ s \in Statement /\ w \in State /\ f[k] \in State
            /\ k - 1 \in 0 .. n - 1
        <4>1. n - 1 \in Nat /\ k \in 1 .. Len(j.steps) /\ k < n
              /\ k - 1 \in 0 .. n - 1 /\ k \in 0 .. n - 1
          BY <2>1, <2>2
        <4>2. k \in DOMAIN j.steps /\ s \in Statement
          BY <2>2, <4>1
        <4>3. w \in State /\ f[k] \in State
          BY <2>3, <4>1
        <4> QED BY <4>1, <4>2, <4>3
      <3>2. Makes(j, s, w, f[k], done)
        BY <2>3
      <3>3. /\ Moves(s) => s.on \in Account
            /\ s.op = "find" => s.on \in Account
        BY <2>2, <3>1, JobAssumption DEF Moves
      <3>4. ~ Excludes(j, k, job[p])
        BY <1>1, <1>4, <3>1, NoInterference
      <3>5. s.op = "check" => j.needs \subseteq done' /\ j.bars \cap done' = {}
        <4> SUFFICES ASSUME s.op = "check"
                     PROVE  j.needs \subseteq done' /\ j.bars \cap done' = {}
          OBVIOUS
        <4>1. j.needs \subseteq done /\ j.bars \cap done = {}
          BY <3>2 DEF Makes
        <4>2. j.bars \cap job[p].marks = {}
          BY <2>2, <3>1, <3>4 DEF Disciplined
        <4> QED BY <1>1, <4>1, <4>2
      <3>6. s.op = "find" /\ s.on \notin H =>
              Unreversed(l[s.on], s.cause) = Unreversed(w.ledger[s.on], s.cause)
        <4> SUFFICES ASSUME s.op = "find", s.on \notin H
                     PROVE  Unreversed(l[s.on], s.cause) = Unreversed(w.ledger[s.on], s.cause)
          OBVIOUS
        <4> PICK a \in Account : a = s.on
          BY <3>3
        <4>1. w.ledger[a] = ledger[a]
          BY <2>4, <3>1
        <4>2. l[a] = ledger[a] \o own[p][a]
          BY <1>1 DEF Rows
        <4>3. /\ ledger[a] \in Seq(Row) /\ own[p][a] \in Seq(Row) /\ Keyed(ledger[a])
          BY <1>1 DEF IInv, TypeOK, CommittedSound, Sound
        <4>4. \A i \in DOMAIN own[p][a] :
                own[p][a][i].kind = "seed" \/ own[p][a][i].cause # s.cause
          <5> SUFFICES ASSUME NEW i \in DOMAIN own[p][a], own[p][a][i].kind # "seed",
                              own[p][a][i].cause = s.cause
                       PROVE  FALSE
            OBVIOUS
          <5>1. PICK m \in DOMAIN job[p].steps :
                  /\ Moves(job[p].steps[m]) /\ job[p].steps[m].on = a
                  /\ job[p].steps[m].cause = s.cause
            <6> HIDE DEF s
            <6>1. OwnRows
              BY DEF SInv
            <6> QED BY <6>1 DEF OwnRows
          <5>2. k \in DOMAIN j.steps /\ s = j.steps[k] /\ j \in Job /\ job[p] \in Job
            BY <2>2, <3>1
          <5>3. Excludes(j, k, job[p])
            BY <5>1, <5>2 DEF Disciplined
          <5> QED BY <3>4, <5>3
        <4> HIDE DEF s, w
        <4> QED BY <4>1, <4>2, <4>3, <4>4, UnreversedStays
      <3>7. Moves(s) => /\ s.on \in Account
                        /\ s.on \in H \/ (s.op = "reverse" /\ s.on \in Wallet /\ w.found = 0)
        BY <2>2, <2>4, <3>1, <3>3 DEF Disciplined
      <3> HIDE DEF s, w
      <3>8. Makes(j, s, Mix(w, H, b, l), Mix(f[k], H, b, l), done')
        BY <2>5, <3>1, <3>2, <3>3, <3>5, <3>6, <3>7, MakesAgain
      <3> QED BY <3>8 DEF s, w
    <2>11. n - 1 \in Nat /\ \A k \in 1 .. n - 1 : k - 1 \in 0 .. n - 1 /\ k \in 0 .. n - 1
      BY <2>1, <2>2
    <2>12. /\ g[0] = Begun' /\ g[n - 1] = View(q)'
           /\ \A k \in 1 .. n - 1 : Makes(j, j.steps[k], g[k - 1], g[k], done')
      BY <2>3, <2>8, <2>9, <2>10, <2>11
    <2>13. \A k \in 0 .. n - 1 : \A a \in Account \ H :
             g[k].balance[a] = b[a] /\ g[k].ledger[a] = l[a]
      BY DEF Mix
    <2>14. \A k \in 0 .. n - 1 : g[k].found = f[k].found
      BY DEF Mix
    <2> HIDE DEF g
    <2>15. Runs(q, g)'
      <3>1. at'[q] - 1 = n - 1 /\ job'[q] = j
        BY <1>2
      <3> QED BY <2>7, <2>12, <3>1 DEF Runs
    <2>16. Secluded(q, g)'
      <3>1. at'[q] - 1 = n - 1 /\ job'[q] = j /\ held'[q] = H /\ balance' = b /\ ledger' = l
        BY <1>2
      <3>2. \A k \in 1 .. n - 1 : Moves(j.steps[k]) =>
              \/ j.steps[k].on \in H
              \/ j.steps[k].op = "reverse" /\ g[k - 1].found = 0
        BY <2>4, <2>11, <2>14
      <3> QED BY <2>13, <3>1, <3>2 DEF Secluded
    <2> QED BY <1>2, <1>4, <2>1, <2>15, <2>16 DEF Simulated
  <1> QED BY <1>3, <1>4

\* A movement writes the seed of a score and rows of its own cause.
LEMMA WrittenRows ==
  ASSUME NEW s, NEW b, NEW r, NEW f, NEW i \in DOMAIN Written(s, b, r, f)
  PROVE  Written(s, b, r, f)[i].kind = "seed" \/ Written(s, b, r, f)[i].cause = s.cause
  <1> DEFINE first == NewRow("seed", "initial", 0, InitialScore)
             seed == Seed(s, r)
             row == NewRow(KindOf(s), s.cause, Closing(b, seed), Moved(s, Closing(b, seed), f))
             new == Written(s, b, r, f)
  <1>1. first.kind = "seed" /\ row.cause = s.cause
    BY DEF NewRow
  <1>2. seed = <<first>> \/ seed = <<>>
    BY DEF Seed
  <1>3. new = seed \/ new = Append(seed, row)
    BY DEF Written
  <1>4. i \in DOMAIN new
    OBVIOUS
  <1> HIDE DEF first, row, new, seed
  <1>5. new \in Seq({first, row})
    <2>1. PICK S : S = {first, row}
      OBVIOUS
    <2>2. <<>> \in Seq(S) /\ <<first>> \in Seq(S)
      BY <2>1
    <2>3. seed \in Seq(S) /\ row \in S
      BY <1>2, <2>1, <2>2
    <2>4. Append(seed, row) \in Seq(S)
      BY <2>3
    <2> QED BY <1>3, <2>1, <2>3, <2>4
  <1>6. new[i] = first \/ new[i] = row
    <2>1. new[i] \in {first, row}
      BY <1>4, <1>5
    <2> QED BY <2>1
  <1> QED BY <1>1, <1>6 DEF new

LEMMA OwnRowsStep ==
  ASSUME IInv, OwnRows, [Next]_vars
  PROVE  OwnRows'
  <1>1. ASSUME NEW p \in Process, NEW j \in Job, Start(p, j) PROVE OwnRows'
    <2>1. /\ own' = own /\ own[p] = NoRows
          /\ \A q \in Process : q # p => job'[q] = job[q]
      BY <1>1 DEF Start, IInv, TypeOK
    <2>2. \A a \in Account : DOMAIN own[p][a] = {}
      BY <2>1 DEF NoRows
    <2> QED BY <2>1, <2>2 DEF OwnRows
  <1>2. ASSUME NEW p \in Process, Lock(p) \/ Check(p) \/ Find(p) \/ NothingFound(p)
        PROVE  OwnRows'
    BY <1>2 DEF Lock, Check, Find, NothingFound, Advance, OwnRows
  <1>3. ASSUME NEW p \in Process, Move(p) PROVE OwnRows'
    <2>0. Busy(p) /\ Moves(Now(p))
      BY <1>3 DEF Move, Moves
    <2> PICK a \in Account : a = Now(p).on
      BY <2>0, NowFacts DEF IInv, Moves
    <2> DEFINE new == Written(Now(p), Bal(p, a), Rows(p, a), found[p])
    <2>1. /\ own' = [own EXCEPT ![p][a] = @ \o new] /\ job' = job
          /\ ~ Overdrawn(Now(p), Bal(p, a), Rows(p, a), found[p])
          /\ at[p] \in DOMAIN job[p].steps /\ Now(p) = job[p].steps[at[p]]
      BY <1>3 DEF Move, Advance, Busy, Now
    <2>2. \A i \in DOMAIN new : new[i].kind = "seed" \/ new[i].cause = Now(p).cause
      BY WrittenRows
    <2>3. new \in Seq(Row)
      <3>1. Now(p) \in Statement /\ found[p] \in Int
        BY <2>0, NowFacts DEF IInv, TypeOK
      <3>2. /\ Rows(p, a) \in Seq(Row) /\ Bal(p, a) \in Int
            /\ Sound(a, Rows(p, a), Bal(p, a))
        BY ViewIsSound
      <3>3. Now(p).op = "reverse" /\ found[p] # 0 =>
              Originates(Rows(p, a), Now(p).cause, found[p])
        BY <2>0 DEF IInv, FoundIsThere
      <3>4. Now(p).op \in {"apply", "penalize", "reverse"}
        BY <2>0 DEF Moves
      <3> QED BY <2>1, <3>1, <3>2, <3>3, <3>4, WrittenIsSound
    <2> HIDE DEF new
    <2>4. /\ own'[p][a] = own[p][a] \o new /\ own[p][a] \in Seq(Row)
          /\ \A q \in Process : \A c \in Account :
               q # p \/ c # a => own'[q][c] = own[q][c]
      <3>1. own \in [Process -> [Account -> Seq(Row)]]
        BY DEF IInv, TypeOK
      <3>2. own' = [own EXCEPT ![p][a] = @ \o new]
        BY <2>1
      <3> QED BY <3>1, <3>2
    <2>7. job' = job
      BY <2>1
    <2> SUFFICES ASSUME NEW q \in Process, NEW c \in Account, NEW i \in DOMAIN own'[q][c]
                 PROVE  \/ own'[q][c][i].kind = "seed"
                        \/ \E k \in DOMAIN job[q].steps :
                             /\ Moves(job[q].steps[k]) /\ job[q].steps[k].on = c
                             /\ job[q].steps[k].cause = own'[q][c][i].cause
      BY <2>7 DEF OwnRows
    <2>5. CASE q # p \/ c # a
      BY <2>4, <2>5 DEF OwnRows
    <2>6. CASE q = p /\ c = a
      <3> DEFINE o == own[p][a]
      <3>1. \/ i \in DOMAIN o /\ (o \o new)[i] = o[i]
            \/ \E m \in DOMAIN new : (o \o new)[i] = new[m]
        <4>1. /\ o \in Seq(Row) /\ new \in Seq(Row) /\ i \in DOMAIN (o \o new)
          BY <2>3, <2>4, <2>6
        <4> HIDE DEF o
        <4>2. /\ Len(o) \in Nat /\ Len(new) \in Nat
              /\ DOMAIN o = 1 .. Len(o) /\ DOMAIN new = 1 .. Len(new)
              /\ i \in 1 .. Len(o) + Len(new)
              /\ (o \o new)[i] = IF i <= Len(o) THEN o[i] ELSE new[i - Len(o)]
          BY <4>1, ConcatProperties
        <4>3. CASE i <= Len(o)
          BY <4>2, <4>3
        <4>4. CASE ~ (i <= Len(o))
          <5>1. i - Len(o) \in DOMAIN new
            BY <4>2, <4>4
          <5> QED BY <4>2, <4>4, <5>1
        <4> QED BY <4>3, <4>4
      <3>2. CASE i \in DOMAIN o /\ (o \o new)[i] = o[i]
        <4>1. own'[q][c][i] = own[p][a][i] /\ i \in DOMAIN own[p][a]
          BY <2>4, <2>6, <3>2
        <4>2. \/ own[p][a][i].kind = "seed"
              \/ \E k \in DOMAIN job[p].steps :
                   /\ Moves(job[p].steps[k]) /\ job[p].steps[k].on = a
                   /\ job[p].steps[k].cause = own[p][a][i].cause
          BY <4>1 DEF OwnRows
        <4> QED BY <2>6, <4>1, <4>2
      <3>3. ASSUME NEW m \in DOMAIN new, (o \o new)[i] = new[m]
            PROVE  \/ own'[q][c][i].kind = "seed"
                   \/ \E k \in DOMAIN job[q].steps :
                        /\ Moves(job[q].steps[k]) /\ job[q].steps[k].on = c
                        /\ job[q].steps[k].cause = own'[q][c][i].cause
        <4>1. own'[q][c][i] = new[m]
          BY <2>4, <2>6, <3>3
        <4>2. /\ at[p] \in DOMAIN job[p].steps /\ Moves(job[p].steps[at[p]])
              /\ job[p].steps[at[p]].on = a /\ Now(p) = job[p].steps[at[p]]
          BY <2>0, <2>1
        <4> QED BY <2>2, <2>6, <4>1, <4>2
      <3> QED BY <3>1, <3>2, <3>3
    <2> QED BY <2>5, <2>6
  <1>4. ASSUME NEW p \in Process, Commit(p) \/ Rollback(p) PROVE OwnRows'
    <2>1. /\ own'[p] = NoRows
          /\ \A q \in Process \ {p} : own'[q] = own[q] /\ job'[q] = job[q]
      BY <1>4, EndFacts DEF Commit, Rollback, IInv
    <2>2. \A a \in Account : DOMAIN own'[p][a] = {}
      BY <2>1 DEF NoRows
    <2> QED BY <2>1, <2>2 DEF OwnRows
  <1>5. CASE UNCHANGED vars
    BY <1>5 DEF vars, OwnRows
  <1> QED BY <1>1, <1>2, <1>3, <1>4, <1>5 DEF Next, Statements

\* Every step of every transaction keeps what it and the others have done in step
\* with running alone.
LEMMA SimulatedStep ==
  ASSUME Disciplined, SInv, IInv', [Next]_vars, NEW q \in Process
  PROVE  Simulated(q)'
  <1>0. IInv /\ TypeOK /\ Simulated(q)
    BY DEF SInv, IInv
  <1>1. ASSUME NEW p \in Process, NEW j \in Job, Start(p, j) PROVE Simulated(q)'
    <2>1. /\ job[p] = NoJob /\ job' = [job EXCEPT ![p] = j] /\ at' = [at EXCEPT ![p] = 1]
          /\ UNCHANGED <<balance, ledger, done, held, seen, own, found>>
      BY <1>1 DEF Start, committed
    <2>2. CASE q # p
      <3>1. job'[q] = job[q] /\ at'[q] = at[q]
        BY <1>0, <2>1, <2>2 DEF TypeOK
      <3> QED BY <1>0, <2>1, <3>1, StaysSimulated
    <2>3. CASE q = p
      <3>1. /\ job'[p] = j /\ at'[p] = 1 /\ held'[p] = {} /\ own'[p] = NoRows
            /\ found'[p] = 0 /\ j.steps \in Seq(Statement)
        BY <1>0, <2>1, <2>3, JobAssumption DEF TypeOK, Simulated, Transaction
      <3>2. Begun' \in State /\ View(p)' = Begun'
        <4>1. /\ balance' \in [Account -> Int] /\ ledger' \in [Account -> Seq(Row)]
          BY DEF IInv, TypeOK
        <4>2. \A a \in Account : Bal(p, a)' = balance'[a] /\ Rows(p, a)' = ledger'[a]
          BY <3>1, <4>1, ConcatEmptySeq DEF Bal, Rows, NoRows
        <4>3. /\ [a \in Account |-> Bal(p, a)'] = balance'
              /\ [a \in Account |-> Rows(p, a)'] = ledger'
          BY <4>1, <4>2
        <4> QED BY <3>1, <4>1, <4>3 DEF View, Begun, State
      <3> PICK w : w = Begun'
        OBVIOUS
      <3> DEFINE g == [k \in 0 .. 0 |-> w]
      <3>3. g \in [0 .. 0 -> State] /\ g[0] = Begun' /\ g[0] = View(p)'
        BY <3>2
      <3> HIDE DEF g
      <3>4. at'[p] - 1 = 0 /\ (\A k \in 1 .. 0 : FALSE) /\ (\A k \in 0 .. 0 : k = 0)
        BY <3>1
      <3>5. Runs(p, g)'
        BY <3>3, <3>4 DEF Runs
      <3>6. \A a \in Account : w.balance[a] = balance'[a] /\ w.ledger[a] = ledger'[a]
        BY DEF Begun
      <3>7. Secluded(p, g)'
        BY <3>3, <3>4, <3>6 DEF Secluded
      <3>8. at'[p] \in 1 .. Len(j.steps) + 1 /\ Len(j.steps) \in Nat
        BY <3>1
      <3>9. j # NoJob => \E f : Runs(p, f)' /\ Secluded(p, f)'
        BY <3>5, <3>7
      <3> QED BY <2>3, <3>1, <3>8, <3>9 DEF Simulated
    <2> QED BY <2>2, <2>3
  <1>2. ASSUME NEW p \in Process, Statements(p) PROVE Simulated(q)'
    <2>1. /\ Busy(p) /\ Advance(p) /\ UNCHANGED <<balance, ledger, done>>
          /\ job[p] \in Job /\ Now(p) \in Statement
      BY <1>0, <1>2, NowFacts DEF Statements, Lock, Check, Find, NothingFound, Move, committed
    <2>2. CASE q # p
      <3>1. /\ job'[q] = job[q] /\ at'[q] = at[q] /\ held'[q] = held[q]
            /\ seen'[q] = seen[q] /\ own'[q] = own[q] /\ found'[q] = found[q]
        BY <1>0, <1>2, <2>2 DEF TypeOK, Statements, Advance, Lock, Check, Find,
           NothingFound, Move
      <3> QED BY <1>0, <2>1, <3>1, StaysSimulated
    <2> DEFINE Done == /\ held[p] \subseteq held'[p]
                       /\ Makes(job[p], Now(p), View(p), View(p)', done)
                       /\ Moves(Now(p)) => \/ Now(p).on \in held'[p]
                                           \/ Now(p).op = "reverse" /\ found[p] = 0
    <2>3. View(p) \in State /\ View(p).found = found[p]
      BY <1>0, ViewFacts
    <2>4. ASSUME Lock(p) PROVE Done
      <3>1. /\ held'[p] = held[p] \cup {Now(p).on} /\ found'[p] = found[p]
            /\ own' = own /\ ledger' = ledger /\ Now(p).op = "lock"
            /\ \A a \in Account :
                 seen'[p][a] = IF a = Now(p).on THEN Bal(p, a) ELSE seen[p][a]
        BY <1>0, <2>4 DEF Lock, committed, TypeOK
      <3>2. \A a \in Account : Bal(p, a)' = Bal(p, a) /\ Rows(p, a)' = Rows(p, a)
        BY <2>1, <3>1 DEF Bal, Rows
      <3>3. View(p)' = View(p)
        BY <3>1, <3>2 DEF View
      <3>4. Makes(job[p], Now(p), View(p), View(p), done)
        BY <2>3, <3>1, MakesNothing DEF Moves
      <3> QED BY <3>1, <3>3, <3>4 DEF Moves
    <2>5. ASSUME Check(p) PROVE Done
      <3>1. /\ UNCHANGED <<held, seen, own, found>> /\ Now(p).op = "check"
            /\ job[p].needs \subseteq done /\ job[p].bars \cap done = {}
        BY <2>5 DEF Check
      <3>2. View(p)' = View(p)
        BY <2>1, <3>1 DEF View, Bal, Rows
      <3>3. Makes(job[p], Now(p), View(p), View(p), done)
        BY <2>3, <3>1, MakesNothing DEF Moves
      <3> QED BY <3>1, <3>2, <3>3 DEF Moves
    <2>6. ASSUME NothingFound(p) PROVE Done
      <3>1. /\ UNCHANGED <<held, seen, own, found>> /\ Now(p).op = "reverse" /\ found[p] = 0
        BY <2>6 DEF NothingFound
      <3>2. View(p)' = View(p)
        BY <2>1, <3>1 DEF View, Bal, Rows
      <3>3. Now(p).on \in Wallet
        BY <2>1, <3>1 DEF Busy, Now, Disciplined
      <3>4. Makes(job[p], Now(p), View(p), View(p), done)
        BY <2>3, <3>1, <3>3, MakesNothing
      <3> QED BY <3>1, <3>2, <3>4
    <2>7. ASSUME Find(p) PROVE Done
      <3> DEFINE a == Now(p).on
                 w == View(p)
      <3>1. /\ UNCHANGED <<held, seen, own>> /\ Now(p).op = "find"
            /\ found'[p] = Unreversed(Rows(p, a), Now(p).cause)
        BY <1>0, <2>7 DEF Find, TypeOK
      <3>2. a \in Account
        BY <1>0, <2>1, <3>1, NowFacts
      <3>3. View(p)' = [balance |-> w.balance, ledger |-> w.ledger,
                        found |-> Unreversed(w.ledger[a], Now(p).cause)]
        BY <2>1, <3>1, <3>2 DEF View, Bal, Rows
      <3>4. ~ Moves(Now(p))
        BY <3>1 DEF Moves
      <3>5. \A c \in Account : /\ w.balance[c] = Closing(w.balance[c], <<>>)
                               /\ w.ledger[c] = w.ledger[c] \o <<>>
                               /\ Inserted(Now(p), w, c) = <<>>
        BY <2>3, <3>4, NothingInserted DEF Inserted
      <3> HIDE DEF w
      <3> PICK v : v = View(p)'
        OBVIOUS
      <3>6. /\ v.balance = w.balance /\ v.ledger = w.ledger
            /\ v.found = Unreversed(w.ledger[a], Now(p).cause)
        BY <3>3
      <3>7. \A c \in Account : /\ v.balance[c] = Closing(w.balance[c], Inserted(Now(p), w, c))
                               /\ v.ledger[c] = w.ledger[c] \o Inserted(Now(p), w, c)
        BY <3>5, <3>6
      <3>8. Makes(job[p], Now(p), w, v, done)
        BY <3>1, <3>4, <3>6, <3>7 DEF Makes
      <3> QED BY <3>1, <3>4, <3>8 DEF w
    <2>8. ASSUME Move(p) PROVE Done
      <3>1. Moves(Now(p)) /\ Now(p).on \in Account
        BY <1>0, <2>1, <2>8, NowFacts DEF Move, Moves
      <3> PICK a \in Account : a = Now(p).on
        BY <3>1
      <3> DEFINE new == Written(Now(p), Bal(p, a), Rows(p, a), found[p])
                 w == View(p)
      <3>2. /\ ~ Overdrawn(Now(p), Bal(p, a), Rows(p, a), found[p])
            /\ held'[p] = held[p] \cup {a} /\ found'[p] = found[p]
            /\ seen'[p] = [seen[p] EXCEPT ![a] = Closing(Bal(p, a), new)]
            /\ own'[p] = [own[p] EXCEPT ![a] = own[p][a] \o new]
        BY <1>0, <2>8 DEF Move, TypeOK
      <3>3. /\ w.balance[a] = Bal(p, a) /\ w.ledger[a] = Rows(p, a) /\ w.found = found[p]
            /\ \A c \in Account : w.balance[c] = Bal(p, c) /\ w.ledger[c] = Rows(p, c)
        BY DEF View
      <3>4. /\ Inserted(Now(p), w, a) = new
            /\ \A c \in Account : c # a => Inserted(Now(p), w, c) = <<>>
        BY <3>1, <3>3 DEF Inserted
      <3>5. new \in Seq(Row)
        <4>1. Now(p) \in Statement /\ found[p] \in Int
          BY <1>0, <2>1 DEF TypeOK
        <4>2. /\ Rows(p, a) \in Seq(Row) /\ Bal(p, a) \in Int
              /\ Sound(a, Rows(p, a), Bal(p, a))
          BY <1>0, ViewIsSound
        <4>3. Now(p).op = "reverse" /\ found[p] # 0 =>
                Originates(Rows(p, a), Now(p).cause, found[p])
          BY <1>0, <2>1 DEF IInv, FoundIsThere
        <4> QED BY <3>1, <3>2, <4>1, <4>2, <4>3, WrittenIsSound DEF Moves
      <3> HIDE DEF new
      <3>6. Bal(p, a)' = Closing(Bal(p, a), new) /\ Rows(p, a)' = Rows(p, a) \o new
        <4>1. /\ ledger[a] \in Seq(Row) /\ own[p][a] \in Seq(Row)
              /\ own \in [Process -> [Account -> Seq(Row)]]
              /\ seen \in [Process -> [Account -> Int]]
          BY <1>0 DEF TypeOK
        <4>2. a \in held'[p] /\ seen'[p][a] = Closing(Bal(p, a), new)
              /\ own'[p][a] = own[p][a] \o new
          BY <3>2, <4>1
        <4>3. ledger[a] \o (own[p][a] \o new) = (ledger[a] \o own[p][a]) \o new
          <5>1. \A l, o, m \in Seq(Row) : (l \o o) \o m = l \o (o \o m)
            BY ConcatAssociative
          <5> QED BY <3>5, <4>1, <5>1
        <4>4. Bal(p, a)' = seen'[p][a]
          BY <4>2 DEF Bal
        <4>5. Rows(p, a)' = ledger[a] \o (own[p][a] \o new)
          BY <2>1, <4>2 DEF Rows
        <4>6. Rows(p, a) = ledger[a] \o own[p][a]
          BY DEF Rows
        <4> QED BY <4>2, <4>3, <4>4, <4>5, <4>6
      <3>7. \A c \in Account : c # a => Bal(p, c)' = Bal(p, c) /\ Rows(p, c)' = Rows(p, c)
        BY <1>0, <2>1, <3>2 DEF Bal, Rows, TypeOK
      <3>8. /\ View(p)'.found = w.found
            /\ \A c \in Account : View(p)'.balance[c] = Bal(p, c)'
                                  /\ View(p)'.ledger[c] = Rows(p, c)'
        BY <3>2, <3>3 DEF View
      <3>9. \A c \in Account : /\ Closing(w.balance[c], <<>>) = w.balance[c]
                               /\ w.ledger[c] \o <<>> = w.ledger[c]
        BY <2>3, NothingInserted
      <3> HIDE DEF w
      <3>10. \A c \in Account :
               /\ View(p)'.balance[c] = Closing(w.balance[c], Inserted(Now(p), w, c))
               /\ View(p)'.ledger[c] = w.ledger[c] \o Inserted(Now(p), w, c)
        <4> SUFFICES ASSUME NEW c \in Account
                     PROVE  /\ Bal(p, c)' = Closing(w.balance[c], Inserted(Now(p), w, c))
                            /\ Rows(p, c)' = w.ledger[c] \o Inserted(Now(p), w, c)
          BY <3>8
        <4>1. CASE c = a
          BY <3>3, <3>4, <3>6, <4>1
        <4>2. CASE c # a
          <5>1. Bal(p, c)' = Bal(p, c) /\ Rows(p, c)' = Rows(p, c)
            BY <3>7, <4>2
          <5>2. Inserted(Now(p), w, c) = <<>>
            BY <3>4, <4>2
          <5> QED BY <3>3, <3>9, <5>1, <5>2
        <4> QED BY <4>1, <4>2
      <3>11. Now(p).op # "find" /\ Now(p).op # "check"
        BY <3>1 DEF Moves
      <3>12. Makes(job[p], Now(p), w, View(p)', done)
        <4> PICK v : v = View(p)'
          OBVIOUS
        <4>1. v.found = w.found
          BY <3>8
        <4>2. \A c \in Account : /\ v.balance[c] = Closing(w.balance[c], Inserted(Now(p), w, c))
                                 /\ v.ledger[c] = w.ledger[c] \o Inserted(Now(p), w, c)
          BY <3>10
        <4>3. ~ Overdrawn(Now(p), w.balance[a], w.ledger[a], w.found)
          BY <3>2, <3>3
        <4>4. Makes(job[p], Now(p), w, v, done)
          BY <4>1, <4>2, <4>3, <3>11 DEF Makes
        <4> QED BY <4>4
      <3> QED BY <3>2, <3>12 DEF w
    <2> HIDE DEF Done
    <2>9. Done
      BY <1>2, <2>4, <2>5, <2>6, <2>7, <2>8 DEF Statements
    <2>10. ASSUME q = p PROVE Simulated(q)'
      BY <1>0, <2>1, <2>9, <2>10, StatementSimulated DEF Done
    <2> QED BY <2>2, <2>10
  <1>3. ASSUME NEW p \in Process, Commit(p) \/ Rollback(p) PROVE Simulated(q)'
    <2>1. End(p)
      BY <1>3 DEF Commit, Rollback
    <2>2. CASE q = p
      <3>1. job'[p] = NoJob /\ found'[p] = 0
        BY <1>0, <2>1 DEF End, TypeOK
      <3> QED BY <2>2, <3>1 DEF Simulated
    <2>3. CASE q # p /\ Commit(p)
      BY <2>3, CommitSimulated
    <2>4. CASE q # p /\ Rollback(p)
      <3>1. /\ UNCHANGED <<balance, ledger, done>> /\ at'[q] = at[q] /\ job'[q] = job[q]
            /\ held'[q] = held[q] /\ seen'[q] = seen[q] /\ own'[q] = own[q]
            /\ found'[q] = found[q]
        BY <1>0, <2>1, <2>4 DEF Rollback, committed, End, TypeOK
      <3> QED BY <1>0, <3>1, StaysSimulated
    <2> QED BY <1>3, <2>2, <2>3, <2>4
  <1>4. CASE UNCHANGED vars
    BY <1>0, <1>4, StaysSimulated DEF vars, committed
  <1> QED BY <1>1, <1>2, <1>3, <1>4 DEF Next


\* Nobody has begun.
LEMMA SInvInit == Init => SInv
  <1> SUFFICES ASSUME Init PROVE SInv
    OBVIOUS
  <1>1. IInv /\ HeldIsTaken
    BY InitHolds, HeldIsTakenInit
  <1>2. OwnRows
    BY DEF Init, OwnRows, NoRows
  <1>3. \A p \in Process : Simulated(p)
    BY DEF Init, Simulated
  <1> QED BY <1>1, <1>2, <1>3 DEF SInv

LEMMA SInvStep ==
  ASSUME Disciplined, SInv, [Next]_vars
  PROVE  SInv'
  <1>1. IInv' /\ TypeOK
    BY NextKeeps DEF SInv, IInv
  <1>2. HeldIsTaken'
    BY <1>1, HeldIsTakenStep DEF SInv
  <1>3. OwnRows'
    BY OwnRowsStep DEF SInv
  <1>4. \A p \in Process : Simulated(p)'
    BY <1>1, SimulatedStep
  <1> QED BY <1>1, <1>2, <1>3, <1>4 DEF SInv

\* What a transaction commits is what it would have done alone.
LEMMA CommitIsSerial ==
  ASSUME SInv, NEW p \in Process, Commit(p)
  PROVE  Serial!Next
  <1>1. /\ IInv /\ TypeOK /\ Simulated(p) /\ job[p] # NoJob /\ ~ Busy(p)
        /\ balance' = [a \in Account |-> Bal(p, a)]
        /\ ledger' = [a \in Account |-> Rows(p, a)]
        /\ done' = done \cup job[p].marks
    BY DEF SInv, IInv, Commit
  <1>2. job[p] \in Job /\ at[p] \in 1 .. Len(job[p].steps) + 1
    BY <1>1 DEF TypeOK, Simulated
  <1>3. job[p].steps \in Seq(Statement)
    BY <1>2, JobAssumption DEF Transaction
  <1>4. at[p] - 1 = Len(job[p].steps)
    BY <1>1, <1>2, <1>3 DEF Busy
  <1>5. PICK f : Runs(p, f)
    BY <1>1 DEF Simulated
  <1>6. Serial!Outcome(job[p]) = Whole(View(p))
    BY <1>1, <1>2, <1>4, <1>5, OutcomeOfRun
  <1>7. /\ Whole(View(p)).ok = TRUE
        /\ Whole(View(p)).balance = balance' /\ Whole(View(p)).ledger = ledger'
    BY <1>1 DEF Whole, View
  <1>8. Serial!Do(job[p])
    BY <1>1, <1>6, <1>7 DEF Serial!Do
  <1> QED BY <1>2, <1>8 DEF Serial!Next

LEMMA StepIsSerial ==
  ASSUME SInv, [Next]_vars
  PROVE  [Serial!Next]_<<balance, ledger, done>>
  <1>1. ASSUME NEW p \in Process, NEW j \in Job, Start(p, j)
        PROVE  UNCHANGED <<balance, ledger, done>>
    BY <1>1 DEF Start, committed
  <1>2. ASSUME NEW p \in Process, Statements(p) \/ Rollback(p)
        PROVE  UNCHANGED <<balance, ledger, done>>
    BY <1>2 DEF Statements, Lock, Check, Find, NothingFound, Move, Rollback, committed
  <1>3. ASSUME NEW p \in Process, Commit(p) PROVE Serial!Next
    BY <1>3, CommitIsSerial
  <1>4. CASE UNCHANGED vars
    BY <1>4 DEF vars, committed
  <1> QED BY <1>1, <1>2, <1>3, <1>4 DEF Next

\* SerialLedger: transactions that lock what they look up, and what they check,
\* against everybody who changes it are serializable at READ COMMITTED: the
\* ledgers behave as if each transaction ran alone at the moment it commits.
THEOREM DisciplinedIsSerial ==
  ASSUME Disciplined
  PROVE  Spec => IsSerial
  <1>1. Init => Serial!Init
    BY SameMoves DEF Init, Serial!Init
  <1>2. SInv /\ [Next]_vars => SInv'
    BY SInvStep
  <1>3. SInv /\ [Next]_vars => [Serial!Next]_<<balance, ledger, done>>
    BY StepIsSerial
  <1> QED BY <1>1, <1>2, <1>3, SInvInit, PTL DEF Spec, IsSerial, Serial!Spec

-----------------------------------------------------------------------------

LocksEvent(j, e) == 1 \in DOMAIN j.steps /\ j.steps[1] = TakeLock(Event(e))

\* What a transaction of LedgerJobs about the event e looks up, checks and changes
\* it looks up, checks and changes with e locked.
Tidy(j, e) ==
  /\ \A k \in DOMAIN j.steps : LET s == j.steps[k] IN
       /\ s.op = "reverse" => s.on \in Wallet
       /\ s.op = "find" => s.cause[1] = "join" /\ k > 1
       /\ (s.op = "find" \/ Moves(s)) /\ s.cause[1] = "join" =>
            s.cause[2] = e /\ LocksEvent(j, e)
       /\ s.op = "check" /\ j.bars # {} => k > 1
  /\ \A m \in j.bars \cup j.marks : m[2] = e /\ LocksEvent(j, e)

LEMMA TidyJobsAreDisciplined ==
  ASSUME \A j \in Job : \E e : Tidy(j, e)
  PROVE  Disciplined
  <1>1. ASSUME NEW j \in Job, NEW j2 \in Job, NEW k \in DOMAIN j.steps, k > 1, NEW e,
               LocksEvent(j, e), LocksEvent(j2, e)
        PROVE  Excludes(j, k, j2)
    <2>1. Takes(TakeLock(Event(e)))
      BY DEF Takes, TakeLock, Step
    <2> QED BY <1>1, <2>1 DEF Excludes, LocksEvent
  <1>2. ASSUME NEW j \in Job, NEW k \in DOMAIN j.steps, j.steps[k].op = "reverse"
        PROVE  j.steps[k].on \in Wallet
    BY <1>2 DEF Tidy
  <1>3. ASSUME NEW j \in Job, NEW j2 \in Job, NEW k \in DOMAIN j.steps,
               NEW i \in DOMAIN j2.steps,
               j.steps[k].op = "find", Moves(j2.steps[i]),
               j.steps[k].cause = j2.steps[i].cause
        PROVE  Excludes(j, k, j2)
    <2> PICK e : Tidy(j, e)
      OBVIOUS
    <2> PICK e2 : Tidy(j2, e2)
      OBVIOUS
    <2>1. j.steps[k].cause[1] = "join" /\ k > 1
      BY <1>3 DEF Tidy
    <2>2. j.steps[k].cause[2] = e /\ LocksEvent(j, e)
      BY <1>3, <2>1 DEF Tidy
    <2>3. j2.steps[i].cause[2] = e2 /\ LocksEvent(j2, e2)
      BY <1>3, <2>1 DEF Tidy
    <2> QED BY <1>1, <1>3, <2>1, <2>2, <2>3
  <1>4. ASSUME NEW j \in Job, NEW j2 \in Job, NEW k \in DOMAIN j.steps,
               j.steps[k].op = "check", j.bars \cap j2.marks # {}
        PROVE  Excludes(j, k, j2)
    <2> PICK e : Tidy(j, e)
      OBVIOUS
    <2> PICK e2 : Tidy(j2, e2)
      OBVIOUS
    <2>1. PICK m : m \in j.bars /\ m \in j2.marks
      BY <1>4
    <2>2. m[2] = e /\ LocksEvent(j, e) /\ k > 1
      BY <1>4, <2>1 DEF Tidy
    <2>3. m[2] = e2 /\ LocksEvent(j2, e2)
      BY <2>1 DEF Tidy
    <2> QED BY <1>1, <2>2, <2>3
  <1> QED BY <1>2, <1>3, <1>4 DEF Disciplined

\* Statements that are neither looked up nor checked nor in the name of a join.
Plain(s) == s.op \notin {"find", "check", "reverse"} /\ (Moves(s) => s.cause[1] # "join")

LEMMA PlainFacts ==
  /\ \A r : Plain(TakeLock(r))
  /\ \A a, c, n : c[1] # "join" => Plain(Give(a, c, n)) /\ Plain(Spend(a, c, n))
                                   /\ Plain(Penalize(a, c, n))
  BY DEF Plain, TakeLock, Give, Spend, Penalize, Step, Moves

LEMMA ProductIsTidy ==
  ASSUME NEW n \in Nat, \A u \in 1 .. n : wallet(u) \in Wallet,
         NEW j \in Job, IsOfProduct(j, n)
  PROVE  \E e : Tidy(j, e)
  <1> PICK u \in 1 .. n, v \in 1 .. n : \E e :
        \/ j \in {Onboard(u), Open(e, u), Join(e, u), JoinFree(e, u), TurnDown(e, u)}
        \/ j \in {Withdraw(e, u), Complete(e, u), SettleHost(e, u)}
        \/ j = CancelByHost(e, u, v) /\ u # v
    BY DEF IsOfProduct
  <1> PICK e :
        \/ j \in {Onboard(u), Open(e, u), Join(e, u), JoinFree(e, u), TurnDown(e, u)}
        \/ j \in {Withdraw(e, u), Complete(e, u), SettleHost(e, u)}
        \/ j = CancelByHost(e, u, v) /\ u # v
    OBVIOUS
  <1> DEFINE steps == j.steps
  <1>0. steps \in Seq(Statement)
    BY JobAssumption DEF Transaction
  <1>1. wallet(u) \in Wallet /\ wallet(v) \in Wallet
    OBVIOUS
  <1>2. \A m \in {Opened(e), Over(e), Held(e)} \cup {Joined(e, w) : w \in 1 .. n}
                   \cup {Left(e, w) : w \in 1 .. n} : m[2] = e
    BY DEF Opened, Over, Held, Joined, Left
  <1>3. Event(e) = <<"event", e>>
    BY DEF Event
  <1>4. ASSUME \A k \in DOMAIN steps : Plain(steps[k]), j.bars = {}, j.marks = {}
        PROVE  Tidy(j, e)
    BY <1>4 DEF Tidy, Plain, Moves
  <1>5. CASE j = Onboard(u)
    <2>1. /\ steps = <<TakeLock(<<"user", u>>), Give(wallet(u), <<"onboarding">>, OnboardingCoins),
                       Give(score(u), <<"profile">>, 1)>>
          /\ j.bars = {} /\ j.marks = {}
      BY <1>5 DEF Onboard, Tx
    <2> HIDE DEF steps
    <2>2. \A k \in DOMAIN steps : Plain(steps[k])
      BY <2>1, PlainFacts
    <2> QED BY <1>4, <2>1, <2>2 DEF steps
  <1>6. ASSUME LocksEvent(j, e),
               \A k \in DOMAIN steps : k > 1 =>
                 \/ Plain(steps[k])
                 \/ steps[k].op = "check"
                 \/ /\ steps[k].op = "find" \/ Moves(steps[k])
                    /\ steps[k].on \in Wallet
                    /\ steps[k].cause[1] = "join" /\ steps[k].cause[2] = e,
               \A m \in j.bars \cup j.marks : m[2] = e
        PROVE  Tidy(j, e)
    <2>1. ASSUME NEW k \in DOMAIN steps, k > 1
          PROVE  /\ steps[k].op = "reverse" => steps[k].on \in Wallet
                 /\ steps[k].op = "find" => steps[k].cause[1] = "join"
                 /\ (steps[k].op = "find" \/ Moves(steps[k])) /\ steps[k].cause[1] = "join" =>
                      steps[k].cause[2] = e
      BY <1>6, <2>1 DEF Plain, Moves
    <2>2. steps[1].op = "lock"
      BY <1>6 DEF LocksEvent, TakeLock, Step
    <2>3. \A k \in DOMAIN steps : k = 1 \/ k > 1
      BY <1>0
    <2> HIDE DEF steps
    <2>4. \A k \in DOMAIN steps :
            /\ steps[k].op = "reverse" => steps[k].on \in Wallet
            /\ steps[k].op = "find" => steps[k].cause[1] = "join" /\ k > 1
            /\ (steps[k].op = "find" \/ Moves(steps[k])) /\ steps[k].cause[1] = "join" =>
                 steps[k].cause[2] = e
            /\ steps[k].op = "check" => k > 1
      BY <2>1, <2>2, <2>3 DEF Moves
    <2> QED BY <1>6, <2>4 DEF Tidy, steps
  <1>7. CASE j = SettleHost(e, u)
    <2>1. /\ steps = <<CheckMarks(Event(e)), Give(wallet(u), <<"deposit", e>>, RewardCoins)>>
          /\ j.bars = {} /\ j.marks = {}
      BY <1>7 DEF SettleHost, Tx
    <2>2. Plain(Give(wallet(u), <<"deposit", e>>, RewardCoins))
      BY PlainFacts
    <2>3. CheckMarks(Event(e)).op = "check"
      BY DEF CheckMarks, Step
    <2>4. \A k \in DOMAIN steps : Plain(steps[k]) \/ steps[k].op = "check"
      <3> HIDE DEF steps
      <3> QED BY <2>1, <2>2, <2>3
    <2> QED BY <2>1, <2>4 DEF Tidy, Plain, Moves
  <1>8. CASE j \in {Open(e, u), Join(e, u), JoinFree(e, u), Withdraw(e, u), Complete(e, u)}
    <2> DEFINE first == TakeLock(Event(e))
               second == CheckMarks(Event(e))
               Follows(s) == \/ s = Spend(wallet(u), <<"create", e>>, CreateCoins)
                             \/ s = Spend(wallet(u), <<"join", e, u>>, JoinCoins)
                             \/ s = Penalize(wallet(u), <<"fine", e, u>>, FineCoins)
               last == Spend(score(u), <<"fine", e, u>>, FineTrust)
    <2>0. \/ steps = <<first, second>>
          \/ \E s : steps = <<first, second, s>> /\ Follows(s)
          \/ \E s : steps = <<first, second, s, last>> /\ Follows(s)
      <3>1. CASE j = Open(e, u)
        BY <3>1 DEF Open, Tx
      <3>2. CASE j = Join(e, u)
        BY <3>2 DEF Join, Tx
      <3>3. CASE j = JoinFree(e, u) \/ j = Complete(e, u)
        BY <3>3 DEF JoinFree, Complete, Tx
      <3>4. CASE j = Withdraw(e, u)
        BY <3>4 DEF Withdraw, Tx
      <3> QED BY <1>8, <3>1, <3>2, <3>3, <3>4
    <2> HIDE DEF first, second, Follows, last, steps
    <2>1. /\ DOMAIN steps \subseteq 1 .. 4 /\ 1 \in DOMAIN steps
          /\ steps[1] = first /\ steps[2] = second
          /\ 3 \in DOMAIN steps => Follows(steps[3])
          /\ 4 \in DOMAIN steps => steps[4] = last
      BY <2>0
    <2> USE DEF steps
    <2>3. \A m \in j.bars \cup j.marks : m[2] = e
      <3>1. j.bars \cup j.marks \subseteq {Opened(e), Over(e), Joined(e, u), Left(e, u), Held(e)}
        BY <1>8 DEF Open, Join, JoinFree, Withdraw, Complete, Tx
      <3> QED BY <1>2, <3>1
    <2>4. /\ Plain(Spend(wallet(u), <<"create", e>>, CreateCoins))
          /\ Plain(Penalize(wallet(u), <<"fine", e, u>>, FineCoins))
          /\ Plain(Spend(score(u), <<"fine", e, u>>, FineTrust))
      BY PlainFacts
    <2>5. LET s == Spend(wallet(u), <<"join", e, u>>, JoinCoins) IN
            Moves(s) /\ s.on \in Wallet /\ s.cause[1] = "join" /\ s.cause[2] = e
      BY <1>1 DEF Spend, Step, Moves
    <2>6. second.op = "check"
      BY DEF CheckMarks, Step, second
    <2> HIDE DEF steps
    <2>7. \A k \in DOMAIN steps : k > 1 => k \in {2, 3, 4}
      BY <2>1
    <2>8. \A k \in DOMAIN steps : k > 1 =>
            \/ Plain(steps[k])
            \/ steps[k].op = "check"
            \/ /\ steps[k].op = "find" \/ Moves(steps[k])
               /\ steps[k].on \in Wallet
               /\ steps[k].cause[1] = "join" /\ steps[k].cause[2] = e
      BY <2>1, <2>4, <2>5, <2>6, <2>7 DEF Follows, last
    <2>9. LocksEvent(j, e)
      BY <2>1 DEF LocksEvent, steps, first
    <2> QED BY <1>6, <2>3, <2>8, <2>9
  <1>9. ASSUME NEW w \in {u, v}
        PROVE  \A s \in {Step("find", wallet(w), <<"join", e, w>>, 0),
                         Step("reverse", wallet(w), <<"join", e, w>>, 0)} :
                 /\ s.op = "find" \/ Moves(s)
                 /\ s.on \in Wallet
                 /\ s.cause[1] = "join" /\ s.cause[2] = e
    BY <1>1 DEF Step, Moves
  <1>10. CASE j = TurnDown(e, u)
    <2>1. /\ Len(steps) = 4
          /\ steps[1] = TakeLock(Event(e)) /\ steps[2] = CheckMarks(Event(e))
          /\ steps[3] = Step("find", wallet(u), <<"join", e, u>>, 0)
          /\ steps[4] = Step("reverse", wallet(u), <<"join", e, u>>, 0)
      BY <1>10 DEF TurnDown, Refund, Tx
    <2>2. \A m \in j.bars \cup j.marks : m[2] = e
      BY <1>2, <1>10 DEF TurnDown, Tx
    <2>3. CheckMarks(Event(e)).op = "check"
      BY DEF CheckMarks, Step
    <2> HIDE DEF steps
    <2>4. 1 \in DOMAIN steps /\ \A k \in DOMAIN steps : k > 1 => k \in {2, 3, 4}
      BY <1>0, <2>1
    <2>5. \A k \in DOMAIN steps : k > 1 =>
            \/ Plain(steps[k])
            \/ steps[k].op = "check"
            \/ /\ steps[k].op = "find" \/ Moves(steps[k])
               /\ steps[k].on \in Wallet
               /\ steps[k].cause[1] = "join" /\ steps[k].cause[2] = e
      BY <1>9, <2>1, <2>3, <2>4
    <2>6. LocksEvent(j, e)
      BY <2>1, <2>4 DEF LocksEvent, steps
    <2> QED BY <1>6, <2>2, <2>5, <2>6
  <1>11. CASE j = CancelByHost(e, u, v)
    <2>1. PICK a, b : LockAccounts(u, v) = <<TakeLock(wallet(a)), TakeLock(wallet(b))>>
      BY DEF LockAccounts
    <2>2. steps = <<TakeLock(Event(e)), CheckMarks(Event(e))>>
                    \o <<TakeLock(wallet(a)), TakeLock(wallet(b))>>
                    \o <<Step("find", wallet(v), <<"join", e, v>>, 0),
                         Step("reverse", wallet(v), <<"join", e, v>>, 0)>>
                    \o <<Penalize(wallet(u), <<"hostfine", e>>, FineCoins),
                         Spend(score(u), <<"hostfine", e>>, FineTrust)>>
      BY <1>11, <2>1, Zenon DEF CancelByHost, Refund, Tx
    <2>3. \A m \in j.bars \cup j.marks : m[2] = e
      BY <1>2, <1>11 DEF CancelByHost, Tx
    <2> HIDE DEF steps
    <2>4. /\ Len(steps) = 8
          /\ steps[1] = TakeLock(Event(e)) /\ steps[2] = CheckMarks(Event(e))
          /\ steps[3] = TakeLock(wallet(a)) /\ steps[4] = TakeLock(wallet(b))
          /\ steps[5] = Step("find", wallet(v), <<"join", e, v>>, 0)
          /\ steps[6] = Step("reverse", wallet(v), <<"join", e, v>>, 0)
          /\ steps[7] = Penalize(wallet(u), <<"hostfine", e>>, FineCoins)
          /\ steps[8] = Spend(score(u), <<"hostfine", e>>, FineTrust)
      BY <2>2, FourPairs
    <2>5. CheckMarks(Event(e)).op = "check"
      BY DEF CheckMarks, Step
    <2>6. /\ Plain(TakeLock(wallet(a))) /\ Plain(TakeLock(wallet(b)))
          /\ Plain(Penalize(wallet(u), <<"hostfine", e>>, FineCoins))
          /\ Plain(Spend(score(u), <<"hostfine", e>>, FineTrust))
      BY PlainFacts
    <2>7. 1 \in DOMAIN steps /\ \A k \in DOMAIN steps : k > 1 => k \in 2 .. 8
      BY <1>0, <2>4
    <2>8. \A k \in DOMAIN steps : k > 1 =>
            \/ Plain(steps[k])
            \/ steps[k].op = "check"
            \/ /\ steps[k].op = "find" \/ Moves(steps[k])
               /\ steps[k].on \in Wallet
               /\ steps[k].cause[1] = "join" /\ steps[k].cause[2] = e
      BY <1>9, <2>4, <2>5, <2>6, <2>7
    <2>9. LocksEvent(j, e)
      BY <2>4, <2>7 DEF LocksEvent, steps
    <2> QED BY <1>6, <2>3, <2>8, <2>9
  <1> QED BY <1>5, <1>7, <1>8, <1>10, <1>11

\* The product's transactions have that discipline: what is looked up and checked
\* about an event is looked up and checked with its row locked.  So joining,
\* refusing, leaving, cancelling and completing behave as if each ran alone, for
\* any number of users, events and connections.
THEOREM LedgerJobsAreSerial ==
  ASSUME NEW CONSTANT n \in Nat,
         \A u \in 1 .. n : wallet(u) \in Wallet,
         \A j \in Job : IsOfProduct(j, n)
  PROVE  Spec => IsSerial
  <1>1. \A j \in Job : \E e : Tidy(j, e)
    BY ProductIsTidy
  <1> QED BY <1>1, TidyJobsAreDisciplined, DisciplinedIsSerial

=============================================================================
