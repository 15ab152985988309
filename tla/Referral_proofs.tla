-------------------------- MODULE Referral_proofs --------------------------
(***************************************************************************)
(* What holds of referrals for every set of accounts and moderators, every *)
(* price and every cap: the status, the stamp and the coins of a payout    *)
(* never come apart, and a payout is final.                                *)
(***************************************************************************)
EXTENDS Referral, TLAPS

\* A claimed referral names another account.
ReferrerKnown ==
  \A u \in User : status[u] # "NONE" => referrerOf[u] \in User \ {u}

\* The table's CHECK: qualified_at is set exactly on a QUALIFIED referral.
StampMatches ==
  \A u \in User : qualifiedAt[u] <=> status[u] = "QUALIFIED"

\* The conditional update that began a payout still matches: the payout has the
\* row, so nobody else has changed it.
PayoutHoldsRow ==
  \A u \in User : open[u] # NoTx => Qualifies(u)

\* What a moderator is about to decide on is a claimed referral.
ReviewNamesReferral ==
  \A a \in Admin : review[a] # Idle =>
    review[a].referral \in User /\ status[review[a].referral] # "NONE"

\* No half of a referral is paid before it is QUALIFIED.
PaidOnlyQualified ==
  \A r \in rows : status[r.referral] = "QUALIFIED"

\* Whoever may be payable is still asked for, or is one of those whose payout was
\* given up: nobody is passed over without a trace.
NobodyForgotten ==
  \A u \in User : attended[u] /\ status[u] = "PENDING" => u \in Asked \cup unasked

\* The inductive invariant.
IInv ==
  /\ TypeOK
  /\ ReferrerKnown
  /\ StampMatches
  /\ PayoutHoldsRow
  /\ ReviewNamesReferral
  /\ PaidOnlyQualified
  /\ PaidWithTheStatus
  /\ NobodyForgotten

-----------------------------------------------------------------------------
(* Payouts *)

\* What the referrer's half is worth is a price, at the cap or below it.
LEMMA RewardIsPrice ==
  ASSUME NEW account
  PROVE  ReferrerReward(account) \in Nat
  BY CoinsAssumption DEF ReferrerReward

\* The rows a payout writes are rows of its own referral, both to accounts, and
\* the invited account's half is among them whenever it has a price and is new.
LEMMA PaymentsOfPayout ==
  ASSUME IInv, NEW u \in User, open[u] # NoTx
  PROVE  /\ Payments(u) \subseteq
              [referral : User, half : {"referrer", "referred"},
               account : User, coins : Nat \ {0}]
         /\ \A r \in Payments(u) : r.referral = u
         /\ ReferredCoins > 0 /\ ~ HasRow(u, "referred") =>
              \E r \in Payments(u) : r.half = "referred"
  <1>1. referrerOf[u] \in User
    BY DEF IInv, PayoutHoldsRow, Qualifies, ReferrerKnown
  <1>2. open[u].coins \in Nat /\ ReferredCoins \in Nat
    BY CoinsAssumption DEF IInv, TypeOK
  <1>3. ASSUME NEW r \in Payments(u)
        PROVE  /\ r \in [referral : User, half : {"referrer", "referred"},
                         account : User, coins : Nat \ {0}]
               /\ r.referral = u
    <2>1. r.coins > 0
      BY DEF Payments
    <2>2. CASE r = [referral |-> u, half |-> "referrer", account |-> referrerOf[u],
                    coins |-> open[u].coins]
      BY <2>1, <2>2, <1>1, <1>2
    <2>3. CASE r = [referral |-> u, half |-> "referred", account |-> u,
                    coins |-> ReferredCoins]
      BY <2>1, <2>3, <1>2
    <2> QED BY <2>2, <2>3 DEF Payments, Row
  <1>4. ASSUME ReferredCoins > 0, ~ HasRow(u, "referred")
        PROVE  \E r \in Payments(u) : r.half = "referred"
    <2> DEFINE half == Row(u, "referred", u, ReferredCoins)
    <2>1. half.coins > 0 /\ half.half = "referred" /\ ~ HasRow(u, half.half)
      BY <1>4 DEF Row
    <2>2. half \in Payments(u)
      BY <2>1 DEF Payments
    <2> QED BY <2>1, <2>2
  <1> QED BY <1>3, <1>4

-----------------------------------------------------------------------------
(* The invariant, action by action *)

\* Nothing is claimed before the program starts.
LEMMA InitInvariant == Init => IInv
  <1> SUFFICES ASSUME Init
               PROVE  IInv
    OBVIOUS
  <1>1. TypeOK
    BY FailureAssumption DEF Init, TypeOK, ReferralStatus, NoTx, Idle
  <1>2. /\ ReferrerKnown /\ StampMatches /\ PayoutHoldsRow
        /\ ReviewNamesReferral /\ PaidOnlyQualified
    BY DEF Init, ReferrerKnown, StampMatches, PayoutHoldsRow, ReviewNamesReferral,
           PaidOnlyQualified
  <1>3. PaidWithTheStatus /\ NobodyForgotten
    BY DEF Init, PaidWithTheStatus, HasRow, NobodyForgotten
  <1> QED BY <1>1, <1>2, <1>3 DEF IInv

\* A claim makes one account's row, PENDING and unpaid.
LEMMA ClaimInvariant ==
  ASSUME IInv, NEW u \in User, NEW by \in Inviter, Claim(u, by)
  PROVE  IInv'
  <1>1. by \in User \ {u}
    BY UsersAssumption DEF Claim
  <1>2. TypeOK'
    BY <1>1 DEF IInv, TypeOK, Claim, ReferralStatus
  <1>3. ReferrerKnown'
    BY <1>1 DEF IInv, TypeOK, Claim, ReferrerKnown
  <1>4. StampMatches'
    BY DEF IInv, TypeOK, Claim, StampMatches
  <1>5. PayoutHoldsRow'
    BY DEF IInv, TypeOK, Claim, PayoutHoldsRow, Qualifies
  <1>6. ReviewNamesReferral'
    BY DEF IInv, TypeOK, Claim, ReviewNamesReferral
  <1>7. PaidOnlyQualified'
    BY DEF IInv, TypeOK, Claim, PaidOnlyQualified
  <1>8. PaidWithTheStatus'
    BY <1>1 DEF IInv, TypeOK, Claim, PaidWithTheStatus, HasRow
  <1>9. NobodyForgotten'
    BY DEF IInv, TypeOK, Claim, NobodyForgotten, Asked
  <1> QED BY <1>2, <1>3, <1>4, <1>5, <1>6, <1>7, <1>8, <1>9 DEF IInv

\* A settlement and a reversed no-show only add attendances.
LEMMA AttendanceInvariant ==
  ASSUME IInv, (\E S \in SUBSET User : Settle(S)) \/ (\E u \in User : ReverseNoShow(u))
  PROVE  IInv'
  <1>1. /\ \A u \in User : attended[u] => attended'[u]
        /\ UNCHANGED <<rowVars, rows, claiming, open, review, failures>>
    BY DEF Settle, ReverseNoShow, IInv, TypeOK
  <1>2. /\ attended' \in [User -> BOOLEAN]
        /\ owed' \subseteq User /\ unasked' \subseteq User
    BY DEF IInv, TypeOK, Settle, ReverseNoShow
  <1>3. TypeOK'
    BY <1>1, <1>2 DEF IInv, TypeOK, rowVars
  <1>4. PayoutHoldsRow'
    BY <1>1 DEF IInv, PayoutHoldsRow, Qualifies, rowVars
  <1>5. /\ ReferrerKnown' /\ StampMatches' /\ ReviewNamesReferral'
        /\ PaidOnlyQualified'
    BY <1>1 DEF IInv, ReferrerKnown, StampMatches, ReviewNamesReferral,
           PaidOnlyQualified, rowVars
  <1>6. PaidWithTheStatus'
    BY <1>1 DEF IInv, PaidWithTheStatus, HasRow, rowVars
  <1>7. NobodyForgotten'
    <2>1. CASE \E S \in SUBSET User : Settle(S)
      BY <2>1 DEF IInv, TypeOK, Settle, NobodyForgotten, Asked, rowVars
    <2>2. CASE \E u \in User : ReverseNoShow(u)
      BY <2>2 DEF IInv, TypeOK, ReverseNoShow, NobodyForgotten, Asked, rowVars
    <2> QED BY <2>1, <2>2
  <1> QED BY <1>3, <1>4, <1>5, <1>6, <1>7 DEF IInv

\* A payout begins on a referral its update matches.
LEMMA BeginInvariant ==
  ASSUME IInv, NEW u \in User, NEW by \in {"settlement", "claim"}, Begin(u, by)
  PROVE  IInv'
  <1>1. TypeOK'
    BY RewardIsPrice DEF IInv, TypeOK, Begin, rowVars
  <1>2. PayoutHoldsRow'
    BY DEF IInv, TypeOK, Begin, PayoutHoldsRow, Qualifies, rowVars
  <1>3. /\ ReferrerKnown' /\ StampMatches' /\ ReviewNamesReferral'
        /\ PaidOnlyQualified' /\ PaidWithTheStatus' /\ NobodyForgotten'
    BY DEF IInv, Begin, ReferrerKnown, StampMatches, ReviewNamesReferral,
           PaidOnlyQualified, PaidWithTheStatus, HasRow, NobodyForgotten, Asked, rowVars
  <1> QED BY <1>1, <1>2, <1>3 DEF IInv

\* A call that finds nothing to qualify changes only what its process remembers.
LEMMA SkipInvariant ==
  ASSUME IInv, NEW u \in User, NEW by, Skip(u, by)
  PROVE  IInv'
  <1>1. TypeOK'
    BY DEF IInv, TypeOK, Skip, rowVars
  <1>2. /\ ReferrerKnown' /\ StampMatches' /\ PayoutHoldsRow' /\ ReviewNamesReferral'
        /\ PaidOnlyQualified' /\ PaidWithTheStatus'
    BY DEF IInv, Skip, ReferrerKnown, StampMatches, PayoutHoldsRow, Qualifies,
           ReviewNamesReferral, PaidOnlyQualified, PaidWithTheStatus, HasRow, rowVars
  <1>3. NobodyForgotten'
    <2>1. Asked \ {u} \subseteq Asked' /\ ~ (status[u] = "PENDING" /\ attended[u])
      BY DEF Skip, Qualifies, Asked
    <2> QED BY <2>1 DEF IInv, Skip, NobodyForgotten, rowVars
  <1> QED BY <1>1, <1>2, <1>3 DEF IInv

\* A payout commits the status, the stamp and the rows together.
LEMMA CommitInvariant ==
  ASSUME IInv, NEW u \in User, Commit(u)
  PROVE  IInv'
  <1>1. open[u] # NoTx /\ status[u] = "PENDING" /\ attended[u]
    BY DEF Commit, IInv, PayoutHoldsRow, Qualifies
  <1>2. /\ Payments(u) \subseteq
             [referral : User, half : {"referrer", "referred"},
              account : User, coins : Nat \ {0}]
        /\ \A r \in Payments(u) : r.referral = u
        /\ ReferredCoins > 0 /\ ~ HasRow(u, "referred") =>
             \E r \in Payments(u) : r.half = "referred"
    BY <1>1, PaymentsOfPayout
  <1>3. rows' = rows \cup Payments(u) /\ status' = [status EXCEPT ![u] = "QUALIFIED"]
    BY DEF Commit
  <1>4. TypeOK'
    <2>1. open' \in [User -> [by : {"none", "settlement", "claim"}, coins : Nat]]
      BY DEF IInv, TypeOK, Commit, NoTx
    <2>2. rows' \subseteq [referral : User, half : {"referrer", "referred"},
                           account : User, coins : Nat \ {0}]
      BY <1>2, <1>3 DEF IInv, TypeOK
    <2> QED BY <2>1, <2>2 DEF IInv, TypeOK, Commit, ReferralStatus
  <1>5. ReferrerKnown'
    BY <1>1 DEF IInv, TypeOK, Commit, ReferrerKnown
  <1>6. StampMatches'
    BY DEF IInv, TypeOK, Commit, StampMatches
  <1>7. PayoutHoldsRow'
    BY DEF IInv, TypeOK, Commit, PayoutHoldsRow, Qualifies
  <1>8. ReviewNamesReferral'
    BY DEF IInv, TypeOK, Commit, ReviewNamesReferral
  <1>9. PaidOnlyQualified'
    <2> SUFFICES ASSUME NEW r \in rows'
                 PROVE  status'[r.referral] = "QUALIFIED"
      BY DEF PaidOnlyQualified
    <2>1. CASE r \in rows
      BY <2>1, <1>3 DEF IInv, TypeOK, PaidOnlyQualified
    <2>2. CASE r \in Payments(u)
      BY <2>2, <1>2, <1>3 DEF IInv, TypeOK
    <2> QED BY <2>1, <2>2, <1>3
  <1>10. PaidWithTheStatus'
    <2> SUFFICES ASSUME NEW v \in User
                 PROVE  /\ ReferredCoins > 0 =>
                             (status'[v] = "QUALIFIED" <=> HasRow(v, "referred")')
                        /\ HasRow(v, "referrer")' => status'[v] = "QUALIFIED"
                        /\ status'[v] = "QUALIFIED" =>
                             attended'[v] /\ referrerOf'[v] \notin {v, Nobody}
      BY DEF PaidWithTheStatus
    <2>1. HasRow(v, "referred")' \/ HasRow(v, "referrer")' => status'[v] = "QUALIFIED"
      BY <1>9 DEF HasRow, PaidOnlyQualified
    <2>2. status'[v] = "QUALIFIED" => attended'[v] /\ referrerOf'[v] \notin {v, Nobody}
      BY <1>1, NobodyAssumption DEF IInv, TypeOK, Commit, PaidWithTheStatus, ReferrerKnown
    <2>3. ASSUME ReferredCoins > 0, status'[v] = "QUALIFIED"
          PROVE  HasRow(v, "referred")'
      <3>1. CASE v = u
        BY <2>3, <3>1, <1>2, <1>3 DEF HasRow
      <3>2. CASE v # u
        <4>1. status[v] = "QUALIFIED"
          BY <2>3, <3>2, <1>3 DEF IInv, TypeOK
        <4>2. HasRow(v, "referred")
          BY <2>3, <4>1 DEF IInv, PaidWithTheStatus
        <4> QED BY <4>2, <1>3 DEF HasRow
      <3> QED BY <3>1, <3>2
    <2> QED BY <2>1, <2>2, <2>3
  <1>11. NobodyForgotten'
    <2>1. Asked \ {u} \subseteq Asked' /\ status'[u] # "PENDING"
      BY <1>3 DEF Commit, Asked, IInv, TypeOK
    <2> QED BY <2>1, <1>3 DEF IInv, TypeOK, Commit, NobodyForgotten
  <1> QED BY <1>4, <1>5, <1>6, <1>7, <1>8, <1>9, <1>10, <1>11 DEF IInv

\* Rolling payouts back leaves the others as they are.
LEMMA RollbackOnlyDrops ==
  ASSUME NEW by, NEW S, open \in [User -> [by : {"none", "settlement", "claim"},
                                            coins : Nat]]
  PROVE  /\ Rollback(by, S) \in [User -> [by : {"none", "settlement", "claim"},
                                          coins : Nat]]
         /\ \A u \in User : Rollback(by, S)[u] \in {open[u], NoTx}
  BY DEF Rollback, NoTx

\* A call cut short, of a settlement or of a claim, leaves the tables as they were
\* and gives up by name whoever it had still to ask for.
LEMMA FailureInvariant ==
  ASSUME IInv, PayoutsFail \/ \E u \in User : ClaimFails(u)
  PROVE  IInv'
  <1>1. PICK by, S : open' = Rollback(by, S)
    BY DEF PayoutsFail, ClaimFails
  <1>2. /\ UNCHANGED <<rowVars, attended, rows, review>>
        /\ failures' = failures + 1 /\ failures < MaxFailures
        /\ owed' \subseteq User /\ claiming' \subseteq User /\ unasked' \subseteq User
    BY DEF PayoutsFail, ClaimFails, IInv, TypeOK
  <1>3. TypeOK'
    <2>1. failures' \in 0 .. MaxFailures
      BY <1>2, FailureAssumption DEF IInv, TypeOK
    <2>2. open' \in [User -> [by : {"none", "settlement", "claim"}, coins : Nat]]
      BY <1>1, RollbackOnlyDrops DEF IInv, TypeOK
    <2> QED BY <2>1, <2>2, <1>2 DEF IInv, TypeOK, rowVars
  <1>4. PayoutHoldsRow'
    <2>1. \A u \in User : open'[u] # NoTx => open[u] # NoTx
      BY <1>1, RollbackOnlyDrops DEF IInv, TypeOK
    <2> QED BY <2>1, <1>2 DEF IInv, PayoutHoldsRow, Qualifies, rowVars
  <1>5. /\ ReferrerKnown' /\ StampMatches' /\ ReviewNamesReferral'
        /\ PaidOnlyQualified' /\ PaidWithTheStatus'
    BY <1>2 DEF IInv, ReferrerKnown, StampMatches, ReviewNamesReferral,
           PaidOnlyQualified, PaidWithTheStatus, HasRow, rowVars
  <1>6. NobodyForgotten'
    <2>1. Asked \cup unasked \subseteq (Asked \cup unasked)'
      BY DEF PayoutsFail, ClaimFails, Asked
    <2> QED BY <2>1, <1>2 DEF IInv, NobodyForgotten, rowVars
  <1> QED BY <1>3, <1>4, <1>5, <1>6 DEF IInv

\* A moderator opens a claimed referral.
LEMMA ReadInvariant ==
  ASSUME IInv, NEW a \in Admin, NEW u \in User, ReadReferral(a, u)
  PROVE  IInv'
  <1>1. TypeOK'
    BY DEF IInv, TypeOK, ReadReferral, rowVars
  <1>2. ReviewNamesReferral'
    BY DEF IInv, TypeOK, ReadReferral, ReviewNamesReferral, rowVars
  <1>3. /\ ReferrerKnown' /\ StampMatches' /\ PayoutHoldsRow'
        /\ PaidOnlyQualified' /\ PaidWithTheStatus' /\ NobodyForgotten'
    BY DEF IInv, ReadReferral, ReferrerKnown, StampMatches, PayoutHoldsRow, Qualifies,
           PaidOnlyQualified, PaidWithTheStatus, HasRow, NobodyForgotten, Asked, rowVars
  <1> QED BY <1>1, <1>2, <1>3 DEF IInv

\* A decision either writes nothing, on a stamped referral, or rewrites one that
\* no payout has paid or is paying.
LEMMA DecisionSparesPaid ==
  ASSUME IInv, NEW a \in Admin, Decide(a)
  PROVE  \E u \in User, to \in {"REJECTED", "PENDING"} :
           /\ \/ status' = status
              \/ /\ open[u] = NoTx /\ status[u] \notin {"NONE", "QUALIFIED"}
                 /\ status' = [status EXCEPT ![u] = to]
           /\ unasked' = IF to = "PENDING" THEN unasked \cup ({u} \ Asked) ELSE unasked
  <1> DEFINE u == review[a].referral
  <1>1. u \in User /\ status[u] # "NONE" /\ open[u] = NoTx
    BY DEF IInv, ReviewNamesReferral, Decide
  <1>2. PICK to \in {"REJECTED", "PENDING"} :
          /\ CheckedWrite(u, to)
          /\ unasked' = IF to = "PENDING" THEN unasked \cup ({u} \ Asked) ELSE unasked
    BY DEF Decide
  <1>3. CASE qualifiedAt[u]
    BY <1>1, <1>2, <1>3 DEF CheckedWrite
  <1>4. CASE ~ qualifiedAt[u]
    <2>1. status[u] # "QUALIFIED"
      BY <1>1, <1>4 DEF IInv, StampMatches
    <2> QED BY <2>1, <1>1, <1>2, <1>4 DEF CheckedWrite
  <1> QED BY <1>3, <1>4

\* A moderator who decides on what may be stale breaks nothing.
LEMMA DecideInvariant ==
  ASSUME IInv, NEW a \in Admin, Decide(a)
  PROVE  IInv'
  <1>1. /\ UNCHANGED <<referrerOf, qualifiedAt, attended, rows, owed, claiming, open,
                       failures>>
        /\ review' = [review EXCEPT ![a] = Idle]
        /\ unasked \subseteq unasked' /\ unasked' \subseteq User
    BY DEF Decide, IInv, TypeOK, ReviewNamesReferral
  <1>2. review' \in [Admin -> [referral : User \cup {Nobody},
                               saw : {"NONE", "PENDING", "REJECTED"}]]
    BY <1>1 DEF IInv, TypeOK, Idle
  <1>3. CASE status' = status
    <2>1. TypeOK'
      BY <1>1, <1>2, <1>3 DEF IInv, TypeOK
    <2>2. ReviewNamesReferral'
      BY <1>1, <1>3 DEF IInv, TypeOK, ReviewNamesReferral
    <2>3. /\ ReferrerKnown' /\ StampMatches' /\ PayoutHoldsRow'
          /\ PaidOnlyQualified' /\ PaidWithTheStatus' /\ NobodyForgotten'
      BY <1>1, <1>3 DEF IInv, ReferrerKnown, StampMatches, PayoutHoldsRow, Qualifies,
             PaidOnlyQualified, PaidWithTheStatus, HasRow, NobodyForgotten, Asked
    <2> QED BY <2>1, <2>2, <2>3 DEF IInv
  <1>4. ASSUME NEW u \in User, NEW to \in {"REJECTED", "PENDING"},
               open[u] = NoTx, status[u] \notin {"NONE", "QUALIFIED"},
               status' = [status EXCEPT ![u] = to],
               unasked' = IF to = "PENDING" THEN unasked \cup ({u} \ Asked) ELSE unasked
        PROVE  IInv'
    <2>1. TypeOK'
      BY <1>1, <1>2, <1>4 DEF IInv, TypeOK, ReferralStatus
    <2>2. ReviewNamesReferral'
      BY <1>1, <1>4 DEF IInv, TypeOK, ReviewNamesReferral
    <2>3. ReferrerKnown' /\ StampMatches'
      BY <1>1, <1>4 DEF IInv, TypeOK, ReferrerKnown, StampMatches
    <2>4. PayoutHoldsRow'
      BY <1>1, <1>4 DEF IInv, TypeOK, PayoutHoldsRow, Qualifies
    <2>5. PaidOnlyQualified'
      BY <1>1, <1>4 DEF IInv, TypeOK, PaidOnlyQualified
    <2>6. PaidWithTheStatus'
      BY <1>1, <1>4, <2>5 DEF IInv, TypeOK, PaidWithTheStatus, PaidOnlyQualified, HasRow
    <2>7. NobodyForgotten'
      BY <1>1, <1>4 DEF IInv, TypeOK, NobodyForgotten, Asked
    <2> QED BY <2>1, <2>2, <2>3, <2>4, <2>5, <2>6, <2>7 DEF IInv
  <1> QED BY <1>3, <1>4, DecisionSparesPaid

\* Every step keeps the invariant.
LEMMA StepInvariant == IInv /\ [Next]_vars => IInv'
  <1> SUFFICES ASSUME IInv, [Next]_vars
               PROVE  IInv'
    OBVIOUS
  <1>1. CASE \E u \in User, by \in Inviter : Claim(u, by)
    BY <1>1, ClaimInvariant
  <1>2. CASE (\E S \in SUBSET User : Settle(S)) \/ (\E u \in User : ReverseNoShow(u))
    BY <1>2, AttendanceInvariant
  <1>3. CASE \E u \in User : PayoutStep(u)
    BY <1>3, BeginInvariant, SkipInvariant, CommitInvariant
       DEF PayoutStep, SettlementAsks, ClaimAsks
  <1>4. CASE PayoutsFail \/ \E u \in User : ClaimFails(u)
    BY <1>4, FailureInvariant
  <1>5. CASE \E a \in Admin, u \in User : ReadReferral(a, u)
    BY <1>5, ReadInvariant
  <1>6. CASE \E a \in Admin : Decide(a)
    BY <1>6, DecideInvariant
  <1>7. CASE UNCHANGED vars
    <2>1. TypeOK'
      BY <1>7 DEF IInv, TypeOK, vars, rowVars
    <2>2. /\ ReferrerKnown' /\ StampMatches' /\ PayoutHoldsRow' /\ ReviewNamesReferral'
          /\ PaidOnlyQualified' /\ PaidWithTheStatus' /\ NobodyForgotten'
      BY <1>7 DEF IInv, vars, rowVars, ReferrerKnown, StampMatches, PayoutHoldsRow,
             Qualifies, ReviewNamesReferral, PaidOnlyQualified, PaidWithTheStatus, HasRow,
             NobodyForgotten, Asked
    <2> QED BY <2>1, <2>2 DEF IInv
  <1> QED BY <1>1, <1>2, <1>3, <1>4, <1>5, <1>6, <1>7 DEF Next

\* The inductive invariant holds of every behaviour, with or without the payouts
\* making progress.
THEOREM Invariant == Spec => []IInv
  BY InitInvariant, StepInvariant, PTL DEF Spec

\* Every column and every process stays in a state the tables and the code allow.
THEOREM TypeCorrect == Spec => []TypeOK
  <1>1. IInv => TypeOK
    BY DEF IInv
  <1> QED BY <1>1, Invariant, PTL

\* The invited account is paid exactly when the referral is QUALIFIED, and only
\* for an attendance, whatever crashes, caps and moderators come between the
\* conditional update of qualifyForAttendance and its commit.
THEOREM PaymentMatchesStatus == Spec => []PaidWithTheStatus
  <1>1. IInv => PaidWithTheStatus
    BY DEF IInv
  <1> QED BY <1>1, Invariant, PTL

\* Whoever has attended and waits for a payout has a call still to come, or is one
\* of those whose call was cut short, whose seat a moderator restored or whose
\* referral was reinstated: claims, settlements and decisions that pass each other
\* lose nobody else.
THEOREM NobodyIsPassedOver == Spec => []NobodyForgotten
  <1>1. IInv => NobodyForgotten
    BY DEF IInv
  <1> QED BY <1>1, Invariant, PTL

\* No step, a moderator's least of all, takes a payout back: reject and reinstate
\* update by id, and the table's CHECK is what refuses them.
THEOREM PayoutIsFinal == Spec => QualifiedIsFinal
  <1>1. ASSUME IInv, Next
        PROVE  \A u \in User : status[u] = "QUALIFIED" => status'[u] = "QUALIFIED"
    <2>1. CASE \E u \in User, by \in Inviter : Claim(u, by)
      BY <2>1, <1>1 DEF Claim, IInv, TypeOK
    <2>2. CASE (\E S \in SUBSET User : Settle(S)) \/ (\E u \in User : ReverseNoShow(u))
      BY <2>2 DEF Settle, ReverseNoShow, rowVars
    <2>3. CASE \E u \in User : PayoutStep(u)
      BY <2>3, <1>1 DEF PayoutStep, SettlementAsks, ClaimAsks, Begin, Skip, Commit,
             rowVars, IInv, TypeOK
    <2>4. CASE PayoutsFail \/ \E u \in User : ClaimFails(u)
      BY <2>4 DEF PayoutsFail, ClaimFails, rowVars
    <2>5. CASE \E a \in Admin, u \in User : ReadReferral(a, u)
      BY <2>5 DEF ReadReferral, rowVars
    <2>6. CASE \E a \in Admin : Decide(a)
      BY <2>6, <1>1, DecisionSparesPaid DEF IInv, TypeOK
    <2> QED BY <2>1, <2>2, <2>3, <2>4, <2>5, <2>6, <1>1 DEF Next
  <1>2. IInv /\ [Next]_vars =>
          [\A u \in User : status[u] = "QUALIFIED" => status'[u] = "QUALIFIED"]_vars
    BY <1>1
  <1> QED BY <1>2, Invariant, PTL DEF Spec, QualifiedIsFinal
====
