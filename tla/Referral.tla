----------------------------- MODULE Referral -----------------------------
(***************************************************************************)
(* Referrals: who invited whom, what an attendance pays for it, and the    *)
(* moderator who may refuse it (ReferralService, ReferralAdminService, the *)
(* payout loop of EventLifecycleService.settleOne, and the no-show that    *)
(* NoShowClaimService turns into an attendance without asking for it).     *)
(*                                                                         *)
(* A payout is one transaction that begins with a conditional update of    *)
(* the referral row (the guard), counts what the referrer has already been *)
(* paid, and pays both halves.  The count and the payment are two steps:   *)
(* nothing but the referral's own row is locked while counting, so two     *)
(* payouts for one referrer overlap.                                       *)
(*                                                                         *)
(* The claim window, a banned referrer and the velocity signals are left   *)
(* out: they only make a claim rarer, and a claim may always not happen.   *)
(* Every payout falls in the same economy.earning_cap_days window.         *)
(***************************************************************************)
EXTENDS Integers, FiniteSets

CONSTANTS
  User,           \* accounts
  Inviter,        \* accounts whose code is handed out
  Admin,          \* moderators with referral.manage
  Cap,            \* economy.referral_reward_cap, 0 switches it off
  ReferrerCoins,  \* economy.referral_referrer_coins
  ReferredCoins,  \* economy.referral_referred_coins
  MaxFailures     \* bound on the crashes and errors that cut a payout short

ASSUME CoinsAssumption ==
  Cap \in Nat /\ ReferrerCoins \in Nat /\ ReferredCoins \in Nat
ASSUME UsersAssumption == IsFiniteSet(User) /\ Inviter \subseteq User
ASSUME FailureAssumption == MaxFailures \in Nat

Nobody == "nobody"
NoTx   == [by |-> "none", coins |-> 0]
Idle   == [referral |-> Nobody, saw |-> "NONE"]

ASSUME NobodyAssumption == Nobody \notin User

VARIABLES
  status,      \* referral.status of the account invited, "NONE" without a row
  referrerOf,  \* referral.referrer_user_id
  qualifiedAt, \* referral.qualified_at is set
  attended,    \* the account has a COMPLETED participation
  rows,        \* coin_ledger rows of type REFERRAL_REWARD
  owed,        \* accounts settleOne has settled and has still to pay out for
  claiming,    \* accounts whose claim call has still to ask for a payout
  open,        \* the payout transaction on a referral, NoTx when there is none
  review,      \* what each moderator has read and not yet decided
  unasked,     \* history: accounts that may have become payable with no call left
               \* that would ask for it, until they are settled or claim again
  failures     \* calls cut short so far

rowVars == <<status, referrerOf, qualifiedAt>>
vars == <<rowVars, attended, rows, owed, claiming, open, review, unasked, failures>>

ReferralStatus == {"PENDING", "QUALIFIED", "REJECTED"}

ReferralEdges ==
  {<<"PENDING", "QUALIFIED">>, <<"PENDING", "REJECTED">>, <<"REJECTED", "PENDING">>}

\* A ledger row's idempotency key is the referral and the half it pays.
Row(u, half, account, coins) ==
  [referral |-> u, half |-> half, account |-> account, coins |-> coins]

HasRow(u, half) == \E r \in rows : r.referral = u /\ r.half = half

\* earnedSince: the referrer halves an account has been paid.
PaidTo(account) == {r \in rows : r.account = account /\ r.half = "referrer"}

-----------------------------------------------------------------------------

Init ==
  /\ status = [u \in User |-> "NONE"]
  /\ referrerOf = [u \in User |-> Nobody]
  /\ qualifiedAt = [u \in User |-> FALSE]
  /\ attended = [u \in User |-> FALSE]
  /\ rows = {}
  /\ owed = {} /\ claiming = {}
  /\ open = [u \in User |-> NoTx]
  /\ review = [a \in Admin |-> Idle]
  /\ unasked = {}
  /\ failures = 0

\* Calls of qualifyForAttendance that are still to come.
Asked == owed \cup claiming

\* claim: the UNIQUE index on the referred account decides; the call then asks
\* for the payout of an attendance that may already have happened.
Claim(u, by) ==
  /\ status[u] = "NONE" /\ by # u
  /\ status' = [status EXCEPT ![u] = "PENDING"]
  /\ referrerOf' = [referrerOf EXCEPT ![u] = by]
  /\ claiming' = claiming \cup {u}
  /\ unasked' = unasked \ {u}
  /\ UNCHANGED <<qualifiedAt, attended, rows, owed, open, review, failures>>

\* settleOne: one activity's guests are settled in one transaction; the payouts
\* are asked for after it has committed, one guest after the other.
Settle(S) ==
  /\ owed = {}
  /\ attended' = [u \in User |-> attended[u] \/ u \in S]
  /\ owed' = S
  /\ unasked' = unasked \ S
  /\ UNCHANGED <<rowVars, rows, claiming, open, review, failures>>

\* reverseNoShow: a dispute a moderator upholds makes the seat COMPLETED, and asks
\* for no payout.
ReverseNoShow(u) ==
  /\ attended' = [attended EXCEPT ![u] = TRUE]
  /\ unasked' = unasked \cup ({u} \ Asked)
  /\ UNCHANGED <<rowVars, rows, owed, claiming, open, review, failures>>

-----------------------------------------------------------------------------
(* qualifyForAttendance, called by the claim and by the settlement *)

\* Deviation: the cap is compared with > instead of >=.
RewardPastCap(account) ==
  IF Cap > 0 /\ Cardinality(PaidTo(account)) > Cap THEN 0 ELSE ReferrerCoins

ReferrerReward(account) ==
  IF Cap > 0 /\ Cardinality(PaidTo(account)) >= Cap THEN 0 ELSE ReferrerCoins

\* Deviation: qualification trusts its caller about the attendance.
QualifiesUnseen(u) == status[u] = "PENDING"

Qualifies(u) == status[u] = "PENDING" /\ attended[u]

\* The conditional update matches and holds the referral's row; the referrer's
\* earlier rewards are counted.
Begin(u, by) ==
  /\ open[u] = NoTx
  /\ Qualifies(u)
  /\ open' = [open EXCEPT ![u] = [by |-> by, coins |-> ReferrerReward(referrerOf[u])]]
  /\ UNCHANGED <<rowVars, attended, rows, owed, claiming, review, unasked, failures>>

\* Deviation: a referrer at the cap keeps the invited account's half back too.
PaymentsAllOrNone(u) ==
  IF open[u].coins > 0
  THEN {Row(u, "referrer", referrerOf[u], open[u].coins),
        Row(u, "referred", u, ReferredCoins)}
  ELSE {}

\* Deviation: a half that is worth nothing is recorded too.
PaymentsOfNothing(u) ==
  {r \in {Row(u, "referrer", referrerOf[u], open[u].coins),
          Row(u, "referred", u, ReferredCoins)} : ~ HasRow(u, r.half)}

\* The rows a payout adds: CoinService.apply writes none for a key it has, and
\* neither half is paid when its price is zero.
Payments(u) ==
  {r \in {Row(u, "referrer", referrerOf[u], open[u].coins),
          Row(u, "referred", u, ReferredCoins)} :
     r.coins > 0 /\ ~ HasRow(u, r.half)}

\* Both halves, the status and the end of the call commit together.
Commit(u) ==
  /\ open[u] # NoTx
  /\ status' = [status EXCEPT ![u] = "QUALIFIED"]
  /\ qualifiedAt' = [qualifiedAt EXCEPT ![u] = TRUE]
  /\ rows' = rows \cup Payments(u)
  /\ owed' = IF open[u].by = "settlement" THEN owed \ {u} ELSE owed
  /\ claiming' = IF open[u].by = "claim" THEN claiming \ {u} ELSE claiming
  /\ open' = [open EXCEPT ![u] = NoTx]
  /\ UNCHANGED <<referrerOf, attended, review, unasked, failures>>

\* Deviation: a claim leaves the payout to the next settlement.
SkipClaims(u, by) ==
  /\ ~ Qualifies(u) \/ by = "claim"
  /\ owed' = IF by = "settlement" THEN owed \ {u} ELSE owed
  /\ claiming' = IF by = "claim" THEN claiming \ {u} ELSE claiming
  /\ UNCHANGED <<rowVars, attended, rows, open, review, unasked, failures>>

\* The call finds nothing to qualify.
Skip(u, by) ==
  /\ ~ Qualifies(u)
  /\ owed' = IF by = "settlement" THEN owed \ {u} ELSE owed
  /\ claiming' = IF by = "claim" THEN claiming \ {u} ELSE claiming
  /\ UNCHANGED <<rowVars, attended, rows, open, review, unasked, failures>>

\* The settlement pays out for one guest at a time.
SettlementAsks(u) ==
  /\ u \in owed
  /\ \A v \in User : open[v].by # "settlement"
  /\ Begin(u, "settlement") \/ Skip(u, "settlement")

ClaimAsks(u) ==
  /\ u \in claiming
  /\ open[u].by # "claim"
  /\ Begin(u, "claim") \/ Skip(u, "claim")

-----------------------------------------------------------------------------
(* A call is cut short: its process dies, or the payout throws (a lost       *)
(* connection, a deadlock) with the process alive.  Its open transaction     *)
(* rolls back either way, and what it still owed was only in its memory:     *)
(* no later sweep finds the seats, which are COMPLETED.                      *)

Rollback(by, S) == [u \in User |-> IF u \in S /\ open[u].by = by THEN NoTx ELSE open[u]]

\* Of settleOne, with everybody the loop had still to ask for.
PayoutsFail ==
  /\ failures < MaxFailures
  /\ owed # {}
  /\ failures' = failures + 1
  /\ owed' = {}
  /\ open' = Rollback("settlement", User)
  /\ unasked' = unasked \cup (owed \ claiming)
  /\ UNCHANGED <<rowVars, attended, rows, claiming, review>>

\* Of a claim, after its row has committed.
ClaimFails(u) ==
  /\ failures < MaxFailures
  /\ u \in claiming
  /\ failures' = failures + 1
  /\ claiming' = claiming \ {u}
  /\ open' = Rollback("claim", {u})
  /\ unasked' = unasked \cup ({u} \ owed)
  /\ UNCHANGED <<rowVars, attended, rows, owed, review>>

-----------------------------------------------------------------------------
(* ReferralAdminService: reject and reinstate read the row without a lock   *)
(* and update it by id.                                                     *)

ReadReferral(a, u) ==
  /\ review[a] = Idle
  /\ status[u] \in {"PENDING", "REJECTED"}
  /\ review' = [review EXCEPT ![a] = [referral |-> u, saw |-> status[u]]]
  /\ UNCHANGED <<rowVars, attended, rows, owed, claiming, open, unasked, failures>>

\* Deviation: the table has no CHECK.
UncheckedWrite(u, to) == status' = [status EXCEPT ![u] = to]

\* CHECK ((status = 'QUALIFIED') = (qualified_at IS NOT NULL)): neither decision
\* clears qualified_at, so one that would overwrite a payout is refused.
CheckedWrite(u, to) ==
  status' = IF qualifiedAt[u] THEN status ELSE [status EXCEPT ![u] = to]

\* The write waits for a payout that holds the row.  A referral that is reinstated
\* waits for the next attendance.
Decide(a) ==
  LET u == review[a].referral IN
  /\ review[a] # Idle
  /\ open[u] = NoTx
  /\ \E to \in {"REJECTED", "PENDING"} :
       /\ <<review[a].saw, to>> \in ReferralEdges
       /\ CheckedWrite(u, to)
       /\ unasked' = IF to = "PENDING" THEN unasked \cup ({u} \ Asked) ELSE unasked
  /\ review' = [review EXCEPT ![a] = Idle]
  /\ UNCHANGED <<referrerOf, qualifiedAt, attended, rows, owed, claiming, open,
                 failures>>

-----------------------------------------------------------------------------

PayoutStep(u) == SettlementAsks(u) \/ ClaimAsks(u) \/ Commit(u)

Next ==
  \/ \E u \in User, by \in Inviter : Claim(u, by)
  \/ \E S \in SUBSET User : Settle(S)
  \/ \E u \in User : ReverseNoShow(u) \/ PayoutStep(u) \/ ClaimFails(u)
  \/ PayoutsFail
  \/ \E a \in Admin : Decide(a) \/ \E u \in User : ReadReferral(a, u)

Spec == Init /\ [][Next]_vars

\* A running process goes on with what it has begun.  Nobody has to claim,
\* attend or decide anything.
Fairness == \A u \in User : WF_vars(PayoutStep(u))

FairSpec == Spec /\ Fairness

-----------------------------------------------------------------------------
(* Properties *)

\* Every column and every process is in a state the tables and the code allow.
TypeOK ==
  /\ status \in [User -> ReferralStatus \cup {"NONE"}]
  /\ referrerOf \in [User -> User \cup {Nobody}]
  /\ qualifiedAt \in [User -> BOOLEAN]
  /\ attended \in [User -> BOOLEAN]
  /\ rows \subseteq [referral : User, half : {"referrer", "referred"},
                     account : User, coins : Nat \ {0}]
  /\ owed \subseteq User /\ claiming \subseteq User
  /\ open \in [User -> [by : {"none", "settlement", "claim"}, coins : Nat]]
  /\ review \in [Admin -> [referral : User \cup {Nobody},
                           saw : {"NONE", "PENDING", "REJECTED"}]]
  /\ unasked \subseteq User
  /\ failures \in 0 .. MaxFailures

\* The invited account is paid exactly when the referral is QUALIFIED, and only
\* for an attendance; a capped or crashed payout never separates the two.
PaidWithTheStatus ==
  \A u \in User :
    /\ ReferredCoins > 0 => (status[u] = "QUALIFIED" <=> HasRow(u, "referred"))
    /\ HasRow(u, "referrer") => status[u] = "QUALIFIED"
    /\ status[u] = "QUALIFIED" => attended[u] /\ referrerOf[u] \notin {u, Nobody}

\* QUALIFIED -> REJECTED is "deliberately absent" (referral-state-machine.ts): a
\* moderator who decides on what they read before the payout changes nothing.
QualifiedIsFinal ==
  [][\A u \in User : status[u] = "QUALIFIED" => status'[u] = "QUALIFIED"]_vars

\* Whoever attended and has a referral PENDING is paid, as long as a call of
\* qualifyForAttendance is still to come for them: a claim and a settlement that
\* pass each other cannot both miss the other's commit.  Those nobody asks for are
\* named: a settlement or a claim that was cut short, a no-show turned into an
\* attendance, a referral reinstated after its attendance.  Their next settlement
\* (or their claim) makes up for it.
AttendanceIsPaid ==
  \A u \in User : attended[u] /\ status[u] = "PENDING" /\ u \notin unasked
                    ~> status[u] # "PENDING" \/ u \in unasked
====
