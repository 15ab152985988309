----------------------------- MODULE LedgerJobs -----------------------------
(***************************************************************************)
(* The transactions of the product that move coins or trust, as the        *)
(* statements they run, in the order the services run them.  A user is a   *)
(* number (ids sort), an event a model value.  A mark stands for a status  *)
(* the transition of the transaction leaves and a later one checks.        *)
(***************************************************************************)
EXTENDS Integers, Sequences

CONSTANTS
  OnboardingCoins,  \* economy.onboarding_reward_coins
  CreateCoins,      \* economy.event_create_coins
  JoinCoins,        \* economy.event_join_coins
  RewardCoins,      \* economy.host_deposit_refund_coins
  FineCoins,        \* a cancellation's or an absence's price in coins
  FineTrust         \* and in trust

wallet(u) == <<"wallet", u>>
score(u)  == <<"score", u>>

Step(op, on, cause, amount) == [op |-> op, on |-> on, cause |-> cause, amount |-> amount]
TakeLock(r)          == Step("lock", r, <<"none">>, 0)
CheckMarks(r)        == Step("check", r, <<"none">>, 0)
Give(a, cause, n)    == Step("apply", a, cause, n)
Spend(a, cause, n)   == Step("apply", a, cause, - n)
Penalize(a, cause, n) == Step("penalize", a, cause, - n)

\* unrefundedJoinChargeWhere, then reverse: one charge.
Refund(a, cause) == <<Step("find", a, cause, 0), Step("reverse", a, cause, 0)>>

Tx(steps, needs, bars, marks) ==
  [steps |-> steps, needs |-> needs, bars |-> bars, marks |-> marks]

Event(e)    == <<"event", e>>
Joined(e, g) == <<"joined", e, g>>
Left(e, g)  == <<"left", e, g>>
Over(e)     == <<"over", e>>
Held(e)     == <<"held", e>>
Opened(e)   == <<"opened", e>>

\* completeProfile: the user row, then the reward and the trust delta.
Onboard(u) ==
  Tx(<<TakeLock(<<"user", u>>), Give(wallet(u), <<"onboarding">>, OnboardingCoins),
       Give(score(u), <<"profile">>, 1)>>, {}, {}, {})

\* create: the deposit, in the transaction that inserts the event and so has its
\* row to itself.
Open(e, h) ==
  Tx(<<TakeLock(Event(e)), CheckMarks(Event(e)),
       Spend(wallet(h), <<"create", e>>, CreateCoins)>>,
     {}, {Opened(e)}, {Opened(e)})

\* join: the ask is charged under the event lock.
Join(e, g) ==
  Tx(<<TakeLock(Event(e)), CheckMarks(Event(e)),
       Spend(wallet(g), <<"join", e, g>>, JoinCoins)>>,
     {Opened(e)}, {Over(e), Joined(e, g)}, {Joined(e, g)})

\* join while asking is free: "Zero writes no row at all".
JoinFree(e, g) ==
  Tx(<<TakeLock(Event(e)), CheckMarks(Event(e))>>,
     {Opened(e)}, {Over(e), Joined(e, g)}, {Joined(e, g)})

\* Deviation: the charge is looked for before the event is locked.
TurnDownUnlocked(e, g) ==
  Tx(Refund(wallet(g), <<"join", e, g>>) \o <<TakeLock(Event(e)), CheckMarks(Event(e))>>,
     {Joined(e, g)}, {Over(e), Left(e, g)}, {Left(e, g)})

\* reject, expireOne: the refund, under the event lock.
TurnDown(e, g) ==
  Tx(<<TakeLock(Event(e)), CheckMarks(Event(e))>> \o Refund(wallet(g), <<"join", e, g>>),
     {Joined(e, g)}, {Over(e), Left(e, g)}, {Left(e, g)})

\* cancel by a guest with a seat: chargeParticipant.
Withdraw(e, g) ==
  Tx(<<TakeLock(Event(e)), CheckMarks(Event(e)),
       Penalize(wallet(g), <<"fine", e, g>>, FineCoins),
       Spend(score(g), <<"fine", e, g>>, FineTrust)>>,
     {Joined(e, g)}, {Over(e), Left(e, g)}, {Left(e, g)})

\* Deviation: the host's account is locked first, whatever its id.
LockHostFirst(h, g) == <<TakeLock(wallet(h)), TakeLock(wallet(g))>>

\* lockAccounts: sorted by user id.
LockAccounts(h, g) ==
  IF h < g THEN <<TakeLock(wallet(h)), TakeLock(wallet(g))>>
           ELSE <<TakeLock(wallet(g)), TakeLock(wallet(h))>>

\* cancelByHost with the guest still in a seat: everybody is locked, the guest
\* refunded, the host charged.
CancelByHost(e, h, g) ==
  Tx(<<TakeLock(Event(e)), CheckMarks(Event(e))>>
     \o LockAccounts(h, g)
     \o Refund(wallet(g), <<"join", e, g>>)
     \o <<Penalize(wallet(h), <<"hostfine", e>>, FineCoins),
          Spend(score(h), <<"hostfine", e>>, FineTrust)>>,
     {Joined(e, g)}, {Over(e), Left(e, g)}, {Over(e)})

\* settleAttendance: the event is COMPLETED with the guest in a seat.
Complete(e, g) ==
  Tx(<<TakeLock(Event(e)), CheckMarks(Event(e))>>,
     {Joined(e, g)}, {Over(e), Left(e, g)}, {Over(e), Held(e)})

\* HostRewardService.settleOne: the candidate is read without a lock, the event
\* is not locked and not read again.  (What a report of the host's absence does to
\* it is the subject of Disputes.)
SettleHost(e, h) ==
  Tx(<<CheckMarks(Event(e)), Give(wallet(h), <<"deposit", e>>, RewardCoins)>>,
     {Held(e)}, {}, {})
=============================================================================
