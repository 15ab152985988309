# Paayatam: a verification project

Paayatam is a Telegram product in which people host small activities ("events"), ask to
join them, are accepted or put on a waiting list, pay and are refunded in coins, lose or
gain trust, review each other and invite friends.  Its logic is the TypeScript package
`packages/domain` (NestJS services over Postgres); `apps/api` translates calls into it,
`apps/worker` runs its repeatable jobs and sends the notifications.  These modules model
that package as concurrent state machines, check them with TLC and prove the central
invariants with TLAPS.

## 1. Inventory

| Component | State | Operations | What is hard |
| --- | --- | --- | --- |
| Participation (`participation/`) | `event_participant` rows, `event.accepted_count` | join, accept, reject, cancel, seat a seed, purge the seeds, expire requests, expire the waiting list, promote | many actors on one event row; the clock is read before the lock; deadlines against answers |
| Event lifecycle (`events/`) | `event.status`, capacity, schedule | create, edit, cancel by host, retire, settle attendance, report a no-show, moderate | two ways of writing the status, one of them without the lock |
| Coin and trust ledgers (`economy/coin`, `trust`) | `coin_account`, `coin_ledger`, `trust_score`, `trust_score_ledger` | apply, penalize, reverse | retries, several accounts in one transaction, overdrafts, clamps |
| Penalties (`economy/penalty`) | none | price, charge, refund, lock accounts | lock order over accounts |
| Referrals (`economy/referral`) | `referral` rows | claim, qualify, reject, reinstate | claim against settlement, a crash or an error between commit and payout, a seat restored without one, a cap counted without a lock |
| Host reward, no-show claims (`events/`) | `event.host_absent_at`, cases | settle, report, decide | payment against a later finding, two moderators |
| Reviews (`reviews/`) | `review_pair`, `review` | submit, edit, expire, reveal | the pair is read without a lock: two submissions at once, a submission against the sweep, an edit against the reveal |
| Outbox and notifications (`outbox/`, `notifications/`, `apps/worker`) | `outbox_event`, `notification`, BullMQ jobs | emit, drain, fan out, enqueue, send, record the outcome | a crash or an error between two stores, redelivery, several passes over one row |
| Invitations and campaigns (`messaging/`, `invitations/`) | `message_campaign`, one row per recipient, jobs | create, page through the audience, confirm, cancel, resume, dispatch, send, close; score, select and pay for invitations | a draft confirmed while it is written, closing from counts that change, campaigns that crowd out later ones, the circuit breaker against the attempts of a job, a double tap |
| Gift codes, founding, come-back (`economy/`, `founding/`) | counters, one row per grant | redeem, create, edit, activate; award a rank; sweep | limits and ranks under concurrency and roll-backs |
| Conversation wizards (`conversation/`, `apps/api` bot and webhook) | `conversation_state`, one draft per person | open, answer, back, skip, confirm, cancel, carry out, purge | redelivered updates, keyboards of earlier steps, consent screens over open drafts, a death between two writes |
| Identity, profile, consent | `user`, `consent` | accept policies, complete a profile | a version published in between |
| Moderation, catalog, discovery, channel, privacy, seeding, admin | cases, configuration, reads, posts | - | little shared state beyond what the rows above have |

Interaction: every service shares one Postgres database and runs READ COMMITTED
transactions; participation and lifecycle operations serialise on the event row
(`events/event-lock.ts`, ADR-0006), money on the account row (ADR-0007).  Services call
each other inside the caller's transaction, except the referral payout, which the
settlement calls after its own has committed.  The worker calls the sweeps on a schedule
(`packages/platform/src/queue/queues.ts`); messages are outbox rows and queue
jobs, whose only way back into the state is the outcome of a send.  People reach the system
through a Telegram webhook, one update at a time, redelivered until it is answered.

## 2. Plan

| Order | Modules | Subject | State |
| --- | --- | --- | --- |
| 1 | `Participation`, `MCParticipation` | one activity and everybody around it | done |
| 2 | `Participation_proofs` | its counter, capacity, charges and fines | done |
| 3 | `Referral`, `MCReferral` | payouts of referrals with crashes and a moderator | done |
| 4 | `CoinMoves`, `SerialLedger`, `CoinLedger`, `LedgerJobs`, `MCCoinLedger` | money under row locks, refining a serial ledger | done |
| 5 | `CoinLedger_proofs` | exact balances for every set of transactions | done |
| 6 | `Reviews`, `MCReviews` | blind pairs, double submission, reveal, expiry | done |
| 7 | `JobQueue`, `Fanout`, `Delivery`, `MCDelivery` | outbox, relay, notifications, send and redelivery | done |
| 8 | `Campaigns`, `MCCampaigns` | broadcasts, announcements and paid invitations, over the same `JobQueue` | done |
| 9 | `Disputes`, `MCDisputes` | disputes, host absence, two moderators, the host's reward | done |
| 10 | `Grants`, `MCGrants` | first profile, founding ranks, gift codes, come-back | done |
| 11 | `Dialogue`, `MCDialogue` | one person's forms in the bot | done |
| 12 | `Disputes_proofs`, `Grants_proofs` | types, `ReturnedOnce`, `AbsentHostCostsNobody`; ranks, codes and wallets, for any number of people | done |
| 13 | `Referral_proofs`, `Reviews_proofs`, `Messages_proofs`, `Dialogue_proofs` | the safety properties of each | done |
| 14 | `Participation_proofs` again | the queue: `AskedWithinCapacity`, `QueueIsServed` | done |
| 15 | `CoinLedger_proofs` again | no deadlock; the refinement of `SerialLedger` | done |
| 16 | `Messages_proofs` again | campaigns: `ReportIsHonest`, `PaidAndMeant`, the ranking, the batch | done |
| 17 | rescheduling in `Participation`; `Channel` | open requests with a stale deadline; posts in step with activities | later |

## 3. The modules

**Participation** models one event and the people who ask to join it.  Every operation
that moves a participant row or `accepted_count` is one action, because the code does it
in one transaction that starts by locking the event row.  Two things the lock does not
cover are kept: `now` is read before the lock is waited for, so an action decides with a
time up to `LockWait` old (`Nows`); and host edits and moderators read `event.status`
without the lock and write it back by id (`ReadStatus`, `EditContent`, `Moderate`, with
`seen` as the value in their memory).  Promotion (`fillFreedSeats`) is part of the action
that frees the slot.  The settlement and the hourly purge of seeds list their activities
without the lock and do not look at the status again (`listed`).  The purge (`PurgeEvent`)
deletes the rows of seeds under the lock and leaves `accepted_count` alone, so a counted seed
becomes PURGED, a row that is gone and a seat that is not.  A seed that was fined is named by
the ledger and undoes the purge whole.  Money is reduced to the state of the join charge (NONE, HELD,
REFUNDED) and the bucket of a fine.  Columns no operation reads in a row's present status
are reset (`Columns`), which is sound because no guard can see them.  The schedule is
constant: rescheduling is not modelled.

**Referral** models who invited whom and what it pays.  The payout transaction has two
actions, `Begin` (the conditional update that claims the row, the count of earlier
rewards) and `Commit`, because nothing of the referrer is locked while counting.
`Settle` commits attendances and leaves the guests still to be paid for in `owed`, which
is process memory, as is what a claim has still to ask for (`claiming`): `PayoutsFail` and
`ClaimFails` lose it, whether the process dies or the payout throws.  `ReverseNoShow` is the
second way to an attendance, a dispute a moderator upholds, and asks for no payout.  The
history variable `unasked` collects those for whom nobody asks any more.
Moderators read and then write by id; the CHECK of the table that refuses to overwrite a
payout is modelled by `CheckedWrite`.

**CoinLedger** runs transactions statement by statement.  A transaction is a record: its
statements, the marks (statuses) it checks and the marks it leaves.  `Lock` is
`SELECT ... FOR UPDATE`, `Move` is `applyWithin` (lock, look up the key, insert the row,
write the balance), `Find` the unlocked query for charges to reverse, `Rollback` an error
or a death at any statement, `Start` a call or a retry at any time.  Neither unique indexes
nor CHECKs exist in the model: the locks have to be enough.  `CoinMoves` holds what one
statement does to one account, `SerialLedger` runs a whole transaction in one step, and
`IsSerial` says that `CoinLedger` implements it.  `LedgerJobs` has the product's
transactions: onboarding, the host's deposit, join, reject/expire, withdraw, cancellation by
the host, completion and the host's settlement.  Creating an activity inserts its row in the
transaction that charges for it, which has the row to itself until it commits: `Open` takes
the event row first for that reason.

**Reviews** models the pair of a participation, both reviews and the connections that
write them.  Nothing is locked when the pair is read, so submission and expiry have a read
(`LoadWritable`, `SettleOne`), an update that takes the pair's row (`Write`) and a `Commit`;
`Submit` comes before the transaction, where the code reads the clock, and `Edit` updates a
review it has read before without looking at the pair.  A review is a rating and a verdict;
its trust movement (`earned`) is the rating it was made for (clamping is `CoinLedger`'s subject).  The
edit deadline is forgotten when a review is revealed, because no guard looks at it then.

**Delivery** follows a committed change to somebody's chat.  An outbox row is written with its
change (`Emit`); a relay pass reads a batch (`Drain`), writes one notification per recipient
(`QueueNote`, idempotent by dedupe key), marks the row (`MarkProcessed`) and adds the jobs
afterwards (`Enqueue`); a send is `Load`, `CallTelegram` and the write of the outcome.  What a
pass has read is a set of places in the log, which only grows.  Several passes run at once.  Any
statement may throw, which ends one pass and the ids it held (`PassFails`) or makes the queue
try one send again (`SendThrows`) while the worker lives on; `Crash` ends everything it holds in
memory, and a job that was active is delivered again. The history variable `dropped` collects
the notifications no pass will enqueue any more.  `Fanout` holds the tables of who is told what,
and who may mute it, as data; `JobQueue` is one BullMQ job with its attempts, and what
exhausting them leaves.  Telegram answers anything it may answer (`Answers`), a blocked bot
included, which a user unblocks by writing to it (`Arrive`).

**Campaigns** is every message to many people: drafted, its audience written page by page,
confirmed, claimed by the dispatcher, sent by one job per recipient and closed when nobody is
pending.  The kinds (operator's broadcast, dry run, city, release, invitation) differ in who
drafts and confirms; nothing keeps anybody from confirming a draft whose author still writes it,
and the history variable `late` collects the rows written after that.  A pass of the dispatcher
claims the oldest few (`ClaimSending`, `Take`), reads a batch, adds its jobs one by one, or else
counts and, a step later, closes (`ReadBatch`, `EnqueueNext`, `Count`, `Close`); several passes
may overlap.  Any of them, a creation or a send may throw (`CreationFails`, `DispatchFails`,
`SendFails`).  A send is `LoadDelivery`, `SendCopy`, and two writes of the outcome
(`RecordDelivery`, `RecordInvitation`).  Names that `Delivery` has too carry the name of the
campaign's side (`CampaignsSpec`, `sendJob`, `Person`), so that one proof module can extend
both. Invitations are scored and ranked (`Score`, `Ranked`), selected outside the transaction
that charges for them (`SelectTop`, `PayTop`).  The breaker counts rate limits of a campaign,
`JobQueue` the attempts of one recipient.

**Disputes** starts when an activity has ended.  A claim, a decision and a triage read
before they wait for the event lock and do not read again, so each is two actions; from the
lock to the commit is one.  `UpholdDispute` and `UpholdAbsence` carry every consequence
(`ReverseNoShow`, refunds, the host's fine and payout), and the hourly host settlement is
`ListCandidates`, `Assess`, `Pay`.  The host's wallet is not modelled: an absence is upheld
as if the host could pay.

**Grants** is every coin the product gives away on the way in.  A transaction has one step
per row it locks and a commit, and may roll back at any of them: `Complete`, `Award` (the
rank, under the lock of the campaign row) and `CommitProfile`; `Redeem`, `HoldCode` and
`CommitRedemption`; the come-back sweep lists first and grants later.  An operator changes
the terms of a code (read, then write by id, behind a CHECK) and the table of tiers meanwhile.
`credit` is what the ledger holds for a person, by the kind of grant.

**Dialogue** is one person, their draft and the delivery of one update at a time.
`ConversationService.handle` is one action per outcome (`Back`, `Confirm`, `Answer`, ...),
carrying a finished form out one action per write (`CreateEvent`, then `Clear`), and
`Crash` anywhere makes Telegram deliver the same update again.  `/gift CODE` redeems without
a form (`RedeemAtOnce`), up to the code's limit per person.  Policies that are outstanding
open the consent form over any draft, from a guarded action as from `/start`, `/terms` or a
policy's own button (`OpenConsent`).  `Deploy` leaves a draft to a build that does not have
its wizard or step, which `ClearUnknown` closes.  Four wizards stand for ten,
one for each order of acting and clearing.  `Inputs` are all taps and texts a chat can still
send, keyboards of earlier steps included.

## 4. The runs

| Run | Shows | Bounds |
| --- | --- | --- |
| `participation` | counter exact through every purge, never overbooked, at most as many questions as seats, queue in order and without idle slots, refunds and fines; every request gets an end and every seat of a completed activity is settled | 2 guests and a seed, capacity 1 to 2, clock 0..4, lock wait 1 |
| `participation_cancelled` (violation) | an overlapping edit revives a cancelled activity | 2 guests |
| `referral` | both halves and the status together, QUALIFIED final, an attendance is paid for whom a call is still to come | 3 users, cap 1, one call cut short, one moderator |
| `ledger` | balances are the ledger, one row per key, reversals mirror, no lock cycle, and the refinement: the statements implement `SerialLedger` | 2 connections, 2 users, 2 activities, 13 transactions |
| `reviews` | blind until both wrote or the deadline, mutual trust, a revealed pair hides nothing, every pair ends | 1 pair, 2 callers and the sweep, 2 ratings |
| `delivery` | a second copy only in doubt about the first, the sender of a bounced message told once, every row relayed and everybody told but those a failed pass held alone | one of several rows per behaviour, 2 passes, 2 attempts, one error or crash |
| `delivery_lost` (violation) | an error or a death between marking a row and enqueuing its jobs loses the message | 1 row, 1 pass, one error or crash |
| `campaigns` | a finished campaign left nobody pending but rows written after its confirmation, a purchase is charged once, a dry run sends nothing, campaigns end | each kind with 2 recipients on 2 pages, a purchase behind a campaign that cannot end, 2 taps, one dispatcher that takes one campaign, breaker at 2, 2 attempts, one error or crash |
| `disputes` | a no-show is fined once and returned once, what people were told is what they got; an absent host costs nobody | 2 guests, 2 moderators, prices without equal sums |
| `grants` | ranks without gap or twin, codes within the limits in force, wallets equal to the records | 2 people, 2 ranks, 2 tier tables, a code for 1 or 2 uses |
| `dialogue` | one effect per update (or a code again, within its limit), a draft outlives refusals and crashes, answers stay with their questions | 1 province, 1 city, 2 ages, 3 policy versions, 2 uses of a code per person, any number of updates |
| `dialogue_consent` (violation) | a policy published between screen and tap is accepted unseen | 3 policy versions |

Why the bounds are enough: two guests and a seed on one or two seats give somebody seated and
two people asked or waiting, which is what promotion order, freed slots and raised or
lowered capacity need; the clock passes every threshold (the deadline, the start, the end,
the settlement delay) with one unit of lock wait between; two users with an activity each
make two host cancellations lock the same two wallets in both roles; scores of 0 to 2
start at 1 and hit both clamps, and the fine exceeds what a wallet holds.  The
transactions of `ledger` all check what they depend on under a lock, except the host's
settlement, and `IsSerial` holds for them; with the report of an absence among them it does
not, because the settlement reads its candidates without a lock (the hazard at
`host-reward.service.ts:195`), which is why the report is in `Disputes` only.  A
review pair has two writers and two ratings, one of which moves no trust; two callers and
the sweep are the three transactions it takes to reopen a settled pair.  Two relay passes
and one row are two writers of the same notifications; two attempts are a retry and a last
one; two recipients on two pages leave a campaign half written, half sent or half failed.
`StuckInit` starts with a campaign that no longer ends, which with `Take = 1` is enough of them
to keep later ones from being served.  One pass of the dispatcher at a time is what TLC can
finish (the queue may run two); what several may do together is proved, for any number.
Two moderators decide one case or two at once, two guests bring both kinds of claim and
make the second no-show of the evening.  Two people compete for the last rank and the last
redemption.  In `Dialogue` an update id is compared only with the one before it, so updates
need no bound.  A second error or crash, a third connection or another activity adds no new kind of
step.  Guests and moderators of `disputes` and people of `grants` are interchangeable
(symmetry); those runs check no liveness.
Deadlock checking is off where the system may rest: after the last deadline nothing is
left to do.  The `ledger` and `dialogue` runs keep it on.  `TypeOK` of `Disputes`, `Grants` and
`Dialogue` is in no run; it is proved (`TypeCorrect`).

Fairness: `Participation!Fairness` is weak fairness of the clock and of the worker's repeatable
jobs, which BullMQ schedules every minute to every hour for as long as a worker runs; hosts,
guests and moderators owe nothing.  `Referral!Fairness` is weak fairness of a running process
going on with the transaction it began and the list it holds; a crash or an error empties that
list, so fairness asks nothing of it afterwards.  `Reviews!Fairness` is the hourly job, which
comes back to a pair until it is settled (strong fairness of its update and commit: an attempt
may fail, not all of them), and weak fairness of the end of a transaction; people owe nothing.
`Delivery!Fairness` is weak fairness of the relay (the domain-events job and its backstop come
back every minute), of a pass that goes on with its loop unless it throws or dies (at most
`MaxFailures` times in all), and of the queue, which hands an active job back after a stall;
nobody owes a preference, a blocked bot or a new row.  `CampaignsFairness` is the dispatcher's
repeatable job, each pass that goes on with what it has claimed, the queue and its removal of
finished jobs, again with at most `MaxMishaps` errors and deaths; operators owe nothing, so a
paused campaign may stay paused.

### Findings

Three violation runs each refute a sentence of the repository; PROJECT.json quotes it.
`participation_cancelled`: the transition table forbids leaving CANCELLED_BY_HOST.
`delivery_lost`: the relay's comment says a crash never loses a row; the row is marked before
its notifications are enqueued, and an error does what a crash does.  `dialogue_consent`: the
threat model says "the document shown is the document accepted"; the set accepted is read at the
tap.

### Known deviations

The models contain these as well.  Each is reachable in the module named, and each is an
exception its properties make explicitly or a promise they do not repeat.

- `Participation`: `cancelByHost` (`event.service.ts:1007`) ends people who were still
  PENDING or WAITLISTED as EXPIRED and keeps their charge; `settings.service.ts:231-238` says
  "A rejected or expired request is refunded ... A host cancelling the whole activity refunds
  it too".
- `Participation`: after the seed purge (`seed-scheduler.service.ts:224-267`) `accepted_count` is
  more than the rows that hold a seat.  This is intended
  (`docs/superpowers/specs/2026-09-19-seed-event-floor-and-purge-design.md:148`: "left as it was on
  a purged event: a record of how many seats were filled, not a count of rows"), so `SeatsCounted`
  counts the purged seats too.
- `Referral`: a crash, or an error thrown by one payout, between the settlement's commit and
  the end of its payout loop is not retried, because the next sweep looks only for activities
  with somebody still ACCEPTED; `lifecycle.service.ts:659-661` says a crash "pays out on the next
  sweep instead of losing the reward".  A no-show turned into an attendance
  (`no-show-claim.service.ts:790`) and a referral reinstated after it ask for no payout either.
  `AttendanceIsPaid` names all of these (`unasked`); their next settlement makes up for it.
- `Referral`: two overlapping payouts for one referrer count the same earlier rewards and both
  pay (`referral.service.ts:370`), against "the fourth pays zero" (`:265`).
- `Reviews`: two submissions at once both read PENDING and both write PARTIAL
  (`review.service.ts:415`); `reviews/state-machine.ts:46-48` says "Two sides cannot arrive at
  once", but the row lock is taken after the read.  For the same reason a pair settled as
  EXPIRED_EMPTY may hold a review (`:927`), a settled pair may become PARTIAL again until the
  next sweep, an edit may land on a review that has just been revealed (`:550`), and the
  reward cap (`:182`) may be passed.
- `Delivery`: what a failed pass held alone after it had marked the row is never enqueued
  (`dropped`); `EveryRowIsTold` excepts it and `NeverLost` shows it.
- `Campaigns`: a recipient whose last attempt is rate limited or throws stays PENDING behind a
  failed job (`processors.service.ts:1083`), and the campaign never finishes, though the RETRY branch
  beside it says a send that has run out of attempts is a failure the recipient keeps.  A pass
  takes the five oldest campaigns (`messaging.service.ts:471`), so five of those starve every
  later one.  `CampaignsEnd` excepts both (`Stuck`, `Crowded`).  A draft confirmed by a second
  pass or by an operator while its author still writes it may be closed early, and what is
  written afterwards stays PENDING (`city-launch-announcement.service.ts:78`); `ReportIsHonest`
  excepts those rows (`late`).  Two purchases with
  different keys may select the same people (`invitation.service.ts:218`).
- `Disputes`: a no-show that is reversed becomes COMPLETED without a review pair
  (`no-show-claim.service.ts:790`), though `lifecycle.service.ts:616-618` says "a participation
  that completed always has a pair"; the host's reward then waits for a review nobody can
  write.  A host found absent between listing and payment is still paid
  (`host-reward.service.ts:195`).  Two moderators leave the verdict of the last writer on the
  row (`no-show-claim.service.ts:476`).  The host's answer is unique per activity, so a second
  report asks for an answer that is refused (`:425`).
- Host absence and money: upholding fines the host first and then takes the deposit back, which
  fails when the wallet is empty and undoes the decision (`no-show-claim.service.ts:672`).
- `Grants`: an operator's edit checks the maximum against a count it read earlier; the CHECK of
  `gift_code` refuses it instead of the service.
- `Dialogue`: "confirm" and "details" are obeyed on any step, so a tap on an old summary accepts
  the policies of a consent form opened since, or submits a priced activity without its price,
  which only the CHECK of the table refuses; a death between creating an activity and clearing
  its draft lets a second confirm create it again; forms that clear first (direct message,
  report, claim) lose what was typed to a refusal or a crash; "details" on a form without
  optional steps is not saved with the id of its update (`conversation.service.ts:375-378`), and
  `/gift CODE` (`bot.service.ts:1218-1227`) has no draft to save it with, so after a crash one
  update may redeem a code again, up to its `per_user_limit` (`gift-code.service.ts:199-206`),
  and by "details" may consent twice, to versions published in between, all of which
  `OncePerUpdate` spells out; outstanding policies replace an open draft by the consent form,
  also for an action that opens no form (`bot.service.ts:5718-5721`, `2017`, `1638`, `6326`),
  and a draft whose wizard or step the build does not have is cleared
  (`conversation.service.ts:279-294`), both of which `DraftSurvives` lists; `purgeExpired` may
  delete a draft that was renewed after it was listed (`conversation.service.ts:592`).
- Lock order: a referral payout locks the referrer's account and then the invited one whatever
  their ids (`referral.service.ts:374`), and a reveal moves two scores in the order of the roles
  (`review.service.ts:1055`); Postgres breaks such a cycle by failing one transaction.

## 5. The proofs

A theorem holds for every value of the constants that satisfies the ASSUMEs of its module; the
run that checks the same property shows it on one small value.  Each proof module has one
inductive invariant `IInv` (more, where named), a lemma per action that the action keeps it,
and theorems that are consequences of it.

**`Participation_proofs`**, for every set of guests and seeds, every capacity and every
schedule:

- `TypeCorrect`: `TypeOK`; `CounterIsExact`: `SeatsCounted`, seats a purge has emptied
  included; `NeverOverbooked`: `CapacityRespected`; `ChargesFollowOutcomes`:
  `ChargeFollowsOutcome`;
- `FinedOnceForASeat`: the action property `FinesNeedASeat`, with the bounds of every price: the
  time a withdrawal decides with is never later than the clock and at most `LockWait` older, so
  waiting for the lock never makes it dearer and makes it cheaper by no more than that;
- `AsksWithinCapacity` and `QueueIsAlwaysServed`: the action properties
  `AskedWithinCapacity` and `QueueIsServed`.

`IInv` adds what they need: `SettledAfterTheEnd` (nobody is COMPLETED or NO_SHOW before the
end, so that `cancelByHost`, which is refused after the start, may reset the counter to zero -
this is where `LockWaitAssumption` is used: the time a cancellation decides with is at most
`LockWait` old) and `FinedAfterASeat` (a person in a seat has not been fined).  The counting
argument rests on lemmas about how the cardinality of `Counted` changes when one row changes.
The two properties of the queue need a second invariant, `TicketsDiffer` (no two people who wait
or have been asked joined at the same place in the order), which makes the order of the
waiting list total; `FirstOfTheQueue` then says which people `fillFreedSeats` picks, by counting how many
stand before each of them, and `FillServes` that afterwards nobody waits beside a free slot.

**`CoinLedger_proofs`**, for every set of connections, accounts and transactions that satisfies
the assumptions of `CoinMoves` (amounts of penalties are not positive, a reversal follows the
query for what it reverses):

- `LedgerTypeCorrect`: `TypeOK`; `BalanceAlwaysLedger`: `BalanceIsLedger`; `KeysAreUnique`:
  `OncePerKey`, without a unique index; `ReversalsGiveBack`: `ReversalsMirror`;
- `OrderedLocksNeverDeadlock`: `NoWaitCycle`, for transactions whose rows can be numbered so
  that each takes its own in descending order; `LedgerJobsNeverDeadlock`: the transactions of
  `LedgerJobs` have such an order (events and users, then wallets by user id, then scores), for
  any number of users and events.  A referral's payout and a reveal do not lock by id and are
  not among them (known deviations above);
- `DisciplinedIsSerial`: `IsSerial`, the refinement of `SerialLedger`, for transactions that
  are `Disciplined`; `LedgerJobsAreSerial`: those of `LedgerJobs` are, for any number of
  users, events and connections.

`IInv` says that locks exclude each other (`LocksExclude`), that only the holder of an
account's lock has rows of it to commit (`OwnUnderLock`), and that both what is committed and
what the holder would commit are sound (`CommittedSound`, `LockedSound`): the first two are
what makes a commit land on the rows the transaction saw.  `FoundIsThere` carries the unlocked
query to the reversal: rows are only ever added, so what was found is still there.
`OneMoreRow` and `WrittenIsSound` do the arithmetic of one movement, clamps, seed and overdraft
included.  For deadlocks, `HeldIsTaken` says that what a connection has locked is what its
earlier statements take; in a set of connections that wait for each other, the one that waits
for the lowest number waits for a connection that waits for a lower one still.

The refinement maps a transaction to one step of `SerialLedger`, at its commit.  Its invariant
`SInv` says of every running transaction (`Simulated`) that its statements so far, had they
begun on what is committed *now* and run alone, would have brought it to what it sees, changing
nothing but what it has locked.  A statement extends that run; the commit of another
transaction must not disturb it, and this is where `Disciplined` is needed: whoever changes the
answer to a query for charges or to a check of marks takes a row that the one who asked had
locked before (`Excludes`, `NoInterference`).  `Needs` are not part of it: marks are never
taken back, so what was there stays there.  That a run alone is what `SerialLedger` computes
(`OutcomeOfRun`) is an induction over the statements of one transaction, done with the
least counterexample.  With the report of a host's absence among the transactions `Disciplined`
fails (see section 4), and so does the property.

**`Referral_proofs`**, for every set of accounts and moderators, every price and every cap:
`TypeCorrect`; `PaymentMatchesStatus`: `PaidWithTheStatus`; `PayoutIsFinal`: the action property
`QualifiedIsFinal`; `NobodyIsPassedOver`, the safety half of `AttendanceIsPaid`: whoever
attended and waits has a call still to come or is one of the named (`unasked`).  The invariant
needs `PayoutHoldsRow` (the row of an open payout still satisfies its conditional update, so
nothing has come between that and the commit), `StampMatches` (the CHECK on `qualified_at`,
which is what stops a moderator's stale write) and `PaidOnlyQualified`.

**`Reviews_proofs`**, for any number of pairs and connections and every setting: `TypeCorrect`;
`StaysBlind`: `Blind`; `TrustMovesMutually`: `TrustIsMutual`; `BothAreRevealed`:
`RevealedTogether`.  `SawThePair` is what remains true of a stale read (a pair once PARTIAL has a
review, for reviews are never deleted), `HoldsTheRow` what a transaction knows once the update
has given it the row of the pair, `PartialIsWritten` and `RevealedInTime` relate the pair to its
reviews.

**`Messages_proofs`**, of notifications, for every outbox, any number of passes, attempts, errors
and crashes:
`TypeCorrect`; `SecondCopyOnlyInDoubt`: `SecondOnlyAfterDoubt`; `SenderIsToldOnce`:
`SenderIsTold`.  `OpenWhileSent` (what is being sent has not been settled meanwhile, as there is
one job per notification), `KnownIsRecorded` and `TriesLeft` tie the job to the row;
`ToldOnce` counts the rows of the log that tell a sender, by `NoticeAssumption`: ids of rows are
uuids, and that of a notice is made of the key it is about.

And of campaigns, for any number of them, every audience, pages, price, weighting, batch,
threshold, and any number of attempts, overlapping passes and calls, errors and crashes:

- `CampaignTypes`: `CampaignsTypeOK`; `FinishedLeavesNobody`: `ReportIsHonest`;
  `PurchasesAreChargedOnce`: `PaidAndMeant`;
- `SentRowIsOneCopy` (a SENT row stands for exactly one copy the worker knew
  of), `SettledForGood` (a settled recipient stays as it is), `EndsForGood` (a campaign is
  closed only while nobody is pending but late rows, although the count and the update are two
  statements, and an end is an end; the exception is a dry run that is
  cancelled while its recipients are written, which the update behind the last page turns to
  COMPLETED, `messaging.service.ts:289`);
- `SelectionIsBest`: `rankCandidates` for every pool: nobody left out is before anybody selected,
  at most the limit is selected, and fewer only when that is everybody; `InvitationsWithinLimit`
  carries the limit and the opt-out to every purchase; `EmptyBatchMeansDone`: the dispatcher's
  test for an empty batch says that nobody is pending, for every batch size.

The invariant is `CampaignsIInv`.  `Desks` says of what a pass holds in memory that it has been
confirmed (`Started`), so that every row written from then on is late, and of a campaign about
to be closed that nobody but such rows is pending (`OnlyLate`): the count stays true, however
much happens before the update.  `OneCopy` follows a copy from Telegram's answer over the two
writes into the row: a pending row has no known copy but the one that is about to be recorded,
and what is in the worker's hands is pending or was skipped meanwhile.  `Charged` with
`Purchases` and `NoneYet` (a campaign without a row has no recipients) ties the balance to the
purchases that have recipients.  The order is used as a set of pairs (`Orders`, `FirstOf`,
`FirstOfFacts`), so that one lemma about the first of a strict total order serves the ranking
and the batch; that the score is an integer and the order total is `ScoreIsInteger` and
`BeforeIsOrder`.  `IsFiniteSet` of campaigns and people and the types of `Fact` and `Weight` are
the assumptions this needs.

**`Disputes_proofs`**, for any number of guests and moderators and every price: `TypeCorrect`;
`NoShowReturnedOnce`: `ReturnedOnce`; `AbsentHostIsFree`: `AbsentHostCostsNobody`.  The
invariant adds where a fine and a deposit may have come back (`FineFollowsSeat`,
`DepositFollowsHost`) and that every case decided on or reported to exists (`Claims`).
`GuestNames` keeps guests apart from the numbers of cases.

**`Grants_proofs`**, for any number of people and every tier, price and limit: `TypeCorrect`;
`GapFree`: `RanksAreGapFree`; `LimitsHold`: `CodeWithinLimits`; `LedgerMatchesRecords`:
`RecordsMatchLedger`.  `RankIsHeld` and `CodeIsHeld` say what the two row locks give: whoever has
the row is alone, with the next rank or with the terms as they stand.

**`Dialogue_proofs`**, for every catalogue and number of policy versions: `TypeCorrect`;
`UpdateActsOnce`: `OncePerUpdate`; `AnswersStayPut`: `FormIsCoherent`; `NoDraftIsLost`: the
action property `DraftSurvives`.  `DeedsOver` is the heart of it: once an update has brought
something about, each further delivery of it finds the draft gone or saved with the id of the
update, or can only repeat a redemption, which `UnderLimit` counts, or a consent.  `IdAssumption` keeps
the values of the fields apart.

Only model-checked: the liveness properties (`EveryRequestIsAnswered`, `EverySeatIsSettled`,
`AttendanceIsPaid`, `EveryPairEnds`, `EveryRowIsTold`, `CampaignsEnd`: liveness under fairness
and ENABLED are out of the prover's reach) and the three properties the violation runs refute.

## 6. What is not modelled

Rescheduling (open requests keep a deadline computed from the old start,
`event.service.ts:664`), deletion and channel posts of events; more than one activity at a time
in `Participation` and `Disputes` (the only coupling is a person's coins, which `CoinLedger`
has); prices (parameters); the reminder that a review window is open; an update that Telegram
delivers again while its first delivery still runs (`webhook.controller.ts:84`), multi-select
steps and photos in the wizards, and forms that open without `mayWrite` (`/bug`); redemptions of
one code by one person before the update in hand (a redemption may be refused at any time); seed
identities that were never seated (`purgeOrphans`); audience filters, texts and the cached
counts of campaigns (`refreshCounts`); a second purchase of invitations in one behaviour; the
sequence key of a redemption; sessions, profile edits and deletion of accounts; the blacklist
scan and bans; privacy and retention jobs, which delete rows nobody decides on any more; search
and the user interfaces (admin panel, Mini App), most of the repository's lines, which keep no
state of the system. PROJECT.json lists every component with what is left out and why.
