------------------------------ MODULE Disputes ------------------------------
(***************************************************************************)
(* After one activity has ended: no-shows in both directions               *)
(* (NoShowClaimService), the settlement of attendance, and what the host   *)
(* is paid for the evening (HostRewardService).                            *)
(*                                                                         *)
(* A claim and a decision read before they wait for the event lock, so     *)
(* each has two steps: the unlocked read, then everything from the lock to *)
(* the commit.  A decision never reads its case again, nor does triage     *)
(* (AdminOperationsService.triageCase).  The hourly host settlement lists, *)
(* assesses and pays in three steps, under no lock but the account's.      *)
(*                                                                         *)
(* OPEN, IN_REVIEW and ESCALATED are alike to every guard here: "open".    *)
(***************************************************************************)
EXTENDS Integers, FiniteSets, FiniteSetsExt

CONSTANTS
  Guest,         \* people who had a seat when the activity ended
  Moderator,     \* admin sessions
  JoinCost,      \* what each of them paid to join
  NoShowCoins,   \* cancellation.coins_no_show
  DepositRefund, \* economy.host_deposit_refund_coins
  Charged,       \* what publishing the activity has cost its host
  PerAttendee,   \* economy.host_reward_per_attendee_coins
  MinAttendees,  \* economy.host_reward_min_attendees
  RewardRoom     \* economy.host_reward_cap less HOST_REWARD coins earned

ASSUME GuestAssumption == IsFiniteSet(Guest)
\* A guest is never mistaken for the number of a case.
ASSUME GuestNames == Guest \cap (0 .. Cardinality(Guest)) = {}
ASSUME PriceAssumption ==
  /\ JoinCost \in Nat /\ NoShowCoins \in Nat /\ DepositRefund \in Nat
  /\ Charged \in Nat /\ PerAttendee \in Nat /\ MinAttendees \in Nat
  /\ RewardRoom \in Nat

VARIABLES
  phase,    \* the clock against the end of the activity
  seat,     \* event_participant.status
  notice,   \* no_show_notified_at against the dispute window
  fine,     \* the NO_SHOW_PENALTY row of a participation
  trust,    \* net trust moved by a no-show, in units of its price
  deposit,  \* the join charge of a participation
  pair,     \* review_pair of a participation, and the host's review in it
  case,     \* moderation_case.status, NONE where there is none
  report,   \* the case a guest's HOST_ABSENT_REPORT is attached to, 0 for none
  count,    \* report_count of the host-absence cases
  answer,   \* the case the host's HOST_ABSENT_RESPONSE is attached to, or 0
  absent,   \* event.host_absent_at is set
  payout,   \* the host's deposit refund and bonus
  told,     \* coins a guest was told have been returned
  claiming, \* the claim a guest's transaction is about to write
  deciding, \* what a moderator's transaction has read
  paying    \* the host settlement

vars == <<phase, seat, notice, fine, trust, deposit, pair, case, report, count,
          answer, absent, payout, told, claiming, deciding, paying>>

\* The rows of one participation, and those of the host.
guestVars == <<seat, notice, fine, trust, deposit, pair>>
claimVars == <<case, report, count, answer, told>>
hostVars == <<absent, payout>>
txVars == <<claiming, deciding, paying>>

\* An author has at most one claim of a kind per activity, so a guest's own
\* dispute is named by the guest; each host-absence case has a report of its own.
AbsenceCase == 1 .. Cardinality(Guest)
Case == Guest \cup AbsenceCase
CaseStatus == {"NONE", "open", "APPROVED", "REJECTED"}

\* ended; settlement_delay_hours passed; dispute_window_days passed; older than
\* review.window_deadline_days + 1.
Phase == 0 .. 3

\* No transaction of a moderator is open.
NoCase == 0
Idle == [stage |-> "idle", refund |-> 0, bonus |-> 0]
Payment == {"refund", "bonus"}

TypeOK ==
  /\ phase \in Phase
  /\ seat \in [Guest -> {"ACCEPTED", "COMPLETED", "NO_SHOW"}]
  /\ notice \in [Guest -> {"none", "open", "closed"}]
  /\ fine \in [Guest -> {"none", "taken", "returned"}]
  /\ trust \in [Guest -> -1 .. 0]
  /\ deposit \in [Guest -> {"paid", "returned"}]
  /\ pair \in [Guest -> {"none", "open", "written"}]
  /\ case \in [Case -> CaseStatus]
  /\ report \in [Guest -> AbsenceCase \cup {0}]
  /\ count \in [AbsenceCase -> 0 .. Cardinality(Guest)]
  /\ answer \in AbsenceCase \cup {0}
  /\ absent \in BOOLEAN
  /\ payout \in [Payment -> {"none", "paid", "reversed"}]
  /\ told \in [Guest -> Nat]
  /\ claiming \in [Guest -> {"none", "dispute", "report"}]
  /\ deciding \in [Moderator -> Case \cup {NoCase}]
  /\ paying \in [stage : {"idle", "listed", "assessed"}, refund : Nat, bonus : Nat]

\* A guest's seat may have been marked before notices existed: fined, never told.
Init ==
  /\ phase = 0
  /\ seat \in [Guest -> {"ACCEPTED", "NO_SHOW"}]
  /\ notice = [g \in Guest |-> "none"]
  /\ fine = [g \in Guest |-> IF seat[g] = "NO_SHOW" THEN "taken" ELSE "none"]
  /\ trust = [g \in Guest |-> IF seat[g] = "NO_SHOW" THEN -1 ELSE 0]
  /\ deposit = [g \in Guest |-> "paid"]
  /\ pair = [g \in Guest |-> "none"]
  /\ case = [c \in Case |-> "NONE"]
  /\ report = [g \in Guest |-> 0]
  /\ count = [c \in AbsenceCase |-> 0]
  /\ answer = 0
  /\ absent = FALSE
  /\ payout = [p \in Payment |-> "none"]
  /\ told = [g \in Guest |-> 0]
  /\ claiming = [g \in Guest |-> "none"]
  /\ deciding = [m \in Moderator |-> NoCase]
  /\ paying = Idle

-----------------------------------------------------------------------------
(* The clock, and attendance. *)

Tick ==
  /\ phase < 3
  /\ phase' = phase + 1
  /\ UNCHANGED <<guestVars, claimVars, hostVars, txVars>>

\* dispute_window_days after the notice.
NoticeLapses(g) ==
  /\ notice[g] = "open"
  /\ notice' = [notice EXCEPT ![g] = "closed"]
  /\ UNCHANGED <<phase, seat, fine, trust, deposit, pair, claimVars, hostVars, txVars>>

\* The NO_SHOW penalty takes what the wallet holds: nothing, and then no row.
ChargeNoShow(g) ==
  /\ seat' = [seat EXCEPT ![g] = "NO_SHOW"]
  /\ notice' = [notice EXCEPT ![g] = "open"]
  /\ fine' \in {[fine EXCEPT ![g] = "taken"], fine}
  /\ trust' = [trust EXCEPT ![g] = -1]
  /\ UNCHANGED <<phase, deposit, pair, claimVars, hostVars, txVars>>

\* Deviation: a host found absent may still record who was not there.
MarkNoShowAnyway(g) == seat[g] = "ACCEPTED" /\ ChargeNoShow(g)

\* markNoShow
MarkNoShow(g) == seat[g] = "ACCEPTED" /\ ~ absent /\ ChargeNoShow(g)

\* settleAttendance: whoever is still ACCEPTED attended, and has a review pair.
SettleAttendance ==
  /\ phase >= 1
  /\ \E g \in Guest : seat[g] = "ACCEPTED"
  /\ seat' = [g \in Guest |-> IF seat[g] = "ACCEPTED" THEN "COMPLETED" ELSE seat[g]]
  /\ pair' = [g \in Guest |-> IF seat[g] = "ACCEPTED" THEN "open" ELSE pair[g]]
  /\ UNCHANGED <<phase, notice, fine, trust, deposit, claimVars, hostVars, txVars>>

\* The host reviews a guest (ReviewService.submit).
WriteReview(g) ==
  /\ pair[g] = "open"
  /\ pair' = [pair EXCEPT ![g] = "written"]
  /\ UNCHANGED <<phase, seat, notice, fine, trust, deposit, claimVars, hostVars, txVars>>

\* offerPastDisputes
OfferPastDisputes(g) ==
  /\ seat[g] = "NO_SHOW" /\ notice[g] = "none"
  /\ notice' = [notice EXCEPT ![g] = "open"]
  /\ UNCHANGED <<phase, seat, fine, trust, deposit, pair, claimVars, hostVars, txVars>>

-----------------------------------------------------------------------------
(* Claims. *)

Seated == {"ACCEPTED", "COMPLETED", "NO_SHOW"}

Begin(g, kind) ==
  /\ claiming[g] = "none"
  /\ claiming' = [claiming EXCEPT ![g] = kind]
  /\ UNCHANGED <<phase, guestVars, claimVars, hostVars, deciding, paying>>

\* loadDisputable
LoadDisputable(g) ==
  /\ seat[g] = "NO_SHOW" /\ notice[g] = "open" /\ case[g] = "NONE"
  /\ Begin(g, "dispute")

\* dispute: a case of its own, then the claim; no lock is taken.
Dispute(g) ==
  /\ claiming[g] = "dispute"
  /\ case' = [case EXCEPT ![g] = "open"]
  /\ claiming' = [claiming EXCEPT ![g] = "none"]
  /\ UNCHANGED <<phase, guestVars, report, count, answer, told, hostVars, deciding, paying>>

\* loadReportable, before the event lock
LoadReportable(g) ==
  /\ seat[g] \in Seated /\ ~ absent /\ phase < 2 /\ report[g] = 0
  /\ Begin(g, "report")

OpenAbsence == {c \in AbsenceCase : case[c] = "open"}
Unused == {c \in AbsenceCase : case[c] = "NONE"}

\* reportHostAbsent: the open case about this activity, or a new one.
CaseFor == IF OpenAbsence # {} THEN CHOOSE c \in OpenAbsence : TRUE ELSE Min(Unused)

\* reportHostAbsent, from the lock on: the case, the claim, the recount.
ReportHostAbsent(g) ==
  /\ claiming[g] = "report"
  /\ case' = [case EXCEPT ![CaseFor] = "open"]
  /\ report' = [report EXCEPT ![g] = CaseFor]
  /\ count' = [count EXCEPT ![CaseFor] = Cardinality({h \in Guest : report'[h] = CaseFor})]
  /\ claiming' = [claiming EXCEPT ![g] = "none"]
  /\ UNCHANGED <<phase, guestVars, answer, told, hostVars, deciding, paying>>

\* respondAsHost: one answer per activity, to the newest open case in its window.
RespondAsHost ==
  /\ OpenAbsence # {} /\ answer = 0
  /\ answer' = Max(OpenAbsence)
  /\ UNCHANGED <<phase, guestVars, case, report, count, told, hostVars, txVars>>

-----------------------------------------------------------------------------
(* Decisions. *)

\* decide, triageCase: the case is read without a lock.  What the moderator has
\* chosen shows in the second step.
ReadCase(m, c) ==
  /\ deciding[m] = NoCase
  /\ case[c] = "open"
  /\ deciding' = [deciding EXCEPT ![m] = c]
  /\ UNCHANGED <<phase, guestVars, claimVars, hostVars, claiming, paying>>

Decided(m) == deciding' = [deciding EXCEPT ![m] = NoCase]

\* triageCase: written by id, over whatever the case has become.
Triage(m) ==
  /\ deciding[m] # NoCase
  /\ case' = [case EXCEPT ![deciding[m]] = "open"]
  /\ Decided(m)
  /\ UNCHANGED <<phase, guestVars, report, count, answer, told, hostVars, claiming, paying>>

\* Any other decision that fails: a refused transition, an unpayable reversal.
Abort(m) ==
  /\ deciding[m] # NoCase
  /\ Decided(m)
  /\ UNCHANGED <<phase, guestVars, claimVars, hostVars, claiming, paying>>

\* Deviation: the fine is returned without its NO_SHOW being asked for.
ReversibleAlways(g) == TRUE

\* assertParticipantTransition(status, COMPLETED)
Reversible(g) == seat[g] = "NO_SHOW"

\* Deviation: today's price is promised, whatever the row took.
PriceReturned(g) == NoShowCoins

\* Coins a reversed no-show gives back: the row, if one was written.
FineReturned(g) == IF fine[g] = "taken" THEN NoShowCoins ELSE 0

\* reverseNoShow for each of these guests.
ReverseNoShow(gs) ==
  /\ seat' = [g \in Guest |-> IF g \in gs THEN "COMPLETED" ELSE seat[g]]
  /\ fine' = [g \in Guest |-> IF g \in gs /\ fine[g] = "taken" THEN "returned" ELSE fine[g]]
  /\ trust' = [g \in Guest |-> IF g \in gs THEN trust[g] + 1 ELSE trust[g]]

\* settleDispute, upheld
UpholdDispute(m, g) ==
  /\ deciding[m] = g
  /\ Reversible(g)
  /\ ReverseNoShow({g})
  /\ case' = [case EXCEPT ![g] = "APPROVED"]
  /\ told' = [told EXCEPT ![g] = @ + FineReturned(g)]
  /\ Decided(m)
  /\ UNCHANGED <<phase, notice, deposit, pair, report, count, answer, hostVars,
                 claiming, paying>>

\* settleDispute and settleHostAbsence, dismissed: people are told, nothing moves.
Dismiss(m) ==
  /\ deciding[m] # NoCase
  /\ case' = [case EXCEPT ![deciding[m]] = "REJECTED"]
  /\ Decided(m)
  /\ UNCHANGED <<phase, guestVars, report, count, answer, told, hostVars, claiming, paying>>

Absentees == {g \in Guest : seat[g] = "NO_SHOW"}

\* refundParticipant for everybody who had a seat.
Refunded == {g \in Guest : seat[g] \in Seated /\ deposit[g] = "paid"}

\* settleHostAbsence, upheld: the host is fined, their payout taken back, every
\* guest refunded, every no-show reversed and its open dispute closed.
UpholdAbsence(m, c) ==
  /\ deciding[m] = c
  /\ ~ absent
  /\ absent' = TRUE
  /\ payout' = [p \in Payment |-> IF payout[p] = "paid" THEN "reversed" ELSE payout[p]]
  /\ deposit' = [g \in Guest |-> IF g \in Refunded THEN "returned" ELSE deposit[g]]
  /\ ReverseNoShow(Absentees)
  /\ case' = [d \in Case |->
       IF d = c \/ (d \in Absentees /\ case[d] = "open") THEN "APPROVED" ELSE case[d]]
  /\ told' = [g \in Guest |->
       told[g] + (IF g \in Refunded THEN JoinCost ELSE 0)
               + (IF g \in Absentees THEN FineReturned(g) ELSE 0)]
  /\ Decided(m)
  /\ UNCHANGED <<phase, notice, pair, report, count, answer, claiming, paying>>

-----------------------------------------------------------------------------
(* The host's deposit and bonus. *)

Held == \E g \in Guest : report[g] # 0 /\ case[report[g]] = "open"

\* HostRewardService.settle: the candidates of one pass.
ListCandidates ==
  /\ paying = Idle
  /\ phase \in 1 .. 2 /\ ~ absent /\ ~ Held
  /\ DepositRefund > 0 \/ PerAttendee > 0
  /\ paying' = [paying EXCEPT !.stage = "listed"]
  /\ UNCHANGED <<phase, guestVars, claimVars, hostVars, claiming, deciding>>

Attended == {g \in Guest : seat[g] = "COMPLETED"}
Settled == {g \in Guest : seat[g] \in {"COMPLETED", "NO_SHOW"}}
Written == {g \in Guest : pair[g] = "written"}

Least(a, b) == IF a < b THEN a ELSE b

\* refundFor
RefundFor == IF payout["refund"] = "none" /\ Settled # {} THEN Least(DepositRefund, Charged) ELSE 0

\* bonusFor; the threshold is at least one guest who came.
BonusFor ==
  IF payout["bonus"] = "none" /\ Attended # {} /\ Cardinality(Attended) >= MinAttendees
    THEN Least(PerAttendee * Cardinality(Attended), RewardRoom) ELSE 0

\* assess; nothing due, or reviews still owed, ends the visit.
Assess ==
  /\ paying.stage = "listed"
  /\ paying' = IF Cardinality(Written) >= Cardinality(Attended) /\ RefundFor + BonusFor > 0
                 THEN [stage |-> "assessed", refund |-> RefundFor, bonus |-> BonusFor]
                 ELSE Idle
  /\ UNCHANGED <<phase, guestVars, claimVars, hostVars, claiming, deciding>>

\* settleOne: each half once, by its idempotency key.
Pay ==
  /\ paying.stage = "assessed"
  /\ payout' = [p \in Payment |->
       IF payout[p] = "none" /\ paying[p] > 0 THEN "paid" ELSE payout[p]]
  /\ paying' = Idle
  /\ UNCHANGED <<phase, guestVars, claimVars, absent, claiming, deciding>>

-----------------------------------------------------------------------------

Next ==
  \/ Tick \/ SettleAttendance \/ RespondAsHost
  \/ \E g \in Guest :
       \/ NoticeLapses(g) \/ MarkNoShow(g) \/ WriteReview(g) \/ OfferPastDisputes(g)
       \/ LoadDisputable(g) \/ Dispute(g) \/ LoadReportable(g) \/ ReportHostAbsent(g)
  \/ \E m \in Moderator :
       \/ Triage(m) \/ Abort(m) \/ Dismiss(m)
       \/ \E c \in Case : ReadCase(m, c)
       \/ \E g \in Guest : UpholdDispute(m, g)
       \/ \E c \in AbsenceCase : UpholdAbsence(m, c)
  \/ ListCandidates \/ Assess \/ Pay

Spec == Init /\ [][Next]_vars

-----------------------------------------------------------------------------
(* Properties. *)

\* A guest is fined in coins and in trust while the seat says NO_SHOW and never
\* longer, whichever of the two decisions undid it and however many moderators
\* decided at once; what the messages said came back is what the ledger returned.
ReturnedOnce ==
  \A g \in Guest :
    /\ trust[g] = (IF seat[g] = "NO_SHOW" THEN -1 ELSE 0)
    /\ fine[g] = "taken" => seat[g] = "NO_SHOW"
    /\ told[g] = (IF deposit[g] = "returned" THEN JoinCost ELSE 0)
               + (IF fine[g] = "returned" THEN NoShowCoins ELSE 0)

\* Once a host is found absent nobody who had a seat that evening is out of
\* pocket: every join charge is back, no no-show stands, and none is added.
AbsentHostCostsNobody ==
  absent => \A g \in Guest : deposit[g] = "returned" /\ seat[g] # "NO_SHOW"
=============================================================================
