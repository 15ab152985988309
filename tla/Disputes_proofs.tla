-------------------------- MODULE Disputes_proofs --------------------------
(***************************************************************************)
(* What holds after an activity for every number of guests and moderators  *)
(* and every price: whoever decides, and however stale what they read, a   *)
(* no-show is returned once and an absent host costs nobody anything.      *)
(***************************************************************************)
EXTENDS Disputes, FiniteSetTheorems, TLAPS

\* A fine has come back only where the no-show is undone.
FineFollowsSeat ==
  \A g \in Guest : fine[g] = "returned" => seat[g] = "COMPLETED"

\* A join charge has come back only from a host found absent.
DepositFollowsHost ==
  \A g \in Guest : deposit[g] = "returned" => absent

\* Coins, trust and what people were told of them.
Money ==
  /\ ReturnedOnce
  /\ AbsentHostCostsNobody
  /\ FineFollowsSeat
  /\ DepositFollowsHost

\* Every host-absence case there is has a report attached to it.
ReportBehindCase ==
  \A c \in AbsenceCase : case[c] # "NONE" => \E g \in Guest : report[g] = c

\* A guest about to report has not reported yet.
ReportsFirst ==
  \A g \in Guest : claiming[g] = "report" => report[g] = 0

\* A moderator decides about a case that exists.
DecidesRealCase ==
  \A m \in Moderator : deciding[m] # NoCase => case[deciding[m]] # "NONE"

Claims == ReportBehindCase /\ ReportsFirst /\ DecidesRealCase

\* The inductive invariant.
IInv == TypeOK /\ Money /\ Claims

-----------------------------------------------------------------------------
(* Sets of numbers *)

\* How many guests there are is a number, and a guest is not one of the cases.
LEMMA GuestFacts ==
  /\ Cardinality(Guest) \in Nat
  /\ AbsenceCase \subseteq Nat /\ 0 \notin AbsenceCase
  /\ Guest \cap AbsenceCase = {} /\ 0 \notin Guest
  <1>1. Cardinality(Guest) \in Nat
    BY GuestAssumption, FS_CardinalityType
  <1> QED BY <1>1, GuestNames DEF AbsenceCase

\* A set of natural numbers has a least element.
LEMMA LeastNatural ==
  ASSUME NEW S \in SUBSET Nat, S # {}
  PROVE  \E x \in S : \A y \in S : x <= y
  <1>1. PICK x \in S : \A y \in S : ~ (<<y, x>> \in OpToRel(<, Nat))
    BY NatLessThanWellFounded, WFMin
  <1>2. \A i, k \in Nat : i < k => <<i, k>> \in OpToRel(<, Nat)
    BY DEF OpToRel
  <1>3. \A y \in S : ~ (y < x)
    BY <1>1, <1>2, Zenon
  <1>4. \A y \in S : x <= y
    BY <1>3
  <1> QED BY <1>4

\* Min picks it.
LEMMA MinIsElement ==
  ASSUME NEW S \in SUBSET Nat, S # {}
  PROVE  Min(S) \in S
  <1>1. PICK x \in S : \A y \in S : x <= y
    BY LeastNatural
  <1> QED BY <1>1 DEF Min

\* A set of natural numbers with a bound has a greatest element, and Max picks it.
LEMMA MaxIsElement ==
  ASSUME NEW n \in Nat, NEW S \in SUBSET (1 .. n), S # {}
  PROVE  Max(S) \in S
  <1> DEFINE T == {k \in Nat : n - k \in S}
  <1>1. \A y \in S : n - y \in T /\ n - (n - y) = y
    OBVIOUS
  <1>2. T \in SUBSET Nat /\ T # {}
    BY <1>1
  <1>3. PICK t \in T : \A k \in T : t <= k
    BY <1>2, LeastNatural
  <1>4. n - t \in S /\ \A y \in S : n - t >= y
    BY <1>1, <1>3
  <1> QED BY <1>4 DEF Max

\* There are as many cases as guests, so a guest who has not reported yet finds a
\* case to attach the report to: the open one, or one not used before.
LEMMA CaseForReport ==
  ASSUME IInv, NEW g \in Guest, claiming[g] = "report"
  PROVE  CaseFor \in AbsenceCase
  <1>1. report[g] = 0
    BY DEF IInv, Claims, ReportsFirst
  <1>2. CASE OpenAbsence # {}
    BY <1>2 DEF CaseFor, OpenAbsence
  <1>3. CASE OpenAbsence = {}
    <2>1. Unused # {}
      <3> SUFFICES ASSUME Unused = {}
                   PROVE  FALSE
        OBVIOUS
      <3> DEFINE S == {h \in Guest : report[h] # 0}
      <3> DEFINE f == [h \in S |-> report[h]]
      <3>1. S \subseteq Guest \ {g}
        BY <1>1
      <3>2. f \in Surjection(S, AbsenceCase)
        <4>1. f \in [S -> AbsenceCase]
          BY DEF IInv, TypeOK
        <4>2. \A c \in AbsenceCase : \E h \in S : f[h] = c
          BY GuestFacts DEF IInv, Claims, ReportBehindCase, Unused
        <4> QED BY <4>1, <4>2 DEF Surjection
      <3>3. /\ IsFiniteSet(Guest \ {g})
            /\ Cardinality(Guest \ {g}) = Cardinality(Guest) - 1
        BY GuestAssumption, FS_RemoveElement
      <3>4. IsFiniteSet(S) /\ Cardinality(S) <= Cardinality(Guest \ {g})
        BY <3>1, <3>3, FS_Subset
      <3>5. Cardinality(AbsenceCase) <= Cardinality(S)
        BY <3>2, <3>4, FS_Surjection
      <3>6. Cardinality(AbsenceCase) = Cardinality(Guest)
        <4>1. Cardinality(Guest) # 0
          BY GuestAssumption, FS_EmptySet
        <4> QED BY <4>1, GuestFacts, FS_Interval DEF AbsenceCase
      <3>7. Cardinality(S) \in Nat
        BY <3>4, FS_CardinalityType
      <3> QED BY <3>3, <3>4, <3>5, <3>6, <3>7, GuestFacts
    <2>2. Unused \in SUBSET Nat
      BY GuestFacts DEF Unused
    <2>3. Min(Unused) \in Unused
      BY <2>1, <2>2, MinIsElement
    <2> QED BY <1>3, <2>3 DEF CaseFor, Unused
  <1> QED BY <1>2, <1>3

-----------------------------------------------------------------------------
(* What a step leaves alone *)

\* A step that touches no coin, no trust and no seat.
LEMMA MoneyUntouched ==
  ASSUME Money, UNCHANGED <<seat, fine, trust, deposit, told, absent>>
  PROVE  Money'
  BY DEF Money, ReturnedOnce, AbsentHostCostsNobody, FineFollowsSeat, DepositFollowsHost

\* A step that touches no case and no report.
LEMMA ClaimsUntouched ==
  ASSUME Claims, UNCHANGED <<case, report, claiming, deciding>>
  PROVE  Claims'
  BY DEF Claims, ReportBehindCase, ReportsFirst, DecidesRealCase

\* A decision, or a dispute: cases are opened and closed, never forgotten, and a
\* host-absence case is only touched once there is one.
LEMMA ClaimsDecided ==
  ASSUME Claims,
         \A c \in Case : case[c] # "NONE" => case'[c] # "NONE",
         \A c \in AbsenceCase : case'[c] # "NONE" => case[c] # "NONE",
         UNCHANGED report,
         \A g \in Guest : claiming'[g] = "report" => claiming[g] = "report",
         \A m \in Moderator : deciding'[m] \in {deciding[m], NoCase},
         deciding \in [Moderator -> Case \cup {NoCase}]
  PROVE  Claims'
  <1>1. ReportBehindCase' /\ ReportsFirst'
    BY DEF Claims, ReportBehindCase, ReportsFirst
  <1>2. DecidesRealCase'
    BY DEF Claims, DecidesRealCase, NoCase
  <1> QED BY <1>1, <1>2 DEF Claims

-----------------------------------------------------------------------------
(* The invariant, action by action *)

\* When the activity ends nobody has claimed anything.
LEMMA InitInvariant == Init => IInv
  <1> SUFFICES ASSUME Init
               PROVE  IInv
    OBVIOUS
  <1>1. TypeOK
    <2>1. /\ seat \in [Guest -> {"ACCEPTED", "COMPLETED", "NO_SHOW"}]
          /\ fine \in [Guest -> {"none", "taken", "returned"}]
      BY DEF Init
    <2>2. trust \in [Guest -> -1 .. 0]
      BY DEF Init
    <2>3. /\ count \in [AbsenceCase -> 0 .. Cardinality(Guest)]
          /\ told \in [Guest -> Nat]
      BY GuestFacts DEF Init
    <2>4. paying \in [stage : {"idle", "listed", "assessed"}, refund : Nat, bonus : Nat]
      BY DEF Init, Idle
    <2>5. /\ case \in [Case -> CaseStatus] /\ report \in [Guest -> AbsenceCase \cup {0}]
          /\ answer \in AbsenceCase \cup {0}
          /\ deciding \in [Moderator -> Case \cup {NoCase}]
      BY DEF Init, CaseStatus
    <2>6. phase \in Phase
      BY DEF Init, Phase
    <2>7. absent \in BOOLEAN
      BY Zenon DEF Init
    <2>8. /\ notice \in [Guest -> {"none", "open", "closed"}]
          /\ deposit \in [Guest -> {"paid", "returned"}]
          /\ pair \in [Guest -> {"none", "open", "written"}]
          /\ payout \in [Payment -> {"none", "paid", "reversed"}]
          /\ claiming \in [Guest -> {"none", "dispute", "report"}]
      BY DEF Init
    <2> QED BY <2>1, <2>2, <2>3, <2>4, <2>5, <2>6, <2>7, <2>8 DEF TypeOK
  <1>2. Money
    BY DEF Init, Money, ReturnedOnce, AbsentHostCostsNobody, FineFollowsSeat,
           DepositFollowsHost
  <1>3. Claims
    BY DEF Init, Claims, ReportBehindCase, ReportsFirst, DecidesRealCase, AbsenceCase,
           Case, NoCase
  <1> QED BY <1>1, <1>2, <1>3 DEF IInv

\* The clock, the notices and the reviews move no coins and no claims.
LEMMA ClockInvariant ==
  ASSUME IInv,
         \/ Tick
         \/ \E g \in Guest : NoticeLapses(g) \/ WriteReview(g) \/ OfferPastDisputes(g)
  PROVE  IInv'
  <1>1. TypeOK'
    <2>1. CASE Tick
      BY <2>1 DEF IInv, TypeOK, Phase, Tick, guestVars, claimVars, hostVars, txVars
    <2>2. ASSUME NEW g \in Guest,
                 NoticeLapses(g) \/ WriteReview(g) \/ OfferPastDisputes(g)
          PROVE  TypeOK'
      BY <2>2 DEF IInv, TypeOK, NoticeLapses, WriteReview, OfferPastDisputes,
             claimVars, hostVars, txVars
    <2> QED BY <2>1, <2>2
  <1>2. UNCHANGED <<seat, fine, trust, deposit, told, absent, case, report, claiming,
                    deciding>>
    BY DEF Tick, NoticeLapses, WriteReview, OfferPastDisputes, guestVars, claimVars,
           hostVars, txVars
  <1> QED BY <1>1, <1>2, MoneyUntouched, ClaimsUntouched DEF IInv

\* markNoShow: only a guest still ACCEPTED, and not once the host was absent.
LEMMA MarkInvariant ==
  ASSUME IInv, NEW g \in Guest, MarkNoShow(g)
  PROVE  IInv'
  <1>1. seat[g] = "ACCEPTED" /\ ~ absent /\ UNCHANGED <<claimVars, hostVars, txVars>>
        /\ UNCHANGED <<phase, deposit, pair>>
    BY DEF MarkNoShow, ChargeNoShow
  <1>2. TypeOK'
    BY DEF IInv, TypeOK, MarkNoShow, ChargeNoShow, claimVars, hostVars, txVars
  <1>3. fine[g] = "none"
    BY <1>1 DEF IInv, TypeOK, Money, ReturnedOnce, FineFollowsSeat
  <1>4. Money'
    <2>1. /\ seat' = [seat EXCEPT ![g] = "NO_SHOW"]
          /\ trust' = [trust EXCEPT ![g] = -1]
          /\ fine' = fine \/ fine' = [fine EXCEPT ![g] = "taken"]
          /\ UNCHANGED <<deposit, told, absent>>
      BY DEF MarkNoShow, ChargeNoShow, claimVars, hostVars
    <2>2. FineFollowsSeat'
      BY <1>3, <2>1 DEF IInv, TypeOK, Money, FineFollowsSeat
    <2>3. AbsentHostCostsNobody' /\ DepositFollowsHost'
      BY <1>1, <2>1 DEF IInv, Money, AbsentHostCostsNobody, DepositFollowsHost
    <2>4. ReturnedOnce'
      <3> SUFFICES ASSUME NEW h \in Guest
                   PROVE  /\ trust'[h] = (IF seat'[h] = "NO_SHOW" THEN -1 ELSE 0)
                          /\ fine'[h] = "taken" => seat'[h] = "NO_SHOW"
                          /\ told'[h] = (IF deposit'[h] = "returned" THEN JoinCost ELSE 0)
                               + (IF fine'[h] = "returned" THEN NoShowCoins ELSE 0)
        BY DEF ReturnedOnce
      <3>1. CASE h = g
        <4>1. told[g] = (IF deposit[g] = "returned" THEN JoinCost ELSE 0) + 0
          BY <1>3 DEF IInv, Money, ReturnedOnce
        <4> QED BY <3>1, <4>1, <1>3, <2>1 DEF IInv, TypeOK
      <3>2. CASE h # g
        <4>1. seat'[h] = seat[h] /\ fine'[h] = fine[h] /\ trust'[h] = trust[h]
          BY <3>2, <2>1 DEF IInv, TypeOK
        <4> QED BY <4>1, <2>1 DEF IInv, Money, ReturnedOnce
      <3> QED BY <3>1, <3>2
    <2> QED BY <2>2, <2>3, <2>4 DEF Money
  <1>5. Claims'
    BY <1>1, ClaimsUntouched DEF IInv, claimVars, txVars
  <1> QED BY <1>2, <1>4, <1>5 DEF IInv

\* settleAttendance: a seat nobody marked was never fined.
LEMMA SettleInvariant ==
  ASSUME IInv, SettleAttendance
  PROVE  IInv'
  <1>1. TypeOK'
    BY DEF IInv, TypeOK, SettleAttendance, claimVars, hostVars, txVars
  <1>2. /\ \A g \in Guest : seat'[g] = IF seat[g] = "ACCEPTED" THEN "COMPLETED" ELSE seat[g]
        /\ UNCHANGED <<fine, trust, deposit, told, absent>>
    BY DEF SettleAttendance, claimVars, hostVars
  <1>3. ReturnedOnce'
    BY <1>2 DEF IInv, Money, ReturnedOnce
  <1>4. AbsentHostCostsNobody' /\ FineFollowsSeat' /\ DepositFollowsHost'
    BY <1>2 DEF IInv, Money, AbsentHostCostsNobody, FineFollowsSeat, DepositFollowsHost
  <1>5. Claims'
    BY ClaimsUntouched DEF IInv, SettleAttendance, claimVars, txVars
  <1> QED BY <1>1, <1>3, <1>4, <1>5 DEF IInv, Money

\* A guest's claim: what is read before the lock, and the dispute that follows.
LEMMA DisputeInvariant ==
  ASSUME IInv, NEW g \in Guest,
         LoadDisputable(g) \/ LoadReportable(g) \/ Dispute(g)
  PROVE  IInv'
  <1>1. TypeOK'
    BY DEF IInv, TypeOK, LoadDisputable, LoadReportable, Dispute, Begin, CaseStatus, Case,
           guestVars, claimVars, hostVars
  <1>2. Money'
    BY MoneyUntouched DEF IInv, LoadDisputable, LoadReportable, Dispute, Begin, guestVars,
           claimVars, hostVars
  <1>3. ASSUME LoadDisputable(g) \/ LoadReportable(g)
        PROVE  Claims'
    BY <1>3 DEF LoadDisputable, LoadReportable, Begin, IInv, TypeOK, Claims,
           ReportBehindCase, ReportsFirst, DecidesRealCase, claimVars
  <1>4. CASE Dispute(g)
    <2>1. case' = [case EXCEPT ![g] = "open"] /\ UNCHANGED <<report, deciding>>
          /\ claiming' = [claiming EXCEPT ![g] = "none"]
      BY <1>4 DEF Dispute
    <2>2. \A c \in AbsenceCase : case'[c] = case[c]
      BY <2>1, GuestFacts DEF IInv, TypeOK
    <2> QED BY <2>1, <2>2, <1>1, <1>2, ClaimsDecided DEF IInv, TypeOK, Case
  <1> QED BY <1>1, <1>2, <1>3, <1>4 DEF IInv

\* reportHostAbsent
LEMMA ReportInvariant ==
  ASSUME IInv, NEW g \in Guest, ReportHostAbsent(g)
  PROVE  IInv'
  <1> DEFINE c == CaseFor
  <1>1. c \in AbsenceCase /\ report[g] = 0
    BY CaseForReport DEF ReportHostAbsent, IInv, Claims, ReportsFirst
  <1> HIDE DEF c
  <1>2. /\ case' = [case EXCEPT ![c] = "open"]
        /\ report' = [report EXCEPT ![g] = c]
        /\ count' = [count EXCEPT ![c] = Cardinality({h \in Guest : report'[h] = c})]
        /\ claiming' = [claiming EXCEPT ![g] = "none"]
        /\ UNCHANGED <<phase, guestVars, answer, told, hostVars, deciding, paying>>
    BY DEF ReportHostAbsent, c
  <1>3. TypeOK'
    <2>1. Cardinality({h \in Guest : report'[h] = c}) \in 0 .. Cardinality(Guest)
      <3> DEFINE S == {h \in Guest : report'[h] = c}
      <3>1. IsFiniteSet(S) /\ Cardinality(S) <= Cardinality(Guest)
        BY GuestAssumption, FS_Subset
      <3>2. Cardinality(S) \in Nat
        BY <3>1, FS_CardinalityType
      <3> QED BY <3>1, <3>2, GuestFacts
    <2>2. c \in Case
      BY <1>1 DEF Case
    <2> QED BY <1>1, <1>2, <2>1, <2>2 DEF IInv, TypeOK, CaseStatus, guestVars, hostVars
  <1>4. Money'
    BY <1>2, MoneyUntouched DEF IInv, guestVars, hostVars
  <1>5. ReportBehindCase'
    <2> SUFFICES ASSUME NEW d \in AbsenceCase, case'[d] # "NONE"
                 PROVE  \E h \in Guest : report'[h] = d
      BY DEF ReportBehindCase
    <2>1. CASE d = c
      BY <2>1, <1>2 DEF IInv, TypeOK
    <2>2. CASE d # c
      <3>1. PICK h \in Guest : report[h] = d
        BY <2>2, <1>2 DEF IInv, TypeOK, Case, Claims, ReportBehindCase
      <3>2. h # g
        BY <3>1, <1>1, GuestFacts
      <3> QED BY <3>1, <3>2, <1>2 DEF IInv, TypeOK
    <2> QED BY <2>1, <2>2
  <1>6. ReportsFirst' /\ DecidesRealCase'
    BY <1>1, <1>2 DEF IInv, TypeOK, Case, Claims, ReportsFirst, DecidesRealCase, NoCase
  <1> QED BY <1>3, <1>4, <1>5, <1>6 DEF IInv, Claims

\* respondAsHost
LEMMA RespondInvariant ==
  ASSUME IInv, RespondAsHost
  PROVE  IInv'
  <1>1. Max(OpenAbsence) \in AbsenceCase
    BY MaxIsElement, GuestFacts DEF RespondAsHost, OpenAbsence, AbsenceCase
  <1>2. TypeOK'
    BY <1>1 DEF IInv, TypeOK, RespondAsHost, guestVars, hostVars, txVars
  <1> QED BY <1>2, MoneyUntouched, ClaimsUntouched
          DEF IInv, RespondAsHost, guestVars, hostVars, txVars

\* A case is read without a lock.
LEMMA ReadInvariant ==
  ASSUME IInv, NEW m \in Moderator, NEW c \in Case, ReadCase(m, c)
  PROVE  IInv'
  <1>1. TypeOK'
    BY DEF IInv, TypeOK, ReadCase, guestVars, claimVars, hostVars
  <1>2. Claims'
    BY DEF IInv, TypeOK, ReadCase, claimVars, Claims, ReportBehindCase, ReportsFirst,
           DecidesRealCase
  <1> QED BY <1>1, <1>2, MoneyUntouched DEF IInv, ReadCase, guestVars, claimVars, hostVars

\* Triage, a dismissal and a decision that fails: coins stay where they are.
LEMMA DecideInvariant ==
  ASSUME IInv, NEW m \in Moderator, Triage(m) \/ Abort(m) \/ Dismiss(m)
  PROVE  IInv'
  <1>1. /\ deciding[m] \in Case /\ case[deciding[m]] # "NONE"
        /\ deciding' = [deciding EXCEPT ![m] = NoCase]
        /\ \/ UNCHANGED case
           \/ \E s \in {"open", "REJECTED"} : case' = [case EXCEPT ![deciding[m]] = s]
        /\ UNCHANGED <<phase, guestVars, report, count, answer, told, hostVars, claiming,
                       paying>>
    BY DEF Triage, Abort, Dismiss, Decided, claimVars, IInv, TypeOK, Claims, DecidesRealCase
  <1>2. TypeOK'
    BY <1>1 DEF IInv, TypeOK, CaseStatus, guestVars, hostVars
  <1>3. Claims'
    <2>1. \A d \in Case : case[d] # "NONE" <=> case'[d] # "NONE"
      BY <1>1 DEF IInv, TypeOK
    <2>2. \A n \in Moderator : deciding'[n] \in {deciding[n], NoCase}
      BY <1>1 DEF IInv, TypeOK
    <2> QED BY <1>1, <2>1, <2>2, ClaimsDecided DEF IInv, TypeOK, Case
  <1> QED BY <1>1, <1>2, <1>3, MoneyUntouched DEF IInv, guestVars, hostVars

\* settleDispute: one no-show is undone.
LEMMA UpholdDisputeInvariant ==
  ASSUME IInv, NEW m \in Moderator, NEW g \in Guest, UpholdDispute(m, g)
  PROVE  IInv'
  <1>1. /\ seat[g] = "NO_SHOW" /\ deciding[m] = g /\ case[g] # "NONE"
        /\ \A h \in Guest :
             /\ seat'[h] = IF h = g THEN "COMPLETED" ELSE seat[h]
             /\ fine'[h] = IF h = g /\ fine[h] = "taken" THEN "returned" ELSE fine[h]
             /\ trust'[h] = IF h = g THEN trust[h] + 1 ELSE trust[h]
        /\ case' = [case EXCEPT ![g] = "APPROVED"]
        /\ told' = [told EXCEPT ![g] = @ + FineReturned(g)]
        /\ deciding' = [deciding EXCEPT ![m] = NoCase]
        /\ UNCHANGED <<phase, notice, deposit, pair, report, count, answer, absent, payout,
                       claiming, paying>>
    BY GuestFacts DEF UpholdDispute, Reversible, ReverseNoShow, Decided, hostVars, IInv, Claims,
           DecidesRealCase, NoCase
  <1>2. /\ trust[g] = -1 /\ fine[g] \in {"none", "taken"}
        /\ told[g] = IF deposit[g] = "returned" THEN JoinCost ELSE 0
    BY <1>1, PriceAssumption DEF IInv, TypeOK, Money, ReturnedOnce, FineFollowsSeat
  <1>3. told'[g] = told[g] + (IF fine[g] = "taken" THEN NoShowCoins ELSE 0)
    BY <1>1 DEF IInv, TypeOK, FineReturned
  <1>4. TypeOK'
    <2>1. /\ seat' \in [Guest -> {"ACCEPTED", "COMPLETED", "NO_SHOW"}]
          /\ fine' \in [Guest -> {"none", "taken", "returned"}]
          /\ trust' \in [Guest -> -1 .. 0]
      BY <1>1, <1>2 DEF IInv, TypeOK, UpholdDispute, ReverseNoShow
    <2>2. told' \in [Guest -> Nat]
      BY <1>1, <1>3, PriceAssumption DEF IInv, TypeOK, FineReturned
    <2> QED BY <1>1, <2>1, <2>2 DEF IInv, TypeOK, Case, CaseStatus
  <1>5. ReturnedOnce'
    <2> SUFFICES ASSUME NEW h \in Guest
                 PROVE  /\ trust'[h] = (IF seat'[h] = "NO_SHOW" THEN -1 ELSE 0)
                        /\ fine'[h] = "taken" => seat'[h] = "NO_SHOW"
                        /\ told'[h] = (IF deposit'[h] = "returned" THEN JoinCost ELSE 0)
                             + (IF fine'[h] = "returned" THEN NoShowCoins ELSE 0)
      BY DEF ReturnedOnce
    <2>1. CASE h = g
      BY <2>1, <1>1, <1>2, <1>3
    <2>2. CASE h # g
      <3>1. /\ seat'[h] = seat[h] /\ fine'[h] = fine[h] /\ trust'[h] = trust[h]
            /\ told'[h] = told[h] /\ deposit'[h] = deposit[h]
        BY <2>2, <1>1 DEF IInv, TypeOK
      <3> QED BY <3>1 DEF IInv, Money, ReturnedOnce
    <2> QED BY <2>1, <2>2
  <1>6. AbsentHostCostsNobody' /\ FineFollowsSeat' /\ DepositFollowsHost'
    BY <1>1, <1>2 DEF IInv, Money, AbsentHostCostsNobody, FineFollowsSeat, DepositFollowsHost
  <1>7. Claims'
    <2>1. \A c \in Case : case[c] # "NONE" => case'[c] # "NONE"
      BY <1>1 DEF IInv, TypeOK
    <2>2. \A c \in AbsenceCase : case'[c] = case[c]
      BY <1>1, GuestFacts DEF IInv, TypeOK, Case
    <2>3. \A n \in Moderator : deciding'[n] \in {deciding[n], NoCase}
      BY <1>1 DEF IInv, TypeOK
    <2> QED BY <1>1, <2>1, <2>2, <2>3, ClaimsDecided DEF IInv, TypeOK
  <1> QED BY <1>4, <1>5, <1>6, <1>7 DEF IInv, Money

\* settleHostAbsence: everybody is refunded, every no-show undone.
LEMMA UpholdAbsenceInvariant ==
  ASSUME IInv, NEW m \in Moderator, NEW c \in AbsenceCase, UpholdAbsence(m, c)
  PROVE  IInv'
  <1>1. /\ ~ absent /\ absent' = TRUE /\ deciding[m] = c /\ case[c] # "NONE"
        /\ deciding' = [deciding EXCEPT ![m] = NoCase]
        /\ UNCHANGED <<phase, notice, pair, report, count, answer, claiming, paying>>
    BY GuestFacts DEF UpholdAbsence, Decided, IInv, Claims, DecidesRealCase, NoCase
  <1>2. \A g \in Guest : g \in Refunded /\ deposit[g] = "paid"
    BY <1>1 DEF IInv, TypeOK, Money, DepositFollowsHost, Refunded, Seated
  <1>3. \A g \in Guest :
          /\ deposit'[g] = "returned"
          /\ seat'[g] = IF seat[g] = "NO_SHOW" THEN "COMPLETED" ELSE seat[g]
          /\ fine'[g] = IF seat[g] = "NO_SHOW" /\ fine[g] = "taken" THEN "returned" ELSE fine[g]
          /\ trust'[g] = IF seat[g] = "NO_SHOW" THEN trust[g] + 1 ELSE trust[g]
          /\ told'[g] = told[g] + JoinCost
               + (IF seat[g] = "NO_SHOW" THEN FineReturned(g) ELSE 0)
    BY <1>2 DEF UpholdAbsence, ReverseNoShow, Absentees
  <1>4. \A g \in Guest :
          /\ trust[g] = (IF seat[g] = "NO_SHOW" THEN -1 ELSE 0)
          /\ fine[g] = "taken" => seat[g] = "NO_SHOW"
          /\ fine[g] = "returned" => seat[g] = "COMPLETED"
          /\ told[g] = IF fine[g] = "returned" THEN NoShowCoins ELSE 0
    BY <1>2, PriceAssumption DEF IInv, Money, ReturnedOnce, FineFollowsSeat
  <1>5. \A d \in Case :
          case'[d] = IF d = c \/ (d \in Absentees /\ case[d] = "open") THEN "APPROVED"
                     ELSE case[d]
    BY DEF UpholdAbsence
  <1>6. TypeOK'
    <2>1. /\ seat' \in [Guest -> {"ACCEPTED", "COMPLETED", "NO_SHOW"}]
          /\ fine' \in [Guest -> {"none", "taken", "returned"}]
          /\ deposit' \in [Guest -> {"paid", "returned"}]
      BY <1>3 DEF IInv, TypeOK, UpholdAbsence, ReverseNoShow
    <2>2. trust' \in [Guest -> -1 .. 0]
      BY <1>3, <1>4 DEF UpholdAbsence, ReverseNoShow
    <2>3. told' \in [Guest -> Nat]
      <3>1. \A g \in Guest : told'[g] \in Nat
        BY <1>3, PriceAssumption DEF IInv, TypeOK, FineReturned
      <3> QED BY <3>1 DEF UpholdAbsence
    <2>4. case' \in [Case -> CaseStatus]
      BY DEF IInv, TypeOK, UpholdAbsence, CaseStatus
    <2>5. payout' \in [Payment -> {"none", "paid", "reversed"}]
      BY DEF IInv, TypeOK, UpholdAbsence
    <2> QED BY <1>1, <2>1, <2>2, <2>3, <2>4, <2>5 DEF IInv, TypeOK
  <1>7. ReturnedOnce'
    <2> SUFFICES ASSUME NEW g \in Guest
                 PROVE  /\ trust'[g] = (IF seat'[g] = "NO_SHOW" THEN -1 ELSE 0)
                        /\ fine'[g] = "taken" => seat'[g] = "NO_SHOW"
                        /\ told'[g] = (IF deposit'[g] = "returned" THEN JoinCost ELSE 0)
                             + (IF fine'[g] = "returned" THEN NoShowCoins ELSE 0)
      BY DEF ReturnedOnce
    <2>1. FineReturned(g) = IF fine[g] = "taken" THEN NoShowCoins ELSE 0
      BY DEF FineReturned
    <2>2. JoinCost \in Nat /\ NoShowCoins \in Nat
      BY PriceAssumption
    <2> QED BY <1>3, <1>4, <2>1, <2>2
  <1>8. AbsentHostCostsNobody' /\ FineFollowsSeat' /\ DepositFollowsHost'
    BY <1>1, <1>3, <1>4 DEF AbsentHostCostsNobody, FineFollowsSeat, DepositFollowsHost
  <1>9. Claims'
    <2>1. \A d \in Case : case[d] # "NONE" => case'[d] # "NONE"
      BY <1>5
    <2>2. \A d \in AbsenceCase : case'[d] # "NONE" => case[d] # "NONE"
      BY <1>1, <1>5 DEF Case
    <2>3. \A n \in Moderator : deciding'[n] \in {deciding[n], NoCase}
      BY <1>1 DEF IInv, TypeOK
    <2> QED BY <1>1, <2>1, <2>2, <2>3, ClaimsDecided DEF IInv, TypeOK
  <1> QED BY <1>6, <1>7, <1>8, <1>9 DEF IInv, Money

\* What the host is paid is an amount.
LEMMA RewardIsAmount ==
  ASSUME IInv
  PROVE  RefundFor \in Nat /\ BonusFor \in Nat
  <1>1. IsFiniteSet(Attended)
    BY GuestAssumption, FS_Subset DEF Attended
  <1>2. Cardinality(Attended) \in Nat
    BY <1>1, FS_CardinalityType
  <1> DEFINE n == Cardinality(Attended)
  <1>3. PerAttendee * n \in Nat
    BY <1>2, PriceAssumption
  <1>4. \A x, y \in Nat : Least(x, y) \in Nat
    BY DEF Least
  <1> QED BY <1>3, <1>4, PriceAssumption DEF RefundFor, BonusFor

\* The host settlement moves the host's coins, and no guest's.
LEMMA HostInvariant ==
  ASSUME IInv, ListCandidates \/ Assess \/ Pay
  PROVE  IInv'
  <1>1. TypeOK'
    <2>1. CASE ListCandidates
      BY <2>1 DEF IInv, TypeOK, ListCandidates, guestVars, claimVars, hostVars
    <2>2. CASE Assess
      <3>1. paying' \in [stage : {"idle", "listed", "assessed"}, refund : Nat, bonus : Nat]
        BY <2>2, RewardIsAmount DEF Assess, Idle
      <3> QED BY <2>2, <3>1 DEF IInv, TypeOK, Assess, guestVars, claimVars, hostVars
    <2>3. CASE Pay
      BY <2>3 DEF IInv, TypeOK, Pay, Idle, guestVars, claimVars
    <2> QED BY <2>1, <2>2, <2>3
  <1>2. UNCHANGED <<seat, fine, trust, deposit, told, absent, case, report, claiming,
                    deciding>>
    BY DEF ListCandidates, Assess, Pay, guestVars, claimVars, hostVars
  <1> QED BY <1>1, <1>2, MoneyUntouched, ClaimsUntouched DEF IInv

\* Every step keeps the invariant.
LEMMA StepInvariant == IInv /\ [Next]_vars => IInv'
  <1> SUFFICES ASSUME IInv, [Next]_vars
               PROVE  IInv'
    OBVIOUS
  <1>1. CASE \/ Tick
             \/ \E g \in Guest : NoticeLapses(g) \/ WriteReview(g) \/ OfferPastDisputes(g)
    BY <1>1, ClockInvariant
  <1>2. CASE \E g \in Guest : MarkNoShow(g)
    BY <1>2, MarkInvariant
  <1>3. CASE SettleAttendance
    BY <1>3, SettleInvariant
  <1>4. CASE \E g \in Guest : LoadDisputable(g) \/ LoadReportable(g) \/ Dispute(g)
    BY <1>4, DisputeInvariant
  <1>5. CASE \E g \in Guest : ReportHostAbsent(g)
    BY <1>5, ReportInvariant
  <1>6. CASE RespondAsHost
    BY <1>6, RespondInvariant
  <1>7. CASE \E m \in Moderator, c \in Case : ReadCase(m, c)
    BY <1>7, ReadInvariant
  <1>8. CASE \E m \in Moderator : Triage(m) \/ Abort(m) \/ Dismiss(m)
    BY <1>8, DecideInvariant
  <1>9. CASE \E m \in Moderator, g \in Guest : UpholdDispute(m, g)
    BY <1>9, UpholdDisputeInvariant
  <1>10. CASE \E m \in Moderator, c \in AbsenceCase : UpholdAbsence(m, c)
    BY <1>10, UpholdAbsenceInvariant
  <1>11. CASE ListCandidates \/ Assess \/ Pay
    BY <1>11, HostInvariant
  <1>12. CASE UNCHANGED vars
    <2>1. TypeOK'
      BY <1>12 DEF IInv, TypeOK, vars
    <2> QED BY <2>1, <1>12, MoneyUntouched, ClaimsUntouched DEF IInv, vars
  <1> QED BY <1>1, <1>2, <1>3, <1>4, <1>5, <1>6, <1>7, <1>8, <1>9, <1>10, <1>11, <1>12
          DEF Next

\* The inductive invariant holds of every behaviour.
THEOREM Invariant == Spec => []IInv
  BY InitInvariant, StepInvariant, PTL DEF Spec

\* Every row and every transaction stays in a state the tables and the code allow;
\* in particular reportHostAbsent always finds a case for its report.
THEOREM TypeCorrect == Spec => []TypeOK
  <1>1. IInv => TypeOK
    BY DEF IInv
  <1> QED BY <1>1, Invariant, PTL

\* A no-show is fined once and returned once, by whichever of settleDispute and
\* settleHostAbsence comes first, although neither reads its case again under the
\* lock; and people are told exactly what came back.
THEOREM NoShowReturnedOnce == Spec => []ReturnedOnce
  <1>1. IInv => ReturnedOnce
    BY DEF IInv, Money
  <1> QED BY <1>1, Invariant, PTL

\* From the decision that the host was absent on, every join charge is back and no
\* no-show stands: markNoShow asks for the decision under the event lock.
THEOREM AbsentHostIsFree == Spec => []AbsentHostCostsNobody
  <1>1. IInv => AbsentHostCostsNobody
    BY DEF IInv, Money
  <1> QED BY <1>1, Invariant, PTL
====
