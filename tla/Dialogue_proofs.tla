-------------------------- MODULE Dialogue_proofs --------------------------
(***************************************************************************)
(* What holds of the forms for every catalogue, every number people type   *)
(* and any number of policy versions: answers stay with their questions,   *)
(* an update brings about one thing, and no draft of an activity is lost.  *)
(***************************************************************************)
EXTENDS Dialogue, WellFoundedInduction, TLAPS

\* A price is asked for, and kept, only of an activity that has one.
Coherent(s) == /\ s.form.amount # None => s.form.cost = "FIXED"
               /\ s.step = "amount" => s.form.cost = "FIXED"

\* A draft, as handle reads and saves it.
Draft == {s \in Row : Coherent(s)}

RowIsForm == row = NoRow \/ row.kind \in Kinds

\* The stages that work on a snapshot of the draft.
Working == {"apply", "create", "redeem", "consent", "discard", "clear"}

\* Meanwhile the row is the draft that was read, or the purge has taken it.
SnapIsRow ==
  pc \in Working => snap.kind \in Kinds /\ (row = NoRow \/ row.kind = snap.kind)

\* The answers were saved, with the id of the update, before anything else.
AsSaved == row = NoRow \/ (row.seen /\ row.form = snap.form)

Brought == \E i \in DOMAIN deeds : deeds[i].kind = snap.kind /\ deeds[i].form = snap.form

\* Each stage belongs to the form it finishes, and none to a command.  Only
\* "details" comes to one without a save.
StageFits ==
  /\ pc = "create" => snap.kind = "CREATE_EVENT" /\ AsSaved
  /\ pc = "redeem" => snap.kind = "REDEEM_CODE"
  /\ pc = "consent" => snap.kind = "ACCEPT_POLICIES"
  /\ pc \in {"redeem", "consent"} => AsSaved \/ update.action = "details"
  /\ pc = "discard" => snap.kind = "DIRECT_MESSAGE"
  /\ pc = "send" => snap.kind = "DIRECT_MESSAGE" /\ row = NoRow
  /\ pc = "clear" => snap.kind \in {"REDEEM_CODE", "ACCEPT_POLICIES"} \/ (AsSaved /\ Brought)
  /\ pc \in Working \cup {"send"} => update.action \notin Commands

\* A delivery that finds nothing left to apply.
Consumed == (row = NoRow \/ row.seen) /\ pc \in {"arrived", "clear", "done"}

\* A delivery that may do the same kind of thing again, as "details" makes it.
Repeats(k) ==
  /\ update.action = "details"
  /\ \A i \in DOMAIN deeds : deeds[i].kind = k
  /\ row = NoRow \/ row.kind = k
  /\ pc \in {"arrived", "apply", "redeem", "consent", "clear", "done"}
  /\ pc \in {"apply", "redeem", "consent"} => snap.kind = k

\* A code redeemed at once, without a form.
AtOnce ==
  /\ update.action = "/gift_code"
  /\ \A i \in DOMAIN deeds : deeds[i].kind = "REDEEM_CODE"
  /\ pc \in {"arrived", "done"}

\* Once an update has brought something about, its deliveries are one of these.
DeedsOver ==
  deeds # <<>> =>
    \/ /\ update.action \notin Commands
       /\ Consumed \/ Repeats("REDEEM_CODE") \/ Repeats("ACCEPT_POLICIES")
    \/ AtOnce

\* Consent is never ahead of the policies, nor a deed of consent ahead of it.
Versions ==
  /\ consent.version <= policy
  /\ \A i \in DOMAIN deeds :
       deeds[i].kind = "ACCEPT_POLICIES" => deeds[i].policy <= consent.version

IInv == /\ TypeOK
        /\ Coherent(row) /\ Coherent(snap)
        /\ RowIsForm /\ SnapIsRow /\ StageFits
        /\ DeedsOver /\ Versions /\ OncePerUpdate
-----------------------------------------------------------------------------
(***************************************************************************)
(* The walk.                                                               *)
(***************************************************************************)
LEMMA KindNames ==
  Kinds = {"CREATE_EVENT", "REDEEM_CODE", "DIRECT_MESSAGE", "ACCEPT_POLICIES"}
  BY DEF Kinds, StepsOf

\* Every form has at least one step, and its first applies always.
LEMMA StepsFacts ==
  ASSUME NEW k \in Kinds
  PROVE  /\ DOMAIN StepsOf[k] \in {1 .. 1, 1 .. 7}
         /\ \A i \in DOMAIN StepsOf[k] : StepsOf[k][i] \in Steps
         /\ StepsOf[k][1] \notin {"amount", "minage", "maxage"}
  <1>1. DOMAIN StepsOf[k] \in {1 .. 1, 1 .. 7}
    BY KindNames DEF StepsOf
  <1>2. \A i \in DOMAIN StepsOf[k] : StepsOf[k][i] \in Steps
    BY DEF Steps
  <1>3. StepsOf[k][1] \notin {"amount", "minage", "maxage"}
    BY KindNames DEF StepsOf
  <1> QED BY <1>1, <1>2, <1>3

LEMMA StepsAreNotNone == None \notin Steps
  BY KindNames DEF Steps, StepsOf, None

LEMMA AmountApplies ==
  ASSUME NEW f, Applies("amount", f)
  PROVE  f.cost = "FIXED"
  BY DEF Applies, Optional

LEMMA FirstApplies ==
  ASSUME NEW f, NEW st, st \notin {"amount", "minage", "maxage"}
  PROVE  Applies(st, f)
  BY DEF Applies, Optional

\* A set of natural numbers has a least element.
LEMMA LeastNatural ==
  ASSUME NEW S \in SUBSET Nat, S # {}
  PROVE  \E x \in S : \A y \in S : x <= y
  <1>1. PICK x \in S : \A y \in S : ~ (<<y, x>> \in OpToRel(<, Nat))
    BY NatLessThanWellFounded, WFMin
  <1>2. \A i, k \in Nat : i < k => <<i, k>> \in OpToRel(<, Nat)
    BY DEF OpToRel
  <1>3. \A y \in S : ~ (y < x)
    BY <1>1, <1>2, Zenon
  <1>4. \A y \in S : x <= y
    BY <1>3
  <1> QED BY <1>4

\* A set of steps has a first and a last one.
LEMMA EndsAreElements ==
  ASSUME NEW S \in SUBSET (1 .. 7), S # {}
  PROVE  Min(S) \in S /\ Max(S) \in S
  <1>1. Min(S) \in S
    <2>1. PICK x \in S : \A y \in S : x <= y
      BY LeastNatural
    <2> QED BY <2>1 DEF Min
  <1>2. Max(S) \in S
    <2> DEFINE T == {k \in Nat : 7 - k \in S}
    <2>1. \A y \in S : 7 - y \in T /\ 7 - (7 - y) = y
      OBVIOUS
    <2>2. T \in SUBSET Nat /\ T # {}
      BY <2>1
    <2>3. PICK t \in T : \A k \in T : t <= k
      BY <2>2, LeastNatural
    <2>4. 7 - t \in S /\ \A y \in S : 7 - t >= y
      BY <2>1, <2>3
    <2> QED BY <2>4 DEF Max
  <1> QED BY <1>1, <1>2

\* Wherever the walk leads, the step applies to the form.
LEMMA WalkApplies ==
  ASSUME NEW k \in Kinds, NEW f, NEW st
  PROVE  /\ FirstStep(k, f) \in Steps /\ Applies(FirstStep(k, f), f)
         /\ LastStep(k, f) \in Steps /\ Applies(LastStep(k, f), f)
         /\ NextStep(k, st, f) # None =>
              NextStep(k, st, f) \in Steps /\ Applies(NextStep(k, st, f), f)
         /\ BackFrom(k, st, f) # st =>
              BackFrom(k, st, f) \in Steps /\ Applies(BackFrom(k, st, f), f)
  <1> DEFINE R == Reachable(k, f)
  <1>1. R \in SUBSET (1 .. 7)
    BY StepsFacts DEF Reachable
  <1>2. \A i \in R : StepsOf[k][i] \in Steps /\ Applies(StepsOf[k][i], f)
    BY StepsFacts DEF Reachable
  <1>3. 1 \in R
    <2>1. 1 \in DOMAIN StepsOf[k]
      BY StepsFacts
    <2>2. Applies(StepsOf[k][1], f)
      BY StepsFacts, FirstApplies
    <2> QED BY <2>1, <2>2 DEF Reachable
  <1>4. Min(R) \in R /\ Max(R) \in R
    BY <1>1, <1>3, EndsAreElements
  <1>5. /\ FirstStep(k, f) \in Steps /\ Applies(FirstStep(k, f), f)
        /\ LastStep(k, f) \in Steps /\ Applies(LastStep(k, f), f)
    BY <1>2, <1>4 DEF FirstStep, LastStep
  <1>6. ASSUME NextStep(k, st, f) # None
        PROVE  NextStep(k, st, f) \in Steps /\ Applies(NextStep(k, st, f), f)
    <2> DEFINE L == {i \in R : i > Position(k, st)}
    <2>1. L # {} /\ NextStep(k, st, f) = StepsOf[k][Min(L)]
      BY <1>6 DEF NextStep
    <2>2. Min(L) \in L
      BY <1>1, <2>1, EndsAreElements
    <2> QED BY <1>2, <2>1, <2>2
  <1>7. ASSUME BackFrom(k, st, f) # st
        PROVE  BackFrom(k, st, f) \in Steps /\ Applies(BackFrom(k, st, f), f)
    <2> DEFINE E == {i \in R : i < Position(k, st)}
    <2>1. E # {} /\ BackFrom(k, st, f) = StepsOf[k][Max(E)]
      BY <1>7 DEF BackFrom
    <2>2. Max(E) \in E
      BY <1>1, <2>1, EndsAreElements
    <2> QED BY <1>2, <2>1, <2>2
  <1> QED BY <1>5, <1>6, <1>7
-----------------------------------------------------------------------------
(***************************************************************************)
(* Drafts.                                                                 *)
(***************************************************************************)
LEMMA EmptyIsForm == Empty \in Form
  BY DEF Empty, Form, None

LEMMA NoRowIsDraft == NoRow \in Draft
  BY EmptyIsForm DEF NoRow, Row, Draft, Coherent, Empty, None

LEMMA SaveKeeps ==
  ASSUME NEW s \in Draft
  PROVE  /\ Save(s) \in Draft
         /\ Save(s).kind = s.kind /\ Save(s).form = s.form /\ Save(s).seen
  BY DEF Save, Draft, Row, Coherent

\* A step of the walk may be written into the draft.
LEMMA MoveKeeps ==
  ASSUME NEW s \in Draft, NEW st \in Steps, Applies(st, s.form)
  PROVE  /\ [s EXCEPT !.step = st] \in Draft
         /\ [s EXCEPT !.step = st].kind = s.kind
  <1>1. st = "amount" => s.form.cost = "FIXED"
    BY AmountApplies
  <1> QED BY <1>1 DEF Draft, Row, Coherent

LEMMA DetailsKeep ==
  ASSUME NEW s \in Draft
  PROVE  /\ [s EXCEPT !.form.details = TRUE] \in Draft
         /\ [s EXCEPT !.form.details = TRUE].kind = s.kind
  <1> DEFINE f == [s.form EXCEPT !.details = TRUE]
  <1>1. s \in Row /\ s.form \in Form /\ Coherent(s)
    BY DEF Draft, Row
  <1>2. f \in Form /\ f.amount = s.form.amount /\ f.cost = s.form.cost
    BY <1>1 DEF Form
  <1>3. [s EXCEPT !.form.details = TRUE] = [s EXCEPT !.form = f]
    BY <1>1 DEF Row
  <1> HIDE DEF f
  <1>4. /\ [s EXCEPT !.form = f] \in Row /\ [s EXCEPT !.form = f].form = f
        /\ [s EXCEPT !.form = f].step = s.step /\ [s EXCEPT !.form = f].kind = s.kind
    BY <1>1, <1>2 DEF Row
  <1>5. Coherent([s EXCEPT !.form = f])
    BY <1>1, <1>2, <1>4 DEF Coherent
  <1> QED BY <1>3, <1>4, <1>5 DEF Draft

\* An accepted answer lands in the field that was asked for.
LEMMA AnswerKeeps ==
  ASSUME NEW s \in Draft, NEW input \in Inputs,
         ~ Misdirected(s.step, input), Accepts(s.step, input, s.form)
  PROVE  /\ [s EXCEPT !.form = Patched(s.step, input, @)] \in Draft
         /\ [s EXCEPT !.form = Patched(s.step, input, @)].kind = s.kind
  <1> DEFINE p == Patched(s.step, input, s.form)
  <1>1. p \in Form /\ (p.amount # None => p.cost = "FIXED")
          /\ (s.step = "amount" => p.cost = "FIXED")
    <2>0. s \in Row /\ Coherent(s) /\ s.form \in Form
      BY DEF Draft, Row
    <2>1. CASE input.action = "skip"
      <3>1. p = s.form
        BY <2>1 DEF Patched
      <3> QED BY <2>0, <3>1 DEF Coherent
    <2>2. CASE input.action # "skip" /\ s.step = "prov"
      <3>1. input.value \in Provinces
        BY <2>2, IdAssumption DEF Accepts, Misdirected, Inputs, None, CostTypes, Numbers, Optional,
           Controls, Commands
      <3>2. p = [s.form EXCEPT !.prov = input.value, !.city = None]
        BY <2>2 DEF Patched
      <3> QED BY <2>0, <2>2, <3>1, <3>2 DEF Form, Coherent
    <2>3. CASE input.action # "skip" /\ s.step = "city"
      <3>1. input.value \in Cities
        BY <2>3, IdAssumption DEF Accepts, Misdirected, Inputs, None, CostTypes, Numbers, Optional,
           Controls, Commands
      <3>2. p = [s.form EXCEPT !.city = input.value]
        BY <2>3 DEF Patched
      <3> QED BY <2>0, <2>3, <3>1, <3>2 DEF Form, Coherent
    <2>4. CASE input.action # "skip" /\ s.step = "cost"
      <3>1. input.value \in CostTypes
        BY <2>4 DEF Accepts, Optional
      <3>2. p = [s.form EXCEPT !.cost = input.value, !.amount = None]
        BY <2>4 DEF Patched
      <3> QED BY <2>0, <2>4, <3>1, <3>2 DEF Form, Coherent
    <2>5. CASE input.action # "skip" /\ s.step \in {"amount", "minage", "maxage"}
      <3>1. input.value \in Numbers
        BY <2>5 DEF Accepts, Optional
      <3>2. \/ s.step = "amount" /\ p = [s.form EXCEPT !.amount = input.value]
            \/ s.step = "minage" /\ p = [s.form EXCEPT !.minage = input.value]
            \/ s.step = "maxage" /\ p = [s.form EXCEPT !.maxage = input.value]
        BY <2>5 DEF Patched
      <3> QED BY <2>0, <2>5, <3>1, <3>2 DEF Form, Coherent
    <2>6. CASE input.action # "skip"
               /\ s.step \notin {"prov", "city", "cost", "amount", "minage", "maxage"}
      <3>1. \/ p = s.form
            \/ p = [s.form EXCEPT !.title = "words"]
            \/ p = [s.form EXCEPT !.body = "words"]
        BY <2>6 DEF Patched
      <3> QED BY <2>0, <2>6, <3>1 DEF Form, Coherent
    <2> QED BY <2>1, <2>2, <2>3, <2>4, <2>5, <2>6
  <1> QED BY <1>1 DEF Draft, Row, Coherent
-----------------------------------------------------------------------------
(***************************************************************************)
(* The invariant, step by step.                                            *)
(***************************************************************************)
LEMMA InitInvariant == Init => IInv
  <1> SUFFICES ASSUME Init PROVE IInv
    OBVIOUS
  <1> USE DEF Init
  <1>0. NoRow \in Row /\ Coherent(NoRow)
    BY NoRowIsDraft DEF Draft
  <1>1. TypeOK
    <2>1. row \in Row /\ snap \in Row
      BY <1>0
    <2>2. listed \in BOOLEAN
      BY Zenon
    <2>3. update \in Inputs \cup {NoUpdate} /\ pc \in Stages
      BY DEF Stages
    <2>4. deeds \in Seq(Deed)
      OBVIOUS
    <2>5. /\ policy \in 1 .. MaxPolicy /\ shown \in 0 .. MaxPolicy
          /\ consent \in [version : 1 .. MaxPolicy, agreed : 0 .. MaxPolicy]
      BY PolicyAssumption
    <2> QED BY <2>1, <2>2, <2>3, <2>4, <2>5 DEF TypeOK
  <1>2. Coherent(row) /\ Coherent(snap) /\ RowIsForm
    BY <1>0 DEF RowIsForm
  <1>3. SnapIsRow /\ StageFits
    BY DEF SnapIsRow, StageFits, Working
  <1>4. DeedsOver /\ Versions /\ OncePerUpdate
    BY DEF DeedsOver, Versions, OncePerUpdate
  <1> QED BY <1>1, <1>2, <1>3, <1>4 DEF IInv

\* handle saves the draft and BotService goes on with it, or is done.
LEMMA OutcomeKeeps ==
  ASSUME IInv, pc = "apply", update.action \notin Commands,
         NEW r \in Draft, r.kind = snap.kind, r.seen,
         NEW next \in {"done", AfterSubmit(snap.kind)},
         Outcome(r, next)
  PROVE  IInv'
  <1> USE DEF Outcome
  <1>0. /\ r \in Row /\ Coherent(r) /\ NoRow \in Row /\ Coherent(NoRow)
        /\ snap.kind \in Kinds /\ r.kind \in Kinds
    BY NoRowIsDraft DEF Draft, IInv, SnapIsRow, Working
  <1>1. next \in {"done", "create", "redeem", "consent", "discard"}
    BY DEF AfterSubmit
  <1>2. /\ next = "create" => snap.kind = "CREATE_EVENT"
        /\ next = "redeem" => snap.kind = "REDEEM_CODE"
        /\ next = "consent" => snap.kind = "ACCEPT_POLICIES"
        /\ next = "discard" => snap.kind = "DIRECT_MESSAGE"
    BY <1>0, KindNames DEF AfterSubmit
  <1>3. TypeOK'
    <2>1. row' \in Row /\ snap' \in Row
      BY <1>0
    <2>2. pc' \in Stages
      BY <1>1 DEF Stages
    <2>3. shown' \in 0 .. MaxPolicy
      BY PolicyAssumption DEF IInv, TypeOK
    <2> QED BY <2>1, <2>2, <2>3 DEF IInv, TypeOK
  <1>4. Coherent(row)' /\ Coherent(snap)' /\ RowIsForm'
    BY <1>0 DEF RowIsForm, Coherent
  <1>5. SnapIsRow'
    BY <1>0, <1>1 DEF SnapIsRow, Working
  <1>6. StageFits'
    BY <1>1, <1>2 DEF StageFits, Working, AsSaved
  <1>7. DeedsOver'
    BY <1>1, <1>2 DEF IInv, DeedsOver, Consumed, Repeats, AtOnce
  <1>8. Versions' /\ OncePerUpdate'
    BY DEF IInv, Versions, OncePerUpdate
  <1> QED BY <1>3, <1>4, <1>5, <1>6, <1>7, <1>8 DEF IInv

\* The next step of the form, or its summary.
LEMMA AdvanceKeeps ==
  ASSUME IInv, pc = "apply", update.action \notin Commands,
         NEW s \in Draft, s.kind = snap.kind, Advance(s)
  PROVE  IInv'
  <1> DEFINE following == NextStep(s.kind, s.step, s.form)
  <1>1. s.kind \in Kinds
    BY DEF IInv, SnapIsRow, Working
  <1>2. CASE following = None /\ Outcome(Save(s), AfterSummary(s.kind))
    <2>1. AfterSummary(s.kind) \in {"done", AfterSubmit(snap.kind)}
      BY DEF AfterSummary
    <2>2. Save(s) \in Draft /\ Save(s).kind = snap.kind /\ Save(s).seen
      BY SaveKeeps
    <2> QED BY <1>2, <2>1, <2>2, OutcomeKeeps
  <1>3. CASE following # None /\ Outcome(Save([s EXCEPT !.step = following]), "done")
    <2>1. following \in Steps /\ Applies(following, s.form)
      BY <1>1, <1>3, WalkApplies
    <2>2. /\ [s EXCEPT !.step = following] \in Draft
          /\ [s EXCEPT !.step = following].kind = s.kind
      BY <2>1, MoveKeeps
    <2> DEFINE r == Save([s EXCEPT !.step = following])
    <2>3. r \in Draft /\ r.kind = snap.kind /\ r.seen
      BY <2>2, SaveKeeps
    <2> HIDE DEF r, following
    <2>4. Outcome(r, "done")
      BY <1>3 DEF r
    <2> QED BY <2>3, <2>4, OutcomeKeeps
  <1> QED BY <1>2, <1>3 DEF Advance

\* The draft is gone and the delivery is where it may be without one.
LEMMA ClearedKeeps ==
  ASSUME IInv, NEW next \in Stages, Cleared(next),
         \/ next = pc
         \/ next = "done"
         \/ pc = "discard" /\ next = "send"
  PROVE  IInv'
  <1> USE DEF Cleared, policyVars
  <1>0. NoRow \in Row /\ Coherent(NoRow)
    BY NoRowIsDraft DEF Draft
  <1>1. TypeOK'
    <2>1. listed' \in BOOLEAN
      BY Zenon
    <2> QED BY <2>1, <1>0 DEF IInv, TypeOK
  <1>2. Coherent(row)' /\ Coherent(snap)' /\ RowIsForm'
    BY <1>0 DEF IInv, RowIsForm, Coherent
  <1>3. SnapIsRow'
    BY DEF IInv, SnapIsRow, Working
  <1>4. StageFits'
    BY DEF IInv, StageFits, Working, AsSaved, Brought
  <1>5. DeedsOver'
    BY DEF IInv, DeedsOver, Consumed, Repeats, AtOnce
  <1>6. Versions' /\ OncePerUpdate'
    BY DEF IInv, Versions, OncePerUpdate
  <1> QED BY <1>1, <1>2, <1>3, <1>4, <1>5, <1>6 DEF IInv

\* A delivery that only goes on.
LEMMA GoOnKeeps ==
  ASSUME IInv, NEW next \in {"done", "clear"}, GoOn(next),
         next = "clear" => pc \in {"redeem", "consent"}
  PROVE  IInv'
  <1> USE DEF GoOn, policyVars
  <1>1. TypeOK'
    BY DEF IInv, TypeOK, Stages
  <1>2. Coherent(row)' /\ Coherent(snap)' /\ RowIsForm'
    BY DEF IInv, RowIsForm, Coherent
  <1>3. SnapIsRow' /\ StageFits'
    BY DEF IInv, SnapIsRow, StageFits, Working, AsSaved, Brought
  <1>4. DeedsOver'
    BY DEF IInv, DeedsOver, Consumed, Repeats, AtOnce
  <1>5. Versions' /\ OncePerUpdate'
    BY DEF IInv, Versions, OncePerUpdate
  <1> QED BY <1>1, <1>2, <1>3, <1>4, <1>5 DEF IInv

\* Nothing brought about yet.
LEMMA NoDeeds ==
  ASSUME NEW q, q = <<>>
  PROVE  DOMAIN q = {} /\ Len(q) = 0 /\ \A i \in DOMAIN q : FALSE
  OBVIOUS

LEMMA CommandsAreNotAnswers ==
  Commands \cap {"back", "skip", "cancel", "confirm", "page", "done", "details", "agree",
                 "text", "prov", "city", "cost"} = {}
  BY DEF Commands, Guarded, Opening, Asking

LEMMA SendKeeps ==
  ASSUME IInv, NEW input \in Inputs, Send(input)
  PROVE  IInv'
  <1> USE DEF Send, policyVars
  <1>1. row \in Row /\ row' \in Row /\ Coherent(row') /\ row'.kind = row.kind
    BY DEF IInv, TypeOK, Row, Coherent
  <1>2. row = NoRow => row' = NoRow
    <2>1. NoRow = [NoRow EXCEPT !.seen = FALSE]
      BY NoRowIsDraft DEF Draft, Row, NoRow
    <2> QED BY <2>1
  <1>3. deeds = <<>>
    BY DEF IInv, DeedsOver, Consumed, Repeats, AtOnce
  <1>4. TypeOK'
    BY <1>1 DEF IInv, TypeOK, Stages
  <1>5. Coherent(row)' /\ Coherent(snap)' /\ RowIsForm'
    BY <1>1, <1>2 DEF IInv, RowIsForm, Coherent
  <1>6. SnapIsRow' /\ StageFits'
    BY DEF SnapIsRow, StageFits, Working
  <1>7. DeedsOver' /\ Versions' /\ OncePerUpdate'
    BY <1>3 DEF IInv, DeedsOver, Versions, OncePerUpdate
  <1> QED BY <1>4, <1>5, <1>6, <1>7 DEF IInv

LEMMA AckKeeps ==
  ASSUME IInv, Ack
  PROVE  IInv'
  <1> USE DEF Ack, policyVars
  <1>0. NoRow \in Row /\ Coherent(NoRow)
    BY NoRowIsDraft DEF Draft
  <1>1. TypeOK'
    BY <1>0 DEF IInv, TypeOK, Stages
  <1>2. Coherent(row)' /\ Coherent(snap)' /\ RowIsForm'
    BY <1>0 DEF IInv, RowIsForm, Coherent
  <1>3. SnapIsRow' /\ StageFits'
    BY DEF SnapIsRow, StageFits, Working
  <1>4. DeedsOver' /\ Versions' /\ OncePerUpdate'
    <2>1. deeds' = <<>> /\ \A i \in DOMAIN deeds' : FALSE
      BY NoDeeds
    <2> QED BY <2>1 DEF IInv, DeedsOver, Versions, OncePerUpdate
  <1> QED BY <1>1, <1>2, <1>3, <1>4 DEF IInv

\* The process dies: whatever had been saved or done decides what is left to do.
LEMMA CrashKeeps ==
  ASSUME IInv, Crash
  PROVE  IInv'
  <1> USE DEF Crash, policyVars
  <1>0. NoRow \in Row /\ Coherent(NoRow)
    BY NoRowIsDraft DEF Draft
  <1>1. TypeOK'
    BY <1>0 DEF IInv, TypeOK, Stages
  <1>2. Coherent(row)' /\ Coherent(snap)' /\ RowIsForm'
    BY <1>0 DEF IInv, RowIsForm, Coherent
  <1>3. SnapIsRow' /\ StageFits'
    BY DEF SnapIsRow, StageFits, Working
  <1>4. DeedsOver'
    BY DEF IInv, DeedsOver, Consumed, Repeats, AtOnce
  <1>5. Versions' /\ OncePerUpdate'
    BY DEF IInv, Versions, OncePerUpdate
  <1> QED BY <1>1, <1>2, <1>3, <1>4, <1>5 DEF IInv

\* A command opens a form over whatever was there.
LEMMA BeganKeeps ==
  ASSUME IInv, pc = "arrived", update.action \in Commands,
         NEW kind \in Kinds, NEW step \in Steps, NEW form \in Form,
         Applies(step, form), form.amount # None => form.cost = "FIXED",
         Outcome(Began(kind, step, form), "done")
  PROVE  IInv'
  <1> DEFINE new == [NoRow EXCEPT !.kind = kind, !.step = step, !.form = form]
             r == Save(new)
  <1>1. new \in Row /\ new.kind = kind /\ new.form = form /\ new.step = step
    BY NoRowIsDraft DEF Draft, Row
  <1>2. new \in Draft
    BY <1>1, AmountApplies DEF Draft, Coherent
  <1> HIDE DEF new
  <1>3. r \in Draft /\ r.kind = kind
    BY <1>1, <1>2, SaveKeeps
  <1>4. Outcome(r, "done")
    BY DEF Began, new
  <1> HIDE DEF r
  <1> USE <1>4 DEF Outcome
  <1>5. r \in Row /\ Coherent(r) /\ NoRow \in Row /\ Coherent(NoRow)
    BY <1>3, NoRowIsDraft DEF Draft
  <1>6. DeedsOver'
    BY DEF IInv, DeedsOver, AtOnce
  <1>7. TypeOK'
    <2>1. row' \in Row /\ snap' \in Row /\ pc' \in Stages
      BY <1>5 DEF Stages
    <2>2. shown' \in 0 .. MaxPolicy
      BY PolicyAssumption DEF IInv, TypeOK
    <2> QED BY <2>1, <2>2 DEF IInv, TypeOK
  <1>8. Coherent(row)' /\ Coherent(snap)' /\ RowIsForm'
    BY <1>3, <1>5 DEF RowIsForm, Coherent
  <1>9. SnapIsRow' /\ StageFits'
    BY DEF SnapIsRow, StageFits, Working
  <1>10. Versions' /\ OncePerUpdate'
    BY DEF IInv, Versions, OncePerUpdate
  <1> QED BY <1>6, <1>7, <1>8, <1>9, <1>10 DEF IInv

LEMMA OpenKeeps ==
  ASSUME IInv, Open
  PROVE  IInv'
  <1>1. PICK kind \in Kinds, form \in Suggested \cup {Empty} :
             \E step \in {FirstStep(kind, form), LastStep(kind, form)} :
               /\ OpensWith(update, kind, step, form)
               /\ Outcome(Began(kind, step, form), "done")
    BY DEF Open
  <1>2. PICK step \in {FirstStep(kind, form), LastStep(kind, form)} :
               /\ OpensWith(update, kind, step, form)
               /\ Outcome(Began(kind, step, form), "done")
    BY <1>1
  <1>3. step \in Steps /\ Applies(step, form)
    BY WalkApplies
  <1>4. update.action \in Commands
    BY <1>2 DEF OpensWith, Commands, Guarded, Opening
  <1>5. form \in Form
    <2>1. Suggested \subseteq Form
      BY DEF Suggested, Form
    <2> QED BY <2>1, EmptyIsForm
  <1>6. form.amount # None => form.cost = "FIXED"
    BY <1>2 DEF OpensWith, Empty
  <1>7. pc = "arrived"
    BY DEF Open
  <1> QED BY <1>2, <1>3, <1>4, <1>5, <1>6, <1>7, BeganKeeps

LEMMA OpenConsentKeeps ==
  ASSUME IInv, OpenConsent
  PROVE  IInv'
  <1>1. "ACCEPT_POLICIES" \in Kinds
    BY KindNames
  <1>2. "review" \in Steps
    BY <1>1 DEF Steps, StepsOf
  <1>3. Applies("review", Empty)
    BY FirstApplies
  <1>4. Empty.amount = None
    BY DEF Empty
  <1>5. update.action \in Commands
    BY DEF OpenConsent, Commands
  <1> QED BY <1>1, <1>2, <1>3, <1>4, <1>5, EmptyIsForm, BeganKeeps DEF OpenConsent

LEMMA ReadPolicyKeeps ==
  ASSUME IInv, ReadPolicy
  PROVE  IInv'
  <1> USE DEF ReadPolicy
  <1>1. TypeOK'
    BY PolicyAssumption DEF IInv, TypeOK, Stages
  <1>2. Coherent(row)' /\ Coherent(snap)' /\ RowIsForm'
    BY DEF IInv, RowIsForm, Coherent
  <1>3. SnapIsRow' /\ StageFits'
    BY DEF SnapIsRow, StageFits, Working
  <1>4. DeedsOver'
    BY DEF IInv, DeedsOver, AtOnce, Commands, Asking
  <1>5. Versions' /\ OncePerUpdate'
    BY DEF IInv, Versions, OncePerUpdate
  <1> QED BY <1>1, <1>2, <1>3, <1>4, <1>5 DEF IInv

LEMMA ReadDraftKeeps ==
  ASSUME IInv, ReadDraft
  PROVE  IInv'
  <1> USE DEF ReadDraft, policyVars
  <1>1. TypeOK'
    BY DEF IInv, TypeOK, Stages
  <1>2. Coherent(row)' /\ Coherent(snap)' /\ RowIsForm'
    BY DEF IInv, RowIsForm, Coherent
  <1>3. SnapIsRow'
    BY DEF IInv, SnapIsRow, RowIsForm
  <1>4. StageFits'
    BY DEF StageFits
  <1>5. DeedsOver'
    <2>1. ~ AtOnce
      BY DEF AtOnce, Commands, Guarded
    <2> QED BY <2>1 DEF IInv, DeedsOver, Consumed, Repeats
  <1>6. Versions' /\ OncePerUpdate'
    BY DEF IInv, Versions, OncePerUpdate
  <1> QED BY <1>1, <1>2, <1>3, <1>4, <1>5, <1>6 DEF IInv

LEMMA BackKeeps ==
  ASSUME IInv, Back
  PROVE  IInv'
  <1> DEFINE to == BackFrom(snap.kind, snap.step, snap.form)
             s == [snap EXCEPT !.step = to]
  <1>1. snap \in Draft /\ snap.kind \in Kinds
    BY DEF IInv, TypeOK, Draft, Back, SnapIsRow, Working
  <1>2. s \in Draft /\ s.kind = snap.kind
    <2>1. CASE to = snap.step
      <3>1. s = snap
        BY <1>1, <2>1 DEF Draft, Row
      <3> QED BY <1>1, <3>1
    <2>2. CASE to # snap.step
      <3>1. to \in Steps /\ Applies(to, snap.form)
        BY <1>1, <2>2, WalkApplies
      <3> HIDE DEF to
      <3> QED BY <1>1, <3>1, MoveKeeps
    <2> QED BY <2>1, <2>2
  <1>3. Outcome(Save(s), "done") /\ pc = "apply" /\ update.action \notin Commands
    BY CommandsAreNotAnswers DEF Back
  <1> HIDE DEF s
  <1>4. Save(s) \in Draft /\ Save(s).kind = snap.kind /\ Save(s).seen
    BY <1>2, SaveKeeps
  <1> QED BY <1>3, <1>4, OutcomeKeeps

\* The draft as it is, saved.
LEMMA SavedAsItIs ==
  ASSUME IInv, pc = "apply"
  PROVE  /\ snap \in Draft /\ snap.kind \in Kinds
         /\ Save(snap) \in Draft /\ Save(snap).kind = snap.kind /\ Save(snap).seen
  <1>1. snap \in Draft /\ snap.kind \in Kinds
    BY DEF IInv, TypeOK, Draft, SnapIsRow, Working
  <1> QED BY <1>1, SaveKeeps

LEMMA ConfirmKeeps ==
  ASSUME IInv, Confirm
  PROVE  IInv'
  BY SavedAsItIs, OutcomeKeeps, CommandsAreNotAnswers DEF Confirm

LEMMA RedrawKeeps ==
  ASSUME IInv, Redraw
  PROVE  IInv'
  BY SavedAsItIs, OutcomeKeeps, CommandsAreNotAnswers DEF Redraw, IsAnswer

LEMMA DoneKeeps ==
  ASSUME IInv, Done
  PROVE  IInv'
  BY SavedAsItIs, AdvanceKeeps, CommandsAreNotAnswers DEF Done

LEMMA AnswerActionKeeps ==
  ASSUME IInv, Answer
  PROVE  IInv'
  <1> DEFINE s == [snap EXCEPT !.form = Patched(snap.step, update, @)]
  <1>1. pc = "apply" /\ update.action \notin Commands
    BY CommandsAreNotAnswers DEF Answer, IsAnswer
  <1>2. update \in Inputs
    BY DEF IInv, TypeOK, Answer, IsAnswer, NoUpdate, None
  <1>3. s \in Draft /\ s.kind = snap.kind
    BY <1>1, <1>2, SavedAsItIs, AnswerKeeps DEF Answer
  <1>4. Advance(s)
    BY DEF Answer
  <1> HIDE DEF s
  <1> QED BY <1>1, <1>3, <1>4, AdvanceKeeps

\* "details" saves the form it opens; a summary it draws from memory only.
LEMMA DetailsActionKeeps ==
  ASSUME IInv, Details
  PROVE  IInv'
  <1> DEFINE s == [snap EXCEPT !.form.details = TRUE]
             opened == NextStep(s.kind, s.step, s.form)
  <1>1. pc = "apply" /\ update.action \notin Commands
    BY CommandsAreNotAnswers DEF Details
  <1>2. s \in Draft /\ s.kind = snap.kind /\ snap.kind \in Kinds
    BY <1>1, SavedAsItIs, DetailsKeep
  <1>3. \/ /\ opened = None
           /\ snap' = s /\ pc' = AfterSummary(s.kind)
           /\ UNCHANGED <<row, listed, update, deeds, policyVars>>
        \/ opened # None /\ Outcome(Save([s EXCEPT !.step = opened]), "done")
    BY DEF Details
  <1> HIDE DEF s
  <1>4. CASE opened # None /\ Outcome(Save([s EXCEPT !.step = opened]), "done")
    <2>1. opened \in Steps /\ Applies(opened, s.form)
      BY <1>2, <1>4, WalkApplies
    <2> DEFINE t == [s EXCEPT !.step = opened]
    <2> HIDE DEF opened
    <2>2. t \in Draft /\ t.kind = snap.kind
      BY <1>2, <2>1, MoveKeeps
    <2>3. Outcome(Save(t), "done")
      BY <1>4
    <2> HIDE DEF t
    <2>4. Save(t) \in Draft /\ Save(t).kind = snap.kind /\ Save(t).seen
      BY <2>2, SaveKeeps
    <2> QED BY <1>1, <2>3, <2>4, OutcomeKeeps
  <1>5. CASE /\ snap' = s /\ pc' = AfterSummary(s.kind)
             /\ UNCHANGED <<row, listed, update, deeds, policyVars>>
    <2> USE <1>5 DEF policyVars
    <2>1. s \in Row /\ Coherent(s) /\ s.kind \in Kinds
      BY <1>2 DEF Draft
    <2>2. /\ pc' \in {"done", "redeem", "consent", "discard"}
          /\ pc' = "redeem" => s.kind = "REDEEM_CODE"
          /\ pc' = "consent" => s.kind = "ACCEPT_POLICIES"
          /\ pc' = "discard" => s.kind = "DIRECT_MESSAGE"
          /\ pc' = "done" => s.kind = "CREATE_EVENT"
      BY <2>1, KindNames DEF AfterSummary, AfterSubmit
    <2>3. TypeOK'
      BY <2>1, <2>2 DEF IInv, TypeOK, Stages
    <2>4. Coherent(row)' /\ Coherent(snap)' /\ RowIsForm'
      BY <2>1 DEF IInv, RowIsForm, Coherent
    <2>5. SnapIsRow'
      BY <1>1, <1>2, <2>2 DEF IInv, SnapIsRow, Working
    <2>6. StageFits'
      BY <1>1, <2>2 DEF StageFits, Details
    <2>7. DeedsOver'
      BY <1>1, <1>2, <2>2 DEF IInv, DeedsOver, Consumed, Repeats, AtOnce
    <2>8. Versions' /\ OncePerUpdate'
      BY DEF IInv, Versions, OncePerUpdate
    <2> QED BY <2>3, <2>4, <2>5, <2>6, <2>7, <2>8 DEF IInv
  <1> QED BY <1>3, <1>4, <1>5

\* Something was brought about: one entry more.
LEMMA BringsFacts ==
  ASSUME IInv, NEW kind \in Kinds, NEW form \in Form, NEW next, Brings(kind, form, next)
  PROVE  /\ deeds' \in Seq(Deed) /\ deeds' # <<>>
         /\ Len(deeds') = Len(deeds) + 1 /\ DOMAIN deeds' = 1 .. Len(deeds) + 1
         /\ DOMAIN deeds = 1 .. Len(deeds) /\ Len(deeds) \in Nat
         /\ \A i \in DOMAIN deeds : deeds'[i] = deeds[i]
         /\ deeds'[Len(deeds) + 1].kind = kind
         /\ deeds'[Len(deeds) + 1].form = form
         /\ deeds'[Len(deeds) + 1].policy = policy
  <1> DEFINE d == [kind |-> kind, form |-> form, policy |-> policy]
  <1>1. d \in Deed
    BY DEF Deed, IInv, TypeOK
  <1>2. d.kind = kind /\ d.form = form /\ d.policy = policy
    OBVIOUS
  <1>3. deeds \in Seq(Deed) /\ deeds' = Append(deeds, d)
    BY DEF IInv, TypeOK, Brings
  <1> HIDE DEF d
  <1> QED BY <1>1, <1>2, <1>3

LEMMA DidFacts ==
  ASSUME IInv, NEW next, Did(next), pc \in {"create", "redeem", "consent", "send"}
  PROVE  /\ deeds' \in Seq(Deed) /\ deeds' # <<>>
         /\ Len(deeds') = Len(deeds) + 1 /\ DOMAIN deeds' = 1 .. Len(deeds) + 1
         /\ DOMAIN deeds = 1 .. Len(deeds) /\ Len(deeds) \in Nat
         /\ \A i \in DOMAIN deeds : deeds'[i] = deeds[i]
         /\ deeds'[Len(deeds) + 1].kind = snap.kind
         /\ deeds'[Len(deeds) + 1].form = snap.form
         /\ deeds'[Len(deeds) + 1].policy = policy
  <1>1. snap.kind \in Kinds /\ snap.form \in Form
    BY KindNames DEF IInv, TypeOK, Row, StageFits, SnapIsRow, Working
  <1> QED BY <1>1, BringsFacts DEF Did

\* What Did leaves alone, and the draft behind a stage that follows it.
LEMMA DidKeeps ==
  ASSUME IInv, NEW next \in {"clear", "done"}, Did(next),
         pc \in {"create", "redeem", "consent", "send"}, (next = "done") <=> (pc = "send"),
         consent' \in [version : 1 .. MaxPolicy, agreed : 0 .. MaxPolicy]
  PROVE  /\ TypeOK' /\ Coherent(row)' /\ Coherent(snap)'
         /\ RowIsForm' /\ SnapIsRow' /\ StageFits'
  <1> USE DEF Did, Brings
  <1>1. TypeOK'
    BY DidFacts DEF IInv, TypeOK, Stages
  <1>2. Coherent(row)' /\ Coherent(snap)' /\ RowIsForm'
    BY DEF IInv, RowIsForm, Coherent
  <1>3. SnapIsRow'
    BY DEF IInv, SnapIsRow, Working
  <1>4. Brought'
    <2>1. Len(deeds) + 1 \in DOMAIN deeds' /\ snap' = snap
      BY DidFacts
    <2> QED BY <2>1, DidFacts DEF Brought
  <1>5. StageFits'
    <2>1. pc = "create" => AsSaved'
      BY DEF IInv, StageFits, AsSaved
    <2>2. pc \in {"redeem", "consent"} => snap'.kind \in {"REDEEM_CODE", "ACCEPT_POLICIES"}
      BY DEF IInv, StageFits
    <2>3. update'.action \notin Commands
      BY DEF IInv, StageFits, Working
    <2> QED BY <1>4, <2>1, <2>2, <2>3 DEF StageFits
  <1> QED BY <1>1, <1>2, <1>3, <1>5

\* An activity created or a message sent is the only thing its update does.
LEMMA OnlyDeedKeeps ==
  ASSUME IInv, NEW next \in {"clear", "done"}, Did(next), pc \in {"create", "send"},
         (next = "done") <=> (pc = "send"), UNCHANGED consent
  PROVE  IInv'
  <1>1. deeds = <<>> /\ update.action \notin Commands
    BY DEF IInv, DeedsOver, Consumed, Repeats, AtOnce, StageFits, Working
  <1>2. Len(deeds) = 0
    BY <1>1
  <1>3. row' = NoRow \/ row'.seen
    BY DEF IInv, StageFits, AsSaved, Did, Brings
  <1>4. DeedsOver'
    BY <1>1, <1>3 DEF DeedsOver, Consumed, Did, Brings
  <1>5. OncePerUpdate'
    <2>1. DOMAIN deeds' = 1 .. 1
      BY <1>2, DidFacts
    <2> QED BY <2>1, PerUserAssumption DEF OncePerUpdate
  <1>6. Versions'
    <2>1. deeds'[1].kind # "ACCEPT_POLICIES" /\ DOMAIN deeds' = 1 .. 1
      BY <1>2, DidFacts DEF IInv, StageFits
    <2> QED BY <2>1 DEF IInv, Versions, Did, Brings
  <1>7. consent' \in [version : 1 .. MaxPolicy, agreed : 0 .. MaxPolicy]
    BY DEF IInv, TypeOK
  <1> QED BY <1>4, <1>5, <1>6, <1>7, DidKeeps DEF IInv

\* The redemptions of an update are its deeds, and there is room for one more.
LEMMA RedeemedAgain ==
  ASSUME IInv, UnderLimit, \A i \in DOMAIN deeds : deeds[i].kind = "REDEEM_CODE",
         NEW form \in Form, NEW next, Brings("REDEEM_CODE", form, next),
         update.action \in {"details", "/gift_code"}, UNCHANGED consent
  PROVE  /\ \A i \in DOMAIN deeds' : deeds'[i].kind = "REDEEM_CODE"
         /\ OncePerUpdate' /\ Versions'
  <1> USE DEF Brings
  <1>0. "REDEEM_CODE" \in Kinds
    BY KindNames
  <1> HIDE DEF Brings
  <1>1. \A i \in DOMAIN deeds' : deeds'[i].kind = "REDEEM_CODE"
    <2> SUFFICES ASSUME NEW i \in DOMAIN deeds' PROVE deeds'[i].kind = "REDEEM_CODE"
      OBVIOUS
    <2>1. i = Len(deeds) + 1 \/ (i \in DOMAIN deeds /\ deeds'[i] = deeds[i])
      BY <1>0, BringsFacts
    <2>2. deeds'[Len(deeds) + 1].kind = "REDEEM_CODE"
      BY <1>0, BringsFacts
    <2> QED BY <2>1, <2>2
  <1>2. Len(deeds) + 1 <= PerUser
    <2>1. CASE Len(deeds) = 0
      BY <2>1, PerUserAssumption
    <2>2. CASE Len(deeds) # 0
      <3>1. Len(deeds) \in DOMAIN deeds /\ Len(deeds) \in Nat
        BY <2>2, <1>0, BringsFacts
      <3>2. Len(deeds) < PerUser
        BY <3>1 DEF UnderLimit
      <3> QED BY <3>1, <3>2, PerUserAssumption
    <2> QED BY <2>1, <2>2
  <1>3. \A i \in DOMAIN deeds' : i <= PerUser
    <2>1. DOMAIN deeds' = 1 .. Len(deeds) + 1 /\ Len(deeds) \in Nat
      BY <1>0, BringsFacts
    <2> QED BY <1>2, <2>1, PerUserAssumption
  <1>b. update' = update /\ consent' = consent /\ policy' = policy
    BY DEF Brings
  <1>4. OncePerUpdate'
    BY <1>1, <1>3, <1>b DEF OncePerUpdate
  <1>5. Versions'
    BY <1>1, <1>b DEF IInv, Versions
  <1> QED BY <1>1, <1>4, <1>5

LEMMA RedeemAtOnceKeeps ==
  ASSUME IInv, RedeemAtOnce
  PROVE  IInv'
  <1> DEFINE form == [Empty EXCEPT !.body = "words"]
  <1> USE DEF RedeemAtOnce
  <1>1. form \in Form
    BY EmptyIsForm DEF Form
  <1>2. Brings("REDEEM_CODE", form, "done")
    OBVIOUS
  <1> HIDE DEF form
  <1>3. "REDEEM_CODE" \in Kinds /\ update.action \in Commands
    BY KindNames DEF Commands, Guarded
  <1>4. \A i \in DOMAIN deeds : deeds[i].kind = "REDEEM_CODE"
    <2>1. CASE deeds = <<>>
      BY <2>1, NoDeeds
    <2>2. CASE deeds # <<>>
      BY <1>3, <2>2 DEF IInv, DeedsOver, AtOnce
    <2> QED BY <2>1, <2>2
  <1>5. /\ \A i \in DOMAIN deeds' : deeds'[i].kind = "REDEEM_CODE"
        /\ OncePerUpdate' /\ Versions'
    BY <1>1, <1>2, <1>4, RedeemedAgain
  <1>6. DeedsOver'
    BY <1>2, <1>5 DEF DeedsOver, AtOnce, Brings
  <1>7. TypeOK'
    BY <1>1, <1>2, <1>3, BringsFacts DEF IInv, TypeOK, Stages, Brings
  <1>8. Coherent(row)' /\ Coherent(snap)' /\ RowIsForm'
    BY <1>2 DEF IInv, RowIsForm, Coherent, Brings
  <1>9. SnapIsRow' /\ StageFits'
    BY <1>2 DEF SnapIsRow, StageFits, Working, Brings
  <1> QED BY <1>5, <1>6, <1>7, <1>8, <1>9 DEF IInv

\* The stages after which something may be brought about again.
LEMMA AgainOnlyByDetails ==
  ASSUME IInv, pc \in {"redeem", "consent"}, update.action # "details"
  PROVE  deeds = <<>> /\ (row = NoRow \/ row.seen)
  BY DEF IInv, DeedsOver, Consumed, Repeats, AtOnce, StageFits, AsSaved

LEMMA RedeemKeeps ==
  ASSUME IInv, RedeemCode
  PROVE  IInv'
  <1> USE DEF RedeemCode
  <1>1. snap.kind = "REDEEM_CODE" /\ update.action \notin Commands
        /\ (row = NoRow \/ row.kind = "REDEEM_CODE")
    BY DEF IInv, StageFits, SnapIsRow, Working
  <1>2. \A i \in DOMAIN deeds : deeds[i].kind = "REDEEM_CODE"
    <2>1. CASE deeds = <<>>
      BY <2>1, NoDeeds
    <2>2. CASE deeds # <<>>
      BY <1>1, <2>2 DEF IInv, DeedsOver, Consumed, Repeats, AtOnce
    <2> QED BY <2>1, <2>2
  <1>3. snap.form \in Form /\ Brings("REDEEM_CODE", snap.form, "clear")
    BY <1>1 DEF Did, IInv, TypeOK, Row
  <1>4. ASSUME update.action = "details"
        PROVE  DeedsOver' /\ OncePerUpdate' /\ Versions'
    <2>1. /\ \A i \in DOMAIN deeds' : deeds'[i].kind = "REDEEM_CODE"
          /\ OncePerUpdate' /\ Versions'
      BY <1>2, <1>3, <1>4, RedeemedAgain
    <2>2. DeedsOver'
      BY <1>1, <1>4, <2>1 DEF DeedsOver, Repeats, Did, Brings
    <2> QED BY <2>1, <2>2
  <1>5. ASSUME update.action # "details"
        PROVE  DeedsOver' /\ OncePerUpdate' /\ Versions'
    <2>1. deeds = <<>> /\ (row = NoRow \/ row.seen)
      BY <1>5, AgainOnlyByDetails
    <2>2. DOMAIN deeds' = 1 .. 1 /\ deeds'[1].kind = "REDEEM_CODE"
      <3>1. Len(deeds) = 0
        BY <2>1, NoDeeds
      <3> QED BY <1>1, <3>1, DidFacts
    <2>3. DeedsOver'
      BY <1>1, <2>1 DEF DeedsOver, Consumed, Did, Brings
    <2>4. OncePerUpdate'
      BY <2>2, PerUserAssumption DEF OncePerUpdate
    <2>5. consent' = consent /\ policy' = policy
      BY DEF Did, Brings
    <2>6. Versions'
      BY <2>2, <2>5 DEF IInv, Versions
    <2> QED BY <2>3, <2>4, <2>6
  <1>6. DeedsOver' /\ OncePerUpdate' /\ Versions'
    BY <1>4, <1>5
  <1>7. consent' \in [version : 1 .. MaxPolicy, agreed : 0 .. MaxPolicy]
    BY DEF IInv, TypeOK
  <1> QED BY <1>6, <1>7, DidKeeps DEF IInv

\* Consent is given again only to policies published since.
LEMMA AcceptKeeps ==
  ASSUME IInv, AcceptPolicies
  PROVE  IInv'
  <1> USE DEF AcceptPolicies
  <1>0. /\ policy \in 1 .. MaxPolicy /\ shown \in 0 .. MaxPolicy /\ 0 \in 0 .. MaxPolicy
        /\ consent.version \in 1 .. MaxPolicy /\ MaxPolicy \in Nat
    BY PolicyAssumption DEF IInv, TypeOK
  <1>1. snap.kind = "ACCEPT_POLICIES" /\ update.action \notin Commands
        /\ (row = NoRow \/ row.kind = "ACCEPT_POLICIES")
    BY DEF IInv, StageFits, SnapIsRow, Working
  <1>2. \A i \in DOMAIN deeds : deeds[i].kind = "ACCEPT_POLICIES"
    <2>1. CASE deeds = <<>>
      BY <2>1, NoDeeds
    <2>2. CASE deeds # <<>>
      BY <1>1, <2>2 DEF IInv, DeedsOver, Consumed, Repeats, AtOnce
    <2> QED BY <2>1, <2>2
  <1>3. consent.version < policy
    BY <1>0 DEF IInv, Versions
  <1>4. \A i \in DOMAIN deeds : deeds[i].policy <= consent.version /\ deeds[i].policy \in Nat
    <2>1. \A i \in DOMAIN deeds : deeds[i] \in Deed
      BY DEF IInv, TypeOK
    <2>2. \A i \in DOMAIN deeds : deeds[i].policy \in Nat
      BY <2>1 DEF Deed
    <2> QED BY <1>2, <2>2 DEF IInv, Versions
  <1>5. \A i \in DOMAIN deeds' : deeds'[i].kind = "ACCEPT_POLICIES"
    BY <1>1, <1>2, DidFacts
  <1>6. DeedsOver'
    <2>1. CASE update.action = "details"
      BY <1>1, <1>5, <2>1 DEF DeedsOver, Repeats, Did, Brings
    <2>2. CASE update.action # "details"
      BY <1>1, <2>2, AgainOnlyByDetails DEF DeedsOver, Consumed, Did, Brings
    <2> QED BY <2>1, <2>2
  <1>7. \A i \in DOMAIN deeds : deeds[i].policy < policy
    BY <1>0, <1>3, <1>4
  <1>8. OncePerUpdate'
    <2>1. CASE update.action # "details"
      <3>0. Len(deeds) = 0
        BY <2>1, AgainOnlyByDetails, NoDeeds
      <3>1. DOMAIN deeds' = 1 .. 1
        BY <3>0, DidFacts
      <3> QED BY <3>1, PerUserAssumption DEF OncePerUpdate
    <2>2. CASE update.action = "details"
      <3> SUFFICES ASSUME NEW i \in DOMAIN deeds', NEW k \in DOMAIN deeds', i < k
                   PROVE  deeds'[i].policy < deeds'[k].policy
        BY <1>5, <2>2 DEF OncePerUpdate, Did, Brings
      <3>1. i \in DOMAIN deeds /\ deeds'[i] = deeds[i]
        BY DidFacts
      <3>2. CASE k = Len(deeds) + 1
        BY <1>7, <3>1, <3>2, DidFacts
      <3>3. CASE k # Len(deeds) + 1
        <4>1. k \in DOMAIN deeds /\ deeds'[k] = deeds[k]
          BY <3>3, DidFacts
        <4>2. deeds[k].kind # "REDEEM_CODE"
          BY <1>2, <4>1
        <4> QED BY <3>1, <4>1, <4>2 DEF IInv, OncePerUpdate
      <3> QED BY <3>2, <3>3
    <2> QED BY <2>1, <2>2
  <1>9. consent'.version = policy /\ policy' = policy
        /\ consent' \in [version : 1 .. MaxPolicy, agreed : 0 .. MaxPolicy]
    BY <1>0 DEF Did, Brings
  <1>10. \A i \in DOMAIN deeds' : deeds'[i].policy <= policy
    <2> SUFFICES ASSUME NEW i \in DOMAIN deeds' PROVE deeds'[i].policy <= policy
      OBVIOUS
    <2>1. CASE i = Len(deeds) + 1
      BY <1>0, <2>1, DidFacts
    <2>2. CASE i # Len(deeds) + 1
      BY <1>0, <1>4, <1>7, <2>2, DidFacts
    <2> QED BY <2>1, <2>2
  <1>11. Versions'
    BY <1>0, <1>9, <1>10 DEF Versions
  <1> QED BY <1>6, <1>8, <1>9, <1>11, DidKeeps DEF IInv

\* A row listed, or one the new build does not know: its answers stay.
LEMMA RowKeptKeeps ==
  ASSUME IInv, ListExpired \/ Deploy
  PROVE  IInv'
  <1> USE DEF ListExpired, Deploy, policyVars
  <1>1. /\ row' \in Row /\ row'.kind = row.kind /\ row'.form = row.form
        /\ row'.step \in {row.step, Retired} /\ row'.seen = row.seen
        /\ row = NoRow => row' = NoRow
    BY DEF IInv, TypeOK, Row
  <1>2. TypeOK'
    <2>1. listed' \in BOOLEAN
      BY Zenon DEF IInv, TypeOK
    <2> QED BY <1>1, <2>1 DEF IInv, TypeOK
  <1>3. Coherent(row)' /\ Coherent(snap)' /\ RowIsForm'
    BY <1>1 DEF IInv, RowIsForm, Coherent, Retired
  <1>4. SnapIsRow' /\ StageFits'
    BY <1>1 DEF IInv, SnapIsRow, StageFits, Working, AsSaved, Brought
  <1>5. DeedsOver'
    BY <1>1 DEF IInv, DeedsOver, Consumed, Repeats, AtOnce
  <1>6. Versions' /\ OncePerUpdate'
    BY DEF IInv, Versions, OncePerUpdate
  <1> QED BY <1>2, <1>3, <1>4, <1>5, <1>6 DEF IInv

LEMMA PublishKeeps ==
  ASSUME IInv, Publish
  PROVE  IInv'
  <1> USE DEF Publish
  <1>1. TypeOK'
    BY PolicyAssumption DEF IInv, TypeOK
  <1>2. Coherent(row)' /\ Coherent(snap)' /\ RowIsForm'
    BY DEF IInv, RowIsForm, Coherent
  <1>3. SnapIsRow' /\ StageFits'
    BY DEF IInv, SnapIsRow, StageFits, Working, AsSaved, Brought
  <1>4. DeedsOver' /\ OncePerUpdate'
    BY DEF IInv, DeedsOver, Consumed, Repeats, AtOnce, OncePerUpdate
  <1>5. Versions'
    BY PolicyAssumption DEF IInv, Versions, TypeOK
  <1> QED BY <1>1, <1>2, <1>3, <1>4, <1>5 DEF IInv

LEMMA StepInvariant == IInv /\ [Next]_vars => IInv'
  <1> SUFFICES ASSUME IInv, [Next]_vars PROVE IInv'
    OBVIOUS
  <1>1. CASE \E input \in Inputs : Send(input)
    BY <1>1, SendKeeps
  <1>2. CASE Open \/ OpenConsent \/ ReadPolicy
    BY <1>2, OpenKeeps, OpenConsentKeeps, ReadPolicyKeeps
  <1>3. CASE NoFormOpened \/ NothingToApply
    BY <1>3, GoOnKeeps DEF NoFormOpened, NothingToApply
  <1>4. CASE CancelCommand \/ CancelForm \/ ClearUnknown \/ Clear
    <2>1. "done" \in Stages /\ Cleared("done")
      BY <1>4 DEF CancelCommand, CancelForm, ClearUnknown, Clear, Stages
    <2> QED BY <2>1, ClearedKeeps
  <1>5. CASE ReadDraft \/ Back \/ Confirm \/ Done \/ Details \/ Redraw \/ Answer
    BY <1>5, ReadDraftKeeps, BackKeeps, ConfirmKeeps, DoneKeeps, DetailsActionKeeps,
       RedrawKeeps, AnswerActionKeeps
  <1>6. CASE CreateEvent \/ SendMessage
    BY <1>6, OnlyDeedKeeps DEF CreateEvent, SendMessage
  <1>7. CASE CreateRefused \/ RedeemRefused \/ ConsentRefused \/ SendRefused
    BY <1>7, GoOnKeeps DEF CreateRefused, RedeemRefused, ConsentRefused, SendRefused, Ended
  <1>8. CASE RedeemNothing \/ AcceptedAlready
    BY <1>8, GoOnKeeps DEF RedeemNothing, AcceptedAlready
  <1>9. CASE RedeemAtOnce \/ RedeemCode \/ AcceptPolicies
    BY <1>9, RedeemAtOnceKeeps, RedeemKeeps, AcceptKeeps
  <1>10. CASE Discard
    <2>1. "send" \in Stages /\ Cleared("send") /\ pc = "discard"
      BY <1>10 DEF Discard, Stages
    <2> QED BY <2>1, ClearedKeeps
  <1>11. CASE DeleteListed
    <2>1. pc \in Stages /\ Cleared(pc)
      BY <1>11 DEF DeleteListed, IInv, TypeOK
    <2> QED BY <2>1, ClearedKeeps
  <1>12. CASE Ack \/ Crash \/ ListExpired \/ Deploy \/ Publish
    BY <1>12, AckKeeps, CrashKeeps, RowKeptKeeps, PublishKeeps
  <1>13. CASE UNCHANGED vars
    <2> USE <1>13 DEF vars
    <2>1. TypeOK' /\ Coherent(row)' /\ Coherent(snap)' /\ RowIsForm'
      BY DEF IInv, TypeOK, Coherent, RowIsForm
    <2>2. SnapIsRow' /\ StageFits'
      BY DEF IInv, SnapIsRow, StageFits, AsSaved, Brought
    <2>3. DeedsOver' /\ Versions' /\ OncePerUpdate'
      BY DEF IInv, DeedsOver, Consumed, Repeats, AtOnce, Versions, OncePerUpdate
    <2> QED BY <2>1, <2>2, <2>3 DEF IInv
  <1> QED BY <1>1, <1>2, <1>3, <1>4, <1>5, <1>6, <1>7, <1>8, <1>9, <1>10, <1>11, <1>12,
             <1>13 DEF Next, Handle, Finish
-----------------------------------------------------------------------------
(***************************************************************************)
(* The theorems.                                                           *)
(***************************************************************************)

\* The inductive invariant holds in every state.
THEOREM Invariant == Spec => []IInv
  BY InitInvariant, StepInvariant, PTL DEF Spec

\* The draft, the snapshot handle works on and what a delivery brings about stay
\* within what conversation_state and the contracts allow.
THEOREM TypeCorrect == Spec => []TypeOK
  <1>1. IInv => TypeOK
    BY DEF IInv
  <1> QED BY <1>1, Invariant, PTL

\* However often the delivery of an update is cut short and repeated, it brings
\* about one thing.  Only "details" and "/gift CODE", which write no last_update_id,
\* redeem a code again, within its limit, or consent again, to later policies.
THEOREM UpdateActsOnce == Spec => []OncePerUpdate
  <1>1. IInv => OncePerUpdate
    BY DEF IInv
  <1> QED BY <1>1, Invariant, PTL

\* Whatever keyboards are still on the screen, an answer lands in the field it was
\* given for, and a free activity keeps no price.
THEOREM AnswersStayPut == Spec => []FormIsCoherent
  <1>1. IInv => FormIsCoherent
    BY DEF IInv, TypeOK, Row, Form, Coherent, FormIsCoherent
  <1> QED BY <1>1, Invariant, PTL

\* The draft of an activity ends only as its activity, by the person's own doing,
\* under a consent screen they owe, as an expired one, or with its wizard:
\* submitWizard clears it after EventService.create.
THEOREM NoDraftIsLost == Spec => DraftSurvives
  <1> DEFINE Kept == row.kind = "CREATE_EVENT" /\ row'.kind # "CREATE_EVENT" =>
                       \/ \E i \in DOMAIN deeds :
                            deeds[i].kind = row.kind /\ deeds[i].form = row.form
                       \/ update.action \in {"cancel", "/cancel"}
                       \/ row'.kind # None /\ update.action \in Opening
                       \/ row'.kind = "ACCEPT_POLICIES" /\ consent.version # policy
                       \/ listed
                       \/ row.step = Retired
  <1>1. ASSUME IInv, Next PROVE Kept
    <2> SUFFICES ASSUME row.kind = "CREATE_EVENT", row'.kind # "CREATE_EVENT"
                 PROVE  Kept
      OBVIOUS
    <2>1. row \in Row /\ row # NoRow
      BY <1>1 DEF IInv, TypeOK, NoRow, None
    <2>2. pc \in Working => snap.kind = "CREATE_EVENT"
      BY <1>1, <2>1 DEF IInv, SnapIsRow
    <2>3. CASE row' = row \/ Deploy \/ \E input \in Inputs : Send(input)
      BY <2>1, <2>3 DEF Deploy, Send, Row
    <2>4. CASE Open
      <3>1. PICK kind \in Kinds, form \in Suggested \cup {Empty} :
                 \E step \in {FirstStep(kind, form), LastStep(kind, form)} :
                   /\ OpensWith(update, kind, step, form)
                   /\ Outcome(Began(kind, step, form), "done")
        BY <2>4 DEF Open
      <3>2. row'.kind = kind /\ update.action \in Opening
        BY <3>1 DEF OpensWith, Opening, Outcome, Began, Save, NoRow
      <3>3. kind # None
        BY KindNames DEF None
      <3> QED BY <3>2, <3>3
    <2>5. CASE OpenConsent
      BY <2>5 DEF OpenConsent, Outcome, Began, Save, NoRow
    <2>6. CASE CancelCommand \/ CancelForm \/ ClearUnknown \/ DeleteListed
      BY <2>6 DEF CancelCommand, CancelForm, ClearUnknown, DeleteListed
    <2>7. CASE Back \/ Confirm \/ Done \/ Details \/ Redraw \/ Answer
      <3>1. pc = "apply" /\ snap.kind = "CREATE_EVENT" /\ snap \in Row
        BY <1>1, <2>2, <2>7 DEF Back, Confirm, Done, Details, Redraw, Answer, Working, IInv,
           TypeOK
      <3>2. row' = row \/ row'.kind = snap.kind
        BY <2>7, <3>1 DEF Back, Confirm, Done, Details, Redraw, Answer, Advance, Outcome, Save,
           Row
      <3> QED BY <3>1, <3>2
    <2>8. CASE Clear
      <3>1. pc = "clear" /\ AsSaved /\ Brought
        BY <1>1, <2>2, <2>8 DEF Clear, IInv, StageFits, Working
      <3> QED BY <2>1, <2>2, <3>1 DEF AsSaved, Brought, Working
    <2>9. CASE Discard
      BY <1>1, <2>2, <2>9 DEF Discard, IInv, StageFits, Working
    <2>10. CASE \/ ReadPolicy \/ NoFormOpened \/ RedeemAtOnce \/ NothingToApply
                \/ ReadDraft \/ Ack \/ Crash \/ ListExpired \/ Publish
                \/ CreateEvent \/ CreateRefused
                \/ RedeemCode \/ RedeemRefused \/ RedeemNothing
                \/ AcceptPolicies \/ AcceptedAlready \/ ConsentRefused
                \/ SendMessage \/ SendRefused
      <3>1. row' = row
        BY <2>10 DEF ReadPolicy, NoFormOpened, RedeemAtOnce, NothingToApply, ReadDraft, Ack,
           Crash, ListExpired, Publish, CreateEvent, CreateRefused, RedeemCode, RedeemRefused,
           RedeemNothing, AcceptPolicies, AcceptedAlready, ConsentRefused, SendMessage,
           SendRefused, Did, Brings, GoOn, Ended
      <3> QED BY <3>1
    <2> QED BY <1>1, <2>3, <2>4, <2>5, <2>6, <2>7, <2>8, <2>9, <2>10 DEF Next, Handle, Finish
  <1>2. IInv /\ [Next]_vars => [Kept]_vars
    BY <1>1
  <1> QED BY <1>2, Invariant, PTL DEF Spec, DraftSurvives
====
