------------------------------ MODULE Dialogue ------------------------------
(***************************************************************************)
(* One person's forms in the bot: the webhook that hands updates to        *)
(* BotService, the draft ConversationService keeps in conversation_state,  *)
(* and what BotService does when a form is finished.                       *)
(*                                                                         *)
(* Telegram delivers the updates of a chat one at a time and delivers one  *)
(* again until it is answered with 200, so only a process that dies makes  *)
(* it repeat itself.  Update ids grow, hence last_update_id needs only be  *)
(* compared with the update being delivered: "seen" says they are equal.   *)
(* Every await between two writes is a step of its own, and the process    *)
(* may die at any of them.  A deploy may leave a draft whose wizard or     *)
(* step the new build does not have.                                       *)
(*                                                                         *)
(* Four wizards stand for ten.  CREATE_EVENT has every shape of step but   *)
(* "multi": plain text (title, for desc, cat, dist, day, hour, dur, cap),  *)
(* answers that reset others (prov, city; cost, amount), a step with a     *)
(* condition, and optional ones that check each other.  REDEEM_CODE acts   *)
(* and then clears its draft, as EDIT_PROFILE, BUG_REPORT and ADMIN_CASE   *)
(* do; DIRECT_MESSAGE clears first, as FILE_REPORT, NO_SHOW_CLAIM and      *)
(* WRITE_REVIEW do.  ACCEPT_POLICIES is the consent gate: when a newer     *)
(* version has been published, mayWrite, /start, /terms and a policy's own *)
(* button open it over whatever was open.                                  *)
(*                                                                         *)
(* "write" stands for every guarded action that opens no form: a join, a   *)
(* withdrawal, an answer to a request.  What it does is Participation's.   *)
(***************************************************************************)
EXTENDS Integers, Sequences, FiniteSetsExt

CONSTANTS
  Provinces, Cities, \* ids of the catalogue: uuids, alike to a step
  Years,             \* the numbers people type, as a function to their value
  PerUser,           \* per_user_limit of the gift codes
  MaxPolicy          \* bound on the versions of the policies ever published

ASSUME IdAssumption ==
  /\ Provinces \cap Cities = {}
  /\ (Provinces \cup Cities) \cap (DOMAIN Years \cup {"none", "words", "FREE", "FIXED"}) = {}
ASSUME YearsAssumption == \A n \in DOMAIN Years : Years[n] \in Nat
ASSUME PerUserAssumption == PerUser \in Nat \ {0}
ASSUME PolicyAssumption == MaxPolicy \in Nat \ {0}

VARIABLES
  row,    \* the conversation_state row
  listed, \* the purge has read the id of this row among the expired ones
  update, \* what the person sent
  pc,     \* where its delivery is
  snap,   \* the snapshot handle works on
  deeds,  \* what the deliveries of this update have brought about
  policy, \* the current version of the required policies
  shown,  \* the version on the consent screen, as it was last drawn
  consent \* the latest consent row: its version, and the one on the screen of
          \* somebody who tapped "agree" (0: it came from another button)

vars == <<row, listed, update, pc, snap, deeds, policy, shown, consent>>
policyVars == <<policy, shown, consent>>

None == "none"
CostTypes == {"FREE", "FIXED"}
Numbers == DOMAIN Years

StepsOf ==
  [CREATE_EVENT |-> <<"title", "prov", "city", "cost", "amount", "minage", "maxage">>,
   REDEEM_CODE |-> <<"code">>,
   DIRECT_MESSAGE |-> <<"body">>,
   ACCEPT_POLICIES |-> <<"review">>]

Kinds == DOMAIN StepsOf
Steps == UNION {{StepsOf[k][i] : i \in DOMAIN StepsOf[k]} : k \in Kinds}
Optional == {"minage", "maxage"}
Retired == "retired" \* a kind or a step this build does not have

Empty == [title |-> None, prov |-> None, city |-> None, cost |-> None, amount |-> None,
          minage |-> None, maxage |-> None, body |-> None, details |-> FALSE]

NoRow == [kind |-> None, step |-> None, form |-> Empty, seen |-> FALSE]

Form == [title : {None, "words"}, prov : Provinces \cup {None}, city : Cities \cup {None},
         cost : CostTypes \cup {None}, amount : Numbers \cup {None},
         minage : Numbers \cup {None}, maxage : Numbers \cup {None},
         body : {None, "words"}, details : BOOLEAN]

Row == [kind : Kinds \cup {None}, step : Steps \cup {None, Retired}, form : Form,
        seen : BOOLEAN]

\* What a delivery can bring about, and the policies in force at that moment.
Deed == [kind : Kinds, form : Form, policy : 1 .. MaxPolicy]

Controls == {"back", "skip", "cancel", "confirm", "page", "done", "details", "agree"}

\* The commands: those that open a form, those mayWrite guards ("/gift_code" is
\* "/gift CODE"), and those that show the policies that are outstanding.
Opening == {"/create_event", "/gift", "host", "message"}
Guarded == Opening \cup {"/gift_code", "write"}
Asking == {"/start", "/terms", "policy"}
Commands == Guarded \cup Asking \cup {"/cancel"}

\* Everything that can be typed or tapped at any time: keyboards of earlier
\* steps and of earlier forms stay on the screen.
Inputs ==
  [action : Controls \cup Commands, value : {None}]
    \cup [action : {"text"}, value : {"words"} \cup Numbers]
    \cup [action : {"prov"}, value : Provinces]
    \cup [action : {"city"}, value : Cities]
    \cup [action : {"cost"}, value : CostTypes]
-----------------------------------------------------------------------------
(***************************************************************************)
(* wizard.ts: the walk.                                                    *)
(***************************************************************************)
Applies(step, form) ==
  CASE step = "amount" -> form.cost = "FIXED"
    [] step \in Optional -> form.details
    [] OTHER -> TRUE

Position(kind, step) == CHOOSE i \in DOMAIN StepsOf[kind] : StepsOf[kind][i] = step

Reachable(kind, form) == {i \in DOMAIN StepsOf[kind] : Applies(StepsOf[kind][i], form)}

FirstStep(kind, form) == StepsOf[kind][Min(Reachable(kind, form))]
LastStep(kind, form) == StepsOf[kind][Max(Reachable(kind, form))]

NextStep(kind, step, form) ==
  LET later == {i \in Reachable(kind, form) : i > Position(kind, step)}
  IN  IF later = {} THEN None ELSE StepsOf[kind][Min(later)]

\* previousStep, or the step itself where there is none.
BackFrom(kind, step, form) ==
  LET earlier == {i \in Reachable(kind, form) : i < Position(kind, step)}
  IN  IF earlier = {} THEN step ELSE StepsOf[kind][Max(earlier)]

(***************************************************************************)
(* The accept functions of the wizards.                                    *)
(***************************************************************************)
Accepts(step, input, form) ==
  \/ input.action = "skip" /\ step \in Optional
  \/ step = "review" /\ input.action = "agree"
  \/ step \in {"title", "code", "body"} /\ input.action = "text" /\ input.value = "words"
  \/ step = "body" /\ input.action = "text"
  \/ step \in {"prov", "city"} /\ input.value \in Provinces \cup Cities
  \/ step = "cost" /\ input.value \in CostTypes
  \/ step \in {"amount", "minage"} /\ input.value \in Numbers
  \/ /\ step = "maxage" /\ input.value \in Numbers
     /\ form.minage # None => Years[input.value] >= Years[form.minage]

Patched(step, input, form) ==
  IF input.action = "skip" THEN form
  ELSE CASE step = "title" -> [form EXCEPT !.title = "words"]
         [] step \in {"code", "body"} -> [form EXCEPT !.body = "words"]
         [] step = "prov" -> [form EXCEPT !.prov = input.value, !.city = None]
         [] step = "city" -> [form EXCEPT !.city = input.value]
         [] step = "cost" -> [form EXCEPT !.cost = input.value, !.amount = None]
         [] step = "amount" -> [form EXCEPT !.amount = input.value]
         [] step = "minage" -> [form EXCEPT !.minage = input.value]
         [] step = "maxage" -> [form EXCEPT !.maxage = input.value]
         [] OTHER -> form

\* Deviation: a button is handed to whatever step the form stands on.
NeverMisdirected(step, input) == FALSE

\* A tap on the keyboard of a step the form has moved past.
Misdirected(step, input) == input.action \in {"prov", "city", "cost"} \ {step}
-----------------------------------------------------------------------------
\* Deviation: the id of the update is not written with the draft.
SaveWithoutId(s) == [s EXCEPT !.seen = FALSE]

\* The row after save: last_update_id is this update's.
Save(s) == [s EXCEPT !.seen = TRUE]

\* Deviation: the draft of an event is cleared before the event is created.
AfterSubmitClearFirst(kind) ==
  CASE kind = "REDEEM_CODE" -> "redeem"
    [] kind = "ACCEPT_POLICIES" -> "consent"
    [] OTHER -> "discard"

\* drawWizard, outcome "submit".
AfterSubmit(kind) ==
  CASE kind = "CREATE_EVENT" -> "create"
    [] kind = "REDEEM_CODE" -> "redeem"
    [] kind = "ACCEPT_POLICIES" -> "consent"
    [] OTHER -> "discard"

\* drawWizard, outcome "summary": only an event still waits for its "confirm".
AfterSummary(kind) == IF kind = "CREATE_EVENT" THEN "done" ELSE AfterSubmit(kind)

\* An outcome of handle: the row it saved, and what BotService does next.
\* A consent screen is drawn from the policies of that moment; once another form
\* is open it is of no account.
Outcome(r, next) ==
  /\ row' = r
  /\ snap' = IF next = "done" THEN NoRow ELSE r
  /\ pc' = next
  /\ shown' = IF r.kind # "ACCEPT_POLICIES" THEN 0
              ELSE IF next = "done" THEN policy ELSE shown
  /\ UNCHANGED <<update, deeds, listed, policy, consent>>

\* The delivery goes on and writes nothing.
GoOn(next) == pc' = next /\ UNCHANGED <<row, listed, update, snap, deeds, policyVars>>

\* clear, whatever the row holds by now.
Cleared(next) == /\ row' = NoRow
                 /\ listed' = FALSE
                 /\ pc' = next
                 /\ UNCHANGED <<update, snap, deeds, policyVars>>

Began(kind, step, form) ==
  Save([NoRow EXCEPT !.kind = kind, !.step = step, !.form = form])

\* A form of SuggestionService.wizardForm.
Suggested == [title : {"words"}, prov : Provinces, city : Cities, cost : CostTypes,
              amount : Numbers \cup {None}, minage : {None}, maxage : {None},
              body : {None}, details : {FALSE}]

NoUpdate == [action |-> None, value |-> None]

Stages == {"acked", "arrived", "apply", "create", "redeem", "consent", "discard", "send",
           "clear", "done"}

TypeOK ==
  /\ row \in Row /\ snap \in Row
  /\ listed \in BOOLEAN
  /\ update \in Inputs \cup {NoUpdate}
  /\ pc \in Stages
  /\ deeds \in Seq(Deed)
  /\ policy \in 1 .. MaxPolicy /\ shown \in 0 .. MaxPolicy
  /\ consent \in [version : 1 .. MaxPolicy, agreed : 0 .. MaxPolicy]
-----------------------------------------------------------------------------
Init == /\ row = NoRow
        /\ listed = FALSE
        /\ update = NoUpdate
        /\ pc = "acked"
        /\ snap = NoRow
        /\ deeds = <<>>
        /\ policy = 1 /\ shown = 0
        /\ consent = [version |-> 1, agreed |-> 1]

\* The person types or taps; Telegram sends it once the last one is answered.
Send(input) == /\ pc = "acked"
               /\ update' = input
               /\ pc' = "arrived"
               /\ row' = [row EXCEPT !.seen = FALSE]
               /\ UNCHANGED <<listed, snap, deeds, policyVars>>

\* The webhook has answered 200: this update is over.
Ack == /\ pc = "done"
       /\ pc' = "acked"
       /\ update' = NoUpdate
       /\ snap' = NoRow
       /\ deeds' = <<>>
       /\ UNCHANGED <<row, listed, policyVars>>

\* The process dies before it answered: the update is delivered again.
Crash == /\ pc \notin {"acked", "arrived"}
         /\ pc' = "arrived"
         /\ snap' = NoRow
         /\ UNCHANGED <<row, listed, update, deeds, policyVars>>

\* The command a wizard is opened by, and the form and step it begins with.
OpensWith(input, kind, step, form) ==
  \/ /\ input.action = "/create_event" /\ kind = "CREATE_EVENT"
     /\ form = Empty /\ step = FirstStep(kind, form)
  \/ /\ input.action = "host" /\ kind = "CREATE_EVENT"
     /\ form \in {f \in Suggested : (f.cost = "FIXED") <=> (f.amount # None)}
     /\ step = LastStep(kind, form)
  \/ /\ input.action = "/gift" /\ kind = "REDEEM_CODE"
     /\ form = Empty /\ step = FirstStep(kind, form)
  \/ /\ input.action = "message" /\ kind = "DIRECT_MESSAGE"
     /\ form = Empty /\ step = FirstStep(kind, form)

\* mayWrite passes, and the quota, channel and coin gates of an activity.
Open == /\ pc = "arrived"
        /\ consent.version = policy
        /\ \E kind \in Kinds, form \in Suggested \cup {Empty} :
             \E step \in {FirstStep(kind, form), LastStep(kind, form)} :
               /\ OpensWith(update, kind, step, form)
               /\ Outcome(Began(kind, step, form), "done")

\* Newer policies: the consent form replaces what was open, be it for a form,
\* for an action without one, or because the person asked what they agreed to.
OpenConsent == /\ pc = "arrived"
               /\ consent.version # policy
               /\ update.action \in Guarded \cup Asking
               /\ update.action = "policy" => row.kind # "ACCEPT_POLICIES"
               /\ Outcome(Began("ACCEPT_POLICIES", "review", Empty), "done")

\* A policy is read from its own screen: the form stays, and is drawn anew.
ReadPolicy == /\ pc = "arrived"
              /\ consent.version # policy
              /\ update.action = "policy" /\ row.kind = "ACCEPT_POLICIES"
              /\ pc' = "done" /\ shown' = policy
              /\ UNCHANGED <<row, listed, update, snap, deeds, policy, consent>>

\* Suspended, over a quota, short of coins, a suggestion gone, nothing
\* outstanding: a notice.  And whatever a "write" does, which is not to a form.
NoFormOpened == /\ pc = "arrived"
                /\ update.action \in Guarded \cup Asking
                /\ GoOn("done")

\* /cancel clears without looking.
CancelCommand == /\ pc = "arrived"
                 /\ update.action = "/cancel"
                 /\ Cleared("done")

\* handle: no form is open, or this update has been applied to it already.
NothingToApply == /\ pc = "arrived"
                  /\ update.action \notin Commands
                  /\ row = NoRow \/ row.seen
                  /\ GoOn("done")

\* handle: the draft of a wizard or a step this build does not have.
ClearUnknown == /\ pc = "arrived"
                /\ update.action \notin Commands
                /\ row.step = Retired /\ ~row.seen
                /\ Cleared("done")

ReadDraft == /\ pc = "arrived"
             /\ update.action \notin Commands
             /\ row # NoRow /\ ~row.seen
             /\ row.step # Retired
             /\ snap' = row
             /\ pc' = "apply"
             /\ UNCHANGED <<row, listed, update, deeds, policyVars>>

CancelForm == /\ pc = "apply"
              /\ update.action = "cancel"
              /\ Cleared("done")

Back == /\ pc = "apply"
        /\ update.action = "back"
        /\ Outcome(Save([snap EXCEPT !.step = BackFrom(snap.kind, @, snap.form)]), "done")

Confirm == /\ pc = "apply"
           /\ update.action = "confirm"
           /\ Outcome(Save(snap), AfterSubmit(snap.kind))

\* The form as it stands after an answer: the next step, or its summary.
Advance(s) ==
  LET following == NextStep(s.kind, s.step, s.form)
  IN  \/ /\ following = None
         /\ Outcome(Save(s), AfterSummary(s.kind))
      \/ /\ following # None
         /\ Outcome(Save([s EXCEPT !.step = following]), "done")

\* "done": out of a step that may be left without an answer.
Done == /\ pc = "apply"
        /\ update.action = "done"
        /\ snap.step \in Optional
        /\ Advance(snap)

\* "details": the optional steps are opened; a summary is drawn unsaved.
Details ==
  LET s == [snap EXCEPT !.form.details = TRUE]
      opened == NextStep(s.kind, s.step, s.form)
  IN  /\ pc = "apply"
      /\ update.action = "details"
      /\ \/ /\ opened = None
            /\ snap' = s
            /\ pc' = AfterSummary(s.kind)
            /\ UNCHANGED <<row, listed, update, deeds, policyVars>>
         \/ /\ opened # None
            /\ Outcome(Save([s EXCEPT !.step = opened]), "done")

IsAnswer == update.action \in {"text", "skip", "agree", "prov", "city", "cost"}

\* A page turned, "done" too early, a stale button, a refused answer: the
\* update is consumed and the step drawn again.
Redraw == /\ pc = "apply"
          /\ \/ update.action = "page"
             \/ update.action = "done" /\ snap.step \notin Optional
             \/ IsAnswer /\ Misdirected(snap.step, update)
             \/ IsAnswer /\ ~Accepts(snap.step, update, snap.form)
          /\ Outcome(Save(snap), "done")

Answer == /\ pc = "apply"
          /\ IsAnswer
          /\ ~Misdirected(snap.step, update)
          /\ Accepts(snap.step, update, snap.form)
          /\ Advance([snap EXCEPT !.form = Patched(snap.step, update, @)])
-----------------------------------------------------------------------------
(***************************************************************************)
(* What a finished form does.                                              *)
(***************************************************************************)

\* toCreateEventRequest does not answer null.
Complete(form) ==
  form.title # None /\ form.city # None /\ form.cost # None

\* The CHECK constraints of the event table the wizard's fields meet, which
\* are the cross-field rules of the request contract.
Storable(form) ==
  /\ (form.cost = "FIXED") <=> (form.amount # None)
  /\ {form.minage, form.maxage} \subseteq Numbers => Years[form.maxage] >= Years[form.minage]

Brings(kind, form, next) ==
  /\ deeds' = Append(deeds, [kind |-> kind, form |-> form, policy |-> policy])
  /\ pc' = next
  /\ UNCHANGED <<row, listed, update, snap, policy, shown>>

Did(next) == Brings(snap.kind, snap.form, next)

\* Nothing is written: the person is told, or an unforeseen error is logged.
Ended == GoOn("done")

\* submitWizard: EventService.create commits, the draft is cleared after it.
CreateEvent == /\ pc = "create"
               /\ Complete(snap.form) /\ Storable(snap.form)
               /\ Did("clear")
               /\ UNCHANGED consent

\* A question left open, a refusal, or a constraint: the draft survives.
CreateRefused == pc = "create" /\ Ended

\* redeem counts the redemptions of this code by this person, under its lock.
\* Those of this update are its deeds, numbered; a code whose limit had been
\* reached before is refused, as any may be.
UnderLimit == \A i \in DOMAIN deeds : deeds[i].kind = "REDEEM_CODE" => i < PerUser

\* "/gift CODE": no form, no draft, and no id of an update to remember.
RedeemAtOnce == /\ pc = "arrived"
                /\ update.action = "/gift_code"
                /\ consent.version = policy
                /\ UnderLimit
                /\ Brings("REDEEM_CODE", [Empty EXCEPT !.body = "words"], "done")
                /\ UNCHANGED consent

\* submitCode: the code is kept in the form until it is accepted.
RedeemCode == /\ pc = "redeem"
              /\ snap.form.body # None
              /\ UnderLimit
              /\ Did("clear")
              /\ UNCHANGED consent

RedeemRefused == /\ pc = "redeem"
                 /\ snap.form.body # None
                 /\ Ended

RedeemNothing == /\ pc = "redeem"
                 /\ snap.form.body = None
                 /\ GoOn("clear")

\* finishConsent reads the required policies and accepts exactly those.
AcceptPolicies == /\ pc = "consent"
                  /\ consent.version # policy
                  /\ Did("clear")
                  /\ consent' = [version |-> policy,
                                  agreed |-> IF update.action = "agree" THEN shown ELSE 0]

\* Nothing is outstanding.
AcceptedAlready == /\ pc = "consent"
                   /\ consent.version = policy
                   /\ GoOn("clear")

\* POLICY_VERSION_STALE: another version was published between the two reads.
ConsentRefused == /\ pc = "consent"
                  /\ policy > 1
                  /\ Ended

Clear == pc = "clear" /\ Cleared("done")

\* submitDirectMessage clears the draft before anything else.
Discard == pc = "discard" /\ Cleared("send")

SendMessage == /\ pc = "send"
               /\ snap.form.body # None
               /\ Did("done")
               /\ UNCHANGED consent

SendRefused == pc = "send" /\ Ended
-----------------------------------------------------------------------------
(***************************************************************************)
(* purgeExpired: drafts nobody touched for DRAFT_TTL_DAYS.  The person may *)
(* be away that long between any two steps, and come back in between the   *)
(* listing and the delete.                                                 *)
(***************************************************************************)
ListExpired == /\ row # NoRow
               /\ ~listed
               /\ listed' = TRUE
               /\ UNCHANGED <<row, update, pc, snap, deeds, policyVars>>

DeleteListed == listed /\ Cleared(pc)

\* A build without this draft's wizard or step; the old one has been stopped.
Deploy == /\ pc \in {"acked", "arrived"}
          /\ row # NoRow
          /\ row' = [row EXCEPT !.step = Retired]
          /\ UNCHANGED <<listed, update, pc, snap, deeds, policyVars>>

\* An operator publishes a new version of a required policy.
Publish == /\ policy < MaxPolicy
           /\ policy' = policy + 1
           /\ UNCHANGED <<row, listed, update, pc, snap, deeds, shown, consent>>

Handle == \/ Open \/ OpenConsent \/ ReadPolicy \/ NoFormOpened \/ CancelCommand
          \/ RedeemAtOnce \/ NothingToApply \/ ClearUnknown \/ ReadDraft
          \/ CancelForm \/ Back \/ Confirm \/ Done \/ Details \/ Redraw \/ Answer

Finish == \/ CreateEvent \/ CreateRefused
          \/ RedeemCode \/ RedeemRefused \/ RedeemNothing
          \/ AcceptPolicies \/ AcceptedAlready \/ ConsentRefused
          \/ Clear \/ Discard \/ SendMessage \/ SendRefused

Next == \/ \E input \in Inputs : Send(input)
        \/ Handle \/ Finish \/ Ack \/ Crash
        \/ ListExpired \/ DeleteListed \/ Deploy \/ Publish

Spec == Init /\ [][Next]_vars
-----------------------------------------------------------------------------
\* An update brings about at most one thing, however often its delivery is
\* cut short and repeated: ConversationService.handle writes last_update_id
\* before BotService creates, redeems or sends anything.  Two ways in do not
\* write it, "details" on a form without optional steps and "/gift CODE": a code
\* may then be redeemed again, within its limit per person (gift-code.service.ts),
\* and consent given again, but only to policies published in between.
OncePerUpdate ==
  \A i, k \in DOMAIN deeds : i < k =>
    \/ /\ update.action = "details"
       /\ deeds[i].kind = "ACCEPT_POLICIES" /\ deeds[k].kind = "ACCEPT_POLICIES"
       /\ deeds[i].policy < deeds[k].policy
    \/ /\ update.action \in {"details", "/gift_code"}
       /\ deeds[i].kind = "REDEEM_CODE" /\ deeds[k].kind = "REDEEM_CODE"
       /\ k <= PerUser

\* What was typed for an activity is not lost.  Its draft ends only when the
\* activity has been created from exactly these answers, when the person cancels
\* or opens another form, when newer policies stop what they do next, as an
\* expired one, or as one of a wizard the build no longer has; no refusal, no
\* crash and no answer takes it (submitWizard: "The draft survives on purpose").
DraftSurvives ==
  [][row.kind = "CREATE_EVENT" /\ row'.kind # "CREATE_EVENT" =>
       \/ \E i \in DOMAIN deeds : deeds[i].kind = row.kind /\ deeds[i].form = row.form
       \/ update.action \in {"cancel", "/cancel"}
       \/ row'.kind # None /\ update.action \in Opening
       \/ row'.kind = "ACCEPT_POLICIES" /\ consent.version # policy
       \/ listed
       \/ row.step = Retired]_vars

\* Answers stay with their questions after any walk through the form, with
\* keyboards of earlier steps still on the screen: an id tapped for one field
\* never lands in another, and an activity that became free keeps no price
\* (handle's stale-button guard, the accept functions of create-event.ts).
FormIsCoherent ==
  /\ row.form.prov \in Provinces \cup {None}
  /\ row.form.city \in Cities \cup {None}
  /\ row.form.amount # None => row.form.cost = "FIXED"

\* Who taps "agree" accepts the policies the screen showed: docs/threat-model.md
\* (C5) says "the document shown is the document accepted".  Not so when a
\* version is published between the drawing of the screen and the tap.
ShownIsAccepted == consent.agreed \in {0, consent.version}
=============================================================================
