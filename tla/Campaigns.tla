----------------------------- MODULE Campaigns -----------------------------
(***************************************************************************)
(* Messages to many people: an operator's broadcast, the announcements of  *)
(* a release and of a city, and the invitations a host pays for.           *)
(*                                                                         *)
(* A campaign is drafted and its recipients are written page by page, by   *)
(* whoever creates it; it is confirmed, which nothing keeps anybody from   *)
(* doing before the last page is written; it is claimed by the dispatcher, *)
(* sent by one job per recipient and closed when nobody is pending.        *)
(* Operators cancel and resume, the circuit breaker pauses, any statement  *)
(* may throw, and the API and the worker may die between any two.          *)
(***************************************************************************)
EXTENDS JobQueue, Integers, Sequences, FiniteSets

CONSTANTS
  Campaign,      \* campaigns, by idempotency_key
  Mixes,         \* the kinds of campaign that may meet in one behaviour
  Person,        \* users, ordered by id
  Pages,         \* the audience of each campaign as materialise pages through it
  Fact,          \* what scoreCandidate reads of a user
  Weight,        \* the weights of the score
  InviteLimit,   \* events.top_invite_max_recipients
  Cost,          \* economy.event_top_invite_coins
  Wallet,        \* the host's coins
  Call,          \* calls of inviteTop that may overlap
  Fickle,        \* bound: users who block the bot and come back
  Tick,          \* passes of the dispatcher that may overlap
  Take,          \* the limit of claimSendingCampaigns
  DispatchBatch, \* DISPATCH_BATCH
  Threshold,     \* RATE_LIMIT_BREAKER_THRESHOLD
  MaxMishaps     \* bound: errors thrown, and deaths of the API or the worker

Kind == {"NONE", "OPERATOR", "DRY_RUN", "CITY", "RELEASE", "INVITE"}

ASSUME CampaignsAssumption ==
  /\ Mixes \subseteq [Campaign -> Kind]
  /\ Person \subseteq Nat
  /\ IsFiniteSet(Campaign) /\ IsFiniteSet(Person)
  /\ Pages \in [Campaign -> Seq(SUBSET Person)] /\ Fickle \subseteq Person
  /\ {InviteLimit, Cost, Wallet, MaxMishaps} \subseteq Nat
  /\ {Take, DispatchBatch, Threshold} \subseteq Nat \ {0}

ASSUME ScoreAssumption ==
  /\ Fact \in [Person -> [interest : BOOLEAN, attendances : Nat, active : BOOLEAN,
                         trust : Int, invitedRecently : BOOLEAN, optOut : BOOLEAN]]
  /\ Weight \in [interestMatch : Int, categoryHistory : Int, recentActivity : Int,
                 trust : Int, recentInvitePenalty : Int]

VARIABLES
  kind,        \* what each campaign is
  status,      \* message_campaign.status, NONE before the row exists
  listed,      \* campaigns by created_at
  paused,      \* campaigns with paused_at
  rcpt,        \* message_recipient.status
  late,        \* rows written after their campaign left DRAFT (a history variable)
  invited,     \* event_invitation: the campaign and the status, per user
  author,      \* how far the creation of a campaign has come, 0 when nobody is at it
  basket,      \* the candidates a call of inviteTop has selected
  coins,       \* the host's balance
  announced,   \* cities with launch_announced_at
  desk,        \* what a pass of the dispatcher holds in memory
  sendJob,     \* the campaign-send job of a recipient
  sender,      \* what the sender of a recipient holds in memory
  streak,      \* rateLimitStreak, in the worker's memory
  botBlocked,  \* users with telegram_account.bot_blocked
  accepted,    \* messages Telegram accepted and the worker has learnt of
  mishaps

drafting == <<author, basket, announced>>
book == <<kind, listed, late>>
sending == <<desk, sendJob, sender, streak>>
outside == <<botBlocked, accepted, mishaps>>
campaignsVars == <<book, status, paused, rcpt, invited, coins, drafting, sending, outside>>

CampaignStatus ==
  {"NONE", "DRAFT", "QUEUED", "SENDING", "COMPLETED", "PARTIALLY_FAILED", "FAILED", "CANCELLED"}
Finished == {"COMPLETED", "PARTIALLY_FAILED", "FAILED"}
Cancellable == {"DRAFT", "QUEUED", "SENDING"}
DeliveryStatus == {"NONE", "PENDING", "SENT", "BLOCKED", "INVALID", "FAILED", "SKIPPED"}

Recipient == Campaign \X Person
NotInvited == [by |-> "nobody", status |-> "NONE"]
Nothing == {}

\* What the sender holds: the answer of Telegram, and whether it is written down.
Settling == {"SENT", "BLOCKED", "INVALID", "FAILED"}
Sender == [at : {"idle", "sending", "answered", "recorded"},
           answer : Settling \cup {"NONE", "RATE_LIMITED", "RETRY"}]
NoSend == [at |-> "idle", answer |-> "NONE"]
Sending == [at |-> "sending", answer |-> "NONE"]
Answered(a) == [at |-> "answered", answer |-> a]

\* What a pass holds: the campaigns it has claimed and not yet come to, and what it
\* has read of the one it is at.
Desk == [todo : SUBSET Campaign, at : {"clear", "enqueue", "count", "close"},
         on : Campaign \cup {"nobody"}, batch : SUBSET Person, verdict : Finished \cup {"NONE"}]
Clear == [todo |-> {}, at |-> "clear", on |-> "nobody", batch |-> {}, verdict |-> "NONE"]

\* The stages of createCampaign: a page each, then the update, then confirm.
Updating(c) == Len(Pages[c]) + 1
Confirming(c) == Len(Pages[c]) + 2

CampaignsInit ==
  /\ kind \in Mixes
  /\ status = [c \in Campaign |-> "NONE"] /\ paused = {}
  /\ rcpt = [r \in Recipient |-> "NONE"]
  /\ invited = [u \in Person |-> NotInvited]
  /\ author = [c \in Campaign |-> 0]
  /\ basket = [c \in Campaign |-> [i \in Call |-> Nothing]]
  /\ coins = Wallet /\ announced = {}
  /\ listed = <<>> /\ late = {}
  /\ desk = [p \in Tick |-> Clear] /\ streak = [c \in Campaign |-> 0]
  /\ sendJob = [r \in Recipient |-> NoJob]
  /\ sender = [r \in Recipient |-> NoSend]
  /\ botBlocked = {} /\ accepted = [r \in Recipient |-> 0]
  /\ mishaps = 0

CampaignsTypeOK ==
  /\ kind \in [Campaign -> Kind] /\ status \in [Campaign -> CampaignStatus]
  /\ paused \subseteq Campaign /\ announced \subseteq Campaign
  /\ listed \in Seq(Campaign) /\ late \subseteq Recipient
  /\ desk \in [Tick -> Desk]
  /\ rcpt \in [Recipient -> DeliveryStatus]
  /\ invited \in [Person -> [by : Campaign \cup {"nobody"}, status : DeliveryStatus]]
  /\ author \in [Campaign -> Nat] /\ \A c \in Campaign : author[c] <= Confirming(c)
  /\ basket \in [Campaign -> [Call -> SUBSET Person]]
  /\ coins \in 0 .. Wallet
  /\ sendJob \in [Recipient -> Job] /\ sender \in [Recipient -> Sender]
  /\ \A r \in Recipient : (sender[r].at # "idle") <=> (sendJob[r].state = "ACTIVE")
  /\ streak \in [Campaign -> 0 .. Threshold - 1]
  /\ botBlocked \subseteq Person /\ accepted \in [Recipient -> Nat]
  /\ mishaps \in 0 .. MaxMishaps

-----------------------------------------------------------------------------
(* Creating and confirming. *)

Of(c) == {u \in Person : rcpt[<<c, u>>] # "NONE"}
Pending(c) == {u \in Person : rcpt[<<c, u>>] = "PENDING"}

\* createCampaign of an operator, of the release announced at boot and of a city
\* that has just been opened.  A second call finds the row and changes nothing.
CreateCampaign(c) ==
  /\ kind[c] \in {"OPERATOR", "DRY_RUN", "CITY", "RELEASE"} /\ status[c] = "NONE"
  /\ status' = [status EXCEPT ![c] = "DRAFT"]
  /\ author' = [author EXCEPT ![c] = 1]
  /\ listed' = Append(listed, c)
  /\ UNCHANGED <<kind, late, paused, rcpt, invited, basket, coins, announced, sending, outside>>

\* materialise, one page; whereFor leaves out whoever has blocked the bot.
Page(c) == {<<c, u>> : u \in {v \in Pages[c][author[c]] \ botBlocked : rcpt[<<c, v>>] = "NONE"}}

Materialise(c) ==
  /\ author[c] \in 1 .. Len(Pages[c])
  /\ rcpt' = [r \in Recipient |-> IF r \in Page(c) THEN "PENDING" ELSE rcpt[r]]
  /\ late' = IF status[c] = "DRAFT" THEN late ELSE late \cup Page(c)
  /\ author' = [author EXCEPT ![c] = @ + 1]
  /\ UNCHANGED <<kind, listed, status, paused, invited, basket, coins, announced, sending, outside>>

\* The update behind it: a dry run is complete, a system campaign is confirmed next.
FinishCreation(c) ==
  /\ author[c] = Updating(c)
  /\ status' = [status EXCEPT ![c] = IF kind[c] = "DRY_RUN" THEN "COMPLETED" ELSE @]
  /\ author' = [author EXCEPT ![c] = IF kind[c] \in {"CITY", "RELEASE"} THEN Confirming(c) ELSE 0]
  /\ UNCHANGED <<book, paused, rcpt, invited, basket, coins, announced, sending, outside>>

\* confirm: DRAFT -> QUEUED, conditional.
Confirmed(c) == [status EXCEPT ![c] = IF @ = "DRAFT" THEN "QUEUED" ELSE @]
Announce(c) == IF kind[c] = "CITY" THEN announced \cup {c} ELSE announced

\* announce and announceCurrentRelease, after createCampaign.  A campaign that is
\* no longer a draft makes confirm throw, and the pass ends there.
ConfirmOwn(c) ==
  /\ author[c] = Confirming(c)
  /\ status' = Confirmed(c)
  /\ announced' = IF status[c] = "DRAFT" THEN Announce(c) ELSE announced
  /\ author' = [author EXCEPT ![c] = 0]
  /\ UNCHANGED <<book, paused, rcpt, invited, basket, coins, sending, outside>>

\* Another pass, overlapping or later, finds the campaign of the city and finishes
\* the claim.
FinishClaim(c) ==
  /\ kind[c] = "CITY" /\ status[c] # "NONE" /\ c \notin announced
  /\ status' = Confirmed(c)
  /\ announced' = Announce(c)
  /\ UNCHANGED <<book, paused, rcpt, invited, author, basket, coins, sending, outside>>

\* The second button, on any draft the panel lists.
ConfirmByOperator(c) ==
  /\ status[c] = "DRAFT" /\ kind[c] # "DRY_RUN"
  /\ status' = Confirmed(c)
  /\ UNCHANGED <<book, paused, rcpt, invited, drafting, coins, sending, outside>>

\* One transaction; event_invitation is left as it is.
Cancel(c) ==
  /\ status[c] \in Cancellable
  /\ rcpt' = [r \in Recipient |->
                IF r[1] = c /\ rcpt[r] = "PENDING" THEN "SKIPPED" ELSE rcpt[r]]
  /\ status' = [status EXCEPT ![c] = "CANCELLED"]
  /\ UNCHANGED <<book, paused, invited, drafting, coins, sending, outside>>

Resume(c) ==
  /\ c \in paused
  /\ paused' = paused \ {c}
  /\ UNCHANGED <<book, status, rcpt, invited, drafting, coins, sending, outside>>

-----------------------------------------------------------------------------
(* Paid invitations. *)

MinOf(a, b) == IF a < b THEN a ELSE b

\* scoreCandidate: the floor of each term, as the code takes it.  The pool is one
\* city, so the term for the same city is the same for everybody and left out.
Score(u) ==
  LET f == Fact[u] IN
    (IF f.interest THEN Weight.interestMatch ELSE 0)
    + (Weight.categoryHistory * MinOf(f.attendances, 3)) \div 3
    + (IF f.active THEN Weight.recentActivity ELSE 0)
    + (Weight.trust * (IF f.trust < 0 THEN 0 ELSE f.trust)) \div 100
    - (IF f.invitedRecently THEN Weight.recentInvitePenalty ELSE 0)

\* rankCandidates: best score first, the smaller id between equals.
Before(u, v) == Score(u) > Score(v) \/ (Score(u) = Score(v) /\ u < v)
Ranked(pool) ==
  {u \in pool : Cardinality({v \in pool : Before(v, u)}) < InviteLimit}

CandidatePool ==
  {u \in Person : invited[u] = NotInvited /\ u \notin botBlocked /\ ~ Fact[u].optOut}

\* inviteTop before its transaction: the replay, the selection.
SelectTop(c, i) ==
  /\ kind[c] = "INVITE" /\ status[c] = "NONE" /\ basket[c][i] = Nothing
  /\ Ranked(CandidatePool) # {}
  /\ basket' = [basket EXCEPT ![c][i] = Ranked(CandidatePool)]
  /\ UNCHANGED <<book, status, paused, rcpt, invited, author, coins, announced, sending, outside>>

\* A double tap that charges before it meets the unique key, outside a transaction.
PayTopTwice(c, i) ==
  /\ basket[c][i] # Nothing
  /\ basket' = [basket EXCEPT ![c][i] = Nothing]
  /\ coins' = IF coins >= Cost THEN coins - Cost ELSE coins
  /\ IF coins < Cost \/ status[c] # "NONE"
     THEN UNCHANGED <<status, listed, rcpt, invited>>
     ELSE /\ status' = [status EXCEPT ![c] = "QUEUED"]
          /\ listed' = Append(listed, c)
          /\ rcpt' = [r \in Recipient |->
                        IF r[1] = c /\ r[2] \in basket[c][i] THEN "PENDING" ELSE rcpt[r]]
          /\ invited' = [u \in Person |->
                           IF u \in basket[c][i] /\ invited[u] = NotInvited
                           THEN [by |-> c, status |-> "PENDING"] ELSE invited[u]]
  /\ UNCHANGED <<kind, late, paused, author, announced, sending, outside>>

\* The transaction: charge, campaign, invitations, recipients.  Without the coins,
\* or after another call with this key has committed, it is rolled back.
PayTop(c, i) ==
  /\ basket[c][i] # Nothing
  /\ basket' = [basket EXCEPT ![c][i] = Nothing]
  /\ IF coins < Cost \/ status[c] # "NONE"
     THEN UNCHANGED <<coins, status, listed, rcpt, invited>>
     ELSE /\ coins' = coins - Cost
          /\ status' = [status EXCEPT ![c] = "QUEUED"]
          /\ listed' = Append(listed, c)
          /\ rcpt' = [r \in Recipient |->
                        IF r[1] = c /\ r[2] \in basket[c][i] THEN "PENDING" ELSE rcpt[r]]
          /\ invited' = [u \in Person |->
                           IF u \in basket[c][i] /\ invited[u] = NotInvited
                           THEN [by |-> c, status |-> "PENDING"] ELSE invited[u]]
  /\ UNCHANGED <<kind, late, paused, author, announced, sending, outside>>

-----------------------------------------------------------------------------
(* The dispatcher and the sender. *)

Open == {c \in Campaign : status[c] \in {"QUEUED", "SENDING"}} \ paused
Older(d, c) ==
  \E k \in DOMAIN listed, l \in DOMAIN listed : k < l /\ listed[k] = d /\ listed[l] = c
Oldest(S) == {c \in S : Cardinality({d \in S : Older(d, c)}) < Take}

\* A dispatcher that works a campaign only in the pass that starts it.
ClaimOnce(p) ==
  /\ desk[p] = Clear /\ Oldest({c \in Open : status[c] = "QUEUED"}) # {}
  /\ status' = [c \in Campaign |-> IF status[c] = "QUEUED" THEN "SENDING" ELSE status[c]]
  /\ desk' = [desk EXCEPT ![p].todo = Oldest({c \in Open : status[c] = "QUEUED"})]
  /\ UNCHANGED <<book, paused, rcpt, invited, drafting, coins, sendJob, sender, streak, outside>>

\* claimSendingCampaigns: all that is queued is started, the oldest are taken.
ClaimSending(p) ==
  /\ desk[p] = Clear /\ Open # {}
  /\ status' = [c \in Campaign |-> IF status[c] = "QUEUED" THEN "SENDING" ELSE status[c]]
  /\ desk' = [desk EXCEPT ![p].todo = Oldest(Open)]
  /\ UNCHANGED <<book, paused, rcpt, invited, drafting, coins, sendJob, sender, streak, outside>>

\* pendingDeliveries: the first recipients by id.
Batch(c) == {u \in Pending(c) : Cardinality({v \in Pending(c) : v < u}) < DispatchBatch}

\* finalizeIfDone: how it went, from the counts.
Verdict(c) ==
  LET is(s) == {u \in Person : rcpt[<<c, u>>] = s}
  IN IF is("SENT") = {} /\ Of(c) # {} THEN "FAILED"
     ELSE IF is("FAILED") \cup is("INVALID") # {} THEN "PARTIALLY_FAILED"
     ELSE "COMPLETED"

\* The next campaign of a pass is the oldest it has claimed.
TurnOf(p, c) ==
  /\ desk[p].at = "clear" /\ c \in desk[p].todo
  /\ \A d \in desk[p].todo : ~ Older(d, c)

\* A pass that closes a campaign all of whose batch already has jobs.
ReadBatchAndClose(p, c) ==
  /\ TurnOf(p, c)
  /\ desk' = [desk EXCEPT ![p] =
                 [todo |-> @.todo \ {c}, on |-> c, batch |-> Batch(c),
                  at |-> IF \A u \in Batch(c) : sendJob[<<c, u>>].state # "NONE"
                         THEN "close" ELSE "enqueue",
                  verdict |-> Verdict(c)]]
  /\ UNCHANGED <<book, status, paused, rcpt, invited, drafting, coins, sendJob, sender, streak, outside>>

ReadBatch(p, c) ==
  /\ TurnOf(p, c)
  /\ desk' = [desk EXCEPT ![p] =
                 [todo |-> @.todo \ {c}, on |-> c, batch |-> Batch(c), verdict |-> "NONE",
                  at |-> IF Batch(c) = {} THEN "count" ELSE "enqueue"]]
  /\ UNCHANGED <<book, status, paused, rcpt, invited, drafting, coins, sendJob, sender, streak, outside>>

\* A pass goes on to the next campaign, and its job ends after the last.
Done(d) == [Clear EXCEPT !.todo = d.todo]

\* enqueue, one recipient of the batch after the other.
EnqueueNext(p) ==
  /\ desk[p].at = "enqueue"
  /\ \E u \in desk[p].batch :
       /\ \A v \in desk[p].batch : u <= v
       /\ sendJob' = [sendJob EXCEPT ![<<desk[p].on, u>>] = Added(@)]
       /\ desk' = [desk EXCEPT ![p] = IF @.batch = {u} THEN Done(@)
                                      ELSE [@ EXCEPT !.batch = desk[p].batch \ {u}]]
  /\ UNCHANGED <<book, status, paused, rcpt, invited, drafting, coins, sender, streak, outside>>

\* finalizeIfDone, its first statement: countsFor.
Count(p) ==
  /\ desk[p].at = "count"
  /\ desk' = [desk EXCEPT ![p] = IF Pending(desk[p].on) # {} THEN Done(@)
                                 ELSE [@ EXCEPT !.at = "close", !.verdict = Verdict(desk[p].on)]]
  /\ UNCHANGED <<book, status, paused, rcpt, invited, drafting, coins, sendJob, sender, streak, outside>>

\* Its second: the update, conditional on SENDING and on nothing else.
Close(p) ==
  /\ desk[p].at = "close"
  /\ status' = [status EXCEPT ![desk[p].on] = IF @ = "SENDING" THEN desk[p].verdict ELSE @]
  /\ desk' = [desk EXCEPT ![p] = Done(@)]
  /\ UNCHANGED <<book, paused, rcpt, invited, drafting, coins, sendJob, sender, streak, outside>>

\* loadDelivery finds nothing for a settled recipient or a campaign that does not send.
Deliverable(r) == rcpt[r] = "PENDING" /\ r[1] \notin paused /\ status[r[1]] = "SENDING"

LoadDelivery(r) ==
  /\ sendJob[r].state = "WAITING"
  /\ IF Deliverable(r)
     THEN /\ sendJob' = [sendJob EXCEPT ![r] = Taken(@)]
          /\ sender' = [sender EXCEPT ![r] =
                        IF r[2] \in botBlocked THEN Answered("INVALID") ELSE Sending]
     ELSE /\ sendJob' = [sendJob EXCEPT ![r] = Completed(@)]
          /\ UNCHANGED sender
  /\ UNCHANGED <<book, status, paused, rcpt, invited, drafting, coins, desk, streak, outside>>

SendCopy(r) ==
  /\ sender[r].at = "sending"
  /\ \E a \in {"SENT", "BLOCKED", "RATE_LIMITED", "RETRY"} :
       /\ sender' = [sender EXCEPT ![r] =
                        Answered(IF a = "RETRY" /\ LastTry(sendJob[r]) THEN "FAILED" ELSE a)]
       /\ accepted' = [accepted EXCEPT ![r] = IF a = "SENT" THEN @ + 1 ELSE @]
       /\ streak' = IF a = "SENT" THEN [streak EXCEPT ![r[1]] = 0] ELSE streak
  /\ UNCHANGED <<book, status, paused, rcpt, invited, drafting, coins, desk, sendJob, botBlocked, mishaps>>

\* recordDelivery: conditional on PENDING, so that an outcome is written once.
RecordDelivery(r) ==
  /\ sender[r].at = "answered" /\ sender[r].answer \in Settling
  /\ rcpt' = [rcpt EXCEPT ![r] = IF @ = "PENDING" THEN sender[r].answer ELSE @]
  /\ sender' = [sender EXCEPT ![r].at = "recorded"]
  /\ UNCHANGED <<book, status, paused, invited, drafting, coins, desk, sendJob, streak, outside>>

\* recordInvitationOutcome, a statement of its own.
RecordInvitation(r) ==
  /\ sender[r].at = "recorded"
  /\ invited' = [invited EXCEPT ![r[2]] =
                   IF @.by = r[1] /\ @.status = "PENDING"
                   THEN [@ EXCEPT !.status = sender[r].answer] ELSE @]
  /\ sender' = [sender EXCEPT ![r] = NoSend]
  /\ sendJob' = [sendJob EXCEPT ![r] = Completed(@)]
  /\ UNCHANGED <<book, status, paused, rcpt, drafting, coins, desk, streak, outside>>

\* A retry that is not the last, and any rate limit: recordAttempt and throw.
Throw(r) ==
  LET c == r[1]
      n == streak[c] + 1
  IN /\ sender[r].at = "answered" /\ sender[r].answer \in {"RETRY", "RATE_LIMITED"}
     /\ IF sender[r].answer = "RETRY" THEN UNCHANGED <<streak, paused>>
        ELSE /\ streak' = [streak EXCEPT ![c] = IF n < Threshold THEN n ELSE 0]
             /\ paused' = IF n < Threshold THEN paused ELSE paused \cup {c}
     /\ sendJob' = [sendJob EXCEPT ![r] = Thrown(@)]
     /\ sender' = [sender EXCEPT ![r] = NoSend]
     /\ UNCHANGED <<book, status, rcpt, invited, drafting, coins, desk, outside>>

ForgetSendJob(r) ==
  /\ sendJob[r].state = "DONE"
  /\ sendJob' = [sendJob EXCEPT ![r] = Forgotten(@)]
  /\ UNCHANGED <<book, status, paused, rcpt, invited, drafting, coins, desk, sender, streak, outside>>

-----------------------------------------------------------------------------
(* People and processes. *)

MarkBlocked(u) ==
  /\ u \notin botBlocked
  /\ botBlocked' = botBlocked \cup {u}
  /\ UNCHANGED <<book, status, paused, rcpt, invited, drafting, coins, sending, accepted, mishaps>>

ArriveByTelegram(u) ==
  /\ u \in botBlocked
  /\ botBlocked' = botBlocked \ {u}
  /\ UNCHANGED <<book, status, paused, rcpt, invited, drafting, coins, sending, accepted, mishaps>>

System == {c \in Campaign : kind[c] \in {"CITY", "RELEASE"}}

Mishap == mishaps < MaxMishaps /\ mishaps' = mishaps + 1

\* A copy that went out and is not recorded is one the worker does not know of.
Unrecorded(r) == IF sender[r] = Answered("SENT") THEN accepted[r] - 1 ELSE accepted[r]

\* A statement throws and the process lives on: of a creation, of the dispatcher, of
\* a sender, whose job is tried again.
CreationFails(c) ==
  /\ Mishap /\ author[c] # 0
  /\ author' = [author EXCEPT ![c] = 0]
  /\ UNCHANGED <<book, status, paused, rcpt, invited, basket, coins, announced, sending, botBlocked, accepted>>

DispatchFails(p) ==
  /\ Mishap /\ desk[p] # Clear
  /\ desk' = [desk EXCEPT ![p] = Clear]
  /\ UNCHANGED <<book, status, paused, rcpt, invited, drafting, coins, sendJob, sender, streak, botBlocked, accepted>>

SendFails(r) ==
  /\ Mishap /\ sendJob[r].state \in {"WAITING", "ACTIVE"}
  /\ sendJob' = [sendJob EXCEPT ![r] = Thrown(@)]
  /\ sender' = [sender EXCEPT ![r] = NoSend]
  /\ accepted' = [accepted EXCEPT ![r] = Unrecorded(r)]
  /\ UNCHANGED <<book, status, paused, rcpt, invited, drafting, coins, desk, streak, botBlocked>>

CrashWorker ==
  /\ Mishap
  /\ author' = [c \in Campaign |-> IF c \in System THEN 0 ELSE author[c]]
  /\ desk' = [p \in Tick |-> Clear]
  /\ sendJob' = [r \in Recipient |-> Stalled(sendJob[r])]
  /\ sender' = [r \in Recipient |-> NoSend]
  /\ streak' = [c \in Campaign |-> 0]
  /\ accepted' = [r \in Recipient |-> Unrecorded(r)]
  /\ UNCHANGED <<book, status, paused, rcpt, invited, basket, coins, announced, botBlocked>>

CrashApi ==
  /\ Mishap
  /\ author' = [c \in Campaign |-> IF c \in System THEN author[c] ELSE 0]
  /\ basket' = [c \in Campaign |-> [i \in Call |-> Nothing]]
  /\ UNCHANGED <<book, status, paused, rcpt, invited, coins, announced, sending, botBlocked, accepted>>

Create(c) == Materialise(c) \/ FinishCreation(c) \/ ConfirmOwn(c) \/ CreationFails(c)
Work(p) == (\E c \in Campaign : ReadBatch(p, c)) \/ EnqueueNext(p) \/ Count(p) \/ Close(p)
SenderStep(r) ==
  LoadDelivery(r) \/ SendCopy(r) \/ RecordDelivery(r) \/ RecordInvitation(r) \/ Throw(r)

CampaignsNext ==
  \/ \E c \in Campaign : CreateCampaign(c) \/ Create(c) \/ FinishClaim(c) \/ ConfirmByOperator(c)
                         \/ Cancel(c) \/ Resume(c)
  \/ \E c \in Campaign, i \in Call : SelectTop(c, i) \/ PayTop(c, i)
  \/ \E p \in Tick : ClaimSending(p) \/ Work(p) \/ DispatchFails(p)
  \/ \E r \in Recipient : SenderStep(r) \/ SendFails(r) \/ ForgetSendJob(r)
  \/ \E u \in Fickle : MarkBlocked(u) \/ ArriveByTelegram(u)
  \/ CrashWorker \/ CrashApi

CampaignsSpec == CampaignsInit /\ [][CampaignsNext]_campaignsVars

\* The dispatcher is a repeatable job, a pass that has begun goes on unless it throws
\* or dies, BullMQ hands out waiting jobs and drops completed ones; operators owe
\* nothing.
CampaignsFairness ==
  /\ WF_campaignsVars(\E p \in Tick : ClaimSending(p))
  /\ \A p \in Tick : WF_campaignsVars(Work(p))
  /\ \A r \in Recipient : WF_campaignsVars(SenderStep(r)) /\ WF_campaignsVars(ForgetSendJob(r))

FairCampaignsSpec == CampaignsSpec /\ CampaignsFairness

-----------------------------------------------------------------------------
(* Properties. *)

\* "did that broadcast work? should be answerable from the status alone": a campaign
\* that finished left nobody pending, whatever was cancelled, paused, retried, thrown
\* or lost on the way and however the passes overlap, but for people whose rows were
\* written after somebody had confirmed the draft; and nobody got a second copy that
\* the worker knew of.
ReportIsHonest ==
  \A c \in Campaign :
    /\ status[c] \in Finished /\ kind[c] # "DRY_RUN" => \A u \in Pending(c) : <<c, u>> \in late
    /\ \A u \in Person : accepted[<<c, u>>] <= 1

\* "A dry run never will be sent" and a host pays once for each purchase that
\* reached somebody, however the calls overlap or die.
PaidAndMeant ==
  /\ \A c \in Campaign : kind[c] = "DRY_RUN" => \A u \in Person : sendJob[<<c, u>>] = NoJob
  /\ coins = Wallet - Cost * Cardinality({c \in Campaign : kind[c] = "INVITE" /\ Of(c) # {}})

Stuck(c) == \E u \in Pending(c) : sendJob[<<c, u>>].state = "FAILED"

\* As many older campaigns as one pass takes, none of which comes to an end.
Crowded(c) ==
  Cardinality({d \in Campaign : Older(d, c) /\ status[d] = "SENDING"
                                /\ (Stuck(d) \/ d \in paused)}) >= Take

\* A campaign that has been confirmed comes to an end unless it is paused.  There are
\* two exceptions.  A recipient whose last attempt was rate limited or threw has no
\* job any more, the row stays PENDING, and the campaign with it, although "a send
\* that has run out of attempts is a failure this recipient keeps"
\* (processors.service.ts:1088).  And since a pass takes the oldest few, so many of
\* those starve every later one.
CampaignsEnd ==
  \A c \in Campaign :
    status[c] \in {"QUEUED", "SENDING"}
      ~> \/ status[c] \notin {"QUEUED", "SENDING"}
         \/ c \in paused \/ Stuck(c) \/ Crowded(c)
=============================================================================
