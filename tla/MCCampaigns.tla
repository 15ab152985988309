---------------------------- MODULE MCCampaigns ----------------------------
(* Small instances of Campaigns for TLC. *)
EXTENDS Campaigns, TLC

CONSTANTS c1, c2, tap1, tap2, t1

\* One campaign of each kind.
Campaigns2 == {c1, c2}
First(k) == (c1 :> k) @@ (c2 :> "NONE")
Second(k) == (c1 :> "NONE") @@ (c2 :> k)
AllMixes == {First("OPERATOR"), First("DRY_RUN"), First("INVITE"),
             Second("CITY"), Second("RELEASE")}
Users2 == {1, 2}
Audience == (c1 :> <<{1}, {2}>>) @@ (c2 :> <<{2}>>)
Fickle2 == {2}
Taps == {tap1, tap2}
OneTick == {t1}

\* The second user has the better score.
Facts == [u \in Users2 |->
  [interest |-> u = 2, attendances |-> 4 * u, active |-> TRUE, trust |-> 60 - 90 * (u - 1),
   invitedRecently |-> u = 1, optOut |-> FALSE]]
Weights == [interestMatch |-> 30, categoryHistory |-> 20, recentActivity |-> 10,
            trust |-> 20, recentInvitePenalty |-> 25]

\* A broadcast of long ago that cannot end: the last attempt for its one recipient was
\* rate limited, which left the row PENDING and the job failed.  A purchase meets it.
StuckInit ==
  /\ kind = (c1 :> "OPERATOR") @@ (c2 :> "INVITE")
  /\ status = (c1 :> "SENDING") @@ (c2 :> "NONE") /\ listed = <<c1>>
  /\ rcpt = [r \in Recipient |-> IF r = <<c1, 1>> THEN "PENDING" ELSE "NONE"]
  /\ sendJob = [r \in Recipient |->
                   IF r = <<c1, 1>> THEN [state |-> "FAILED", tries |-> Attempts] ELSE NoJob]
  /\ paused = {} /\ late = {} /\ announced = {} /\ botBlocked = {}
  /\ invited = [u \in Person |-> NotInvited]
  /\ author = [c \in Campaign |-> 0]
  /\ basket = [c \in Campaign |-> [i \in Call |-> Nothing]]
  /\ coins = Wallet /\ mishaps = 0
  /\ desk = [p \in Tick |-> Clear] /\ streak = [c \in Campaign |-> 0]
  /\ sender = [r \in Recipient |-> NoSend] /\ accepted = [r \in Recipient |-> 0]

MCSpec == (CampaignsInit \/ StuckInit) /\ [][CampaignsNext]_campaignsVars /\ CampaignsFairness
=============================================================================
