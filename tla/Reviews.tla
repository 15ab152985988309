------------------------------ MODULE Reviews ------------------------------
(***************************************************************************)
(* Blind reviews (ReviewService).  A pair belongs to one participation and *)
(* has a host's and a guest's review; both stay hidden until both are      *)
(* written or the deadline has passed.                                     *)
(*                                                                         *)
(* Transactions are READ COMMITTED and read the pair without locking it.   *)
(* submit and settleOne have three steps: the read (LoadWritable,          *)
(* SettleOne), the update of the pair, which locks its row and is followed *)
(* by the read of the reviews to reveal (Write), and the commit.  An edit  *)
(* has two, and locks nothing but the review.  submit has one more before: *)
(* it reads the clock before its transaction begins (Submit).              *)
(***************************************************************************)
EXTENDS Integers

CONSTANTS
  Pair,          \* review_pair rows
  Person,        \* users
  Writer,        \* who reviews on each side of a pair
  Caller,        \* connections that serve submit and edit
  NoPair,        \* no review_pair row
  Sweeper,       \* the worker's connection
  Rating,        \* ratings
  RatingTrust,   \* trust.review_rating_<n>
  Reward,        \* economy.review_reward_coins
  RewardCap,     \* economy.review_reward_cap
  PartialTrust   \* review.partial_reveal_affects_trust

Side == {"HOST", "GUEST"}

ASSUME WriterAssumption == Writer \in [Pair -> [Side -> Person]]
ASSUME ProcessAssumption == Sweeper \notin Caller
ASSUME RatingAssumption ==
  Rating \subseteq 1 .. 5 /\ RatingTrust \in [Rating -> Int]
ASSUME SettingsAssumption ==
  Reward \in Nat /\ RewardCap \in Nat /\ PartialTrust \in BOOLEAN

VARIABLES
  window,  \* the clock against opens_at and deadline_at of each pair
  status,  \* review_pair.status, NONE before the pair is opened
  review,  \* the review rows
  trust,   \* the rating whose trust delta a review has moved, 0 for none
  earned,  \* REVIEW_REWARD coins in a person's ledger, all within earning_cap_days
  tx       \* the transaction of each connection

vars == <<window, status, review, trust, earned, tx>>

Process == Caller \cup {Sweeper}

PairStatus == {"PENDING", "PARTIAL", "REVEALED", "EXPIRED_PARTIAL", "EXPIRED_EMPTY"}
Terminal == {"REVEALED", "EXPIRED_PARTIAL", "EXPIRED_EMPTY"}
Pending == {"PENDING", "PARTIAL"}

\* What judge makes of a comment: a blocked one stays hidden.
Text == [rating : Rating, verdict : {"APPROVED", "PENDING"}]

NoReview == [status |-> "NONE", text |-> <<>>, editable |-> FALSE]
Review == [status : {"SUBMITTED", "REVEALED"}, text : Text, editable : BOOLEAN]

Written(x, s) == review[x][s] # NoReview

\* A transaction: the pair and side it is about, what it writes, the status it
\* read, the ratings it will reveal, the coins it will pay.
Transaction ==
  [op : {"none", "submit", "settle", "edit"},
   stage : {"none", "called", "loaded", "written"},
   pair : Pair \cup {NoPair}, side : Side \cup {"none"}, text : Text \cup {<<>>},
   saw : PairStatus \cup {"NONE"}, found : [Side -> 0 .. 5], coins : 0 .. Reward]

NoneFound == [s \in Side |-> 0]

Idle ==
  [op |-> "none", stage |-> "none", pair |-> NoPair, side |-> "none", text |-> <<>>,
   saw |-> "NONE", found |-> NoneFound, coins |-> 0]

\* REVEALED_PAIR_STATUSES
Shown == {"REVEALED", "EXPIRED_PARTIAL"}

\* visibleAbout
Visible(x, s) ==
  /\ review[x][s].status = "REVEALED" /\ review[x][s].text.verdict = "APPROVED"
  /\ status[x] \in Shown

Other(s) == IF s = "HOST" THEN "GUEST" ELSE "HOST"

\* Deviation: the update of the pair waits for nobody.
PairRead(x, p) == status[x] # "NONE"

\* The update of the pair waits for the one that holds its row.
PairFree(x, p) ==
  \A q \in Process \ {p} : ~ (tx[q].stage = "written" /\ tx[q].pair = x)

-----------------------------------------------------------------------------

Init ==
  /\ window = [x \in Pair |-> "before"]
  /\ status = [x \in Pair |-> "NONE"]
  /\ review = [x \in Pair |-> [s \in Side |-> NoReview]]
  /\ trust = [x \in Pair |-> [s \in Side |-> 0]]
  /\ earned = [u \in Person |-> 0]
  /\ tx = [p \in Process |-> Idle]

\* openForParticipant, called by the settlement of attendance.
OpenForParticipant(x) ==
  /\ status[x] = "NONE"
  /\ status' = [status EXCEPT ![x] = "PENDING"]
  /\ UNCHANGED <<window, review, trust, earned, tx>>

\* opens_at, then deadline_at is reached.
Tick(x) ==
  /\ window[x] # "closed"
  /\ window' = [window EXCEPT ![x] = IF @ = "before" THEN "open" ELSE "closed"]
  /\ UNCHANGED <<status, review, trust, earned, tx>>

\* edit_deadline_at is reached.
EditWindowPasses(x, s) ==
  /\ review[x][s].editable
  /\ review' = [review EXCEPT ![x][s].editable = FALSE]
  /\ UNCHANGED <<window, status, trust, earned, tx>>

Continue(p, record) == tx' = [tx EXCEPT ![p] = record]

\* submit: the clock is read here, and here only.
Submit(p, x, s, text) ==
  /\ tx[p] = Idle
  /\ window[x] = "open"
  /\ Continue(p, [Idle EXCEPT !.op = "submit", !.stage = "called", !.pair = x,
                             !.side = s, !.text = text])
  /\ UNCHANGED <<window, status, review, trust, earned>>

\* loadWritable; a pair that is missing or settled is refused (Abort).
LoadWritable(p) ==
  /\ tx[p].stage = "called"
  /\ status[tx[p].pair] \in Pending
  /\ Continue(p, [tx[p] EXCEPT !.stage = "loaded", !.saw = status[tx[p].pair]])
  /\ UNCHANGED <<window, status, review, trust, earned>>

\* Deviation: the sweep visits pairs nobody has written for only.
DueEmpty(x) == window[x] = "closed" /\ status[x] = "PENDING"

\* settleExpired: the pairs whose deadline has passed.
Due(x) == window[x] = "closed" /\ status[x] \in Pending

\* settleOne: "re-read under the transaction".
SettleOne(x) ==
  /\ tx[Sweeper] = Idle
  /\ Due(x)
  /\ Continue(Sweeper, [Idle EXCEPT !.op = "settle", !.stage = "loaded", !.pair = x,
                                   !.saw = status[x]])
  /\ UNCHANGED <<window, status, review, trust, earned>>

\* Deviation: the first review reveals the pair.
NextAtOnce(t) ==
  IF t.op = "settle"
  THEN IF t.saw = "PARTIAL" THEN "EXPIRED_PARTIAL" ELSE "EXPIRED_EMPTY"
  ELSE "REVEALED"

\* The status a transaction writes, from the one it read.
NextStatus(t) ==
  IF t.op = "settle"
  THEN IF t.saw = "PARTIAL" THEN "EXPIRED_PARTIAL" ELSE "EXPIRED_EMPTY"
  ELSE IF t.saw = "PENDING" THEN "PARTIAL" ELSE "REVEALED"

\* The rows a transaction sees: its own review is one of them.
Rows(t) ==
  IF t.op = "submit"
  THEN [review[t.pair] EXCEPT ![t.side] =
          [status |-> "SUBMITTED", text |-> t.text, editable |-> TRUE]]
  ELSE review[t.pair]

\* Deviation: the reviews to reveal are read before one's own is inserted.
FoundBefore(t) ==
  [s \in Side |-> IF NextStatus(t) \in Shown /\ review[t.pair][s].status = "SUBMITTED"
                  THEN review[t.pair][s].text.rating ELSE 0]

\* revealPair: the ratings of the reviews it is going to reveal, 0 for the rest.
Found(t) ==
  [s \in Side |-> IF NextStatus(t) \in Shown /\ Rows(t)[s].status = "SUBMITTED"
                  THEN Rows(t)[s].text.rating ELSE 0]

\* rewardFor: what is left of the cap.
RewardFor(person) ==
  LET left == RewardCap - earned[person]
  IN IF RewardCap = 0 \/ Reward <= left THEN Reward
     ELSE IF left < 0 THEN 0 ELSE left

\* The review is inserted (a second one of the same writer is refused), the pair
\* updated, the reward computed, the reviews to reveal read.
Write(p) ==
  LET t == tx[p] IN
  /\ t.op \in {"submit", "settle"} /\ t.stage = "loaded"
  /\ PairFree(t.pair, p)
  /\ t.op = "submit" => ~ Written(t.pair, t.side)
  /\ Continue(p, [t EXCEPT !.stage = "written", !.found = Found(t),
                          !.coins = IF t.op = "submit"
                                    THEN RewardFor(Writer[t.pair][t.side]) ELSE 0])
  /\ UNCHANGED <<window, status, review, trust, earned>>

\* Deviation: a rating counts however the pair was revealed.
AlwaysAffectsTrust(t) == NextStatus(t) \in Shown

\* "Somebody who never reviewed cannot have their score moved."
AffectsTrust(t) == NextStatus(t) = "REVEALED" \/ PartialTrust

\* What revealPair makes of a review: the rating and comment are those of the row
\* as it is now, the status is overwritten, and nobody asks for its edit deadline
\* any more.
Revealed(t, s) ==
  IF t.found[s] = 0 THEN Rows(t)[s]
  ELSE [Rows(t)[s] EXCEPT !.status = "REVEALED", !.editable = FALSE]

\* applyRatingTrust: the rating that was read, once a review.
Trusted(t, s) ==
  IF /\ t.found[s] # 0 /\ AffectsTrust(t)
     /\ trust[t.pair][s] = 0 /\ RatingTrust[t.found[s]] # 0
  THEN t.found[s] ELSE trust[t.pair][s]

Commit(p) ==
  LET t == tx[p] IN
  /\ t.stage = "written"
  /\ status' = [status EXCEPT ![t.pair] = NextStatus(t)]
  /\ review' = [review EXCEPT ![t.pair] = [s \in Side |-> Revealed(t, s)]]
  /\ trust' = [trust EXCEPT ![t.pair] = [s \in Side |-> Trusted(t, s)]]
  /\ earned' = IF t.op = "submit"
               THEN [earned EXCEPT ![Writer[t.pair][t.side]] = @ + t.coins] ELSE earned
  /\ Continue(p, Idle)
  /\ UNCHANGED window

\* edit reads the review; nothing of the pair is read or locked.
ReadForEdit(p, x, s, text) ==
  /\ tx[p] = Idle
  /\ review[x][s].status = "SUBMITTED" /\ review[x][s].editable
  /\ Continue(p, [Idle EXCEPT !.op = "edit", !.stage = "loaded", !.pair = x,
                             !.side = s, !.text = text])
  /\ UNCHANGED <<window, status, review, trust, earned>>

\* The row is updated by id.
Edit(p) ==
  LET t == tx[p] IN
  /\ t.op = "edit"
  /\ review' = [review EXCEPT ![t.pair][t.side].text = t.text]
  /\ Continue(p, Idle)
  /\ UNCHANGED <<window, status, trust, earned>>

\* A refusal, an error or a death: the transaction leaves nothing.
Abort(p) ==
  /\ tx[p] # Idle
  /\ Continue(p, Idle)
  /\ UNCHANGED <<window, status, review, trust, earned>>

Next ==
  \/ \E x \in Pair : OpenForParticipant(x) \/ Tick(x) \/ SettleOne(x)
  \/ \E x \in Pair, s \in Side : EditWindowPasses(x, s)
  \/ \E p \in Caller, x \in Pair, s \in Side, text \in Text :
       Submit(p, x, s, text) \/ ReadForEdit(p, x, s, text)
  \/ \E p \in Process : LoadWritable(p) \/ Write(p) \/ Commit(p) \/ Edit(p) \/ Abort(p)

\* The hourly job comes back to a pair until it is settled, whatever fails in
\* between; the database ends every transaction one way or the other.
Fairness ==
  /\ \A x \in Pair : WF_vars(SettleOne(x))
  /\ SF_vars(Write(Sweeper)) /\ SF_vars(Commit(Sweeper))
  /\ \A p \in Process : WF_vars(Commit(p) \/ Abort(p))

Spec == Init /\ [][Next]_vars /\ Fairness

-----------------------------------------------------------------------------
(* Properties *)

\* Rows and transactions keep their types, a pair has no review before it exists,
\* and one transaction at a time holds its row.
TypeOK ==
  /\ window \in [Pair -> {"before", "open", "closed"}]
  /\ status \in [Pair -> PairStatus \cup {"NONE"}]
  /\ review \in [Pair -> [Side -> Review \cup {NoReview}]]
  /\ trust \in [Pair -> [Side -> 0 .. 5]]
  /\ earned \in [Person -> Nat]
  /\ tx \in [Process -> Transaction]
  /\ \A x \in Pair : status[x] = "NONE" => \A s \in Side : ~ Written(x, s)
  /\ \A p, q \in Process :
       tx[p].stage = "written" /\ tx[q].stage = "written" /\ tx[p].pair = tx[q].pair => p = q

\* Invariant 8: while somebody may still write, they cannot read what the other
\* side wrote, whatever submissions, edits and sweeps overlap.
Blind ==
  \A x \in Pair, s \in Side :
    Visible(x, s) => window[x] = "closed" \/ Written(x, Other(s))

\* D7a: nobody's trust is moved by somebody they have not reviewed themselves,
\* unless review.partial_reveal_affects_trust has been switched on.
TrustIsMutual ==
  ~ PartialTrust =>
    \A x \in Pair, s \in Side : trust[x][s] # 0 => \A r \in Side : Written(x, r)

\* "Both sides become visible at the same instant": a revealed pair hides neither
\* of its reviews.
RevealedTogether ==
  \A x \in Pair : status[x] = "REVEALED" =>
    \A s \in Side : review[x][s].status = "REVEALED"

\* A pair past its deadline ends, and from some moment on stays, in a terminal
\* status, whichever submissions arrived just before it.
EveryPairEnds ==
  \A x \in Pair :
    <>[](window[x] = "closed" /\ status[x] # "NONE" => status[x] \in Terminal)
=============================================================================
