--------------------------- MODULE Reviews_proofs ---------------------------
(***************************************************************************)
(* What holds of reviews for every number of pairs and connections, every  *)
(* rating scale and every setting: blind until both have written or the    *)
(* deadline has passed, mutual trust, and no half of a revealed pair kept  *)
(* back, although submit and settleOne decide from a pair they have not    *)
(* locked.                                                                 *)
(***************************************************************************)
EXTENDS Reviews, TLAPS

Writing == {"submit", "settle"}

\* A transaction is about a real pair; the sweep's pair is past its deadline, an
\* edit's review exists.
RealTx(t) ==
  /\ (t.op = "none") <=> (t.stage = "none")
  /\ t.op # "none" => t.pair \in Pair
  /\ t.op \in {"submit", "edit"} => t.side \in Side /\ t.text \in Text
  /\ t.op = "edit" => t.stage = "loaded" /\ Written(t.pair, t.side)
  /\ t.op = "settle" => window[t.pair] = "closed"
  /\ t.stage = "called" => t.op = "submit"
  /\ t.stage = "written" => t.op \in Writing

\* What was read of the pair, however stale, remains true enough: the pair exists,
\* and one that was PARTIAL has a review, for reviews are never deleted.
SawThePair(t) ==
  t.op \in Writing /\ t.stage \in {"loaded", "written"} =>
    /\ t.saw \in Pending
    /\ status[t.pair] # "NONE"
    /\ t.saw = "PARTIAL" => \E s \in Side : Written(t.pair, s)

\* Who holds the pair's row has found nobody's review in the way of their own, and
\* has found every review that is not revealed yet.
HoldsTheRow(t) ==
  t.stage = "written" =>
    /\ t.op = "submit" => ~ Written(t.pair, t.side)
    /\ \A s \in Side : t.found[s] # 0 => NextStatus(t) \in Shown /\ Rows(t)[s] # NoReview
    /\ NextStatus(t) = "REVEALED" =>
         \A s \in Side : t.found[s] # 0 \/ Rows(t)[s].status = "REVEALED"

\* A pair is PARTIAL because somebody has written.
PartialIsWritten ==
  \A x \in Pair : status[x] = "PARTIAL" => \E s \in Side : Written(x, s)

\* Nothing is revealed to somebody who may still write.
RevealedInTime ==
  \A x \in Pair, s \in Side :
    review[x][s].status = "REVEALED" =>
      window[x] = "closed" \/ \A r \in Side : Written(x, r)

IInv == /\ TypeOK
        /\ \A p \in Process : RealTx(tx[p]) /\ SawThePair(tx[p]) /\ HoldsTheRow(tx[p])
        /\ PartialIsWritten /\ RevealedInTime
        /\ TrustIsMutual /\ RevealedTogether
-----------------------------------------------------------------------------
(***************************************************************************)
(* Rows and what a transaction makes of them.                              *)
(***************************************************************************)
LEMMA NoReviewIsNone == NoReview \notin Review /\ NoReview.status = "NONE" /\ ~ NoReview.editable
  BY DEF NoReview, Review

LEMMA IdleIsIdle ==
  /\ Idle \in Transaction
  /\ RealTx(Idle) /\ SawThePair(Idle) /\ HoldsTheRow(Idle)
  /\ Idle.stage = "none" /\ Idle.op = "none"
  <1>1. Idle.stage = "none" /\ Idle.op = "none"
    BY DEF Idle
  <1>2. 0 \in 0 .. 5 /\ 0 \in 0 .. Reward
    BY SettingsAssumption
  <1>3. Idle \in Transaction
    BY <1>2 DEF Idle, Transaction, NoneFound
  <1> QED BY <1>1, <1>3 DEF RealTx, SawThePair, HoldsTheRow, Writing

\* The rows a transaction sees: the table's, and its own.
LEMMA RowsFacts ==
  ASSUME TypeOK, NEW t \in Transaction, RealTx(t), t.stage \in {"loaded", "written"},
         t.op \in Writing
  PROVE  /\ \A s \in Side : Rows(t)[s] \in Review \cup {NoReview}
         /\ \A s \in Side : t.op # "submit" \/ s # t.side => Rows(t)[s] = review[t.pair][s]
         /\ t.op = "submit" => /\ t.side \in Side /\ t.text \in Text
                               /\ Rows(t)[t.side].status = "SUBMITTED"
                               /\ Rows(t)[t.side].text = t.text
  <1>1. review[t.pair] \in [Side -> Review \cup {NoReview}]
    BY DEF TypeOK, RealTx
  <1>2. CASE t.op = "submit"
    <2>1. t.side \in Side /\ t.text \in Text
      BY <1>2 DEF RealTx
    <2> DEFINE own == [status |-> "SUBMITTED", text |-> t.text, editable |-> TRUE]
    <2>2. own \in Review
      BY <2>1 DEF Review
    <2>3. Rows(t) = [review[t.pair] EXCEPT ![t.side] = own]
      BY <1>2 DEF Rows
    <2> HIDE DEF own
    <2>4. \A s \in Side : Rows(t)[s] = IF s = t.side THEN own ELSE review[t.pair][s]
      BY <1>1, <2>3
    <2>5. \A s \in Side : Rows(t)[s] \in Review \cup {NoReview}
      BY <1>1, <2>2, <2>4
    <2>6. \A s \in Side : s # t.side => Rows(t)[s] = review[t.pair][s]
      BY <2>4
    <2>7. Rows(t)[t.side] = own
      BY <2>1, <2>4
    <2>8. own.status = "SUBMITTED" /\ own.text = t.text
      BY DEF own
    <2> QED BY <1>2, <2>1, <2>5, <2>6, <2>7, <2>8
  <1>3. CASE t.op # "submit"
    BY <1>1, <1>3 DEF Rows
  <1> QED BY <1>2, <1>3

LEMMA FoundFacts ==
  ASSUME TypeOK, NEW t \in Transaction, RealTx(t), t.stage = "loaded", t.op \in Writing
  PROVE  /\ Found(t) \in [Side -> 0 .. 5]
         /\ \A s \in Side : Found(t)[s] # 0 =>
              NextStatus(t) \in Shown /\ Rows(t)[s].status = "SUBMITTED"
         /\ \A s \in Side : NextStatus(t) \in Shown /\ Rows(t)[s].status = "SUBMITTED" =>
              Found(t)[s] # 0
  <1>1. \A s \in Side : Rows(t)[s].status = "SUBMITTED" => Rows(t)[s].text.rating \in 1 .. 5
    BY RowsFacts, NoReviewIsNone, RatingAssumption DEF Review, Text
  <1> QED BY <1>1 DEF Found

LEMMA RewardFits ==
  ASSUME TypeOK, NEW u \in Person
  PROVE  RewardFor(u) \in 0 .. Reward
  <1>1. earned[u] \in Nat
    BY DEF TypeOK
  <1> QED BY <1>1, SettingsAssumption DEF RewardFor

LEMMA NextStatusFacts ==
  ASSUME NEW t, t.op \in Writing, t.saw \in Pending
  PROVE  /\ NextStatus(t) \in PairStatus
         /\ NextStatus(t) = "PARTIAL" => t.op = "submit"
         /\ NextStatus(t) = "REVEALED" => t.op = "submit" /\ t.saw = "PARTIAL"
         /\ NextStatus(t) \in Shown => NextStatus(t) = "REVEALED" \/ t.op = "settle"
  BY DEF NextStatus, Writing, Pending, PairStatus, Shown
-----------------------------------------------------------------------------
(***************************************************************************)
(* The invariant, step by step.                                            *)
(***************************************************************************)
LEMMA InitInvariant == Init => IInv
  <1> SUFFICES ASSUME Init PROVE IInv
    OBVIOUS
  <1> USE DEF Init
  <1>1. \A x \in Pair, s \in Side : review[x][s] = NoReview
    OBVIOUS
  <1>2. \A p \in Process : tx[p] = Idle
    OBVIOUS
  <1>3. TypeOK
    <2>1. 0 \in 0 .. 5
      OBVIOUS
    <2>2. /\ window \in [Pair -> {"before", "open", "closed"}]
          /\ status \in [Pair -> PairStatus \cup {"NONE"}]
          /\ review \in [Pair -> [Side -> Review \cup {NoReview}]]
          /\ trust \in [Pair -> [Side -> 0 .. 5]]
          /\ earned \in [Person -> Nat]
      BY <2>1
    <2>3. tx \in [Process -> Transaction]
      BY IdleIsIdle
    <2>4. \A x \in Pair, s \in Side : ~ Written(x, s)
      BY <1>1 DEF Written
    <2>5. \A p \in Process : tx[p].stage # "written"
      BY <1>2, IdleIsIdle
    <2> QED BY <2>2, <2>3, <2>4, <2>5 DEF TypeOK
  <1>4. \A p \in Process : RealTx(tx[p]) /\ SawThePair(tx[p]) /\ HoldsTheRow(tx[p])
    BY <1>2, IdleIsIdle
  <1>5. PartialIsWritten /\ RevealedTogether
    BY DEF PartialIsWritten, RevealedTogether
  <1>6. RevealedInTime
    BY <1>1, NoReviewIsNone DEF RevealedInTime
  <1>7. TrustIsMutual
    BY DEF TrustIsMutual
  <1> QED BY <1>3, <1>4, <1>5, <1>6, <1>7 DEF IInv

\* A step of one transaction that writes nothing yet.
LEMMA TxStep ==
  ASSUME IInv, NEW p \in Process, NEW r \in Transaction,
         tx' = [tx EXCEPT ![p] = r],
         UNCHANGED <<window, status, review, trust, earned>>,
         RealTx(r), SawThePair(r), HoldsTheRow(r),
         r.stage = "written" => PairFree(r.pair, p)
  PROVE  IInv'
  <1>1. \A q \in Process : tx'[q] = IF q = p THEN r ELSE tx[q]
    BY DEF IInv, TypeOK
  <1>2. TypeOK'
    <2>1. tx' \in [Process -> Transaction]
      BY DEF IInv, TypeOK
    <2>2. \A q1, q2 \in Process :
            tx'[q1].stage = "written" /\ tx'[q2].stage = "written"
              /\ tx'[q1].pair = tx'[q2].pair => q1 = q2
      BY <1>1 DEF IInv, TypeOK, PairFree
    <2>3. \A x \in Pair : status'[x] = "NONE" => \A s \in Side : ~ Written(x, s)'
      BY DEF IInv, TypeOK, Written
    <2> QED BY <2>1, <2>2, <2>3 DEF IInv, TypeOK
  <1>3. ASSUME NEW q \in Process
        PROVE  RealTx(tx[q])' /\ SawThePair(tx[q])' /\ HoldsTheRow(tx[q])'
    <2>1. RealTx(tx'[q]) /\ SawThePair(tx'[q]) /\ HoldsTheRow(tx'[q])
      BY <1>1 DEF IInv
    <2> QED BY <2>1 DEF RealTx, SawThePair, HoldsTheRow, Written, NextStatus, Rows
  <1>4. PartialIsWritten' /\ RevealedInTime'
    BY DEF IInv, PartialIsWritten, RevealedInTime, Written
  <1>5. TrustIsMutual' /\ RevealedTogether'
    BY DEF IInv, TrustIsMutual, RevealedTogether, Written
  <1> QED BY <1>2, <1>3, <1>4, <1>5 DEF IInv

LEMMA OpenKeeps ==
  ASSUME IInv, NEW x \in Pair, OpenForParticipant(x)
  PROVE  IInv'
  <1> USE DEF OpenForParticipant
  <1>1. \A y \in Pair : status'[y] = IF y = x THEN "PENDING" ELSE status[y]
    BY DEF IInv, TypeOK
  <1>2. TypeOK'
    <2>1. status' \in [Pair -> PairStatus \cup {"NONE"}]
      BY DEF IInv, TypeOK, PairStatus
    <2>2. \A y \in Pair : status'[y] = "NONE" => \A s \in Side : ~ Written(y, s)'
      BY <1>1 DEF IInv, TypeOK, Written
    <2> QED BY <2>1, <2>2 DEF IInv, TypeOK
  <1>3. ASSUME NEW p \in Process
        PROVE  RealTx(tx[p])' /\ SawThePair(tx[p])' /\ HoldsTheRow(tx[p])'
    <2>1. RealTx(tx[p]) /\ SawThePair(tx[p]) /\ HoldsTheRow(tx[p])
      BY DEF IInv
    <2>2. RealTx(tx[p])' /\ HoldsTheRow(tx[p])'
      BY <2>1 DEF RealTx, HoldsTheRow, Written, NextStatus, Rows
    <2>3. SawThePair(tx[p])'
      BY <1>1, <2>1 DEF SawThePair, RealTx, Written
    <2> QED BY <2>2, <2>3
  <1>4. PartialIsWritten' /\ RevealedInTime'
    BY <1>1 DEF IInv, PartialIsWritten, RevealedInTime, Written
  <1>5. TrustIsMutual' /\ RevealedTogether'
    BY <1>1 DEF IInv, TrustIsMutual, RevealedTogether, Written
  <1> QED BY <1>2, <1>3, <1>4, <1>5 DEF IInv

\* A deadline that has passed has passed for good.
LEMMA TickKeeps ==
  ASSUME IInv, NEW x \in Pair, Tick(x)
  PROVE  IInv'
  <1> USE DEF Tick
  <1>1. \A y \in Pair : window[y] = "closed" => window'[y] = "closed"
    BY DEF IInv, TypeOK
  <1>2. TypeOK'
    <2>1. window' \in [Pair -> {"before", "open", "closed"}]
      BY DEF IInv, TypeOK
    <2> QED BY <2>1 DEF IInv, TypeOK, Written
  <1>3. ASSUME NEW p \in Process
        PROVE  RealTx(tx[p])' /\ SawThePair(tx[p])' /\ HoldsTheRow(tx[p])'
    <2>1. RealTx(tx[p]) /\ SawThePair(tx[p]) /\ HoldsTheRow(tx[p])
      BY DEF IInv
    <2>2. SawThePair(tx[p])' /\ HoldsTheRow(tx[p])'
      BY <2>1 DEF SawThePair, HoldsTheRow, Written, NextStatus, Rows
    <2>3. tx[p].op = "settle" => tx[p].pair \in Pair
      BY <2>1 DEF RealTx, IInv, TypeOK, Transaction
    <2>4. RealTx(tx[p])'
      BY <1>1, <2>1, <2>3 DEF RealTx, Written
    <2> QED BY <2>2, <2>4
  <1>4. PartialIsWritten' /\ RevealedInTime'
    BY <1>1 DEF IInv, PartialIsWritten, RevealedInTime, Written
  <1>5. TrustIsMutual' /\ RevealedTogether'
    BY DEF IInv, TrustIsMutual, RevealedTogether, Written
  <1> QED BY <1>2, <1>3, <1>4, <1>5 DEF IInv

\* Reviews are rewritten in place: none appears, disappears or is revealed.
LEMMA RewriteKeeps ==
  ASSUME IInv,
         review' \in [Pair -> [Side -> Review \cup {NoReview}]],
         \A x \in Pair, s \in Side :
           /\ (review'[x][s] = NoReview) <=> (review[x][s] = NoReview)
           /\ review'[x][s].status = review[x][s].status,
         tx' \in [Process -> Transaction],
         \A p \in Process : tx'[p] \in {tx[p], Idle},
         UNCHANGED <<window, status, trust, earned>>
  PROVE  IInv'
  <1>1. \A x \in Pair, s \in Side : Written(x, s)' <=> Written(x, s)
    BY DEF Written
  <1>2. TypeOK'
    <2>1. \A x \in Pair : status'[x] = "NONE" => \A s \in Side : ~ Written(x, s)'
      BY <1>1 DEF IInv, TypeOK
    <2>2. \A p, q \in Process :
            tx'[p].stage = "written" /\ tx'[q].stage = "written"
              /\ tx'[p].pair = tx'[q].pair => p = q
      BY IdleIsIdle DEF IInv, TypeOK
    <2> QED BY <2>1, <2>2 DEF IInv, TypeOK
  <1>3. ASSUME NEW p \in Process
        PROVE  RealTx(tx[p])' /\ SawThePair(tx[p])' /\ HoldsTheRow(tx[p])'
    <2>1. CASE tx'[p] = Idle
      BY <2>1, IdleIsIdle DEF RealTx, SawThePair, HoldsTheRow, Writing
    <2>2. CASE tx'[p] = tx[p]
      <3> DEFINE t == tx[p]
      <3>1. t \in Transaction /\ RealTx(t) /\ SawThePair(t) /\ HoldsTheRow(t)
        BY DEF IInv, TypeOK
      <3>2. RealTx(tx[p])'
        BY <1>1, <2>2, <3>1 DEF RealTx
      <3>3. SawThePair(tx[p])'
        BY <1>1, <2>2, <3>1 DEF SawThePair, RealTx
      <3>4. HoldsTheRow(tx[p])'
        <4> SUFFICES ASSUME t.stage = "written"
                     PROVE  HoldsTheRow(tx[p])'
          BY <2>2 DEF HoldsTheRow
        <4>0. t.op \in Writing /\ t.pair \in Pair /\ (t.op = "submit" => t.side \in Side)
          BY <3>1 DEF RealTx
        <4>1. \A s \in Side : /\ (Rows(t)[s])' = NoReview <=> Rows(t)[s] = NoReview
                              /\ (Rows(t)[s])'.status = Rows(t)[s].status
          <5>1. TypeOK /\ TypeOK'
            BY <1>2 DEF IInv
          <5>2. \A s \in Side : t.op # "submit" \/ s # t.side =>
                  Rows(t)[s] = review[t.pair][s] /\ (Rows(t)[s])' = review'[t.pair][s]
            BY <2>2, <4>0, <3>1, <5>1 DEF Rows, TypeOK
          <5>3. \A s \in Side : t.op = "submit" /\ s = t.side =>
                  (Rows(t)[s])' = Rows(t)[s]
            BY <2>2, <4>0, <5>1 DEF Rows, TypeOK
          <5> HIDE DEF t
          <5> QED BY <4>0, <5>2, <5>3
        <4>2. NextStatus(t)' = NextStatus(t)
          BY <2>2 DEF NextStatus
        <4> HIDE DEF t
        <4> QED BY <1>1, <2>2, <3>1, <4>0, <4>1, <4>2 DEF HoldsTheRow, t
      <3> QED BY <3>2, <3>3, <3>4
    <2> QED BY <2>1, <2>2
  <1>4. PartialIsWritten' /\ RevealedInTime'
    BY <1>1 DEF IInv, PartialIsWritten, RevealedInTime
  <1>5. TrustIsMutual' /\ RevealedTogether'
    BY <1>1 DEF IInv, TrustIsMutual, RevealedTogether
  <1> QED BY <1>2, <1>3, <1>4, <1>5 DEF IInv

LEMMA EditWindowKeeps ==
  ASSUME IInv, NEW x \in Pair, NEW s \in Side, EditWindowPasses(x, s)
  PROVE  IInv'
  <1> USE DEF EditWindowPasses
  <1>1. review[x][s] \in Review
    BY NoReviewIsNone DEF IInv, TypeOK
  <1>2. /\ [review[x][s] EXCEPT !.editable = FALSE] \in Review
        /\ [review[x][s] EXCEPT !.editable = FALSE].status = review[x][s].status
    BY <1>1 DEF Review
  <1>3. review' = [review EXCEPT ![x][s] = [review[x][s] EXCEPT !.editable = FALSE]]
    BY DEF IInv, TypeOK
  <1> DEFINE new == [review[x][s] EXCEPT !.editable = FALSE]
  <1>4. /\ review' \in [Pair -> [Side -> Review \cup {NoReview}]]
        /\ \A y \in Pair, r \in Side :
             review'[y][r] = IF y = x /\ r = s THEN new ELSE review[y][r]
    <2>1. new \in Review /\ review' = [review EXCEPT ![x][s] = new]
      BY <1>2, <1>3
    <2>2. review \in [Pair -> [Side -> Review \cup {NoReview}]]
      BY DEF IInv, TypeOK
    <2> HIDE DEF new
    <2>3. review' = [review EXCEPT ![x] = [review[x] EXCEPT ![s] = new]]
      BY <2>1, <2>2
    <2>4. [review[x] EXCEPT ![s] = new] \in [Side -> Review \cup {NoReview}]
      BY <2>1, <2>2
    <2>5. review' \in [Pair -> [Side -> Review \cup {NoReview}]]
      BY <2>2, <2>3, <2>4
    <2>6. \A y \in Pair : review'[y] = IF y = x THEN [review[x] EXCEPT ![s] = new] ELSE review[y]
      BY <2>2, <2>3
    <2>7. \A r \in Side : [review[x] EXCEPT ![s] = new][r] = IF r = s THEN new ELSE review[x][r]
      BY <2>2
    <2> QED BY <2>5, <2>6, <2>7
  <1>7. new # NoReview /\ new.status = review[x][s].status /\ review[x][s] # NoReview
    BY <1>1, <1>2, NoReviewIsNone
  <1> HIDE DEF new
  <1>5. \A y \in Pair, r \in Side :
           /\ (review'[y][r] = NoReview) <=> (review[y][r] = NoReview)
           /\ review'[y][r].status = review[y][r].status
    BY <1>4, <1>7
  <1>6. tx' \in [Process -> Transaction] /\ \A p \in Process : tx'[p] = tx[p]
    BY DEF IInv, TypeOK
  <1> QED BY <1>4, <1>5, <1>6, RewriteKeeps

\* An edit of a review, revealed meanwhile or not, changes its text only.
LEMMA EditKeeps ==
  ASSUME IInv, NEW p \in Process, Edit(p)
  PROVE  IInv'
  <1> DEFINE t == tx[p]
             new == [review[t.pair][t.side] EXCEPT !.text = t.text]
  <1>0. /\ t.pair \in Pair /\ t.side \in Side /\ t.text \in Text
        /\ review[t.pair][t.side] \in Review
    BY DEF IInv, TypeOK, RealTx, Edit, Written
  <1>1. new \in Review /\ new.status = review[t.pair][t.side].status
    BY <1>0 DEF Review
  <1>2. /\ review' \in [Pair -> [Side -> Review \cup {NoReview}]]
        /\ \A y \in Pair, r \in Side :
             review'[y][r] = IF y = t.pair /\ r = t.side THEN new ELSE review[y][r]
    <2>1. review' = [review EXCEPT ![t.pair][t.side] = new]
      BY <1>0 DEF IInv, TypeOK, Edit
    <2> HIDE DEF new
    <2> QED BY <1>0, <1>1, <2>1 DEF IInv, TypeOK
  <1> HIDE DEF new
  <1>3. \A y \in Pair, r \in Side :
           /\ (review'[y][r] = NoReview) <=> (review[y][r] = NoReview)
           /\ review'[y][r].status = review[y][r].status
    BY <1>0, <1>1, <1>2, NoReviewIsNone
  <1>4. tx' \in [Process -> Transaction] /\ \A q \in Process : tx'[q] \in {tx[q], Idle}
    BY IdleIsIdle DEF IInv, TypeOK, Edit, Continue
  <1>5. UNCHANGED <<window, status, trust, earned>>
    BY DEF Edit
  <1> QED BY <1>2, <1>3, <1>4, <1>5, RewriteKeeps

LEMMA SubmitKeeps ==
  ASSUME IInv, NEW p \in Caller, NEW x \in Pair, NEW s \in Side, NEW text \in Text,
         Submit(p, x, s, text)
  PROVE  IInv'
  <1> DEFINE r == [Idle EXCEPT !.op = "submit", !.stage = "called", !.pair = x,
                               !.side = s, !.text = text]
  <1>1. r \in Transaction /\ r.op = "submit" /\ r.stage = "called" /\ r.pair = x
          /\ r.side = s /\ r.text = text
    BY IdleIsIdle DEF Transaction
  <1>2. p \in Process /\ tx' = [tx EXCEPT ![p] = r]
          /\ UNCHANGED <<window, status, review, trust, earned>>
    BY DEF Submit, Continue, Process
  <1> HIDE DEF r
  <1>3. RealTx(r) /\ SawThePair(r) /\ HoldsTheRow(r)
    BY <1>1 DEF RealTx, SawThePair, HoldsTheRow
  <1> QED BY <1>1, <1>2, <1>3, TxStep

LEMMA LoadKeeps ==
  ASSUME IInv, NEW p \in Process, LoadWritable(p)
  PROVE  IInv'
  <1> DEFINE t == tx[p]
             r == [t EXCEPT !.stage = "loaded", !.saw = status[t.pair]]
  <1>1. t \in Transaction /\ RealTx(t) /\ t.stage = "called" /\ t.op = "submit"
          /\ t.pair \in Pair /\ status[t.pair] \in Pending
    BY DEF IInv, TypeOK, RealTx, LoadWritable
  <1>2. r \in Transaction /\ r.op = "submit" /\ r.stage = "loaded" /\ r.pair = t.pair
          /\ r.side = t.side /\ r.text = t.text /\ r.saw = status[t.pair]
    BY <1>1 DEF Transaction, Pending, PairStatus
  <1>3. tx' = [tx EXCEPT ![p] = r] /\ UNCHANGED <<window, status, review, trust, earned>>
    BY DEF LoadWritable, Continue
  <1> HIDE DEF r
  <1>4. RealTx(r) /\ HoldsTheRow(r)
    BY <1>1, <1>2 DEF RealTx, HoldsTheRow
  <1>5. SawThePair(r)
    BY <1>1, <1>2 DEF SawThePair, Pending, IInv, PartialIsWritten
  <1> QED BY <1>2, <1>3, <1>4, <1>5, TxStep

LEMMA SettleKeeps ==
  ASSUME IInv, NEW x \in Pair, SettleOne(x)
  PROVE  IInv'
  <1> DEFINE r == [Idle EXCEPT !.op = "settle", !.stage = "loaded", !.pair = x,
                               !.saw = status[x]]
  <1>1. status[x] \in Pending /\ window[x] = "closed"
    BY DEF SettleOne, Due
  <1>2. r \in Transaction /\ r.op = "settle" /\ r.stage = "loaded" /\ r.pair = x
          /\ r.saw = status[x]
    BY <1>1, IdleIsIdle DEF Transaction, Pending, PairStatus
  <1>3. Sweeper \in Process /\ tx' = [tx EXCEPT ![Sweeper] = r]
          /\ UNCHANGED <<window, status, review, trust, earned>>
    BY DEF SettleOne, Continue, Process
  <1> HIDE DEF r
  <1>4. RealTx(r) /\ HoldsTheRow(r)
    BY <1>1, <1>2 DEF RealTx, HoldsTheRow
  <1>5. SawThePair(r)
    BY <1>1, <1>2 DEF SawThePair, Pending, IInv, PartialIsWritten
  <1> QED BY <1>2, <1>3, <1>4, <1>5, TxStep

\* The pair's row is taken: the reviews found are all there is to reveal.
LEMMA WriteKeeps ==
  ASSUME IInv, NEW p \in Process, Write(p)
  PROVE  IInv'
  <1> DEFINE t == tx[p]
             coins == IF t.op = "submit" THEN RewardFor(Writer[t.pair][t.side]) ELSE 0
             r == [t EXCEPT !.stage = "written", !.found = Found(t), !.coins = coins]
  <1>1. /\ t \in Transaction /\ RealTx(t) /\ SawThePair(t) /\ TypeOK
        /\ t.stage = "loaded" /\ t.op \in Writing /\ t.pair \in Pair
        /\ t.op = "submit" => t.side \in Side /\ t.text \in Text /\ ~ Written(t.pair, t.side)
    BY DEF IInv, TypeOK, RealTx, Write, Writing
  <1>2. coins \in 0 .. Reward
    BY <1>1, RewardFits, WriterAssumption, SettingsAssumption
  <1>3. tx' = [tx EXCEPT ![p] = r] /\ UNCHANGED <<window, status, review, trust, earned>>
    BY DEF Write, Continue
  <1>4. PairFree(t.pair, p)
    BY DEF Write
  <1> HIDE DEF coins
  <1>5. r \in Transaction /\ r.op = t.op /\ r.stage = "written" /\ r.pair = t.pair
          /\ r.side = t.side /\ r.text = t.text /\ r.saw = t.saw /\ r.found = Found(t)
    BY <1>1, <1>2, FoundFacts DEF Transaction
  <1> HIDE DEF r
  <1>6. NextStatus(r) = NextStatus(t) /\ Rows(r) = Rows(t)
    BY <1>5 DEF NextStatus, Rows
  <1>7. RealTx(r) /\ SawThePair(r)
    BY <1>1, <1>5 DEF RealTx, SawThePair, Writing
  <1>8. HoldsTheRow(r)
    <2>1. \A s \in Side : Found(t)[s] # 0 => NextStatus(t) \in Shown /\ Rows(t)[s] # NoReview
      BY <1>1, FoundFacts, NoReviewIsNone
    <2>2. ASSUME NextStatus(t) = "REVEALED", NEW s \in Side
          PROVE  Found(t)[s] # 0 \/ Rows(t)[s].status = "REVEALED"
      <3>1. t.op = "submit" /\ t.saw = "PARTIAL" /\ "REVEALED" \in Shown
        BY <1>1, <2>2, NextStatusFacts DEF SawThePair, Shown
      <3>2. Rows(t)[s] # NoReview
        <4>1. PICK q \in Side : Written(t.pair, q)
          BY <1>1, <3>1 DEF SawThePair
        <4>2. CASE s = t.side
          <5>1. Rows(t)[s].status = "SUBMITTED"
            BY <1>1, <3>1, <4>2, RowsFacts
          <5> QED BY <5>1, NoReviewIsNone
        <4>3. CASE s # t.side
          <5>1. s = q
            BY <1>1, <3>1, <4>1, <4>3 DEF Side
          <5> QED BY <1>1, <4>1, <4>3, <5>1, RowsFacts DEF Written
        <4> QED BY <4>2, <4>3
      <3>3. Rows(t)[s] \in Review
        BY <1>1, <3>2, RowsFacts
      <3>4. Rows(t)[s].status \in {"SUBMITTED", "REVEALED"}
        BY <3>3 DEF Review
      <3> QED BY <1>1, <2>2, <3>1, <3>4, FoundFacts
    <2> QED BY <1>1, <1>5, <1>6, <2>1, <2>2 DEF HoldsTheRow
  <1> QED BY <1>3, <1>4, <1>5, <1>7, <1>8, TxStep

LEMMA ReadForEditKeeps ==
  ASSUME IInv, NEW p \in Caller, NEW x \in Pair, NEW s \in Side, NEW text \in Text,
         ReadForEdit(p, x, s, text)
  PROVE  IInv'
  <1> DEFINE r == [Idle EXCEPT !.op = "edit", !.stage = "loaded", !.pair = x,
                               !.side = s, !.text = text]
  <1>1. r \in Transaction /\ r.op = "edit" /\ r.stage = "loaded" /\ r.pair = x
          /\ r.side = s /\ r.text = text
    BY IdleIsIdle DEF Transaction
  <1>2. p \in Process /\ tx' = [tx EXCEPT ![p] = r]
          /\ UNCHANGED <<window, status, review, trust, earned>>
    BY DEF ReadForEdit, Continue, Process
  <1>3. Written(x, s)
    BY NoReviewIsNone DEF ReadForEdit, Written
  <1> HIDE DEF r
  <1>4. RealTx(r) /\ SawThePair(r) /\ HoldsTheRow(r)
    BY <1>1, <1>3 DEF RealTx, SawThePair, HoldsTheRow, Writing
  <1> QED BY <1>1, <1>2, <1>4, TxStep

LEMMA AbortKeeps ==
  ASSUME IInv, NEW p \in Process, Abort(p)
  PROVE  IInv'
  BY IdleIsIdle, TxStep DEF Abort, Continue

\* What a commit leaves of a review.
LEMMA RevealedFacts ==
  ASSUME IInv, NEW p \in Process, tx[p].stage = "written", NEW s \in Side
  PROVE  /\ Revealed(tx[p], s) \in Review \cup {NoReview}
         /\ (Revealed(tx[p], s) = NoReview) <=> (Rows(tx[p])[s] = NoReview)
         /\ Written(tx[p].pair, s) => Rows(tx[p])[s] # NoReview
         /\ tx[p].op = "submit" /\ s = tx[p].side => Rows(tx[p])[s] # NoReview
         /\ tx[p].found[s] # 0 => Revealed(tx[p], s).status = "REVEALED"
         /\ Rows(tx[p])[s].status = "REVEALED" => Revealed(tx[p], s).status = "REVEALED"
         /\ Revealed(tx[p], s).status = "REVEALED" =>
              tx[p].found[s] # 0 \/ review[tx[p].pair][s].status = "REVEALED"
  <1> DEFINE t == tx[p]
             R == Rows(t)[s]
  <1>1. /\ t \in Transaction /\ RealTx(t) /\ HoldsTheRow(t) /\ TypeOK
        /\ t.op \in Writing
    BY DEF IInv, TypeOK, RealTx
  <1>2. R \in Review \cup {NoReview}
    BY <1>1, RowsFacts
  <1>3. t.op = "submit" /\ s = t.side => R.status = "SUBMITTED"
    BY <1>1, RowsFacts
  <1>4. t.op # "submit" \/ s # t.side => R = review[t.pair][s]
    BY <1>1, RowsFacts
  <1>5. t.found[s] # 0 => R # NoReview
    BY <1>1 DEF HoldsTheRow
  <1>6. Revealed(t, s) = IF t.found[s] = 0 THEN R
                         ELSE [R EXCEPT !.status = "REVEALED", !.editable = FALSE]
    BY DEF Revealed
  <1> HIDE DEF R
  <1>7. R \in Review => /\ [R EXCEPT !.status = "REVEALED", !.editable = FALSE] \in Review
                        /\ [R EXCEPT !.status = "REVEALED", !.editable = FALSE].status
                             = "REVEALED"
    BY DEF Review
  <1>8. Written(t.pair, s) => R # NoReview
    BY <1>3, <1>4, NoReviewIsNone DEF Written
  <1>9. t.op = "submit" /\ s = t.side => R # NoReview
    BY <1>3, NoReviewIsNone
  <1>10. R = Rows(tx[p])[s]
    BY DEF R
  <1>11. R.status = "REVEALED" => review[t.pair][s].status = "REVEALED"
    BY <1>3, <1>4
  <1> QED BY <1>2, <1>5, <1>6, <1>7, <1>8, <1>9, <1>10, <1>11, NoReviewIsNone

LEMMA CommitKeeps ==
  ASSUME IInv, NEW p \in Process, Commit(p)
  PROVE  IInv'
  <1> DEFINE t == tx[p]
  <1>1. /\ t \in Transaction /\ RealTx(t) /\ SawThePair(t) /\ HoldsTheRow(t) /\ TypeOK
        /\ t.stage = "written" /\ t.op \in Writing /\ t.pair \in Pair
        /\ t.saw \in Pending
        /\ t.op = "submit" => t.side \in Side
    BY DEF IInv, TypeOK, RealTx, SawThePair, Commit
  <1>2. /\ NextStatus(t) \in PairStatus
        /\ NextStatus(t) = "PARTIAL" => t.op = "submit"
        /\ NextStatus(t) \in Shown => NextStatus(t) = "REVEALED" \/ t.op = "settle"
    BY <1>1, NextStatusFacts
  <1>3. /\ status' \in [Pair -> PairStatus \cup {"NONE"}]
        /\ \A x \in Pair : status'[x] = IF x = t.pair THEN NextStatus(t) ELSE status[x]
    BY <1>1, <1>2 DEF Commit, TypeOK
  <1>4. /\ review' \in [Pair -> [Side -> Review \cup {NoReview}]]
        /\ \A x \in Pair, s \in Side :
             review'[x][s] = IF x = t.pair THEN Revealed(t, s) ELSE review[x][s]
    <2>1. [s \in Side |-> Revealed(t, s)] \in [Side -> Review \cup {NoReview}]
      BY <1>1, RevealedFacts
    <2> QED BY <1>1, <2>1 DEF Commit, TypeOK
  <1>5. /\ trust' \in [Pair -> [Side -> 0 .. 5]]
        /\ \A x \in Pair, s \in Side :
             trust'[x][s] = IF x = t.pair THEN Trusted(t, s) ELSE trust[x][s]
    <2>1. \A s \in Side : Trusted(t, s) \in 0 .. 5
      BY <1>1 DEF Trusted, TypeOK, Transaction
    <2>2. [s \in Side |-> Trusted(t, s)] \in [Side -> 0 .. 5]
      BY <2>1
    <2> QED BY <1>1, <2>2 DEF Commit, TypeOK
  <1>6. earned' \in [Person -> Nat]
    <2>1. t.coins \in Nat
      BY <1>1, SettingsAssumption DEF Transaction
    <2>2. t.op = "submit" => Writer[t.pair][t.side] \in Person
      BY <1>1, WriterAssumption
    <2> QED BY <1>1, <2>1, <2>2 DEF Commit, TypeOK
  <1>7. /\ tx' \in [Process -> Transaction]
        /\ \A q \in Process : tx'[q] = IF q = p THEN Idle ELSE tx[q]
    BY <1>1, IdleIsIdle DEF Commit, Continue, TypeOK
  <1>8. window' = window
    BY DEF Commit
  <1>9. /\ \A x \in Pair, s \in Side : Written(x, s) => Written(x, s)'
        /\ \A s \in Side : Rows(t)[s] # NoReview => review'[t.pair][s] # NoReview
    <2>1. \A s \in Side : (Revealed(t, s) = NoReview) <=> (Rows(t)[s] = NoReview)
      BY <1>1, RevealedFacts
    <2>2. \A s \in Side : Written(t.pair, s) => Rows(t)[s] # NoReview
      BY <1>1, RevealedFacts
    <2>3. \A s \in Side : Rows(t)[s] # NoReview => review'[t.pair][s] # NoReview
      BY <1>1, <1>4, <2>1
    <2> HIDE DEF t
    <2>4. \A x \in Pair, s \in Side : Written(x, s) => review'[x][s] # NoReview
      BY <1>4, <2>2, <2>3 DEF Written
    <2> QED BY <2>3, <2>4 DEF Written
  <1>10. NextStatus(t) = "REVEALED" => \A s \in Side : review'[t.pair][s] # NoReview
    <2> SUFFICES ASSUME NextStatus(t) = "REVEALED", NEW s \in Side
                 PROVE  Rows(t)[s] # NoReview
      BY <1>9
    <2>1. t.found[s] # 0 \/ Rows(t)[s].status = "REVEALED"
      BY <1>1 DEF HoldsTheRow
    <2> QED BY <1>1, <2>1, NoReviewIsNone DEF HoldsTheRow
  <1>11. TypeOK'
    <2>1. window' \in [Pair -> {"before", "open", "closed"}]
      BY <1>1, <1>8 DEF TypeOK
    <2>2. \A x \in Pair : status'[x] = "NONE" => \A s \in Side : ~ Written(x, s)'
      <3> SUFFICES ASSUME NEW x \in Pair, status'[x] = "NONE", NEW s \in Side
                   PROVE  ~ Written(x, s)'
        OBVIOUS
      <3>1. x # t.pair
        BY <1>2, <1>3 DEF PairStatus
      <3>2. status[x] = "NONE" /\ review'[x][s] = review[x][s]
        BY <1>3, <1>4, <3>1
      <3> QED BY <1>1, <3>2 DEF TypeOK, Written
    <2>3. \A q1, q2 \in Process :
            tx'[q1].stage = "written" /\ tx'[q2].stage = "written"
              /\ tx'[q1].pair = tx'[q2].pair => q1 = q2
      BY <1>1, <1>7, IdleIsIdle DEF TypeOK
    <2> QED BY <1>3, <1>4, <1>5, <1>6, <1>7, <2>1, <2>2, <2>3 DEF TypeOK
  <1>12. ASSUME NEW q \in Process
         PROVE  RealTx(tx[q])' /\ SawThePair(tx[q])' /\ HoldsTheRow(tx[q])'
    <2>1. CASE q = p
      <3>1. tx'[q] = Idle
        BY <1>7, <2>1
      <3> QED BY <3>1, IdleIsIdle DEF RealTx, SawThePair, HoldsTheRow, Writing
    <2>2. CASE q # p
      <3>0. tx'[q] = tx[q]
        BY <1>7, <2>2
      <3>1. tx[q] \in Transaction /\ RealTx(tx[q]) /\ SawThePair(tx[q]) /\ HoldsTheRow(tx[q])
        BY DEF IInv, TypeOK
      <3>2. RealTx(tx[q])'
        BY <1>8, <1>9, <3>0, <3>1 DEF RealTx
      <3>3. SawThePair(tx[q])'
        <4> SUFFICES ASSUME tx[q].op \in Writing, tx[q].stage \in {"loaded", "written"}
                     PROVE  /\ tx[q].saw \in Pending
                            /\ status'[tx[q].pair] # "NONE"
                            /\ tx[q].saw = "PARTIAL" => \E s \in Side : Written(tx[q].pair, s)'
          BY <3>0 DEF SawThePair
        <4>1. tx[q].pair \in Pair
          BY <3>1 DEF RealTx, Writing
        <4>2. status'[tx[q].pair] # "NONE"
          BY <1>2, <1>3, <3>1, <4>1 DEF SawThePair, PairStatus
        <4>3. tx[q].saw = "PARTIAL" => \E s \in Side : Written(tx[q].pair, s)'
          BY <1>9, <3>0, <3>1, <4>1 DEF SawThePair
        <4> QED BY <3>1, <4>2, <4>3 DEF SawThePair
      <3>4. HoldsTheRow(tx[q])'
        <4> SUFFICES ASSUME tx[q].stage = "written"
                     PROVE  HoldsTheRow(tx[q])'
          BY <3>0 DEF HoldsTheRow
        <4>1. tx[q].pair # t.pair /\ tx[q].pair \in Pair /\ tx[q].op \in Writing
          BY <1>1, <2>2, <3>1 DEF TypeOK, RealTx
        <4>2. review'[tx[q].pair] = review[tx[q].pair]
          BY <1>1, <4>1 DEF Commit, TypeOK
        <4> QED BY <3>0, <3>1, <4>2 DEF HoldsTheRow, NextStatus, Rows, Written
      <3> QED BY <3>2, <3>3, <3>4
    <2> QED BY <2>1, <2>2
  <1>13. PartialIsWritten'
    <2> SUFFICES ASSUME NEW x \in Pair, status'[x] = "PARTIAL"
                 PROVE  \E s \in Side : Written(x, s)'
      BY DEF PartialIsWritten
    <2>1. CASE x = t.pair
      <3>1. t.op = "submit" /\ t.side \in Side
        BY <1>1, <1>2, <1>3, <2>1
      <3>2. Rows(t)[t.side] # NoReview
        BY <1>1, <3>1, RevealedFacts
      <3> QED BY <1>9, <2>1, <3>1, <3>2 DEF Written
    <2>2. CASE x # t.pair
      <3>1. status[x] = "PARTIAL"
        BY <1>3, <2>2
      <3>2. PICK s \in Side : Written(x, s)
        BY <3>1 DEF IInv, PartialIsWritten
      <3> QED BY <1>9, <3>2
    <2> QED BY <2>1, <2>2
  <1>14. RevealedInTime'
    <2> SUFFICES ASSUME NEW x \in Pair, NEW s \in Side, review'[x][s].status = "REVEALED",
                        window[x] # "closed", NEW r \in Side
                 PROVE  Written(x, r)'
      BY <1>8 DEF RevealedInTime
    <2>1. CASE review[x][s].status = "REVEALED"
      BY <1>9, <2>1 DEF IInv, RevealedInTime
    <2>2. CASE review[x][s].status # "REVEALED"
      <3>1. x = t.pair /\ Revealed(t, s).status = "REVEALED"
        BY <1>4, <2>2
      <3>2. t.found[s] # 0
        BY <1>1, <2>2, <3>1, RevealedFacts
      <3>3. NextStatus(t) = "REVEALED"
        BY <1>1, <1>2, <3>1, <3>2 DEF HoldsTheRow, RealTx
      <3> QED BY <1>10, <3>1, <3>3 DEF Written
    <2> QED BY <2>1, <2>2
  <1>15. TrustIsMutual'
    <2> SUFFICES ASSUME ~ PartialTrust, NEW x \in Pair, NEW s \in Side, trust'[x][s] # 0,
                        NEW r \in Side
                 PROVE  Written(x, r)'
      BY DEF TrustIsMutual
    <2>1. CASE trust[x][s] # 0
      BY <1>9, <2>1 DEF IInv, TrustIsMutual
    <2>2. CASE trust[x][s] = 0
      <3>1. x = t.pair /\ Trusted(t, s) # 0
        BY <1>5, <2>2
      <3>2. NextStatus(t) = "REVEALED"
        BY <2>2, <3>1 DEF Trusted, AffectsTrust
      <3> QED BY <1>10, <3>1, <3>2 DEF Written
    <2> QED BY <2>1, <2>2
  <1>16. RevealedTogether'
    <2> SUFFICES ASSUME NEW x \in Pair, status'[x] = "REVEALED", NEW s \in Side
                 PROVE  review'[x][s].status = "REVEALED"
      BY DEF RevealedTogether
    <2>1. CASE x = t.pair
      <3>1. t.found[s] # 0 \/ Rows(t)[s].status = "REVEALED"
        BY <1>1, <1>3, <2>1 DEF HoldsTheRow
      <3>2. Revealed(t, s).status = "REVEALED"
        BY <1>1, <3>1, RevealedFacts
      <3> QED BY <1>4, <2>1, <3>2
    <2>2. CASE x # t.pair
      BY <1>3, <1>4, <2>2 DEF IInv, RevealedTogether
    <2> QED BY <2>1, <2>2
  <1> QED BY <1>11, <1>12, <1>13, <1>14, <1>15, <1>16 DEF IInv

LEMMA StepInvariant == IInv /\ [Next]_vars => IInv'
  <1> SUFFICES ASSUME IInv, [Next]_vars PROVE IInv'
    OBVIOUS
  <1>1. CASE \E x \in Pair : OpenForParticipant(x) \/ Tick(x) \/ SettleOne(x)
    BY <1>1, OpenKeeps, TickKeeps, SettleKeeps
  <1>2. CASE \E x \in Pair, s \in Side : EditWindowPasses(x, s)
    BY <1>2, EditWindowKeeps
  <1>3. CASE \E p \in Caller, x \in Pair, s \in Side, text \in Text :
               Submit(p, x, s, text) \/ ReadForEdit(p, x, s, text)
    BY <1>3, SubmitKeeps, ReadForEditKeeps
  <1>4. CASE \E p \in Process : LoadWritable(p) \/ Write(p) \/ Commit(p) \/ Edit(p) \/ Abort(p)
    BY <1>4, LoadKeeps, WriteKeeps, CommitKeeps, EditKeeps, AbortKeeps
  <1>5. CASE UNCHANGED vars
    BY <1>5 DEF vars, IInv, TypeOK, RealTx, SawThePair, HoldsTheRow, NextStatus, Rows, Written,
       PartialIsWritten, RevealedInTime, TrustIsMutual, RevealedTogether
  <1> QED BY <1>1, <1>2, <1>3, <1>4, <1>5 DEF Next
-----------------------------------------------------------------------------
(***************************************************************************)
(* The theorems.                                                           *)
(***************************************************************************)

\* The inductive invariant holds in every state.
THEOREM Invariant == Spec => []IInv
  BY InitInvariant, StepInvariant, PTL DEF Spec

\* The tables keep their types, a pair has no review before it exists, and one
\* transaction at a time holds the row of a pair.
THEOREM TypeCorrect == Spec => []TypeOK
  <1>1. IInv => TypeOK
    BY DEF IInv
  <1> QED BY <1>1, Invariant, PTL

\* Invariant 8: nobody who may still write reads what the other side wrote, with
\* any number of submissions, edits and sweeps that decide from stale reads.
THEOREM StaysBlind == Spec => []Blind
  <1>1. IInv => Blind
    <2>1. \A s \in Side : Other(s) \in Side
      BY DEF Other, Side
    <2> QED BY <2>1 DEF IInv, RevealedInTime, Blind, Visible
  <1> QED BY <1>1, Invariant, PTL

\* D7a: a score moves only where both have reviewed each other.
THEOREM TrustMovesMutually == Spec => []TrustIsMutual
  <1>1. IInv => TrustIsMutual
    BY DEF IInv
  <1> QED BY <1>1, Invariant, PTL

\* A pair that reveals shows both of its reviews, the one that completed it and the
\* one an edit was rewriting included.
THEOREM BothAreRevealed == Spec => []RevealedTogether
  <1>1. IInv => RevealedTogether
    BY DEF IInv
  <1> QED BY <1>1, Invariant, PTL
====
