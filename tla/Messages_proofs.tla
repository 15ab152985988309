-------------------------- MODULE Messages_proofs --------------------------
(***************************************************************************)
(* What holds of everything the worker sends through its queue.            *)
(*                                                                         *)
(* Of notifications, for every outbox, any number of relay passes, errors, *)
(* crashes and attempts: a second copy is only sent in doubt, and whoever  *)
(* wrote to a blocked bot is told of it once.                              *)
(*                                                                         *)
(* Of campaigns, for every audience, price, limit and score, any number of *)
(* campaigns, overlapping calls, attempts and crashes: nobody gets a copy  *)
(* more than the worker knows of, what is finished is settled, a purchase  *)
(* is charged once and reaches no more people than were sold.              *)
(***************************************************************************)
EXTENDS Delivery, Campaigns, FiniteSetTheorems, WellFoundedInduction, TLAPS

(***************************************************************************)
(* The jobs of both.                                                       *)
(***************************************************************************)
LEMMA JobFacts ==
  ASSUME NEW j \in Job
  PROVE  /\ NoJob \in Job /\ Added(j) \in Job /\ Taken(j) \in Job /\ Completed(j) \in Job
         /\ Forgotten(j) \in Job /\ Recorded(j) \in Job /\ Stalled(j) \in Job
         /\ j.tries < Attempts => Thrown(j) \in Job
  <1>1. Attempts \in Nat \ {0} /\ j.tries \in 0 .. Attempts /\ j.state \in JobState
    BY AttemptsAssumption DEF Job
  <1>2. NoJob \in Job /\ Added(j) \in Job /\ Forgotten(j) \in Job
    BY <1>1 DEF NoJob, Added, Forgotten, Job, JobState
  <1>3. Taken(j) \in Job /\ Completed(j) \in Job /\ Recorded(j) \in Job /\ Stalled(j) \in Job
    BY <1>1 DEF Taken, Completed, Recorded, Stalled, Job, JobState
  <1>4. j.tries < Attempts => Thrown(j) \in Job
    BY <1>1 DEF Thrown, Job, JobState
  <1> QED BY <1>2, <1>3, <1>4

\* What each operation makes of the state and the attempts of a job.
LEMMA JobMoves ==
  ASSUME NEW j \in Job
  PROVE  /\ NoJob.state = "NONE"
         /\ Added(j).state = IF j.state = "NONE" THEN "WAITING" ELSE j.state
         /\ Added(j).tries < Attempts \/ (j.state # "NONE" /\ Added(j) = j)
         /\ Taken(j).state = "ACTIVE" /\ Taken(j).tries = j.tries
         /\ Completed(j).state = "DONE"
         /\ Forgotten(j).state = IF j.state = "DONE" THEN "NONE" ELSE j.state
         /\ Forgotten(j).state # "NONE" => Forgotten(j) = j
         /\ Thrown(j).state = "WAITING" => Thrown(j).tries < Attempts
         /\ Thrown(j).state # "ACTIVE"
         /\ Recorded(j).state = "RECORDED"
         /\ Stalled(j).state = IF j.state = "ACTIVE" THEN "WAITING" ELSE j.state
         /\ Stalled(j).tries = j.tries
  <1>1. Attempts \in Nat \ {0} /\ j.tries \in 0 .. Attempts /\ j.state \in JobState
    BY AttemptsAssumption DEF Job
  <1>2. /\ NoJob.state = "NONE"
        /\ Added(j).state = IF j.state = "NONE" THEN "WAITING" ELSE j.state
        /\ Added(j).tries < Attempts \/ (j.state # "NONE" /\ Added(j) = j)
        /\ Forgotten(j).state = IF j.state = "DONE" THEN "NONE" ELSE j.state
        /\ Forgotten(j).state # "NONE" => Forgotten(j) = j
    BY <1>1 DEF NoJob, Added, Forgotten
  <1>3. /\ Taken(j).state = "ACTIVE" /\ Taken(j).tries = j.tries
        /\ Completed(j).state = "DONE" /\ Recorded(j).state = "RECORDED"
        /\ Stalled(j).state = IF j.state = "ACTIVE" THEN "WAITING" ELSE j.state
        /\ Stalled(j).tries = j.tries
    BY DEF Taken, Completed, Recorded, Stalled, Job
  <1>4. /\ Thrown(j).state = "WAITING" => Thrown(j).tries < Attempts
        /\ Thrown(j).state # "ACTIVE"
    BY <1>1 DEF Thrown, LastTry
  <1> QED BY <1>2, <1>3, <1>4

-----------------------------------------------------------------------------
(***************************************************************************)
(* Notifications.                                                          *)
(***************************************************************************)
PassType == pass \in [Pass -> [rows : SUBSET Nat, at : Nat, queued : Seq(Note)]]

\* A job that will run has an attempt left.
TriesLeft ==
  \A n \in Note : job[n].state \in {"WAITING", "ACTIVE"} => job[n].tries < Attempts

\* What is being sent has not been settled meanwhile: one job per notification.
OpenWhileSent ==
  \A n \in Note : send[n] # "idle" => note[n] \notin {"SENT", "UNDELIVERABLE"}

\* The worker knows of a copy exactly while it is about to record it, and after.
KnownIsRecorded ==
  \A n \in Note : known[n] = IF send[n] = "SENT" \/ note[n] = "SENT" THEN 1 ELSE 0

\* Where the log tells the sender of n that it bounced.
Told(n) == {i \in DOMAIN log : log[i] = Notice[n]}

Bounced(n) == note[n] = "UNDELIVERABLE" /\ To(n) \notin Unlinked

\* One place if it did, none if it did not.
ToldOnce ==
  \A n \in Note : Notice[n] # None =>
    /\ Bounced(n) => \E i \in DOMAIN log : Told(n) = {i}
    /\ ~ Bounced(n) => Told(n) = {}

IInv == /\ TypeOK /\ PassType
        /\ TriesLeft /\ OpenWhileSent /\ KnownIsRecorded /\ ToldOnce
-----------------------------------------------------------------------------
LEMMA IdleFacts ==
  /\ Idle \in [rows : SUBSET Nat, at : Nat, queued : Seq(Note)]
  /\ Idle.rows = {} /\ Idle.at = 0 /\ Idle.queued = <<>>
  BY DEF Idle

\* A set of natural numbers has a least element, and Min picks it.
LEMMA MinIsElement ==
  ASSUME NEW S \in SUBSET Nat, S # {}
  PROVE  Min(S) \in S
  <1>1. PICK x \in S : \A y \in S : ~ (<<y, x>> \in OpToRel(<, Nat))
    BY NatLessThanWellFounded, WFMin
  <1>2. \A i, k \in Nat : i < k => <<i, k>> \in OpToRel(<, Nat)
    BY DEF OpToRel
  <1>3. \A y \in S : ~ (y < x)
    BY <1>1, <1>2, Zenon
  <1>4. \A y \in S : x <= y
    BY <1>3
  <1> QED BY <1>4 DEF Min

\* What is planned for a row of the log is a notification.
LEMMA PlanIsKnown ==
  ASSUME NEW r \in Row, NEW i \in DOMAIN Plan[r]
  PROVE  Plan[r][i].dedupeKey \in Note
  <1> DEFINE o == CHOOSE q \in Outbox : q.id = r
  <1>1. o \in Outbox /\ Plan[r] = planNotifications(o)
    BY DEF Row, Plan
  <1>2. Plan[r][i] \in Range(planNotifications(o))
    BY <1>1 DEF Range
  <1> HIDE DEF o
  <1>3. Plan[r][i] \in Notifications
    BY <1>1, <1>2 DEF Notifications, PlannedFor
  <1> QED BY <1>3 DEF Note

\* What the bounds and the history variable are.
HarmType == dropped \subseteq Note /\ failures \in 0 .. MaxFailures

LEMMA HarmStays ==
  ASSUME IInv, UNCHANGED harm \/ Failed
  PROVE  HarmType'
  BY BoundAssumption DEF IInv, TypeOK, harm, Failed, HarmType

LEMMA InitInvariant == Init => IInv
  <1> SUFFICES ASSUME Init PROVE IInv
    OBVIOUS
  <1> USE DEF Init
  <1>0. NoJob \in Job /\ NoJob.state = "NONE"
    BY AttemptsAssumption DEF NoJob, Job, JobState
  <1>1. TypeOK
    <2>1. log \in Seq(Row) /\ done \subseteq DOMAIN log
      OBVIOUS
    <2>2. note \in [Note -> NoteStatus]
      BY DEF NoteStatus
    <2>3. job \in [Note -> Job]
      BY <1>0
    <2>4. send \in [Note -> {"idle", "mark", "send"} \cup Outcome]
      OBVIOUS
    <2>5. \A n \in Note : (send[n] # "idle") <=> (job[n].state = "ACTIVE")
      BY <1>0
    <2>6. \A p \in Pass :
            /\ pass[p].rows \subseteq DOMAIN log
            /\ Range(pass[p].queued) \subseteq {n \in Note : note[n] # "NONE"}
            /\ pass[p].rows = {} => pass[p].at = 0
      <3>1. Range(<<>>) = {}
        BY DEF Range
      <3> QED BY <3>1, IdleFacts
    <2>7. /\ blocked \subseteq User \ Unlinked
          /\ refusing \subseteq User /\ muted \subseteq User \X Preference
      OBVIOUS
    <2>8. known \in [Note -> Nat] /\ dropped \subseteq Note /\ failures \in 0 .. MaxFailures
      BY BoundAssumption
    <2> QED BY <2>1, <2>2, <2>3, <2>4, <2>5, <2>6, <2>7, <2>8 DEF TypeOK
  <1>2. PassType
    BY IdleFacts DEF PassType
  <1>3. TriesLeft
    BY <1>0 DEF TriesLeft
  <1>4. OpenWhileSent /\ KnownIsRecorded
    BY DEF OpenWhileSent, KnownIsRecorded
  <1>5. ToldOnce
    BY DEF ToldOnce, Told, Bounced
  <1> QED BY <1>1, <1>2, <1>3, <1>4, <1>5 DEF IInv
-----------------------------------------------------------------------------
(***************************************************************************)
(* The outbox and the relay.                                               *)
(***************************************************************************)

\* A row more, at the end of the log.
LEMMA EmittedFacts ==
  ASSUME TypeOK, NEW i \in Row, log' = Emitted(i)
  PROVE  /\ log' \in Seq(Row) /\ DOMAIN log \subseteq DOMAIN log'
         /\ Len(log) + 1 \in DOMAIN log' /\ Len(log) + 1 \notin DOMAIN log
         /\ log'[Len(log) + 1] = i
         /\ \A k \in DOMAIN log' : k # Len(log) + 1 => k \in DOMAIN log /\ log'[k] = log[k]
         /\ \A k \in DOMAIN log : log'[k] = log[k]
  <1>1. log \in Seq(Row) /\ log' = Append(log, i)
    BY DEF TypeOK, Emitted
  <1> QED BY <1>1

\* What passes hold survives a longer log and newly recorded notifications.
LEMMA PassesSurvive ==
  ASSUME IInv, pass' = pass, DOMAIN log \subseteq DOMAIN log',
         \A n \in Note : note[n] # "NONE" => note'[n] # "NONE"
  PROVE  /\ PassType'
         /\ \A p \in Pass :
              /\ pass'[p].rows \subseteq DOMAIN log'
              /\ Range(pass'[p].queued) \subseteq {n \in Note : note'[n] # "NONE"}
              /\ pass'[p].rows = {} => pass'[p].at = 0
  BY DEF IInv, TypeOK, PassType

\* Nobody is told of what did not bounce, and it does not happen here.
LEMMA ToldSurvives ==
  ASSUME IInv, log' = log, \A n \in Note : Bounced(n)' <=> Bounced(n)
  PROVE  ToldOnce'
  BY DEF IInv, ToldOnce, Told

LEMMA EmitKeeps ==
  ASSUME IInv, NEW r \in Source, Emit(r)
  PROVE  IInv'
  <1> USE DEF Emit, memory, people, harm
  <1>1. r.id \in Row
    BY DEF Row, Outbox
  <1>2. log' = Emitted(r.id) /\ TypeOK
    BY DEF IInv
  <1>3. TypeOK'
    <2>1. log' \in Seq(Row) /\ done' \subseteq DOMAIN log'
      BY <1>1, <1>2, EmittedFacts DEF TypeOK
    <2>2. \A p \in Pass :
            /\ pass'[p].rows \subseteq DOMAIN log'
            /\ Range(pass'[p].queued) \subseteq {n \in Note : note'[n] # "NONE"}
            /\ pass'[p].rows = {} => pass'[p].at = 0
      BY <1>1, <1>2, EmittedFacts, PassesSurvive
    <2> QED BY <1>2, <2>1, <2>2 DEF TypeOK
  <1>4. PassType' /\ TriesLeft' /\ OpenWhileSent' /\ KnownIsRecorded'
    BY DEF IInv, PassType, TriesLeft, OpenWhileSent, KnownIsRecorded
  <1>5. ToldOnce'
    <2>1. \A n \in Note : Told(n)' = Told(n)
      BY <1>1, <1>2, EmittedFacts, NoticeAssumption DEF Told
    <2>2. \A n \in Note : Bounced(n)' <=> Bounced(n)
      BY DEF Bounced
    <2> QED BY <1>1, <1>2, <2>1, <2>2, EmittedFacts DEF IInv, ToldOnce
  <1> QED BY <1>3, <1>4, <1>5 DEF IInv

\* A step of one pass that neither writes the log nor takes a notification back.
LEMMA PassStep ==
  ASSUME IInv, NEW p \in Pass,
         NEW r \in [rows : SUBSET Nat, at : Nat, queued : Seq(Note)],
         pass' = [pass EXCEPT ![p] = r],
         r.rows \subseteq DOMAIN log, r.rows = {} => r.at = 0,
         Range(r.queued) \subseteq {n \in Note : note'[n] # "NONE"},
         done' \subseteq DOMAIN log,
         note' \in [Note -> NoteStatus],
         \A n \in Note : note'[n] = note[n] \/ (note[n] = "NONE" /\ note'[n] = "PENDING"),
         job' \in [Note -> Job],
         \A n \in Note : (job'[n].state = "ACTIVE") <=> (job[n].state = "ACTIVE"),
         TriesLeft',
         UNCHANGED <<log, send, people, known>>, UNCHANGED harm \/ Failed
  PROVE  IInv'
  <1> USE DEF people
  <1>0. HarmType'
    BY HarmStays
  <1>1. \A q \in Pass : pass'[q] = IF q = p THEN r ELSE pass[q]
    BY DEF IInv, PassType
  <1>2. PassType'
    BY DEF IInv, PassType
  <1>3. TypeOK'
    <2>1. \A q \in Pass :
            /\ pass'[q].rows \subseteq DOMAIN log'
            /\ Range(pass'[q].queued) \subseteq {n \in Note : note'[n] # "NONE"}
            /\ pass'[q].rows = {} => pass'[q].at = 0
      <3> SUFFICES ASSUME NEW q \in Pass
                   PROVE  /\ pass'[q].rows \subseteq DOMAIN log
                          /\ Range(pass'[q].queued) \subseteq {n \in Note : note'[n] # "NONE"}
                          /\ pass'[q].rows = {} => pass'[q].at = 0
        OBVIOUS
      <3>1. CASE q = p
        BY <1>1, <3>1
      <3>2. CASE q # p
        <4>1. pass'[q] = pass[q]
          BY <1>1, <3>2
        <4>2. {n \in Note : note[n] # "NONE"} \subseteq {n \in Note : note'[n] # "NONE"}
          OBVIOUS
        <4> QED BY <4>1, <4>2 DEF IInv, TypeOK
      <3> QED BY <3>1, <3>2
    <2>2. \A n \in Note : (send'[n] # "idle") <=> (job'[n].state = "ACTIVE")
      BY DEF IInv, TypeOK
    <2> QED BY <1>0, <2>1, <2>2 DEF IInv, TypeOK, HarmType
  <1>4. OpenWhileSent' /\ KnownIsRecorded'
    BY DEF IInv, OpenWhileSent, KnownIsRecorded
  <1>5. ToldOnce'
    BY ToldSurvives DEF Bounced
  <1> QED BY <1>2, <1>3, <1>4, <1>5 DEF IInv

LEMMA DrainKeeps ==
  ASSUME IInv, NEW p \in Pass, Drain(p)
  PROVE  IInv'
  <1> USE DEF Drain, people
  <1> DEFINE r == [pass[p] EXCEPT !.rows = Backlog]
  <1>1. Backlog \subseteq DOMAIN log /\ DOMAIN log \subseteq Nat
    BY DEF Backlog, IInv, TypeOK
  <1>2. r \in [rows : SUBSET Nat, at : Nat, queued : Seq(Note)]
          /\ r.rows = Backlog /\ r.queued = <<>>
    BY <1>1, IdleFacts
  <1>3. pass' = [pass EXCEPT ![p] = r]
    BY DEF IInv, PassType
  <1>4. Range(<<>>) = {}
    BY DEF Range
  <1> HIDE DEF r
  <1>5. /\ note' \in [Note -> NoteStatus] /\ job' \in [Note -> Job] /\ done' \subseteq DOMAIN log
        /\ TriesLeft'
    BY DEF IInv, TypeOK, TriesLeft
  <1> QED BY <1>1, <1>2, <1>3, <1>4, <1>5, PassStep

\* A pass that has rows is at one of them.
LEMMA AtFacts ==
  ASSUME IInv, NEW p \in Pass, pass[p].rows # {}
  PROVE  At(p) \in pass[p].rows /\ At(p) \in DOMAIN log /\ log[At(p)] \in Row
  <1>1. pass[p].rows \in SUBSET Nat /\ pass[p].rows \subseteq DOMAIN log /\ log \in Seq(Row)
    BY DEF IInv, PassType, TypeOK
  <1>2. At(p) \in pass[p].rows
    BY <1>1, MinIsElement DEF At
  <1> QED BY <1>1, <1>2

LEMMA QueueNoteKeeps ==
  ASSUME IInv, NEW p \in Pass, QueueNote(p)
  PROVE  IInv'
  <1> USE DEF people
  <1> DEFINE n == Current(p)[pass[p].at + 1].dedupeKey
             t == pass[p]
  <1>0. t \in [rows : SUBSET Nat, at : Nat, queued : Seq(Note)] /\ t.rows \subseteq DOMAIN log
          /\ t.rows # {} /\ Range(t.queued) \subseteq {m \in Note : note[m] # "NONE"}
    BY DEF IInv, PassType, TypeOK, QueueNote, Fanning
  <1>1. n \in Note
    BY <1>0, AtFacts, PlanIsKnown DEF QueueNote, Fanning, Current
  <1>2. /\ job' \in [Note -> Job] /\ done' \subseteq DOMAIN log /\ TriesLeft'
        /\ UNCHANGED <<log, send, job, people, known, harm>>
    BY DEF IInv, TypeOK, TriesLeft, QueueNote
  <1>3. CASE To(n) \in Absent
    <2> DEFINE r == [t EXCEPT !.at = @ + 1]
    <2>1. r \in [rows : SUBSET Nat, at : Nat, queued : Seq(Note)]
            /\ r.rows = t.rows /\ r.queued = t.queued
      BY <1>0
    <2>2. pass' = [pass EXCEPT ![p] = r] /\ note' = note
      BY <1>3 DEF QueueNote, IInv, PassType
    <2> HIDE DEF r
    <2>3. note' \in [Note -> NoteStatus]
      BY <2>2 DEF IInv, TypeOK
    <2> QED BY <1>0, <1>2, <2>1, <2>2, <2>3, PassStep
  <1>4. CASE To(n) \notin Absent
    <2> DEFINE r == [t EXCEPT !.at = @ + 1, !.queued = Append(@, n)]
    <2>1. r \in [rows : SUBSET Nat, at : Nat, queued : Seq(Note)]
            /\ r.rows = t.rows /\ r.queued = Append(t.queued, n)
      <3>1. t.at + 1 \in Nat /\ t.queued \in Seq(Note)
        BY <1>0
      <3> HIDE DEF n
      <3>2. Append(t.queued, n) \in Seq(Note)
        BY <1>1, <3>1
      <3> QED BY <1>0, <3>1, <3>2
    <2>2. pass' = [pass EXCEPT ![p] = r] /\ note' = Queued(n)
      BY <1>4 DEF QueueNote, IInv, PassType
    <2> HIDE DEF r, n
    <2>3. /\ note' \in [Note -> NoteStatus] /\ note'[n] # "NONE"
          /\ \A m \in Note : note'[m] = note[m] \/ (note[m] = "NONE" /\ note'[m] = "PENDING")
      BY <1>1, <2>2 DEF Queued, IInv, TypeOK, NoteStatus
    <2>4. Range(r.queued) \subseteq {m \in Note : note'[m] # "NONE"}
      <3>1. \A i \in DOMAIN t.queued : t.queued[i] \in Note /\ note[t.queued[i]] # "NONE"
        BY <1>0 DEF Range
      <3>2. \A i \in DOMAIN r.queued : r.queued[i] = n \/ \E k \in DOMAIN t.queued :
                                                            r.queued[i] = t.queued[k]
        BY <1>0, <1>1, <2>1
      <3> QED BY <1>1, <2>3, <3>1, <3>2 DEF Range
    <2> QED BY <1>0, <1>2, <2>1, <2>2, <2>3, <2>4, PassStep
  <1> QED BY <1>3, <1>4

LEMMA MarkProcessedKeeps ==
  ASSUME IInv, NEW p \in Pass, MarkProcessed(p)
  PROVE  IInv'
  <1> USE DEF MarkProcessed, people
  <1> DEFINE t == pass[p]
             r == [t EXCEPT !.rows = @ \ {At(p)}, !.at = 0]
  <1>0. t \in [rows : SUBSET Nat, at : Nat, queued : Seq(Note)] /\ t.rows \subseteq DOMAIN log
          /\ Range(t.queued) \subseteq {m \in Note : note[m] # "NONE"}
    BY DEF IInv, PassType, TypeOK
  <1>1. At(p) \in DOMAIN log
    BY AtFacts
  <1>2. r \in [rows : SUBSET Nat, at : Nat, queued : Seq(Note)]
          /\ r.rows \subseteq DOMAIN log /\ r.at = 0 /\ r.queued = t.queued
    BY <1>0
  <1>3. pass' = [pass EXCEPT ![p] = r]
    BY DEF IInv, PassType
  <1> HIDE DEF r
  <1>4. done' \subseteq DOMAIN log
    BY <1>1 DEF IInv, TypeOK
  <1>5. note' \in [Note -> NoteStatus] /\ job' \in [Note -> Job] /\ TriesLeft'
    BY DEF IInv, TypeOK, TriesLeft
  <1>6. Range(r.queued) \subseteq {m \in Note : note'[m] # "NONE"}
    BY <1>0, <1>2
  <1>7. /\ note' = note /\ job' = job /\ \A n \in Note : note'[n] = note[n]
        /\ UNCHANGED <<log, send, people, known, harm>>
    OBVIOUS
  <1> HIDE DEF t, MarkProcessed
  <1> QED BY <1>2, <1>3, <1>4, <1>5, <1>6, <1>7, PassStep

LEMMA EnqueueKeeps ==
  ASSUME IInv, NEW p \in Pass, Enqueue(p)
  PROVE  IInv'
  <1> USE DEF Enqueue, people
  <1> DEFINE t == pass[p]
             r == [t EXCEPT !.queued = Tail(@)]
             n == Head(t.queued)
  <1>0. t \in [rows : SUBSET Nat, at : Nat, queued : Seq(Note)] /\ t.rows \subseteq DOMAIN log
          /\ Range(t.queued) \subseteq {m \in Note : note[m] # "NONE"}
          /\ (t.rows = {} => t.at = 0)
    BY DEF IInv, PassType, TypeOK
  <1>1. n \in Note
    BY <1>0
  <1>2. r \in [rows : SUBSET Nat, at : Nat, queued : Seq(Note)]
          /\ r.rows = t.rows /\ r.at = t.at /\ r.queued = Tail(t.queued)
    <2>1. Tail(t.queued) \in Seq(Note)
      <3>1. t.queued \in Seq(Note) /\ t.queued # <<>>
        BY <1>0
      <3> QED BY <3>1
    <2> HIDE DEF t
    <2> QED BY <1>0, <2>1
  <1>3. pass' = [pass EXCEPT ![p] = r]
    BY DEF IInv, PassType
  <1> HIDE DEF r
  <1>4. Range(r.queued) \subseteq {m \in Note : note'[m] # "NONE"}
    <2>1. \A i \in DOMAIN r.queued : \E k \in DOMAIN t.queued : r.queued[i] = t.queued[k]
      <3>1. \A i \in DOMAIN r.queued : i + 1 \in DOMAIN t.queued /\ r.queued[i] = t.queued[i + 1]
        BY <1>0, <1>2
      <3> QED BY <3>1
    <2> QED BY <1>0, <2>1 DEF Range
  <1> HIDE DEF n
  <1>5. job' = [job EXCEPT ![n] = Added(job[n])] /\ job[n] \in Job
    BY <1>1 DEF IInv, TypeOK, n
  <1>6. /\ job' \in [Note -> Job]
        /\ \A m \in Note : job'[m] = IF m = n THEN Added(job[n]) ELSE job[m]
    <2>1. Added(job[n]) \in Job
      BY <1>5, JobFacts
    <2>2. job \in [Note -> Job]
      BY DEF IInv, TypeOK
    <2> QED BY <1>1, <1>5, <2>1, <2>2
  <1>7. \A m \in Note : (job'[m].state = "ACTIVE") <=> (job[m].state = "ACTIVE")
    BY <1>1, <1>5, <1>6, JobMoves
  <1>8. TriesLeft'
    BY <1>1, <1>5, <1>6, JobMoves DEF IInv, TriesLeft
  <1>9. note' \in [Note -> NoteStatus] /\ done' \subseteq DOMAIN log
    BY DEF IInv, TypeOK
  <1>10. /\ note' = note /\ \A m \in Note : note'[m] = note[m]
         /\ UNCHANGED <<log, send, people, known, harm>>
    OBVIOUS
  <1>11. r.rows \subseteq DOMAIN log /\ (r.rows = {} => r.at = 0)
    BY <1>0, <1>2
  <1> HIDE DEF t, Enqueue
  <1> QED BY <1>2, <1>3, <1>4, <1>6, <1>7, <1>8, <1>9, <1>10, <1>11, PassStep
-----------------------------------------------------------------------------
(***************************************************************************)
(* The sender, people and the worker's process.                            *)
(***************************************************************************)

\* A step about one notification: what its job, its sender, its row and the count
\* of its copies become fits together, and the others keep theirs.
LEMMA NoteStep ==
  ASSUME IInv, NEW n \in Note,
         NEW j \in Job, NEW s \in {"idle", "mark", "send"} \cup Outcome,
         NEW k \in NoteStatus, NEW c \in Nat,
         job' = [job EXCEPT ![n] = j], send' = [send EXCEPT ![n] = s],
         note' = [note EXCEPT ![n] = k], known' = [known EXCEPT ![n] = c],
         (s # "idle") <=> (j.state = "ACTIVE"),
         j.state \in {"WAITING", "ACTIVE"} => j.tries < Attempts,
         s # "idle" => k \notin {"SENT", "UNDELIVERABLE"},
         c = IF s = "SENT" \/ k = "SENT" THEN 1 ELSE 0,
         note[n] # "NONE" => k # "NONE",
         log' \in Seq(Row), DOMAIN log \subseteq DOMAIN log',
         blocked' \subseteq User \ Unlinked,
         ToldOnce',
         UNCHANGED <<done, pass, refusing, muted>>, UNCHANGED harm \/ Failed
  PROVE  IInv'
  <1>0. HarmType'
    BY HarmStays
  <1>1. /\ \A m \in Note : job'[m] = IF m = n THEN j ELSE job[m]
        /\ \A m \in Note : send'[m] = IF m = n THEN s ELSE send[m]
        /\ \A m \in Note : note'[m] = IF m = n THEN k ELSE note[m]
        /\ \A m \in Note : known'[m] = IF m = n THEN c ELSE known[m]
    BY DEF IInv, TypeOK
  <1>2. /\ PassType'
        /\ \A p \in Pass :
              /\ pass'[p].rows \subseteq DOMAIN log'
              /\ Range(pass'[p].queued) \subseteq {m \in Note : note'[m] # "NONE"}
              /\ pass'[p].rows = {} => pass'[p].at = 0
    BY <1>1, PassesSurvive
  <1>3. TypeOK'
    <2>1. /\ job' \in [Note -> Job] /\ note' \in [Note -> NoteStatus]
          /\ send' \in [Note -> {"idle", "mark", "send"} \cup Outcome]
          /\ known' \in [Note -> Nat]
      BY DEF IInv, TypeOK
    <2>2. \A m \in Note : (send'[m] # "idle") <=> (job'[m].state = "ACTIVE")
      BY <1>1 DEF IInv, TypeOK
    <2>3. done' \subseteq DOMAIN log'
      BY DEF IInv, TypeOK
    <2> QED BY <1>0, <1>2, <2>1, <2>2, <2>3 DEF IInv, TypeOK, HarmType
  <1>4. TriesLeft'
    BY <1>1 DEF IInv, TriesLeft
  <1>5. OpenWhileSent'
    BY <1>1 DEF IInv, OpenWhileSent
  <1>6. KnownIsRecorded'
    BY <1>1 DEF IInv, KnownIsRecorded
  <1> QED BY <1>2, <1>3, <1>4, <1>5, <1>6 DEF IInv

\* The state of one notification, as the invariant has it.
LEMMA NoteFacts ==
  ASSUME IInv, NEW n \in Note
  PROVE  /\ job[n] \in Job /\ note[n] \in NoteStatus /\ known[n] \in Nat
         /\ send[n] \in {"idle", "mark", "send"} \cup Outcome
         /\ (send[n] # "idle") <=> (job[n].state = "ACTIVE")
         /\ job[n].state \in {"WAITING", "ACTIVE"} => job[n].tries < Attempts
         /\ send[n] # "idle" => note[n] \notin {"SENT", "UNDELIVERABLE"}
         /\ known[n] = IF send[n] = "SENT" \/ note[n] = "SENT" THEN 1 ELSE 0
         /\ job = [job EXCEPT ![n] = job[n]] /\ send = [send EXCEPT ![n] = send[n]]
         /\ note = [note EXCEPT ![n] = note[n]] /\ known = [known EXCEPT ![n] = known[n]]
         /\ log \in Seq(Row) /\ blocked \subseteq User \ Unlinked
  BY DEF IInv, TypeOK, TriesLeft, OpenWhileSent, KnownIsRecorded

\* A step about one notification that does not make it undeliverable.
LEMMA QuietStep ==
  ASSUME IInv, NEW n \in Note,
         NEW j \in Job, NEW s \in {"idle", "mark", "send"} \cup Outcome,
         NEW k \in NoteStatus, NEW c \in Nat,
         job' = [job EXCEPT ![n] = j], send' = [send EXCEPT ![n] = s],
         note' = [note EXCEPT ![n] = k], known' = [known EXCEPT ![n] = c],
         (s # "idle") <=> (j.state = "ACTIVE"),
         j.state \in {"WAITING", "ACTIVE"} => j.tries < Attempts,
         s # "idle" => k \notin {"SENT", "UNDELIVERABLE"},
         c = IF s = "SENT" \/ k = "SENT" THEN 1 ELSE 0,
         note[n] # "NONE" => k # "NONE",
         (k = "UNDELIVERABLE") <=> (note[n] = "UNDELIVERABLE"),
         UNCHANGED <<log, done, pass, blocked, refusing, muted>>, UNCHANGED harm \/ Failed
  PROVE  IInv'
  <1>1. \A m \in Note : Bounced(m)' <=> Bounced(m)
    BY DEF Bounced, IInv, TypeOK
  <1>2. ToldOnce'
    BY <1>1, ToldSurvives
  <1>3. log' \in Seq(Row) /\ DOMAIN log \subseteq DOMAIN log' /\ blocked' \subseteq User \ Unlinked
    BY DEF IInv, TypeOK
  <1> QED BY <1>2, <1>3, NoteStep

LEMMA LoadKeeps ==
  ASSUME IInv, NEW n \in Note, Load(n)
  PROVE  IInv'
  <1> USE DEF people
  <1>1. job[n] \in Job /\ job[n].state = "WAITING" /\ send[n] = "idle"
    BY NoteFacts DEF Load
  <1>2. /\ Completed(job[n]) \in Job /\ Completed(job[n]).state = "DONE"
        /\ Taken(job[n]) \in Job /\ Taken(job[n]).state = "ACTIVE"
        /\ Taken(job[n]).tries < Attempts
    BY <1>1, JobFacts, JobMoves, NoteFacts
  <1>3. UNCHANGED <<log, done, pass, blocked, refusing, muted, harm>>
          /\ known' = [known EXCEPT ![n] = known[n]]
    BY NoteFacts DEF Load
  <1>4. CASE ~ Loadable(n)
    <2>1. job' = [job EXCEPT ![n] = Completed(job[n])] /\ send' = [send EXCEPT ![n] = send[n]]
            /\ note' = [note EXCEPT ![n] = note[n]]
      BY <1>4, NoteFacts DEF Load
    <2> QED BY <1>1, <1>2, <1>3, <2>1, NoteFacts, QuietStep
  <1>5. CASE Loadable(n)
    <2>0. note[n] \notin {"SENT", "UNDELIVERABLE"} /\ known[n] = 0
      BY <1>1, <1>5, NoteFacts DEF Loadable
    <2>1. CASE \E s \in {"mark", "send"} :
                 /\ job' = [job EXCEPT ![n] = Taken(job[n])]
                 /\ send' = [send EXCEPT ![n] = s]
                 /\ note' = note
      <3>1. PICK s \in {"mark", "send"} : send' = [send EXCEPT ![n] = s]
        BY <2>1
      <3>2. note' = [note EXCEPT ![n] = note[n]] /\ job' = [job EXCEPT ![n] = Taken(job[n])]
        BY <2>1, NoteFacts
      <3> QED BY <1>2, <1>3, <2>0, <3>1, <3>2, NoteFacts, QuietStep
    <2>2. CASE \E k \in {"SUPPRESSED", "FAILED"} :
                 /\ job' = [job EXCEPT ![n] = Completed(job[n])]
                 /\ note' = [note EXCEPT ![n] = k]
                 /\ send' = send
      <3>1. PICK k \in {"SUPPRESSED", "FAILED"} : note' = [note EXCEPT ![n] = k]
        BY <2>2
      <3>2. send' = [send EXCEPT ![n] = send[n]] /\ job' = [job EXCEPT ![n] = Completed(job[n])]
        BY <2>2, NoteFacts
      <3>3. k \in NoteStatus
        BY DEF NoteStatus
      <3> QED BY <1>1, <1>2, <1>3, <2>0, <3>1, <3>2, <3>3, NoteFacts, QuietStep
    <2> QED BY <1>5, <2>1, <2>2 DEF Load
  <1> QED BY <1>4, <1>5

LEMMA CallTelegramKeeps ==
  ASSUME IInv, NEW n \in Note, CallTelegram(n)
  PROVE  IInv'
  <1> USE DEF people
  <1>1. PICK a \in Answers(n) :
          /\ send' = [send EXCEPT ![n] = a]
          /\ known' = [known EXCEPT ![n] = IF a = "SENT" THEN known[n] + 1 ELSE known[n]]
    BY DEF CallTelegram
  <1>2. a \in Outcome
    BY DEF Answers, Outcome
  <1>3. send[n] = "send" /\ known[n] = 0
    BY NoteFacts DEF CallTelegram
  <1> DEFINE c == IF a = "SENT" THEN 1 ELSE 0
  <1>4. known' = [known EXCEPT ![n] = c] /\ c \in Nat
    BY <1>1, <1>3
  <1>5. /\ job' = [job EXCEPT ![n] = job[n]] /\ note' = [note EXCEPT ![n] = note[n]]
        /\ UNCHANGED <<log, done, pass, blocked, refusing, muted, harm>>
    BY NoteFacts DEF CallTelegram
  <1>6. a # "idle"
    BY <1>2 DEF Outcome
  <1>7. /\ job[n] \in Job /\ note[n] \in NoteStatus /\ job[n].state = "ACTIVE"
        /\ job[n].tries < Attempts /\ note[n] \notin {"SENT", "UNDELIVERABLE"}
    BY <1>3, NoteFacts
  <1> HIDE DEF c
  <1>8. c = IF a = "SENT" \/ note[n] = "SENT" THEN 1 ELSE 0
    BY <1>7 DEF c
  <1> QED BY <1>1, <1>2, <1>4, <1>5, <1>6, <1>7, <1>8, QuietStep

LEMMA MarkSentKeeps ==
  ASSUME IInv, NEW n \in Note, MarkSent(n)
  PROVE  IInv'
  <1> USE DEF people
  <1>1. /\ send[n] = "SENT" /\ known[n] = 1 /\ note[n] \notin {"SENT", "UNDELIVERABLE"}
        /\ job[n] \in Job
    BY NoteFacts DEF MarkSent
  <1>2. Completed(job[n]) \in Job /\ Completed(job[n]).state = "DONE" /\ "SENT" \in NoteStatus
    BY <1>1, JobFacts, JobMoves DEF NoteStatus
  <1>3. /\ job' = [job EXCEPT ![n] = Completed(job[n])] /\ send' = [send EXCEPT ![n] = "idle"]
        /\ note' = [note EXCEPT ![n] = "SENT"] /\ known' = [known EXCEPT ![n] = known[n]]
        /\ UNCHANGED <<log, done, pass, blocked, refusing, muted, harm>>
    BY NoteFacts DEF MarkSent, Finish
  <1> QED BY <1>1, <1>2, <1>3, QuietStep

LEMMA MarkFailedKeeps ==
  ASSUME IInv, NEW n \in Note, MarkFailed(n)
  PROVE  IInv'
  <1> USE DEF people
  <1>1. /\ send[n] = "RETRY" /\ known[n] = 0 /\ note[n] \notin {"SENT", "UNDELIVERABLE"}
        /\ job[n] \in Job /\ job[n].tries < Attempts
    BY NoteFacts DEF MarkFailed
  <1>2. /\ Thrown(job[n]) \in Job /\ Thrown(job[n]).state # "ACTIVE"
        /\ Thrown(job[n]).state = "WAITING" => Thrown(job[n]).tries < Attempts
        /\ "FAILED" \in NoteStatus
    BY <1>1, JobFacts, JobMoves DEF NoteStatus
  <1>3. /\ job' = [job EXCEPT ![n] = Thrown(job[n])] /\ send' = [send EXCEPT ![n] = "idle"]
        /\ note' = [note EXCEPT ![n] = "FAILED"] /\ known' = [known EXCEPT ![n] = known[n]]
        /\ UNCHANGED <<log, done, pass, blocked, refusing, muted, harm>>
    BY NoteFacts DEF MarkFailed
  <1> DEFINE j == Thrown(job[n])
             s == "idle"
             k == "FAILED"
             c == known[n]
  <1>4. /\ j \in Job
        /\ (s # "idle") <=> (j.state = "ACTIVE")
        /\ j.state \in {"WAITING", "ACTIVE"} => j.tries < Attempts
    BY <1>2
  <1>5. /\ s \in {"idle", "mark", "send"} \cup Outcome /\ k \in NoteStatus /\ c \in Nat
        /\ s # "idle" => k \notin {"SENT", "UNDELIVERABLE"}
        /\ c = IF s = "SENT" \/ k = "SENT" THEN 1 ELSE 0
        /\ note[n] # "NONE" => k # "NONE"
        /\ (k = "UNDELIVERABLE") <=> (note[n] = "UNDELIVERABLE")
    BY <1>1, <1>2
  <1>6. /\ job' = [job EXCEPT ![n] = j] /\ send' = [send EXCEPT ![n] = s]
        /\ note' = [note EXCEPT ![n] = k] /\ known' = [known EXCEPT ![n] = c]
    BY <1>3
  <1>7. UNCHANGED <<log, done, pass, blocked, refusing, muted, harm>>
    BY <1>3
  <1> HIDE DEF j, s, k, c
  <1> QED BY <1>4, <1>5, <1>6, <1>7, QuietStep, Zenon

\* The job is mirrored or forgotten; nothing of the notification changes.
LEMMA JobEndKeeps ==
  ASSUME IInv, NEW n \in Note, RecordFailure(n) \/ ForgetJob(n)
  PROVE  IInv'
  <1> USE DEF people, memory
  <1> DEFINE j == IF job[n].state = "FAILED" THEN Recorded(job[n]) ELSE Forgotten(job[n])
  <1>1. job' = [job EXCEPT ![n] = j] /\ job[n].state \in {"FAILED", "DONE"}
    BY DEF RecordFailure, ForgetJob
  <1>2. j \in Job /\ j.state \in {"RECORDED", "NONE"}
    <2>1. job[n] \in Job
      BY NoteFacts
    <2>2. Recorded(job[n]) \in Job /\ Recorded(job[n]).state = "RECORDED"
      BY <2>1, JobFacts, JobMoves
    <2>3. /\ Forgotten(job[n]) \in Job
          /\ job[n].state = "DONE" => Forgotten(job[n]).state = "NONE"
      BY <2>1, JobFacts, JobMoves
    <2> QED BY <1>1, <2>2, <2>3
  <1>3. /\ send' = [send EXCEPT ![n] = send[n]]
        /\ note' = [note EXCEPT ![n] = note[n]] /\ known' = [known EXCEPT ![n] = known[n]]
        /\ UNCHANGED <<log, done, pass, blocked, refusing, muted, harm>>
    BY NoteFacts DEF RecordFailure, ForgetJob
  <1>4. send[n] = "idle"
    BY <1>1, NoteFacts
  <1> HIDE DEF j
  <1> QED BY <1>1, <1>2, <1>3, <1>4, NoteFacts, QuietStep

\* The status, the account and the notice, in one transaction.
LEMMA MarkUndeliverableKeeps ==
  ASSUME IInv, NEW n \in Note, MarkUndeliverable(n)
  PROVE  IInv'
  <1> USE DEF people
  <1>1. /\ send[n] \in {"mark", "BLOCKED"} /\ known[n] = 0
        /\ note[n] \notin {"SENT", "UNDELIVERABLE"} /\ job[n] \in Job
    BY NoteFacts DEF MarkUndeliverable
  <1>2. Completed(job[n]) \in Job /\ Completed(job[n]).state = "DONE"
          /\ "UNDELIVERABLE" \in NoteStatus
    BY <1>1, JobFacts, JobMoves DEF NoteStatus
  <1>3. /\ job' = [job EXCEPT ![n] = Completed(job[n])] /\ send' = [send EXCEPT ![n] = "idle"]
        /\ note' = [note EXCEPT ![n] = "UNDELIVERABLE"]
        /\ known' = [known EXCEPT ![n] = known[n]]
        /\ UNCHANGED <<done, pass, refusing, muted, harm>>
    BY NoteFacts DEF MarkUndeliverable, Finish
  <1>4. blocked' \subseteq User \ Unlinked
    BY NoteFacts, RowAssumption DEF MarkUndeliverable
  <1>5. \A m \in Note : note'[m] = IF m = n THEN "UNDELIVERABLE" ELSE note[m]
    BY <1>3 DEF IInv, TypeOK
  <1>6. \A m \in Note : m # n => (Bounced(m)' <=> Bounced(m))
    BY <1>5 DEF Bounced
  <1>7. ~ Bounced(n) /\ (Bounced(n)' <=> To(n) \notin Unlinked)
    BY <1>1, <1>5 DEF Bounced
  <1>8. CASE log' = log
    <2>1. To(n) \in Unlinked \/ Notice[n] = None
      <3> SUFFICES ASSUME To(n) \notin Unlinked, Notice[n] # None
                   PROVE  FALSE
        OBVIOUS
      <3>1. Notice[n] \in Row /\ log' = Emitted(Notice[n]) /\ TypeOK
        BY NoticeAssumption DEF MarkUndeliverable, IInv
      <3>2. Len(log) + 1 \in DOMAIN log' /\ Len(log) + 1 \notin DOMAIN log
        BY <3>1, EmittedFacts
      <3> QED BY <1>8, <3>2
    <2>2. ToldOnce'
      BY <1>6, <1>7, <1>8, <2>1 DEF IInv, ToldOnce, Told
    <2>3. log' \in Seq(Row) /\ DOMAIN log \subseteq DOMAIN log'
      BY <1>8, NoteFacts
    <2> QED BY <1>1, <1>2, <1>3, <1>4, <2>2, <2>3, NoteFacts, NoteStep
  <1>9. CASE log' # log
    <2>1. To(n) \notin Unlinked /\ Notice[n] # None /\ log' = Emitted(Notice[n])
      BY <1>9 DEF MarkUndeliverable
    <2>2. Notice[n] \in Row /\ TypeOK
      BY <2>1, NoticeAssumption DEF IInv
    <2>3. \A m \in Note : m # n /\ Notice[m] # None => Told(m)' = Told(m)
      <3> SUFFICES ASSUME NEW m \in Note, m # n, Notice[m] # None
                   PROVE  Told(m)' = Told(m)
        OBVIOUS
      <3>1. Notice[m] # Notice[n]
        BY NoticeAssumption
      <3> QED BY <2>1, <2>2, <3>1, EmittedFacts DEF Told
    <2>4. Told(n)' = {Len(log) + 1}
      <3>1. Told(n) = {}
        BY <1>7, <2>1 DEF IInv, ToldOnce
      <3> QED BY <2>1, <2>2, <3>1, EmittedFacts DEF Told
    <2>5. DOMAIN log \subseteq DOMAIN log' /\ Len(log) + 1 \in DOMAIN log' /\ log' \in Seq(Row)
      BY <2>1, <2>2, EmittedFacts
    <2>6. ToldOnce'
      <3> SUFFICES ASSUME NEW m \in Note, Notice[m] # None
                   PROVE  /\ Bounced(m)' => \E i \in DOMAIN log' : Told(m)' = {i}
                          /\ ~ Bounced(m)' => Told(m)' = {}
        BY DEF ToldOnce
      <3>1. CASE m = n
        BY <1>7, <2>1, <2>4, <2>5, <3>1
      <3>2. CASE m # n
        BY <1>6, <2>3, <2>5, <3>2 DEF IInv, ToldOnce
      <3> QED BY <3>1, <3>2
    <2> QED BY <1>1, <1>2, <1>3, <1>4, <2>5, <2>6, NoteFacts, NoteStep
  <1> QED BY <1>8, <1>9

\* What people do changes who can be reached and who wants to be.
LEMMA PeopleKeep ==
  ASSUME IInv, NEW u \in User,
         \/ BlockBot(u) \/ MarkBotBlocked(u) \/ Arrive(u)
         \/ \E c \in Preference : ChangePreference(u, c)
  PROVE  IInv'
  <1> USE DEF BlockBot, MarkBotBlocked, Arrive, ChangePreference, memory, harm
  <1>1. UNCHANGED <<log, done, note, job, pass, send, known, harm>>
    OBVIOUS
  <1>2. /\ blocked' \subseteq User \ Unlinked
        /\ refusing' \subseteq User /\ muted' \subseteq User \X Preference
    <2>1. blocked \subseteq User \ Unlinked /\ refusing \subseteq User
            /\ muted \subseteq User \X Preference
      BY DEF IInv, TypeOK
    <2>2. CASE BlockBot(u)
      BY <2>1, <2>2
    <2>3. CASE MarkBotBlocked(u)
      BY <2>1, <2>3
    <2>4. CASE Arrive(u)
      BY <2>1, <2>4
    <2>5. CASE \E c \in Preference : ChangePreference(u, c)
      BY <2>1, <2>5
    <2> QED BY <2>2, <2>3, <2>4, <2>5
  <1>3. TypeOK'
    BY <1>1, <1>2 DEF IInv, TypeOK
  <1>4. PassType' /\ TriesLeft' /\ OpenWhileSent' /\ KnownIsRecorded'
    BY <1>1 DEF IInv, PassType, TriesLeft, OpenWhileSent, KnownIsRecorded
  <1>5. ToldOnce'
    BY <1>1, ToldSurvives DEF Bounced
  <1> QED BY <1>3, <1>4, <1>5 DEF IInv

\* A pass that fails forgets what it held, and nothing else changes.
LEMMA PassFailsKeeps ==
  ASSUME IInv, NEW p \in Pass, PassFails(p)
  PROVE  IInv'
  <1>1. Range(Idle.queued) = {}
    BY IdleFacts DEF Range
  <1>2. /\ pass' = [pass EXCEPT ![p] = Idle]
        /\ UNCHANGED <<log, send, people, known>> /\ Failed
        /\ note' = note /\ job' = job /\ done' = done
    BY DEF PassFails
  <1>3. /\ note' \in [Note -> NoteStatus] /\ job' \in [Note -> Job] /\ done' \subseteq DOMAIN log
        /\ TriesLeft'
    BY <1>2 DEF IInv, TypeOK, TriesLeft
  <1>4. /\ Idle.rows \subseteq DOMAIN log
        /\ Range(Idle.queued) \subseteq {n \in Note : note'[n] # "NONE"}
    BY <1>1, IdleFacts
  <1>5. /\ \A n \in Note : note'[n] = note[n]
        /\ \A n \in Note : (job'[n].state = "ACTIVE") <=> (job[n].state = "ACTIVE")
    BY <1>2
  <1> QED BY <1>2, <1>3, <1>4, <1>5, IdleFacts, PassStep

\* A send that throws goes back to its queue; a copy nobody recorded is not known of.
LEMMA SendThrowsKeeps ==
  ASSUME IInv, NEW n \in Note, SendThrows(n)
  PROVE  IInv'
  <1> DEFINE j == Thrown(job[n])
             c == Unlearnt(n)
  <1>1. /\ job[n].state \in {"WAITING", "ACTIVE"} /\ job[n].tries < Attempts /\ job[n] \in Job
        /\ known[n] = IF send[n] = "SENT" \/ note[n] = "SENT" THEN 1 ELSE 0
        /\ send[n] = "SENT" => note[n] # "SENT"
        /\ note[n] \in NoteStatus
    BY NoteFacts DEF SendThrows
  <1>2. /\ j \in Job /\ j.state # "ACTIVE"
        /\ j.state \in {"WAITING", "ACTIVE"} => j.tries < Attempts
    BY <1>1, JobFacts, JobMoves
  <1>3. c \in Nat /\ c = IF note[n] = "SENT" THEN 1 ELSE 0
    BY <1>1 DEF Unlearnt
  <1>4. /\ job' = [job EXCEPT ![n] = j] /\ send' = [send EXCEPT ![n] = "idle"]
        /\ note' = [note EXCEPT ![n] = note[n]] /\ known' = [known EXCEPT ![n] = c]
        /\ UNCHANGED <<log, done, pass, blocked, refusing, muted>> /\ Failed
    BY NoteFacts DEF SendThrows, people
  <1> HIDE DEF j, c
  <1> QED BY <1>1, <1>2, <1>3, <1>4, QuietStep

\* The copies the worker knew of and had not recorded are forgotten with it.
LEMMA CrashKeeps ==
  ASSUME IInv, Crash
  PROVE  IInv'
  <1> USE DEF Crash, people, Unlearnt
  <1>1. \A n \in Note : /\ job[n] \in Job /\ Stalled(job[n]) \in Job
                        /\ Stalled(job[n]).state # "ACTIVE"
                        /\ Stalled(job[n]).state = "WAITING" =>
                             job[n].state \in {"WAITING", "ACTIVE"}
                        /\ Stalled(job[n]).tries = job[n].tries
    <2> SUFFICES ASSUME NEW n \in Note
                 PROVE  /\ job[n] \in Job /\ Stalled(job[n]) \in Job
                        /\ Stalled(job[n]).state # "ACTIVE"
                        /\ Stalled(job[n]).state = "WAITING" =>
                             job[n].state \in {"WAITING", "ACTIVE"}
                        /\ Stalled(job[n]).tries = job[n].tries
      OBVIOUS
    <2>1. job[n] \in Job
      BY NoteFacts
    <2>2. Stalled(job[n]) \in Job
      BY <2>1, JobFacts
    <2>3. /\ Stalled(job[n]).state = IF job[n].state = "ACTIVE" THEN "WAITING" ELSE job[n].state
          /\ Stalled(job[n]).tries = job[n].tries
      BY <2>1, JobMoves
    <2> QED BY <2>1, <2>2, <2>3
  <1>2. TypeOK'
    <2>1. job' \in [Note -> Job] /\ \A n \in Note : job'[n].state # "ACTIVE"
      BY <1>1
    <2>2. send' \in [Note -> {"idle", "mark", "send"} \cup Outcome]
            /\ \A n \in Note : send'[n] = "idle"
      OBVIOUS
    <2>3. known' \in [Note -> Nat]
      <3>1. \A n \in Note : send[n] = "SENT" => known[n] = 1
        BY NoteFacts
      <3>2. \A n \in Note : known[n] \in Nat
        BY NoteFacts
      <3> QED BY <3>1, <3>2
    <2>4. \A p \in Pass :
            /\ pass'[p].rows \subseteq DOMAIN log'
            /\ Range(pass'[p].queued) \subseteq {n \in Note : note'[n] # "NONE"}
            /\ pass'[p].rows = {} => pass'[p].at = 0
      <3>1. Range(<<>>) = {}
        BY DEF Range
      <3> QED BY <3>1, IdleFacts
    <2>5. HarmType'
      BY HarmStays
    <2> QED BY <2>1, <2>2, <2>3, <2>4, <2>5 DEF IInv, TypeOK, HarmType
  <1>3. PassType'
    BY IdleFacts DEF PassType
  <1>4. TriesLeft'
    BY <1>1 DEF IInv, TriesLeft
  <1>5. OpenWhileSent'
    BY DEF OpenWhileSent
  <1>6. KnownIsRecorded'
    <2>1. \A n \in Note : /\ known[n] = IF send[n] = "SENT" \/ note[n] = "SENT" THEN 1 ELSE 0
                          /\ send[n] # "idle" => note[n] # "SENT"
      BY NoteFacts
    <2> QED BY <2>1 DEF KnownIsRecorded
  <1>7. ToldOnce'
    BY ToldSurvives DEF Bounced
  <1> QED BY <1>2, <1>3, <1>4, <1>5, <1>6, <1>7 DEF IInv
-----------------------------------------------------------------------------
LEMMA StepInvariant == IInv /\ [Next]_vars => IInv'
  <1> SUFFICES ASSUME IInv, [Next]_vars
               PROVE  IInv'
    OBVIOUS
  <1>1. ASSUME NEW r \in Source, Emit(r) PROVE IInv'
    BY <1>1, EmitKeeps
  <1>2. ASSUME NEW p \in Pass, Drain(p) \/ RelayStep(p) \/ PassFails(p) PROVE IInv'
    BY <1>2, DrainKeeps, QueueNoteKeeps, MarkProcessedKeeps, EnqueueKeeps, PassFailsKeeps
    DEF RelayStep
  <1>3. ASSUME NEW n \in Note, SendStep(n) \/ SendThrows(n) \/ RecordFailure(n) \/ ForgetJob(n)
        PROVE  IInv'
    BY <1>3, SendThrowsKeeps, LoadKeeps, CallTelegramKeeps, MarkSentKeeps, MarkUndeliverableKeeps,
       MarkFailedKeeps, JobEndKeeps DEF SendStep
  <1>4. ASSUME NEW u \in User,
               \/ BlockBot(u) \/ MarkBotBlocked(u) \/ Arrive(u)
               \/ \E c \in Preference : ChangePreference(u, c)
        PROVE  IInv'
    BY <1>4, PeopleKeep
  <1>5. CASE Crash
    BY <1>5, CrashKeeps
  <1>6. CASE UNCHANGED vars
    <2> USE <1>6 DEF vars, memory, people, harm
    <2>1. TypeOK' /\ PassType' /\ TriesLeft' /\ OpenWhileSent' /\ KnownIsRecorded'
      BY DEF IInv, TypeOK, PassType, TriesLeft, OpenWhileSent, KnownIsRecorded
    <2>2. ToldOnce'
      BY ToldSurvives DEF Bounced
    <2> QED BY <2>1, <2>2 DEF IInv
  <1> QED BY <1>1, <1>2, <1>3, <1>4, <1>5, <1>6 DEF Next

\* Rows, jobs, passes and sends fit together as NotificationService,
\* relayOutbox and QueueService keep them, through every error and crash.
THEOREM Invariant == Spec => []IInv
  BY InitInvariant, StepInvariant, PTL DEF Spec

\* The tables and queues of deliveries only hold what their columns and states
\* allow, and a send is in the worker's hands exactly while its job is active.
THEOREM TypeCorrect == Spec => []TypeOK
  <1>1. IInv => TypeOK
    BY DEF IInv
  <1> QED BY <1>1, Invariant, PTL

\* However many passes relay a row and however often its job runs again, onSend
\* knows of at most one copy that went out: a second is sent only in doubt.
THEOREM SecondCopyOnlyInDoubt == Spec => []SecondOnlyAfterDoubt
  <1>1. IInv => SecondOnlyAfterDoubt
    BY NoteFacts DEF SecondOnlyAfterDoubt
  <1> QED BY <1>1, Invariant, PTL

\* A message that bounced off a blocked bot has one row in the outbox that tells
\* its sender, and one that did not bounce has none.
THEOREM SenderIsToldOnce == Spec => []SenderIsTold
  <1>1. IInv => SenderIsTold
    <2> SUFFICES ASSUME IInv, NEW n \in Note, Notice[n] # None
                 PROVE  Cardinality(Told(n)) = IF Bounced(n) THEN 1 ELSE 0
      BY DEF SenderIsTold, Told, Bounced
    <2>1. CASE Bounced(n)
      <3>1. PICK i \in DOMAIN log : Told(n) = {i}
        BY <2>1 DEF IInv, ToldOnce
      <3> QED BY <2>1, <3>1, FS_Singleton
    <2>2. CASE ~ Bounced(n)
      <3>1. Told(n) = {}
        BY <2>2 DEF IInv, ToldOnce
      <3> QED BY <2>2, <3>1, FS_EmptySet
    <2> QED BY <2>1, <2>2
  <1> QED BY <1>1, Invariant, PTL
-----------------------------------------------------------------------------
(***************************************************************************)
(* Campaigns.                                                              *)
(***************************************************************************)
USE DEF book

\* A campaign without a row has no recipients, and nobody is at work on it.
NoneYet ==
  \A c \in Campaign : status[c] = "NONE" => Of(c) = {} /\ author[c] = 0

\* Whose recipients are written page by page.
Authors ==
  \A c \in Campaign : author[c] # 0 =>
    /\ kind[c] \in {"OPERATOR", "DRY_RUN", "CITY", "RELEASE"}
    /\ author[c] = Confirming(c) => kind[c] \in {"CITY", "RELEASE"}

\* A dry run is never started.
DryRunsRest ==
  \A c \in Campaign : kind[c] = "DRY_RUN" =>
    status[c] \in {"NONE", "DRAFT", "COMPLETED", "CANCELLED"}

DryRunsSendNothing ==
  \A c \in Campaign : kind[c] = "DRY_RUN" => \A u \in Person : sendJob[<<c, u>>] = NoJob

\* Only invitations are selected, and a purchase has somebody to go to.
Purchases ==
  \A c \in Campaign :
    /\ \A i \in Call : basket[c][i] # Nothing => kind[c] = "INVITE"
    /\ kind[c] = "INVITE" /\ status[c] # "NONE" => Of(c) # {}

Bought == {c \in Campaign : kind[c] = "INVITE" /\ status[c] # "NONE"}

Charged == coins = Wallet - Cost * Cardinality(Bought)

\* What a selection may hold.
Chosen(S) ==
  /\ S \subseteq Person /\ Cardinality(S) <= InviteLimit
  /\ \A u \in S : ~ Fact[u].optOut

InvitedAreChosen ==
  \A c \in Campaign : kind[c] = "INVITE" =>
    Chosen(Of(c)) /\ \A i \in Call : Chosen(basket[c][i])

\* Nobody is pending but for rows that were written after the draft was confirmed.
OnlyLate(c) == \A u \in Pending(c) : <<c, u>> \in late

FinishedIsSettled ==
  \A c \in Campaign : status[c] \in Finished /\ kind[c] # "DRY_RUN" => OnlyLate(c)

\* What a pass holds has been confirmed, so that every row which comes now is late: the
\* count a pass has made stays true but for those until it closes, however long that is.
Started(c) == kind[c] # "DRY_RUN" /\ status[c] \notin {"NONE", "DRAFT"}

InHand(d) ==
  /\ \A c \in d.todo : Started(c)
  /\ d.at # "clear" => d.on \in Campaign /\ Started(d.on)
  /\ d.at = "close" => d.verdict \in Finished /\ OnlyLate(d.on)

Desks == \A p \in Tick : InHand(desk[p])

\* A job that will run has an attempt left.
SendTriesLeft ==
  \A r \in Recipient :
    sendJob[r].state \in {"WAITING", "ACTIVE"} => sendJob[r].tries < Attempts

\* The worker knows of a copy from Telegram's answer on, and nothing is sent to a
\* recipient it knows of one for.
OneCopy ==
  \A r \in Recipient :
    /\ accepted[r] \in {0, 1}
    /\ sender[r] = Answered("SENT") => accepted[r] = 1
    /\ rcpt[r] \in {"NONE", "PENDING"} \/ sender[r].at = "sending" =>
         accepted[r] = 0 \/ sender[r] = Answered("SENT")
    /\ rcpt[r] = "NONE" => sender[r].at = "idle"
    /\ sender[r].at \in {"sending", "answered"} => rcpt[r] \in {"PENDING", "SKIPPED"}
    /\ rcpt[r] = "SENT" => accepted[r] = 1

\* Only a final answer is written down.
RecordedIsFinal ==
  \A r \in Recipient : sender[r].at = "recorded" => sender[r].answer \in Settling

CampaignRows ==
  /\ NoneYet /\ Authors /\ DryRunsRest /\ Purchases
  /\ InvitedAreChosen /\ Charged /\ FinishedIsSettled /\ Desks
SendRows == DryRunsSendNothing /\ SendTriesLeft /\ OneCopy /\ RecordedIsFinal

\* The inductive invariant.
CampaignsIInv == CampaignsTypeOK /\ CampaignRows /\ SendRows
-----------------------------------------------------------------------------
LEMMA RecipientFacts ==
  /\ \A c \in Campaign, u \in Person :
       <<c, u>> \in Recipient /\ <<c, u>>[1] = c /\ <<c, u>>[2] = u
  /\ \A r \in Recipient : r[1] \in Campaign /\ r[2] \in Person /\ r = <<r[1], r[2]>>
  BY DEF Recipient

LEMMA KindFacts ==
  ASSUME CampaignsTypeOK
  PROVE  kind \in [Campaign -> Kind]
  BY CampaignsAssumption DEF CampaignsTypeOK

LEMMA ConstantFacts ==
  /\ \A c \in Campaign :
       /\ Len(Pages[c]) \in Nat
       /\ Updating(c) = Len(Pages[c]) + 1 /\ Confirming(c) = Len(Pages[c]) + 2
       /\ Confirming(c) \in Nat /\ 1 <= Confirming(c)
       /\ \A n \in 1 .. Len(Pages[c]) : Pages[c][n] \subseteq Person
  /\ InviteLimit \in Nat /\ Cost \in Nat /\ Wallet \in Nat /\ MaxMishaps \in Nat
  /\ Threshold \in Nat \ {0} /\ Fickle \subseteq Person
  /\ IsFiniteSet(Campaign) /\ IsFiniteSet(Person)
  BY CampaignsAssumption DEF Updating, Confirming

LEMMA SenderFacts ==
  /\ NoSend \in Sender /\ NoSend.at = "idle" /\ Sending \in Sender /\ Sending.at = "sending"
  /\ \A a \in Settling \cup {"RATE_LIMITED", "RETRY"} :
       /\ Answered(a) \in Sender /\ Answered(a).at = "answered" /\ Answered(a).answer = a
       /\ a # "SENT" => Answered(a) # Answered("SENT")
  /\ NoSend # Answered("SENT") /\ Sending # Answered("SENT")
  /\ \A s \in Sender : s.at = "answered" /\ s.answer = "SENT" => s = Answered("SENT")
  /\ Answered("SENT").at = "answered" /\ Answered("SENT").answer = "SENT"
  BY DEF NoSend, Sending, Answered, Sender, Settling

LEMMA AuthorMoves ==
  ASSUME CampaignsTypeOK, NEW c \in Campaign, NEW k \in Nat, k <= Confirming(c),
         author' = [author EXCEPT ![c] = k]
  PROVE  /\ author' \in [Campaign -> Nat] /\ \A d \in Campaign : author'[d] <= Confirming(d)
         /\ \A d \in Campaign : author'[d] = IF d = c THEN k ELSE author[d]
  <1>1. author \in [Campaign -> Nat] /\ \A d \in Campaign : author[d] <= Confirming(d)
    BY DEF CampaignsTypeOK
  <1> QED BY <1>1

LEMMA AuthorsStop ==
  ASSUME CampaignsTypeOK, author' \in [Campaign -> {0} \cup {author[d] : d \in Campaign}],
         \A d \in Campaign : author'[d] \in {author[d], 0}
  PROVE  author' \in [Campaign -> Nat] /\ \A d \in Campaign : author'[d] <= Confirming(d)
  <1>1. author \in [Campaign -> Nat] /\ \A d \in Campaign : author[d] <= Confirming(d)
    BY DEF CampaignsTypeOK
  <1>2. \A d \in Campaign : 0 <= Confirming(d)
    BY ConstantFacts
  <1> QED BY <1>1, <1>2

LEMMA DeskFacts ==
  /\ Clear \in Desk /\ Clear.todo = {} /\ Clear.at = "clear"
  /\ \A d \in Desk : Done(d) \in Desk /\ Done(d).todo = d.todo /\ Done(d).at = "clear"
  BY DEF Clear, Desk, Done

\* A pass goes on or ends while others work: no campaign is a draft again, and a row
\* written to one that has been confirmed is late.
LEMMA DesksStay ==
  ASSUME CampaignsIInv, UNCHANGED kind, late \subseteq late',
         \A p \in Tick : desk'[p] \in {desk[p], Clear},
         \A c \in Campaign : Started(c) => status'[c] \notin {"NONE", "DRAFT"},
         \A c \in Campaign, u \in Person :
           Started(c) /\ rcpt'[<<c, u>>] = "PENDING" =>
             rcpt[<<c, u>>] = "PENDING" \/ <<c, u>> \in late'
  PROVE  Desks'
  <1> SUFFICES ASSUME NEW p \in Tick PROVE InHand(desk[p])'
    BY DEF Desks
  <1>1. CASE desk'[p] = Clear
    BY <1>1, DeskFacts DEF InHand
  <1>2. CASE desk'[p] = desk[p]
    <2>1. InHand(desk[p]) /\ desk[p] \in Desk
      BY DEF CampaignsIInv, CampaignRows, Desks, CampaignsTypeOK
    <2>2. \A c \in Campaign : Started(c) => Started(c)' /\ (OnlyLate(c) => OnlyLate(c)')
      BY DEF Started, OnlyLate, Pending
    <2>3. desk[p].todo \subseteq Campaign
      BY <2>1 DEF Desk
    <2> QED BY <1>2, <2>1, <2>2, <2>3 DEF InHand
  <1> QED BY <1>1, <1>2

\* The steps of the sender leave the campaigns as they are; a death ends what was
\* being created and forgets what was selected and claimed.
LEMMA CampaignRowsStay ==
  ASSUME CampaignsIInv, UNCHANGED <<kind, late, status, coins>>,
         \A r \in Recipient : rcpt'[r] = rcpt[r] \/ (rcpt[r] = "PENDING" /\ rcpt'[r] \in Settling),
         \A c \in Campaign : author'[c] \in {author[c], 0},
         \A c \in Campaign, i \in Call : basket'[c][i] \in {basket[c][i], Nothing},
         \A p \in Tick : desk'[p] \in {desk[p], Clear}
  PROVE  CampaignRows'
  <1> USE RecipientFacts, ConstantFacts DEF CampaignsIInv, CampaignRows
  <1>1. \A r \in Recipient : (rcpt'[r] = "NONE" <=> rcpt[r] = "NONE")
                             /\ (rcpt'[r] = "PENDING" => rcpt[r] = "PENDING")
    BY DEF Settling
  <1>2. \A c \in Campaign : Of(c)' = Of(c) /\ Pending(c)' \subseteq Pending(c)
    BY <1>1 DEF Of, Pending
  <1>3. NoneYet' /\ Authors'
    BY <1>2 DEF NoneYet, Authors, Confirming
  <1>4. DryRunsRest' /\ FinishedIsSettled'
    BY <1>2 DEF DryRunsRest, FinishedIsSettled, OnlyLate
  <1>9. Desks'
    BY <1>1, DesksStay DEF Started
  <1>5. Purchases'
    BY <1>2 DEF Purchases
  <1>6. Charged'
    BY DEF Charged, Bought
  <1>7. Chosen(Nothing)
    BY FS_EmptySet DEF Chosen, Nothing
  <1>8. InvitedAreChosen'
    <2> SUFFICES ASSUME NEW c \in Campaign, kind[c] = "INVITE"
                 PROVE  Chosen(Of(c)') /\ \A i \in Call : Chosen(basket'[c][i])
      BY DEF InvitedAreChosen, Chosen
    <2>1. Chosen(Of(c)')
      BY <1>2 DEF InvitedAreChosen
    <2>2. ASSUME NEW i \in Call PROVE Chosen(basket'[c][i])
      <3>1. basket'[c][i] = basket[c][i] \/ basket'[c][i] = Nothing
        OBVIOUS
      <3>2. Chosen(basket[c][i])
        BY DEF InvitedAreChosen
      <3> QED BY <3>1, <3>2, <1>7
    <2> QED BY <2>1, <2>2
  <1> QED BY <1>3, <1>4, <1>5, <1>6, <1>8, <1>9

\* What happens to campaigns and their rows leaves the sends as they are, as long as
\* only new rows become pending.
LEMMA SendRowsStay ==
  ASSUME CampaignsIInv, UNCHANGED <<kind, sendJob, sender, accepted>>,
         \A r \in Recipient :
           \/ rcpt'[r] = rcpt[r]
           \/ rcpt[r] = "NONE" /\ rcpt'[r] = "PENDING"
           \/ rcpt[r] = "PENDING" /\ rcpt'[r] = "SKIPPED"
  PROVE  SendRows'
  <1> USE DEF CampaignsIInv, SendRows
  <1>1. DryRunsSendNothing' /\ SendTriesLeft' /\ RecordedIsFinal'
    BY DEF DryRunsSendNothing, SendTriesLeft, RecordedIsFinal
  <1>2. OneCopy'
    <2> SUFFICES ASSUME NEW r \in Recipient
                 PROVE  /\ accepted[r] \in {0, 1}
                        /\ sender[r] = Answered("SENT") => accepted[r] = 1
                        /\ rcpt'[r] \in {"NONE", "PENDING"} \/ sender[r].at = "sending" =>
                             accepted[r] = 0 \/ sender[r] = Answered("SENT")
                        /\ rcpt'[r] = "NONE" => sender[r].at = "idle"
                        /\ sender[r].at \in {"sending", "answered"} =>
                             rcpt'[r] \in {"PENDING", "SKIPPED"}
                        /\ rcpt'[r] = "SENT" => accepted[r] = 1
      BY DEF OneCopy, Answered
    <2>1. CASE rcpt'[r] = rcpt[r]
      BY <2>1 DEF OneCopy
    <2>2. CASE rcpt[r] = "NONE" /\ rcpt'[r] = "PENDING"
      BY <2>2 DEF OneCopy
    <2>3. CASE rcpt[r] = "PENDING" /\ rcpt'[r] = "SKIPPED"
      BY <2>3 DEF OneCopy
    <2> QED BY <2>1, <2>2, <2>3
  <1> QED BY <1>1, <1>2

\* What the host has paid changes only with what is bought.
LEMMA ChargedStays ==
  ASSUME Charged, UNCHANGED <<kind, coins>>,
         \A c \in Campaign : kind[c] = "INVITE" => (status'[c] = "NONE" <=> status[c] = "NONE")
  PROVE  Charged'
  <1>1. Bought' = Bought
    BY DEF Bought
  <1> QED BY <1>1 DEF Charged
-----------------------------------------------------------------------------
(***************************************************************************)
(* Creating and confirming a campaign.                                     *)
(***************************************************************************)
LEMMA CreateCampaignKeeps ==
  ASSUME CampaignsIInv, NEW c \in Campaign, CreateCampaign(c)
  PROVE  CampaignsIInv'
  <1> USE RecipientFacts, ConstantFacts DEF CreateCampaign, CampaignsIInv, CampaignRows
  <1>0. /\ \A d \in Campaign : status'[d] = IF d = c THEN "DRAFT" ELSE status[d]
        /\ \A d \in Campaign : author'[d] = IF d = c THEN 1 ELSE author[d]
        /\ kind[c] \notin {"NONE", "INVITE"} /\ status[c] = "NONE"
        /\ UNCHANGED <<kind, late, rcpt, basket, coins, desk, sendJob, sender, accepted>>
    BY DEF CampaignsTypeOK, sending, outside
  <1>1. CampaignsTypeOK'
    <2>1. status' \in [Campaign -> CampaignStatus] /\ listed' \in Seq(Campaign)
      BY DEF CampaignsTypeOK, CampaignStatus
    <2>2. author' \in [Campaign -> Nat] /\ \A d \in Campaign : author'[d] <= Confirming(d)
      BY AuthorMoves
    <2> QED BY <2>1, <2>2 DEF CampaignsTypeOK, sending, outside
  <1>2. \A d \in Campaign : Of(d)' = Of(d) /\ Pending(d)' = Pending(d)
    BY <1>0 DEF Of, Pending
  <1>3. Of(c) = {} /\ Pending(c) = {}
    BY <1>0 DEF NoneYet, Of, Pending
  <1>4. NoneYet' /\ Authors'
    BY <1>0, <1>2 DEF NoneYet, Authors, Confirming
  <1>5. DryRunsRest' /\ FinishedIsSettled' /\ Desks'
    <2>1. DryRunsRest' /\ FinishedIsSettled'
      BY <1>0, <1>2 DEF DryRunsRest, FinishedIsSettled, OnlyLate, Finished
    <2>2. Desks'
      BY <1>0, DesksStay DEF Started
    <2> QED BY <2>1, <2>2
  <1>6. Purchases' /\ InvitedAreChosen'
    BY <1>0, <1>2 DEF Purchases, InvitedAreChosen, Chosen
  <1>7. Charged'
    BY <1>0, ChargedStays
  <1>8. SendRows'
    BY <1>0, SendRowsStay
  <1> QED BY <1>1, <1>4, <1>5, <1>6, <1>7, <1>8

LEMMA MaterialiseKeeps ==
  ASSUME CampaignsIInv, NEW c \in Campaign, Materialise(c)
  PROVE  CampaignsIInv'
  <1> USE RecipientFacts, ConstantFacts DEF Materialise, CampaignsIInv, CampaignRows
  <1>0. /\ \A d \in Campaign : author'[d] = IF d = c THEN author[c] + 1 ELSE author[d]
        /\ author[c] \in 1 .. Len(Pages[c])
        /\ UNCHANGED <<kind, status, basket, coins, desk, sendJob, sender, accepted>>
    BY DEF CampaignsTypeOK, sending, outside
  <1>1. /\ \A r \in Recipient : rcpt'[r] = IF r \in Page(c) THEN "PENDING" ELSE rcpt[r]
        /\ Page(c) \subseteq Recipient /\ \A r \in Page(c) : r[1] = c /\ rcpt[r] = "NONE"
    <2>1. Pages[c][author[c]] \subseteq Person
      BY <1>0
    <2>2. \A r \in Page(c) :
            r \in Recipient /\ r[1] = c /\ rcpt[r] = "NONE"
      <3> SUFFICES ASSUME NEW r \in Page(c)
                   PROVE  r \in Recipient /\ r[1] = c /\ rcpt[r] = "NONE"
        OBVIOUS
      <3>1. PICK v \in Pages[c][author[c]] : r = <<c, v>> /\ rcpt[<<c, v>>] = "NONE"
        BY DEF Page
      <3> QED BY <2>1, <3>1
    <2>3. rcpt' = [r \in Recipient |-> IF r \in Page(c) THEN "PENDING" ELSE rcpt[r]]
      OBVIOUS
    <2> QED BY <2>2, <2>3
  <1> HIDE DEF Materialise
  <1>2. late \subseteq late' /\ (status[c] # "DRAFT" => Page(c) \subseteq late')
    BY DEF Materialise
  <1>3. CampaignsTypeOK'
    <2>1. rcpt' \in [Recipient -> DeliveryStatus] /\ late' \subseteq Recipient
      BY <1>1 DEF Materialise, CampaignsTypeOK, DeliveryStatus
    <2>2. author' \in [Campaign -> Nat] /\ \A d \in Campaign : author'[d] <= Confirming(d)
      <3> HIDE ConstantFacts, RecipientFacts
      <3>1. /\ author \in [Campaign -> Nat] /\ author' = [author EXCEPT ![c] = author[c] + 1]
            /\ \A d \in Campaign : author[d] <= Confirming(d)
        BY DEF Materialise, CampaignsTypeOK
      <3>2. author[c] + 1 \in Nat /\ author[c] + 1 <= Confirming(c)
        BY <1>0, ConstantFacts DEF Confirming
      <3> QED BY <3>1, <3>2
    <2> QED BY <2>1, <2>2 DEF Materialise, CampaignsTypeOK, sending, outside
  <1>4. kind[c] \in {"OPERATOR", "DRY_RUN", "CITY", "RELEASE"} /\ author[c] # 0
          /\ status[c] # "NONE"
    BY <1>0 DEF Authors, NoneYet
  <1>5. \A d \in Campaign : d # c => Of(d)' = Of(d) /\ Pending(d)' = Pending(d)
    BY <1>1 DEF Of, Pending
  <1>6. NoneYet' /\ Authors'
    <2>1. NoneYet'
      BY <1>0, <1>4, <1>5 DEF NoneYet
    <2>2. author'[c] # Confirming(c)
      BY <1>0
    <2>3. Authors'
      BY <1>0, <1>4, <2>2 DEF Authors, Confirming
    <2> QED BY <2>1, <2>3
  <1>7. DryRunsRest' /\ FinishedIsSettled'
    <2>1. DryRunsRest'
      BY <1>0 DEF DryRunsRest
    <2>2. ASSUME NEW d \in Campaign, status[d] # "DRAFT", OnlyLate(d)
          PROVE  OnlyLate(d)'
      BY <1>1, <1>2, <2>2 DEF OnlyLate, Pending
    <2>3. FinishedIsSettled'
      BY <1>0, <2>2 DEF FinishedIsSettled, Finished
    <2> QED BY <2>1, <2>3
  <1>8. Desks'
    <2>1. \A d \in Campaign, u \in Person :
            Started(d) /\ rcpt'[<<d, u>>] = "PENDING" =>
              rcpt[<<d, u>>] = "PENDING" \/ <<d, u>> \in late'
      BY <1>1, <1>2 DEF Started
    <2>2. \A d \in Campaign : Started(d) => status'[d] \notin {"NONE", "DRAFT"}
      BY <1>0 DEF Started
    <2> QED BY <1>0, <1>2, <2>1, <2>2, DesksStay
  <1>9. Purchases' /\ InvitedAreChosen'
    BY <1>0, <1>4, <1>5 DEF Purchases, InvitedAreChosen, Chosen
  <1>10. Charged'
    BY <1>0, ChargedStays
  <1>11. SendRows'
    BY <1>0, <1>1, SendRowsStay
  <1> QED BY <1>3, <1>6, <1>7, <1>8, <1>9, <1>10, <1>11

\* What moves a campaign that has a row, and neither its recipients nor what is sent.
LEMMA StatusMoves ==
  ASSUME CampaignsIInv, CampaignsTypeOK',
         UNCHANGED <<kind, late, rcpt, basket, coins, desk, sendJob, sender, accepted>>,
         \A d \in Campaign :
           \/ status'[d] = status[d]
           \/ /\ status[d] # "NONE" /\ status'[d] \notin {"NONE", "DRAFT"}
              /\ status'[d] \in Finished => kind[d] = "DRY_RUN"
              /\ kind[d] = "DRY_RUN" => status'[d] = "COMPLETED",
         \A d \in Campaign : author'[d] # 0 => author[d] # 0,
         Authors'
  PROVE  CampaignsIInv'
  <1> USE DEF CampaignsIInv, CampaignRows
  <1>1. \A d \in Campaign : Of(d)' = Of(d) /\ Pending(d)' = Pending(d)
    BY DEF Of, Pending
  <1>2. NoneYet'
    <2> SUFFICES ASSUME NEW d \in Campaign, status'[d] = "NONE"
                 PROVE  Of(d)' = {} /\ author'[d] = 0
      BY DEF NoneYet
    <2>1. status[d] = "NONE"
      OBVIOUS
    <2>2. author'[d] = 0
      BY <2>1 DEF NoneYet
    <2> QED BY <1>1, <2>1, <2>2 DEF NoneYet
  <1>3. DryRunsRest' /\ FinishedIsSettled' /\ Desks'
    <2>1. DryRunsRest' /\ FinishedIsSettled'
      BY <1>1 DEF DryRunsRest, FinishedIsSettled, OnlyLate
    <2>2. Desks'
      BY DesksStay DEF Started
    <2> QED BY <2>1, <2>2
  <1>4. Purchases' /\ InvitedAreChosen'
    BY <1>1 DEF Purchases, InvitedAreChosen, Chosen
  <1>5. Charged'
    BY ChargedStays
  <1>6. SendRows'
    BY SendRowsStay
  <1> QED BY <1>2, <1>3, <1>4, <1>5, <1>6

LEMMA FinishCreationKeeps ==
  ASSUME CampaignsIInv, NEW c \in Campaign, FinishCreation(c)
  PROVE  CampaignsIInv'
  <1> USE ConstantFacts DEF FinishCreation, CampaignsIInv, CampaignRows
  <1>0. /\ UNCHANGED <<kind, late, rcpt, basket, coins, desk, sendJob, sender, accepted>>
        /\ author[c] # 0 /\ status[c] # "NONE"
    BY DEF NoneYet, sending, outside
  <1>1. \A d \in Campaign :
          /\ status'[d] = IF d = c /\ kind[c] = "DRY_RUN" THEN "COMPLETED" ELSE status[d]
          /\ author'[d] = IF d # c THEN author[d]
                          ELSE IF kind[c] \in {"CITY", "RELEASE"} THEN Confirming(c) ELSE 0
    BY DEF CampaignsTypeOK
  <1>2. CampaignsTypeOK'
    <2>1. status' \in [Campaign -> CampaignStatus]
      BY DEF CampaignsTypeOK, CampaignStatus
    <2>2. author' \in [Campaign -> Nat] /\ \A d \in Campaign : author'[d] <= Confirming(d)
      <3> DEFINE k == IF kind[c] \in {"CITY", "RELEASE"} THEN Confirming(c) ELSE 0
      <3>1. k \in Nat /\ k <= Confirming(c) /\ author' = [author EXCEPT ![c] = k]
        OBVIOUS
      <3> HIDE DEF k
      <3> QED BY <3>1, AuthorMoves
    <2> QED BY <2>1, <2>2 DEF CampaignsTypeOK, sending, outside
  <1>3. Authors'
    BY <1>0, <1>1 DEF Authors
  <1> QED BY <1>0, <1>1, <1>2, <1>3, StatusMoves

LEMMA ConfirmedFacts ==
  ASSUME CampaignsIInv, NEW c \in Campaign, status' = Confirmed(c)
  PROVE  /\ status' \in [Campaign -> CampaignStatus]
         /\ \A d \in Campaign :
              status'[d] = IF d = c /\ status[d] = "DRAFT" THEN "QUEUED" ELSE status[d]
  BY DEF Confirmed, CampaignsIInv, CampaignsTypeOK, CampaignStatus

LEMMA ConfirmOwnKeeps ==
  ASSUME CampaignsIInv, NEW c \in Campaign, ConfirmOwn(c)
  PROVE  CampaignsIInv'
  <1> USE ConstantFacts DEF ConfirmOwn, CampaignsIInv, CampaignRows
  <1>0. /\ UNCHANGED <<kind, late, rcpt, basket, coins, desk, sendJob, sender, accepted>>
        /\ author[c] # 0 /\ kind[c] \in {"CITY", "RELEASE"}
    BY DEF Authors, sending, outside
  <1>1. \A d \in Campaign : author'[d] = IF d = c THEN 0 ELSE author[d]
    BY DEF CampaignsTypeOK
  <1>2. CampaignsTypeOK'
    <2>1. status' \in [Campaign -> CampaignStatus]
      BY ConfirmedFacts
    <2>2. announced' \subseteq Campaign
      BY DEF CampaignsTypeOK, Announce
    <2>3. author' \in [Campaign -> Nat] /\ \A d \in Campaign : author'[d] <= Confirming(d)
      BY DEF CampaignsTypeOK
    <2> QED BY <2>1, <2>2, <2>3 DEF CampaignsTypeOK, sending, outside
  <1>3. Authors'
    BY <1>0, <1>1, ConfirmedFacts DEF Authors
  <1> QED BY <1>0, <1>1, <1>2, <1>3, StatusMoves, ConfirmedFacts DEF Finished

LEMMA FinishClaimKeeps ==
  ASSUME CampaignsIInv, NEW c \in Campaign, FinishClaim(c)
  PROVE  CampaignsIInv'
  <1> USE ConstantFacts DEF FinishClaim, CampaignsIInv, CampaignRows
  <1>0. /\ UNCHANGED <<kind, late, rcpt, author, basket, coins, desk, sendJob, sender, accepted>>
        /\ kind[c] = "CITY" /\ status[c] # "NONE"
    BY DEF sending, outside
  <1>1. CampaignsTypeOK'
    <2>1. status' \in [Campaign -> CampaignStatus]
      BY ConfirmedFacts
    <2>2. announced' \subseteq Campaign
      BY DEF CampaignsTypeOK, Announce
    <2> QED BY <2>1, <2>2 DEF CampaignsTypeOK, sending, outside
  <1>2. Authors'
    BY <1>0, ConfirmedFacts DEF Authors
  <1> QED BY <1>0, <1>1, <1>2, StatusMoves, ConfirmedFacts DEF Finished

LEMMA ConfirmByOperatorKeeps ==
  ASSUME CampaignsIInv, NEW c \in Campaign, ConfirmByOperator(c)
  PROVE  CampaignsIInv'
  <1> USE ConstantFacts DEF ConfirmByOperator, CampaignsIInv, CampaignRows
  <1>0. /\ UNCHANGED <<kind, late, rcpt, author, basket, coins, desk, sendJob, sender, accepted>>
        /\ kind[c] # "DRY_RUN" /\ status[c] # "NONE"
    BY DEF drafting, sending, outside
  <1>1. CampaignsTypeOK'
    BY ConfirmedFacts DEF CampaignsTypeOK, drafting, sending, outside
  <1>2. Authors'
    BY <1>0, ConfirmedFacts DEF Authors
  <1> QED BY <1>0, <1>1, <1>2, StatusMoves, ConfirmedFacts DEF Finished

LEMMA CancelKeeps ==
  ASSUME CampaignsIInv, NEW c \in Campaign, Cancel(c)
  PROVE  CampaignsIInv'
  <1> USE RecipientFacts, ConstantFacts DEF Cancel, CampaignsIInv, CampaignRows
  <1>0. /\ UNCHANGED <<kind, late, author, basket, coins, desk, sendJob, sender, accepted>>
        /\ \A d \in Campaign : status'[d] = IF d = c THEN "CANCELLED" ELSE status[d]
        /\ status[c] # "NONE"
    BY DEF CampaignsTypeOK, Cancellable, drafting, sending, outside
  <1>1. \A r \in Recipient :
          rcpt'[r] = rcpt[r] \/ (rcpt[r] = "PENDING" /\ rcpt'[r] = "SKIPPED")
    OBVIOUS
  <1>2. CampaignsTypeOK'
    <2>1. rcpt' \in [Recipient -> DeliveryStatus]
      BY DEF CampaignsTypeOK, DeliveryStatus
    <2>2. status' \in [Campaign -> CampaignStatus]
      BY DEF CampaignsTypeOK, CampaignStatus
    <2> QED BY <2>1, <2>2 DEF CampaignsTypeOK, drafting, sending, outside
  <1>3. \A d \in Campaign : Of(d)' = Of(d) /\ Pending(d)' \subseteq Pending(d)
    BY <1>1 DEF Of, Pending
  <1>4. NoneYet' /\ Authors'
    BY <1>0, <1>3 DEF NoneYet, Authors
  <1>5. DryRunsRest' /\ FinishedIsSettled' /\ Desks'
    <2>1. DryRunsRest' /\ FinishedIsSettled'
      BY <1>0, <1>3 DEF DryRunsRest, FinishedIsSettled, OnlyLate, Finished
    <2>2. Desks'
      BY <1>0, <1>1, DesksStay DEF Started
    <2> QED BY <2>1, <2>2
  <1>6. Purchases' /\ InvitedAreChosen'
    BY <1>0, <1>3 DEF Purchases, InvitedAreChosen, Chosen
  <1>7. Charged'
    BY <1>0, ChargedStays
  <1>8. SendRows'
    BY <1>0, <1>1, SendRowsStay
  <1> QED BY <1>2, <1>4, <1>5, <1>6, <1>7, <1>8

\* A step that touches neither the campaigns nor what is sent, only who is reachable
\* and who is paused.
LEMMA OutsideStep ==
  ASSUME CampaignsIInv, CampaignsTypeOK',
         UNCHANGED <<kind, late, status, rcpt, author, basket, coins, desk, sendJob, sender, accepted>>
  PROVE  CampaignsIInv'
  <1>1. CampaignRows'
    BY CampaignRowsStay
  <1>2. SendRows'
    BY SendRowsStay DEF CampaignsIInv
  <1> QED BY <1>1, <1>2 DEF CampaignsIInv

LEMMA QuietKeeps ==
  ASSUME CampaignsIInv,
         \/ \E c \in Campaign : Resume(c)
         \/ \E u \in Fickle : MarkBlocked(u) \/ ArriveByTelegram(u)
         \/ UNCHANGED campaignsVars
  PROVE  CampaignsIInv'
  <1>1. UNCHANGED <<kind, late, status, rcpt, author, basket, coins, desk, sendJob, sender, accepted>>
    BY DEF Resume, MarkBlocked, ArriveByTelegram, campaignsVars, drafting, sending, outside
  <1>2. CampaignsTypeOK'
    BY ConstantFacts
       DEF CampaignsIInv, CampaignsTypeOK, Resume, MarkBlocked, ArriveByTelegram,
           campaignsVars, drafting, sending, outside
  <1> QED BY <1>1, <1>2, OutsideStep
-----------------------------------------------------------------------------
(***************************************************************************)
(* The first of a strict total order: how rankCandidates cuts its ranking  *)
(* and how pendingDeliveries takes its batch.                              *)
(***************************************************************************)
Orders(R, S) ==
  /\ \A u, v \in S : u # v => <<u, v>> \in R \/ <<v, u>> \in R
  /\ \A u \in S : <<u, u>> \notin R
  /\ \A u, v, w \in S : <<u, v>> \in R /\ <<v, w>> \in R => <<u, w>> \in R

Ahead(R, S, u) == {v \in S : <<v, u>> \in R}
FirstOf(R, S, k) == {u \in S : Cardinality(Ahead(R, S, u)) < k}

LEMMA AheadFacts ==
  ASSUME NEW S, IsFiniteSet(S), NEW R, Orders(R, S), NEW u \in S
  PROVE  /\ Ahead(R, S, u) \subseteq S /\ IsFiniteSet(Ahead(R, S, u))
         /\ Cardinality(Ahead(R, S, u)) \in Nat
         /\ u \notin Ahead(R, S, u)
         /\ IsFiniteSet(Ahead(R, S, u) \cup {u})
         /\ Cardinality(Ahead(R, S, u) \cup {u}) = Cardinality(Ahead(R, S, u)) + 1
  <1>1. Ahead(R, S, u) \subseteq S /\ u \notin Ahead(R, S, u)
    BY DEF Ahead, Orders
  <1>2. IsFiniteSet(Ahead(R, S, u)) /\ Cardinality(Ahead(R, S, u)) \in Nat
    BY <1>1, FS_Subset, FS_CardinalityType
  <1> QED BY <1>1, <1>2, FS_AddElement

\* Whoever comes later has more ahead of it.
LEMMA LaterHasMoreAhead ==
  ASSUME NEW S, IsFiniteSet(S), NEW R, Orders(R, S), NEW u \in S, NEW v \in S, <<u, v>> \in R
  PROVE  Cardinality(Ahead(R, S, u)) < Cardinality(Ahead(R, S, v))
  <1>1. Ahead(R, S, u) \cup {u} \subseteq Ahead(R, S, v)
    BY DEF Ahead, Orders
  <1>2. Cardinality(Ahead(R, S, u) \cup {u}) <= Cardinality(Ahead(R, S, v))
    BY <1>1, AheadFacts, FS_Subset
  <1>3. /\ Cardinality(Ahead(R, S, u)) \in Nat /\ Cardinality(Ahead(R, S, v)) \in Nat
        /\ Cardinality(Ahead(R, S, u) \cup {u}) = Cardinality(Ahead(R, S, u)) + 1
    BY AheadFacts
  <1> QED BY <1>2, <1>3

\* Some element of a nonempty part has no more ahead of it than any other.
LEMMA FirstExists ==
  ASSUME NEW S, IsFiniteSet(S), NEW R, Orders(R, S), NEW T \in SUBSET S, T # {}
  PROVE  \E u \in T : \A v \in T : v # u => <<u, v>> \in R
  <1> DEFINE counts == {Cardinality(Ahead(R, S, u)) : u \in T}
  <1>1. counts \subseteq Nat /\ counts # {}
    <2>1. \A u \in T : Cardinality(Ahead(R, S, u)) \in Nat
      BY AheadFacts
    <2> QED BY <2>1
  <1>2. PICK m \in counts : \A y \in counts : ~ (<<y, m>> \in OpToRel(<, Nat))
    BY <1>1, NatLessThanWellFounded, WFMin
  <1>3. \A i, k \in Nat : i < k => <<i, k>> \in OpToRel(<, Nat)
    BY DEF OpToRel
  <1>4. \A y \in counts : ~ (y < m)
    BY <1>1, <1>2, <1>3, Zenon
  <1>5. PICK u \in T : m = Cardinality(Ahead(R, S, u))
    OBVIOUS
  <1>6. ASSUME NEW v \in T, v # u PROVE <<u, v>> \in R
    <2> SUFFICES ASSUME <<u, v>> \notin R PROVE FALSE
      OBVIOUS
    <2>1. <<v, u>> \in R
      BY <1>6 DEF Orders
    <2>2. Cardinality(Ahead(R, S, v)) < m
      BY <1>5, <2>1, LaterHasMoreAhead
    <2> QED BY <1>4, <2>2
  <1> QED BY <1>6

\* The last of a nonempty part has the whole of it ahead.
LEMMA LastExists ==
  ASSUME NEW S, IsFiniteSet(S), NEW R, Orders(R, S), NEW T \in SUBSET S, T # {}
  PROVE  \E u \in T : \A v \in T : v # u => <<v, u>> \in R
  <1> DEFINE Q == {<<p[2], p[1]>> : p \in R \cap (S \X S)}
  <1>1. \A u, v \in S : <<u, v>> \in Q <=> <<v, u>> \in R
    OBVIOUS
  <1> HIDE DEF Q
  <1>2. Orders(Q, S)
    BY <1>1 DEF Orders
  <1>3. PICK u \in T : \A v \in T : v # u => <<u, v>> \in Q
    BY <1>2, FirstExists
  <1> QED BY <1>1, <1>3

LEMMA FirstOfFacts ==
  ASSUME NEW S, IsFiniteSet(S), NEW R, Orders(R, S), NEW k \in Nat
  PROVE  /\ FirstOf(R, S, k) \subseteq S
         /\ Cardinality(FirstOf(R, S, k)) <= k
         /\ Cardinality(FirstOf(R, S, k)) < k => FirstOf(R, S, k) = S
         /\ \A u \in FirstOf(R, S, k), v \in S \ FirstOf(R, S, k) : <<u, v>> \in R
  <1> DEFINE F == FirstOf(R, S, k)
  <1>1. F \subseteq S /\ IsFiniteSet(F) /\ Cardinality(F) \in Nat
    <2>1. F \subseteq S
      BY DEF FirstOf
    <2> QED BY <2>1, FS_Subset, FS_CardinalityType
  <1>2. \A u \in S : u \in F <=> Cardinality(Ahead(R, S, u)) < k
    BY DEF FirstOf
  <1> HIDE DEF F
  <1>3. \A u \in F, v \in S \ F : <<u, v>> \in R
    <2> SUFFICES ASSUME NEW u \in F, NEW v \in S \ F, <<u, v>> \notin R PROVE FALSE
      OBVIOUS
    <2>1. u \in S /\ <<v, u>> \in R
      BY <1>1 DEF Orders
    <2>2. Cardinality(Ahead(R, S, v)) < Cardinality(Ahead(R, S, u))
      BY <2>1, LaterHasMoreAhead
    <2>3. Cardinality(Ahead(R, S, u)) < k /\ Cardinality(Ahead(R, S, u)) \in Nat
            /\ Cardinality(Ahead(R, S, v)) \in Nat
      BY <1>2, <2>1, AheadFacts
    <2>4. Cardinality(Ahead(R, S, v)) < k
      BY <2>2, <2>3
    <2> QED BY <1>2, <2>4
  <1>4. Cardinality(F) <= k
    <2>1. CASE F = {}
      BY <2>1, FS_EmptySet
    <2>2. CASE F # {}
      <3>1. PICK u \in F : \A v \in F : v # u => <<v, u>> \in R
        BY <1>1, <2>2, LastExists
      <3>2. u \in S /\ F \subseteq Ahead(R, S, u) \cup {u}
        BY <1>1, <3>1 DEF Ahead
      <3>3. Cardinality(F) <= Cardinality(Ahead(R, S, u) \cup {u})
        BY <3>2, AheadFacts, FS_Subset
      <3>4. /\ Cardinality(Ahead(R, S, u) \cup {u}) = Cardinality(Ahead(R, S, u)) + 1
            /\ Cardinality(Ahead(R, S, u)) \in Nat
        BY <3>2, AheadFacts
      <3>5. Cardinality(Ahead(R, S, u)) < k
        BY <1>2, <3>2
      <3> QED BY <1>1, <3>3, <3>4, <3>5
    <2> QED BY <2>1, <2>2
  <1>5. ASSUME Cardinality(F) < k PROVE F = S
    <2> SUFFICES ASSUME S \ F # {} PROVE FALSE
      BY <1>1
    <2>1. PICK u \in S \ F : \A v \in S \ F : v # u => <<u, v>> \in R
      <3> DEFINE Rest == S \ F
      <3>1. Rest \in SUBSET S /\ Rest # {}
        OBVIOUS
      <3> HIDE DEF Rest
      <3>2. \E u \in Rest : \A v \in Rest : v # u => <<u, v>> \in R
        BY <3>1, FirstExists
      <3> QED BY <3>2 DEF Rest
    <2>2. Ahead(R, S, u) \subseteq F
      BY <2>1 DEF Ahead, Orders
    <2>3. Cardinality(Ahead(R, S, u)) <= Cardinality(F) /\ Cardinality(Ahead(R, S, u)) \in Nat
      BY <1>1, <2>2, AheadFacts, FS_Subset
    <2>4. Cardinality(Ahead(R, S, u)) < k
      BY <1>1, <1>5, <2>3
    <2> QED BY <1>2, <2>1, <2>4
  <1> QED BY <1>1, <1>3, <1>4, <1>5 DEF F
-----------------------------------------------------------------------------
(***************************************************************************)
(* Paid invitations: who is selected.                                      *)
(***************************************************************************)
LEMMA ScoreIsInteger ==
  ASSUME NEW u \in Person
  PROVE  Score(u) \in Int
  <1>1. /\ Fact[u].interest \in BOOLEAN /\ Fact[u].active \in BOOLEAN
        /\ Fact[u].invitedRecently \in BOOLEAN
        /\ Fact[u].attendances \in Nat /\ Fact[u].trust \in Int
    BY ScoreAssumption
  <1>2. /\ Weight.interestMatch \in Int /\ Weight.categoryHistory \in Int
        /\ Weight.recentActivity \in Int /\ Weight.trust \in Int
        /\ Weight.recentInvitePenalty \in Int
    BY ScoreAssumption
  <1> DEFINE history == (Weight.categoryHistory * MinOf(Fact[u].attendances, 3)) \div 3
             trusted == (Weight.trust * (IF Fact[u].trust < 0 THEN 0 ELSE Fact[u].trust)) \div 100
             interest == IF Fact[u].interest THEN Weight.interestMatch ELSE 0
             active == IF Fact[u].active THEN Weight.recentActivity ELSE 0
             recent == IF Fact[u].invitedRecently THEN Weight.recentInvitePenalty ELSE 0
  <1>3. history \in Int
    <2>1. MinOf(Fact[u].attendances, 3) \in Int
      BY <1>1 DEF MinOf
    <2>2. Weight.categoryHistory * MinOf(Fact[u].attendances, 3) \in Int
      BY <1>2, <2>1
    <2> QED BY <2>2
  <1>4. trusted \in Int
    <2>1. (IF Fact[u].trust < 0 THEN 0 ELSE Fact[u].trust) \in Int
      BY <1>1
    <2>2. Weight.trust * (IF Fact[u].trust < 0 THEN 0 ELSE Fact[u].trust) \in Int
      BY <1>2, <2>1
    <2> QED BY <2>2
  <1>5. interest \in Int /\ active \in Int /\ recent \in Int
    BY <1>1, <1>2
  <1>6. Score(u) = interest + history + active + trusted - recent
    BY DEF Score
  <1> HIDE DEF history, trusted, interest, active, recent
  <1> QED BY <1>3, <1>4, <1>5, <1>6

\* rankCandidates orders all people: "the tie-break is total".
LEMMA BeforeIsOrder ==
  /\ \A u, v \in Person : u # v => Before(u, v) \/ Before(v, u)
  /\ \A u \in Person : ~ Before(u, u)
  /\ \A u, v, w \in Person : Before(u, v) /\ Before(v, w) => Before(u, w)
  <1>1. \A u \in Person : u \in Nat /\ Score(u) \in Int
    BY ScoreIsInteger, CampaignsAssumption
  <1> QED BY <1>1 DEF Before

\* rankCandidates, whatever the weights, the facts and the pool: nobody who is left
\* out is before anybody who is selected, no more people are selected than the limit,
\* and fewer only when that is the whole pool.
THEOREM SelectionIsBest ==
  ASSUME NEW pool \in SUBSET Person
  PROVE  /\ Ranked(pool) \subseteq pool
         /\ Cardinality(Ranked(pool)) <= InviteLimit
         /\ Cardinality(Ranked(pool)) < InviteLimit => Ranked(pool) = pool
         /\ \A u \in Ranked(pool), v \in pool \ Ranked(pool) : Before(u, v)
  <1> DEFINE R == {p \in Person \X Person : Before(p[1], p[2])}
  <1>1. \A u, v \in Person : <<u, v>> \in R <=> Before(u, v)
    OBVIOUS
  <1> HIDE DEF R
  <1>2. Orders(R, pool) /\ IsFiniteSet(pool)
    BY <1>1, BeforeIsOrder, ConstantFacts, FS_Subset DEF Orders
  <1>3. \A u \in pool : Ahead(R, pool, u) = {v \in pool : Before(v, u)}
    BY <1>1 DEF Ahead
  <1>4. Ranked(pool) = FirstOf(R, pool, InviteLimit)
    BY <1>3 DEF Ranked, FirstOf
  <1>5. /\ Ranked(pool) \subseteq pool
        /\ Cardinality(Ranked(pool)) <= InviteLimit
        /\ Cardinality(Ranked(pool)) < InviteLimit => Ranked(pool) = pool
        /\ \A u \in Ranked(pool), v \in pool \ Ranked(pool) : <<u, v>> \in R
    BY <1>2, <1>4, FirstOfFacts, ConstantFacts
  <1> QED BY <1>1, <1>5

\* pendingDeliveries with its LIMIT, and the dispatcher's test for an empty batch: a
\* pass enqueues at most a batch, and enqueues nothing only when nobody is pending,
\* which is when it may close the campaign.
THEOREM EmptyBatchMeansDone ==
  ASSUME NEW c \in Campaign
  PROVE  /\ Batch(c) \subseteq Pending(c) /\ Cardinality(Batch(c)) <= DispatchBatch
         /\ Batch(c) = {} <=> Pending(c) = {}
  <1> DEFINE S == Pending(c)
             R == {p \in Person \X Person : p[1] < p[2]}
  <1>1. S \subseteq Person /\ S \subseteq Nat /\ IsFiniteSet(S)
    <2>1. S \subseteq Person /\ Person \subseteq Nat
      BY CampaignsAssumption DEF Pending
    <2> QED BY <2>1, ConstantFacts, FS_Subset
  <1>2. \A u, v \in S : <<u, v>> \in R <=> u < v
    BY <1>1
  <1>3. Batch(c) = {u \in S : Cardinality({v \in S : v < u}) < DispatchBatch}
    BY DEF Batch
  <1> HIDE DEF S, R
  <1>4. Orders(R, S)
    BY <1>1, <1>2 DEF Orders
  <1>5. \A u \in S : Ahead(R, S, u) = {v \in S : v < u}
    BY <1>2 DEF Ahead
  <1>6. Batch(c) = FirstOf(R, S, DispatchBatch)
    BY <1>3, <1>5 DEF FirstOf
  <1>7. DispatchBatch \in Nat /\ DispatchBatch > 0
    BY CampaignsAssumption
  <1>8. /\ Batch(c) \subseteq S /\ Cardinality(Batch(c)) <= DispatchBatch
        /\ Cardinality(Batch(c)) < DispatchBatch => Batch(c) = S
    BY <1>1, <1>4, <1>6, <1>7, FirstOfFacts
  <1>9. Batch(c) = {} => S = {}
    BY <1>7, <1>8, FS_EmptySet
  <1> QED BY <1>8, <1>9 DEF S

\* The selection takes nobody who opted out and no more than the limit.
LEMMA SelectTopKeeps ==
  ASSUME CampaignsIInv, NEW c \in Campaign, NEW i \in Call, SelectTop(c, i)
  PROVE  CampaignsIInv'
  <1> USE DEF CampaignsIInv, CampaignRows
  <1> DEFINE top == Ranked(CandidatePool)
  <1>1. /\ UNCHANGED <<kind, late, status, rcpt, author, coins, desk, sendJob, sender, accepted>>
        /\ kind[c] = "INVITE"
    BY DEF SelectTop, sending, outside
  <1>2. Chosen(top)
    <2>1. CandidatePool \in SUBSET Person /\ \A u \in CandidatePool : ~ Fact[u].optOut
      BY DEF CandidatePool
    <2>2. top \subseteq CandidatePool /\ Cardinality(top) <= InviteLimit
      BY <2>1, SelectionIsBest
    <2> QED BY <2>1, <2>2 DEF Chosen
  <1>3. basket' \in [Campaign -> [Call -> SUBSET Person]]
    BY <1>2 DEF SelectTop, CampaignsTypeOK, Chosen
  <1>4. \A d \in Campaign, k \in Call :
          basket'[d][k] = IF d = c /\ k = i THEN top ELSE basket[d][k]
    BY DEF SelectTop, CampaignsTypeOK
  <1>5. CampaignsTypeOK'
    BY <1>3 DEF SelectTop, CampaignsTypeOK, sending, outside
  <1> HIDE DEF top
  <1>6. \A d \in Campaign : Of(d)' = Of(d) /\ Pending(d)' = Pending(d)
    BY <1>1 DEF Of, Pending
  <1>7. NoneYet' /\ Authors' /\ DryRunsRest' /\ FinishedIsSettled' /\ Desks'
    <2>1. NoneYet' /\ Authors' /\ DryRunsRest' /\ FinishedIsSettled'
      BY <1>1, <1>6 DEF NoneYet, Authors, DryRunsRest, FinishedIsSettled, OnlyLate
    <2>2. Desks'
      BY <1>1, DesksStay DEF Started
    <2> QED BY <2>1, <2>2
  <1>8. Purchases'
    BY <1>1, <1>4, <1>6 DEF Purchases
  <1>9. InvitedAreChosen'
    <2> SUFFICES ASSUME NEW d \in Campaign, kind[d] = "INVITE"
                 PROVE  Chosen(Of(d)') /\ \A k \in Call : Chosen(basket'[d][k])
      BY <1>1 DEF InvitedAreChosen, Chosen
    <2>1. Chosen(Of(d)')
      BY <1>6 DEF InvitedAreChosen
    <2>2. ASSUME NEW k \in Call PROVE Chosen(basket'[d][k])
      BY <1>2, <1>4 DEF InvitedAreChosen
    <2> QED BY <2>1, <2>2
  <1>10. Charged'
    BY <1>1, ChargedStays
  <1>11. SendRows'
    BY <1>1, SendRowsStay
  <1> QED BY <1>5, <1>7, <1>8, <1>9, <1>10, <1>11

\* The purchase: one more campaign is bought, and its cost is taken once.
LEMMA PayTopKeeps ==
  ASSUME CampaignsIInv, NEW c \in Campaign, NEW i \in Call, PayTop(c, i)
  PROVE  CampaignsIInv'
  <1> USE DEF CampaignsIInv, CampaignRows
  <1>1. /\ UNCHANGED <<kind, late, paused, author, announced, desk, sendJob, sender, streak>>
        /\ UNCHANGED <<botBlocked, accepted, mishaps>>
        /\ basket[c][i] # Nothing /\ kind[c] = "INVITE"
    BY DEF PayTop, Purchases, sending, outside
  <1>2. basket' \in [Campaign -> [Call -> SUBSET Person]]
    BY DEF PayTop, CampaignsTypeOK, Nothing
  <1>3. \A d \in Campaign, k \in Call :
          basket'[d][k] = IF d = c /\ k = i THEN Nothing ELSE basket[d][k]
    BY DEF PayTop, CampaignsTypeOK
  <1>4. CASE coins < Cost \/ status[c] # "NONE"
    <2>1. UNCHANGED <<coins, status, listed, rcpt, invited>>
      BY <1>4 DEF PayTop
    <2>2. CampaignsTypeOK'
      BY <1>1, <1>2, <2>1 DEF CampaignsTypeOK
    <2>3. CampaignRows'
      BY <1>1, <1>3, <2>1, CampaignRowsStay
    <2>4. SendRows'
      BY <1>1, <2>1, SendRowsStay
    <2> QED BY <2>2, <2>3, <2>4
  <1>5. CASE coins >= Cost /\ status[c] = "NONE"
    <2>1. /\ coins' = coins - Cost /\ status' = [status EXCEPT ![c] = "QUEUED"]
          /\ listed' = Append(listed, c)
          /\ rcpt' = [r \in Recipient |->
                        IF r[1] = c /\ r[2] \in basket[c][i] THEN "PENDING" ELSE rcpt[r]]
          /\ invited' = [u \in Person |->
                           IF u \in basket[c][i] /\ invited[u] = NotInvited
                           THEN [by |-> c, status |-> "PENDING"] ELSE invited[u]]
      <3>1. coins \in Nat /\ Cost \in Nat
        BY ConstantFacts DEF CampaignsTypeOK
      <3>2. ~ (coins < Cost \/ status[c] # "NONE")
        BY <1>5, <3>1
      <3> QED BY <3>2 DEF PayTop
    <2>2. \A d \in Campaign : status'[d] = IF d = c THEN "QUEUED" ELSE status[d]
      BY <2>1 DEF CampaignsTypeOK
    <2>3. CampaignsTypeOK'
      <3>1. coins' \in 0 .. Wallet
        BY <1>5, <2>1, ConstantFacts DEF CampaignsTypeOK
      <3>2. rcpt' \in [Recipient -> DeliveryStatus]
        BY <2>1 DEF CampaignsTypeOK, DeliveryStatus
      <3>3. invited' \in [Person -> [by : Campaign \cup {"nobody"}, status : DeliveryStatus]]
        BY <2>1 DEF CampaignsTypeOK, DeliveryStatus
      <3>4. status' \in [Campaign -> CampaignStatus]
        BY <2>1 DEF CampaignsTypeOK, CampaignStatus
      <3>5. listed' \in Seq(Campaign)
        BY <2>1 DEF CampaignsTypeOK
      <3> QED BY <1>1, <1>2, <3>1, <3>2, <3>3, <3>4, <3>5 DEF CampaignsTypeOK
    <2>4. Of(c) = {} /\ author[c] = 0
      BY <1>5 DEF NoneYet
    <2>5. \A r \in Recipient :
            rcpt'[r] = rcpt[r] \/ (rcpt[r] = "NONE" /\ rcpt'[r] = "PENDING")
      BY <2>1, <2>4, RecipientFacts DEF Of
    <2>6. \A d \in Campaign : d # c => Of(d)' = Of(d) /\ Pending(d)' = Pending(d)
      BY <2>1, RecipientFacts DEF Of, Pending
    <2>7. Of(c)' = basket[c][i]
      <3>1. \A u \in Person : rcpt[<<c, u>>] = "NONE"
        BY <2>4 DEF Of
      <3>2. \A u \in Person : rcpt'[<<c, u>>] # "NONE" <=> u \in basket[c][i]
        BY <2>1, <3>1, RecipientFacts
      <3>3. basket[c][i] \subseteq Person
        BY DEF CampaignsTypeOK
      <3> QED BY <3>2, <3>3 DEF Of
    <2>8. NoneYet' /\ Authors'
      BY <1>1, <2>2, <2>4, <2>6 DEF NoneYet, Authors
    <2>9. DryRunsRest' /\ FinishedIsSettled' /\ Desks'
      <3>1. DryRunsRest' /\ FinishedIsSettled'
        BY <1>1, <2>2, <2>6 DEF DryRunsRest, FinishedIsSettled, OnlyLate, Finished
      <3>2. \A d \in Campaign : Started(d) => d # c /\ status'[d] \notin {"NONE", "DRAFT"}
        BY <1>5, <2>2 DEF Started
      <3>3. \A d \in Campaign, u \in Person : d # c => rcpt'[<<d, u>>] = rcpt[<<d, u>>]
        BY <2>1, RecipientFacts
      <3>4. Desks'
        BY <1>1, <3>2, <3>3, DesksStay
      <3> QED BY <3>1, <3>4
    <2>10. Purchases'
      BY <1>1, <1>3, <2>2, <2>6, <2>7 DEF Purchases, Nothing
    <2>11. InvitedAreChosen'
      <3> SUFFICES ASSUME NEW d \in Campaign, kind[d] = "INVITE"
                   PROVE  Chosen(Of(d)') /\ \A k \in Call : Chosen(basket'[d][k])
        BY <1>1 DEF InvitedAreChosen, Chosen
      <3>1. Chosen(Of(d)')
        <4>1. CASE d = c
          BY <2>7, <4>1 DEF InvitedAreChosen
        <4>2. CASE d # c
          BY <2>6, <4>2 DEF InvitedAreChosen
        <4> QED BY <4>1, <4>2
      <3>2. Chosen(Nothing)
        BY FS_EmptySet, ConstantFacts DEF Chosen, Nothing
      <3>3. ASSUME NEW k \in Call PROVE Chosen(basket'[d][k])
        BY <1>3, <3>2 DEF InvitedAreChosen
      <3> QED BY <3>1, <3>3
    <2>12. Charged'
      <3>1. Bought' = Bought \cup {c} /\ c \notin Bought
        BY <1>1, <1>5, <2>2 DEF Bought
      <3>2. IsFiniteSet(Bought) /\ Cardinality(Bought) \in Nat
        <4>1. Bought \subseteq Campaign
          BY DEF Bought
        <4> QED BY <4>1, ConstantFacts, FS_Subset, FS_CardinalityType
      <3>3. Cardinality(Bought \cup {c}) = Cardinality(Bought) + 1
        BY <3>1, <3>2, FS_AddElement
      <3>4. \A n \in Nat : Wallet - Cost * n - Cost = Wallet - Cost * (n + 1)
        BY ConstantFacts
      <3>5. coins = Wallet - Cost * Cardinality(Bought)
        BY DEF Charged
      <3> QED BY <2>1, <3>1, <3>2, <3>3, <3>4, <3>5 DEF Charged
    <2>13. SendRows'
      BY <1>1, <2>5, SendRowsStay
    <2> QED BY <2>3, <2>8, <2>9, <2>10, <2>11, <2>12, <2>13
  <1>6. coins < Cost \/ status[c] # "NONE" \/ (coins >= Cost /\ status[c] = "NONE")
    BY ConstantFacts DEF CampaignsTypeOK
  <1> QED BY <1>4, <1>5, <1>6
-----------------------------------------------------------------------------
(***************************************************************************)
(* The dispatcher and the sender.                                          *)
(***************************************************************************)
\* A step of one pass: it starts campaigns, gives jobs to recipients of campaigns that
\* were started, and closes one it has counted.
LEMMA PassMoves ==
  ASSUME CampaignsIInv, NEW p \in Tick, NEW d \in Desk, desk' = [desk EXCEPT ![p] = d],
         InHand(d)', mishaps' \in 0 .. MaxMishaps,
         UNCHANGED <<kind, listed, late, paused, rcpt, invited, author, basket, announced>>,
         UNCHANGED <<coins, sender, streak, botBlocked, accepted>>,
         status' \in [Campaign -> CampaignStatus],
         \A c \in Campaign :
           \/ status'[c] = status[c]
           \/ status[c] = "QUEUED" /\ status'[c] = "SENDING"
           \/ status[c] = "SENDING" /\ status'[c] \in Finished /\ OnlyLate(c),
         sendJob' \in [Recipient -> Job],
         \A r \in Recipient :
           \/ sendJob'[r] = sendJob[r]
           \/ kind[r[1]] # "DRY_RUN" /\ sendJob'[r] = Added(sendJob[r])
  PROVE  CampaignsIInv'
  <1> USE RecipientFacts, ConstantFacts DEF CampaignsIInv, CampaignRows, SendRows
  <1>1. CampaignsTypeOK'
    <2>1. sendJob \in [Recipient -> Job] /\ desk' \in [Tick -> Desk]
      BY DEF CampaignsTypeOK
    <2>2. \A r \in Recipient : sendJob'[r].state = "ACTIVE" <=> sendJob[r].state = "ACTIVE"
      BY <2>1, JobMoves
    <2> QED BY <2>1, <2>2 DEF CampaignsTypeOK
  <1>2. \A c \in Campaign : Of(c)' = Of(c) /\ Pending(c)' = Pending(c)
    BY DEF Of, Pending
  <1>3. \A c \in Campaign : (status'[c] = "NONE" <=> status[c] = "NONE")
          /\ (Started(c) => Started(c)') /\ (OnlyLate(c) <=> OnlyLate(c)')
    BY <1>2 DEF Finished, Started, OnlyLate
  <1>4. NoneYet' /\ Authors'
    BY <1>2, <1>3 DEF NoneYet, Authors, Confirming
  <1>5. DryRunsRest'
    BY DEF DryRunsRest
  <1>6. FinishedIsSettled'
    BY <1>3 DEF FinishedIsSettled, Finished
  <1>7. Desks'
    <2> SUFFICES ASSUME NEW q \in Tick PROVE InHand(desk[q])'
      BY DEF Desks
    <2>1. CASE q = p
      <3>1. desk'[q] = d
        BY <2>1 DEF CampaignsTypeOK
      <3> QED BY <3>1 DEF InHand
    <2>2. CASE q # p
      <3>1. desk'[q] = desk[q] /\ desk[q] \in Desk /\ InHand(desk[q])
        BY <2>2 DEF CampaignsTypeOK, Desks
      <3>2. desk[q].todo \subseteq Campaign
        BY <3>1 DEF Desk
      <3> QED BY <1>3, <3>1, <3>2 DEF InHand
    <2> QED BY <2>1, <2>2
  <1>8. Purchases' /\ InvitedAreChosen'
    <2>1. Purchases'
      BY <1>2, <1>3 DEF Purchases
    <2>2. InvitedAreChosen'
      BY <1>2 DEF InvitedAreChosen, Chosen
    <2> QED BY <2>1, <2>2
  <1>9. Charged'
    BY <1>3, ChargedStays
  <1>10. DryRunsSendNothing'
    <2> SUFFICES ASSUME NEW c \in Campaign, kind[c] = "DRY_RUN", NEW u \in Person
                 PROVE  sendJob'[<<c, u>>] = NoJob
      BY DEF DryRunsSendNothing
    <2>1. <<c, u>> \in Recipient /\ <<c, u>>[1] = c /\ sendJob[<<c, u>>] = NoJob
      BY DEF DryRunsSendNothing
    <2> QED BY <2>1
  <1>11. SendTriesLeft'
    <2> SUFFICES ASSUME NEW r \in Recipient, sendJob'[r].state \in {"WAITING", "ACTIVE"}
                 PROVE  sendJob'[r].tries < Attempts
      BY DEF SendTriesLeft
    <2>1. sendJob[r] \in Job
      BY DEF CampaignsTypeOK
    <2>2. CASE sendJob'[r] = sendJob[r]
      BY <2>2 DEF SendTriesLeft
    <2>3. CASE sendJob'[r] # sendJob[r]
      BY <2>1, <2>3, JobMoves
    <2> QED BY <2>2, <2>3
  <1>12. OneCopy' /\ RecordedIsFinal'
    BY DEF OneCopy, RecordedIsFinal, Answered
  <1> QED BY <1>1, <1>4, <1>5, <1>6, <1>7, <1>8, <1>9, <1>10, <1>11, <1>12

\* What a pass finds on its desk.
LEMMA DeskIs ==
  ASSUME CampaignsIInv, NEW p \in Tick
  PROVE  desk[p] \in Desk /\ InHand(desk[p]) /\ desk \in [Tick -> Desk]
         /\ desk[p].todo \subseteq Campaign /\ mishaps \in 0 .. MaxMishaps
         /\ sendJob \in [Recipient -> Job] /\ status \in [Campaign -> CampaignStatus]
         /\ Done(desk[p]) \in Desk
         /\ \A c \in Campaign : kind[c] = "DRY_RUN" => status[c] \notin {"QUEUED", "SENDING"}
  <1>1. desk[p] \in Desk /\ desk \in [Tick -> Desk] /\ InHand(desk[p])
    BY DEF CampaignsIInv, CampaignsTypeOK, CampaignRows, Desks
  <1>2. desk[p].todo \subseteq Campaign
    BY <1>1 DEF Desk
  <1> QED BY <1>1, <1>2, DeskFacts DEF CampaignsIInv, CampaignsTypeOK, CampaignRows, DryRunsRest

\* Only what is open is claimed, and it is started with that.
LEMMA ClaimSendingKeeps ==
  ASSUME CampaignsIInv, NEW p \in Tick, ClaimSending(p)
  PROVE  CampaignsIInv'
  <1> DEFINE e == [Clear EXCEPT !.todo = Oldest(Open)]
  <1>1. /\ UNCHANGED <<kind, listed, late, paused, rcpt, invited, author, basket, announced>>
        /\ UNCHANGED <<coins, sendJob, sender, streak, botBlocked, accepted, mishaps>>
        /\ \A c \in Campaign : status'[c] = IF status[c] = "QUEUED" THEN "SENDING" ELSE status[c]
        /\ desk' = [desk EXCEPT ![p] = e]
    BY DeskIs DEF ClaimSending, drafting, outside, Clear
  <1>2. status' \in [Campaign -> CampaignStatus]
    BY DeskIs DEF ClaimSending, CampaignStatus
  <1>3. /\ Oldest(Open) \subseteq Campaign
        /\ \A c \in Oldest(Open) : status[c] \in {"QUEUED", "SENDING"}
    BY DEF Oldest, Open
  <1>4. PICK d \in Desk : d = e /\ d.todo = Oldest(Open) /\ d.at = "clear"
    <2>1. e \in Desk /\ e.todo = Oldest(Open) /\ e.at = "clear"
      BY <1>3 DEF Clear, Desk
    <2> QED BY <2>1, Zenon
  <1> HIDE DEF e
  <1>5. InHand(d)'
    BY <1>1, <1>3, <1>4, DeskIs DEF InHand, Started
  <1> QED BY <1>1, <1>2, <1>4, <1>5, DeskIs, PassMoves

\* What follows a claim leaves the campaigns as they are until one is closed.
LEMMA ReadBatchKeeps ==
  ASSUME CampaignsIInv, NEW p \in Tick, NEW c \in Campaign, ReadBatch(p, c)
  PROVE  CampaignsIInv'
  <1> DEFINE e == [todo |-> desk[p].todo \ {c}, on |-> c, batch |-> Batch(c), verdict |-> "NONE",
                   at |-> IF Batch(c) = {} THEN "count" ELSE "enqueue"]
  <1>1. /\ UNCHANGED <<kind, listed, late, paused, rcpt, invited, author, basket, announced>>
        /\ UNCHANGED <<coins, sendJob, sender, streak, botBlocked, accepted, mishaps, status>>
        /\ desk' = [desk EXCEPT ![p] = e] /\ c \in desk[p].todo
    BY DEF ReadBatch, TurnOf, drafting, outside
  <1>2. Batch(c) \subseteq Person
    BY DEF Batch, Pending
  <1>3. PICK d \in Desk : d = e /\ d.todo \subseteq desk[p].todo /\ d.on = c
                          /\ d.at \in {"count", "enqueue"}
    BY <1>1, <1>2, DeskIs DEF Desk
  <1> HIDE DEF e
  <1>4. InHand(d)'
    BY <1>1, <1>3, DeskIs DEF InHand, Started
  <1> QED BY <1>1, <1>3, <1>4, DeskIs, PassMoves

LEMMA EnqueueNextKeeps ==
  ASSUME CampaignsIInv, NEW p \in Tick, EnqueueNext(p)
  PROVE  CampaignsIInv'
  <1>1. /\ UNCHANGED <<kind, listed, late, paused, rcpt, invited, author, basket, announced>>
        /\ UNCHANGED <<coins, sender, streak, botBlocked, accepted, mishaps, status>>
        /\ desk[p].at = "enqueue"
    BY DEF EnqueueNext, drafting, outside
  <1>2. PICK u \in desk[p].batch :
          /\ sendJob' = [sendJob EXCEPT ![<<desk[p].on, u>>] = Added(@)]
          /\ desk' = [desk EXCEPT ![p] =
                         IF desk[p].batch = {u} THEN Done(desk[p])
                         ELSE [desk[p] EXCEPT !.batch = desk[p].batch \ {u}]]
    BY DEF EnqueueNext
  <1> DEFINE e == IF desk[p].batch = {u} THEN Done(desk[p])
                  ELSE [desk[p] EXCEPT !.batch = desk[p].batch \ {u}]
  <1>3. desk[p].on \in Campaign /\ u \in Person /\ kind[desk[p].on] # "DRY_RUN"
    BY <1>1, DeskIs DEF InHand, Started, Desk
  <1>4. PICK d \in Desk : d = e /\ d.todo = desk[p].todo
          /\ (d.at = "clear" \/ (d.at = "enqueue" /\ d.on = desk[p].on))
    <2>1. CASE desk[p].batch = {u}
      BY <2>1, DeskIs, DeskFacts
    <2>2. CASE desk[p].batch # {u}
      <3>1. e = [desk[p] EXCEPT !.batch = desk[p].batch \ {u}]
        BY <2>2
      <3>2. e \in Desk /\ e.todo = desk[p].todo /\ e.at = "enqueue" /\ e.on = desk[p].on
        BY <1>1, <3>1, DeskIs DEF Desk
      <3> QED BY <3>2, Zenon
    <2> QED BY <2>1, <2>2
  <1>5. desk' = [desk EXCEPT ![p] = d]
    <2>1. desk' = [desk EXCEPT ![p] = e]
      BY <1>2, Zenon
    <2> QED BY <1>4, <2>1, Zenon
  <1> HIDE DEF e
  <1>6. InHand(d)'
    BY <1>1, <1>4, DeskIs DEF InHand, Started
  <1>7. /\ sendJob' \in [Recipient -> Job]
        /\ \A r \in Recipient :
             \/ sendJob'[r] = sendJob[r]
             \/ r[1] = desk[p].on /\ sendJob'[r] = Added(sendJob[r])
    <2>1. <<desk[p].on, u>> \in Recipient /\ <<desk[p].on, u>>[1] = desk[p].on
      BY <1>3, RecipientFacts
    <2>2. Added(sendJob[<<desk[p].on, u>>]) \in Job
      BY <2>1, DeskIs, JobFacts
    <2> QED BY <1>2, <2>1, <2>2, DeskIs
  <1> QED BY <1>1, <1>3, <1>4, <1>5, <1>6, <1>7, DeskIs, PassMoves

LEMMA CountKeeps ==
  ASSUME CampaignsIInv, NEW p \in Tick, Count(p)
  PROVE  CampaignsIInv'
  <1> DEFINE e == IF Pending(desk[p].on) # {} THEN Done(desk[p])
                  ELSE [desk[p] EXCEPT !.at = "close", !.verdict = Verdict(desk[p].on)]
  <1>1. /\ UNCHANGED <<kind, listed, late, paused, rcpt, invited, author, basket, announced>>
        /\ UNCHANGED <<coins, sendJob, sender, streak, botBlocked, accepted, mishaps, status>>
        /\ desk[p].at = "count"
    BY DEF Count, drafting, outside
  <1>2. desk' = [desk EXCEPT ![p] = e]
    BY DeskIs DEF Count
  <1>3. Verdict(desk[p].on) \in Finished
    BY DEF Verdict, Finished
  <1>4. PICK d \in Desk : d = e /\ d.todo = desk[p].todo
          /\ \/ d.at = "clear"
             \/ d.at = "close" /\ d.on = desk[p].on /\ d.verdict \in Finished
                /\ Pending(desk[p].on) = {}
    <2>1. CASE Pending(desk[p].on) # {}
      BY <2>1, DeskIs, DeskFacts
    <2>2. CASE Pending(desk[p].on) = {}
      <3>1. e = [desk[p] EXCEPT !.at = "close", !.verdict = Verdict(desk[p].on)]
        BY <2>2
      <3>2. e \in Desk /\ e.todo = desk[p].todo /\ e.at = "close" /\ e.on = desk[p].on
              /\ e.verdict \in Finished
        BY <1>3, <3>1, DeskIs DEF Desk
      <3> QED BY <2>2, <3>2, Zenon
    <2> QED BY <2>1, <2>2
  <1> HIDE DEF e
  <1>5. InHand(d)'
    BY <1>1, <1>4, DeskIs DEF InHand, Started, OnlyLate, Pending
  <1> QED BY <1>1, <1>2, <1>4, <1>5, DeskIs, PassMoves

\* A campaign is closed only when nobody was pending at the count, and with a finished
\* status.
LEMMA CloseKeeps ==
  ASSUME CampaignsIInv, NEW p \in Tick, Close(p)
  PROVE  CampaignsIInv'
  <1> DEFINE c == desk[p].on
  <1>1. /\ UNCHANGED <<kind, listed, late, paused, rcpt, invited, author, basket, announced>>
        /\ UNCHANGED <<coins, sendJob, sender, streak, botBlocked, accepted, mishaps>>
        /\ desk[p].at = "close"
        /\ status' = [status EXCEPT ![c] = IF status[c] = "SENDING" THEN desk[p].verdict
                                           ELSE status[c]]
        /\ desk' = [desk EXCEPT ![p] = Done(desk[p])]
    BY DEF Close, drafting, outside
  <1>2. /\ c \in Campaign /\ desk[p].verdict \in Finished /\ OnlyLate(c)
        /\ \A b \in desk[p].todo : Started(b)
    BY <1>1, DeskIs DEF InHand
  <1>3. Finished \subseteq CampaignStatus
    BY DEF Finished, CampaignStatus
  <1> HIDE DEF c
  <1>4. /\ status' \in [Campaign -> CampaignStatus]
        /\ \A b \in Campaign :
             \/ status'[b] = status[b]
             \/ status[b] = "SENDING" /\ status'[b] \in Finished /\ OnlyLate(b)
    BY <1>1, <1>2, <1>3, DeskIs
  <1>5. PICK d \in Desk : d = Done(desk[p]) /\ d.todo = desk[p].todo /\ d.at = "clear"
    BY DeskIs, DeskFacts
  <1>6. InHand(d)'
    <2>1. \A b \in Campaign : Started(b) => Started(b)'
      BY <1>1, <1>4 DEF Started, Finished
    <2> QED BY <1>2, <1>5, <2>1, DeskIs DEF InHand
  <1> QED BY <1>1, <1>4, <1>5, <1>6, DeskIs, PassMoves

LEMMA DispatchFailsKeeps ==
  ASSUME CampaignsIInv, NEW p \in Tick, DispatchFails(p)
  PROVE  CampaignsIInv'
  <1>1. /\ UNCHANGED <<kind, listed, late, paused, rcpt, invited, author, basket, announced>>
        /\ UNCHANGED <<coins, sendJob, sender, streak, botBlocked, accepted, status>>
        /\ desk' = [desk EXCEPT ![p] = Clear] /\ mishaps' \in 0 .. MaxMishaps
    BY ConstantFacts, DeskIs DEF DispatchFails, Mishap, drafting
  <1>2. InHand(Clear)'
    BY DeskFacts DEF InHand
  <1> QED BY <1>1, <1>2, DeskFacts, DeskIs, PassMoves

\* A step of one send, whatever it does to the campaign's streak and its pause.
LEMMA SendMoves ==
  ASSUME CampaignsIInv, NEW r \in Recipient, NEW j \in Job, NEW s \in Sender,
         sendJob' = [sendJob EXCEPT ![r] = j], sender' = [sender EXCEPT ![r] = s],
         (s.at # "idle") <=> (j.state = "ACTIVE"),
         sendJob[r] = NoJob => j = NoJob,
         j.state \in {"WAITING", "ACTIVE"} => j.tries < Attempts,
         UNCHANGED <<kind, status, author, basket, announced, coins, desk, botBlocked>>,
         mishaps' = mishaps \/ mishaps' \in 0 .. MaxMishaps, UNCHANGED <<listed, late>>,
         paused' \subseteq Campaign, streak' \in [Campaign -> 0 .. Threshold - 1],
         invited' \in [Person -> [by : Campaign \cup {"nobody"}, status : DeliveryStatus]],
         rcpt' \in [Recipient -> DeliveryStatus], accepted' \in [Recipient -> Nat],
         \A q \in Recipient : q # r => rcpt'[q] = rcpt[q] /\ accepted'[q] = accepted[q],
         rcpt'[r] = rcpt[r] \/ (rcpt[r] = "PENDING" /\ rcpt'[r] \in Settling),
         accepted'[r] \in {0, 1},
         s = Answered("SENT") => accepted'[r] = 1,
         rcpt'[r] \in {"NONE", "PENDING"} \/ s.at = "sending" =>
           accepted'[r] = 0 \/ s = Answered("SENT"),
         rcpt'[r] = "NONE" => s.at = "idle",
         s.at \in {"sending", "answered"} => rcpt'[r] \in {"PENDING", "SKIPPED"},
         rcpt'[r] = "SENT" => accepted'[r] = 1,
         s.at = "recorded" => s.answer \in Settling
  PROVE  CampaignsIInv'
  <1> USE DEF CampaignsIInv, SendRows
  <1>1. /\ \A q \in Recipient : sendJob'[q] = IF q = r THEN j ELSE sendJob[q]
        /\ \A q \in Recipient : sender'[q] = IF q = r THEN s ELSE sender[q]
    BY DEF CampaignsTypeOK
  <1>2. CampaignsTypeOK'
    <2>1. sendJob' \in [Recipient -> Job] /\ sender' \in [Recipient -> Sender]
      BY DEF CampaignsTypeOK
    <2>2. \A q \in Recipient : (sender'[q].at # "idle") <=> (sendJob'[q].state = "ACTIVE")
      BY <1>1 DEF CampaignsTypeOK
    <2> QED BY <2>1, <2>2 DEF CampaignsTypeOK
  <1>3. CampaignRows'
    BY CampaignRowsStay
  <1>4. DryRunsSendNothing'
    <2> SUFFICES ASSUME NEW d \in Campaign, kind[d] = "DRY_RUN", NEW u \in Person
                 PROVE  sendJob'[<<d, u>>] = NoJob
      BY DEF DryRunsSendNothing
    <2>1. sendJob[<<d, u>>] = NoJob /\ <<d, u>> \in Recipient
      BY RecipientFacts DEF DryRunsSendNothing
    <2> QED BY <1>1, <2>1
  <1>5. SendTriesLeft'
    BY <1>1 DEF SendTriesLeft
  <1>6. OneCopy'
    <2> SUFFICES ASSUME NEW q \in Recipient
                 PROVE  /\ accepted'[q] \in {0, 1}
                        /\ sender'[q] = Answered("SENT") => accepted'[q] = 1
                        /\ rcpt'[q] \in {"NONE", "PENDING"} \/ sender'[q].at = "sending" =>
                             accepted'[q] = 0 \/ sender'[q] = Answered("SENT")
                        /\ rcpt'[q] = "NONE" => sender'[q].at = "idle"
                        /\ sender'[q].at \in {"sending", "answered"} =>
                             rcpt'[q] \in {"PENDING", "SKIPPED"}
                        /\ rcpt'[q] = "SENT" => accepted'[q] = 1
      BY DEF OneCopy, Answered
    <2>1. CASE q = r
      BY <1>1, <2>1
    <2>2. CASE q # r
      BY <1>1, <2>2 DEF OneCopy
    <2> QED BY <2>1, <2>2
  <1>7. RecordedIsFinal'
    BY <1>1 DEF RecordedIsFinal
  <1> QED BY <1>2, <1>3, <1>4, <1>5, <1>6, <1>7

\* What a step of one send finds, and what it leaves alone.
LEMMA SendIs ==
  ASSUME CampaignsIInv, NEW r \in Recipient
  PROVE  /\ sendJob[r] \in Job /\ sender[r] \in Sender
         /\ (sender[r].at # "idle") <=> (sendJob[r].state = "ACTIVE")
         /\ sendJob[r].state \in {"WAITING", "ACTIVE"} => sendJob[r].tries < Attempts
         /\ sendJob[r].state # "NONE" => sendJob[r] # NoJob
         /\ rcpt[r] \in DeliveryStatus /\ accepted[r] \in {0, 1}
         /\ sender[r] = Answered("SENT") => accepted[r] = 1
         /\ rcpt[r] \in {"NONE", "PENDING"} \/ sender[r].at = "sending" =>
              accepted[r] = 0 \/ sender[r] = Answered("SENT")
         /\ rcpt[r] = "NONE" => sender[r].at = "idle"
         /\ sender[r].at \in {"sending", "answered"} => rcpt[r] \in {"PENDING", "SKIPPED"}
         /\ rcpt[r] = "SENT" => accepted[r] = 1
         /\ sender[r].at = "recorded" => sender[r].answer \in Settling
  <1>1. sendJob[r].state # "NONE" => sendJob[r] # NoJob
    BY JobMoves, AttemptsAssumption DEF NoJob
  <1> QED BY <1>1 DEF CampaignsIInv, CampaignsTypeOK, SendRows, SendTriesLeft, OneCopy,
                 RecordedIsFinal

LEMMA LoadDeliveryKeeps ==
  ASSUME CampaignsIInv, NEW r \in Recipient, LoadDelivery(r)
  PROVE  CampaignsIInv'
  <1>1. /\ UNCHANGED <<kind, status, paused, rcpt, invited, coins, desk, streak>>
        /\ UNCHANGED <<author, basket, announced, botBlocked, accepted, mishaps, listed, late>>
        /\ sendJob[r].state = "WAITING" /\ sender[r].at = "idle"
        /\ sendJob[r] # NoJob
    BY SendIs DEF LoadDelivery, drafting, outside
  <1>2. CampaignsTypeOK
    BY DEF CampaignsIInv
  <1>5. /\ paused' \subseteq Campaign /\ streak' \in [Campaign -> 0 .. Threshold - 1]
        /\ invited' \in [Person -> [by : Campaign \cup {"nobody"}, status : DeliveryStatus]]
        /\ rcpt' \in [Recipient -> DeliveryStatus] /\ accepted' \in [Recipient -> Nat]
    BY <1>1, <1>2 DEF CampaignsTypeOK
  <1>3. CASE Deliverable(r)
    <2> DEFINE s == IF r[2] \in botBlocked THEN Answered("INVALID") ELSE Sending
    <2>1. sendJob' = [sendJob EXCEPT ![r] = Taken(sendJob[r])]
            /\ sender' = [sender EXCEPT ![r] = s]
      BY <1>3 DEF LoadDelivery
    <2>2. Taken(sendJob[r]) \in Job /\ Taken(sendJob[r]).state = "ACTIVE"
            /\ Taken(sendJob[r]).tries = sendJob[r].tries
      BY SendIs, JobFacts, JobMoves
    <2>3. s \in Sender /\ s.at \in {"sending", "answered"} /\ s # Answered("SENT")
      BY SenderFacts DEF Settling
    <2>4. rcpt[r] = "PENDING" /\ accepted[r] = 0
      BY <1>1, <1>3, SendIs, SenderFacts DEF Deliverable
    <2> HIDE DEF s
    <2> QED BY <1>1, <2>1, <2>2, <2>3, <2>4, <1>5, SendIs, SendMoves, ZenonT(60)
  <1>4. CASE ~ Deliverable(r)
    <2>1. sendJob' = [sendJob EXCEPT ![r] = Completed(sendJob[r])] /\ sender' = sender
      BY <1>4 DEF LoadDelivery
    <2>2. sender' = [sender EXCEPT ![r] = sender[r]]
      BY <1>2, <2>1 DEF CampaignsTypeOK
    <2>3. Completed(sendJob[r]) \in Job /\ Completed(sendJob[r]).state = "DONE"
      BY SendIs, JobFacts, JobMoves
    <2>4. Completed(sendJob[r]).state \notin {"WAITING", "ACTIVE"}
      BY <2>3
    <2> QED BY <1>1, <2>1, <2>2, <2>3, <2>4, <1>5, SendIs, SendMoves, ZenonT(60)
  <1> QED BY <1>3, <1>4

LEMMA SendCopyKeeps ==
  ASSUME CampaignsIInv, NEW r \in Recipient, SendCopy(r)
  PROVE  CampaignsIInv'
  <1>1. PICK a \in {"SENT", "BLOCKED", "RATE_LIMITED", "RETRY"} :
          /\ sender' = [sender EXCEPT ![r] =
                           Answered(IF a = "RETRY" /\ LastTry(sendJob[r]) THEN "FAILED" ELSE a)]
          /\ accepted' = [accepted EXCEPT ![r] = IF a = "SENT" THEN accepted[r] + 1 ELSE accepted[r]]
          /\ streak' = IF a = "SENT" THEN [streak EXCEPT ![r[1]] = 0] ELSE streak
    BY DEF SendCopy
  <1> DEFINE b == IF a = "RETRY" /\ LastTry(sendJob[r]) THEN "FAILED" ELSE a
  <1>2. /\ UNCHANGED <<kind, status, paused, rcpt, invited, coins, desk, sendJob>>
        /\ UNCHANGED <<author, basket, announced, botBlocked, mishaps, listed, late>>
        /\ sender[r].at = "sending"
    BY DEF SendCopy, drafting
  <1>3. CampaignsTypeOK
    BY DEF CampaignsIInv
  <1>4. /\ b \in Settling \cup {"RATE_LIMITED", "RETRY"}
        /\ b = "SENT" <=> a = "SENT"
    BY DEF Settling
  <1> HIDE DEF b
  <1>5. Answered(b) \in Sender /\ Answered(b).at = "answered"
          /\ (Answered(b) = Answered("SENT") => b = "SENT")
    BY <1>4, SenderFacts
  <1>6. accepted[r] = 0 /\ rcpt[r] \in {"PENDING", "SKIPPED"}
    BY <1>2, SendIs, SenderFacts
  <1>7. sender' = [sender EXCEPT ![r] = Answered(b)]
    BY <1>1 DEF b
  <1>8. sendJob' = [sendJob EXCEPT ![r] = sendJob[r]]
    BY <1>2, <1>3 DEF CampaignsTypeOK
  <1>9. /\ accepted' \in [Recipient -> Nat]
        /\ accepted'[r] = IF b = "SENT" THEN 1 ELSE 0
        /\ \A q \in Recipient : q # r => accepted'[q] = accepted[q]
    BY <1>1, <1>3, <1>4, <1>6 DEF CampaignsTypeOK
  <1>10. streak' \in [Campaign -> 0 .. Threshold - 1]
    BY <1>1, <1>3, RecipientFacts, ConstantFacts DEF CampaignsTypeOK
  <1>11. sendJob[r].state = "ACTIVE"
    BY <1>2, SendIs
  <1>12. /\ paused' \subseteq Campaign /\ streak' \in [Campaign -> 0 .. Threshold - 1]
        /\ invited' \in [Person -> [by : Campaign \cup {"nobody"}, status : DeliveryStatus]]
        /\ rcpt' \in [Recipient -> DeliveryStatus] /\ accepted' \in [Recipient -> Nat]
    BY <1>2, <1>3, <1>9, <1>10 DEF CampaignsTypeOK
  <1>13. (Answered(b) = Answered("SENT") => accepted'[r] = 1) /\ accepted'[r] \in {0, 1}
          /\ (rcpt'[r] \in {"NONE", "PENDING"} => accepted'[r] = 0 \/ Answered(b) = Answered("SENT"))
          /\ rcpt'[r] \in {"PENDING", "SKIPPED"} /\ rcpt'[r] = rcpt[r]
    BY <1>2, <1>5, <1>6, <1>9
  <1>14. sendJob[r] \in Job /\ sendJob[r].tries < Attempts
    BY <1>11, SendIs
  <1> DEFINE s == Answered(b)
  <1>15. s \in Sender /\ s.at = "answered"
    BY <1>5
  <1> HIDE DEF s
  <1> QED BY <1>2, <1>7, <1>8, <1>9, <1>11, <1>12, <1>13, <1>14, <1>15, SendMoves, ZenonT(60) DEF s

LEMMA RecordDeliveryKeeps ==
  ASSUME CampaignsIInv, NEW r \in Recipient, RecordDelivery(r)
  PROVE  CampaignsIInv'
  <1> DEFINE s == [sender[r] EXCEPT !.at = "recorded"]
             o == sender[r].answer
  <1>1. /\ UNCHANGED <<kind, status, paused, invited, coins, desk, sendJob, streak>>
        /\ UNCHANGED <<author, basket, announced, botBlocked, accepted, mishaps, listed, late>>
        /\ sender[r].at = "answered" /\ o \in Settling
    BY DEF RecordDelivery, drafting, outside
  <1>2. CampaignsTypeOK
    BY DEF CampaignsIInv
  <1>3. s \in Sender /\ s.at = "recorded" /\ s.answer = o
    BY SendIs DEF Sender
  <1>4. sender' = [sender EXCEPT ![r] = s]
    BY <1>2 DEF RecordDelivery, CampaignsTypeOK
  <1>5. s # Answered("SENT")
    BY <1>3, SenderFacts
  <1>6. rcpt[r] \in {"PENDING", "SKIPPED"} /\ (o = "SENT" => accepted[r] = 1)
    BY <1>1, SendIs, SenderFacts
  <1> HIDE DEF s, o
  <1>7. /\ rcpt' \in [Recipient -> DeliveryStatus]
        /\ rcpt'[r] = IF rcpt[r] = "PENDING" THEN o ELSE rcpt[r]
        /\ \A q \in Recipient : q # r => rcpt'[q] = rcpt[q]
    BY <1>1, <1>2 DEF RecordDelivery, CampaignsTypeOK, Settling, DeliveryStatus, o
  <1>8. rcpt'[r] \in Settling \cup {"SKIPPED"} /\ (rcpt'[r] = "SENT" => o = "SENT")
          /\ (rcpt'[r] = rcpt[r] \/ (rcpt[r] = "PENDING" /\ rcpt'[r] \in Settling))
    BY <1>1, <1>6, <1>7
  <1>9. rcpt'[r] \notin {"NONE", "PENDING"}
    BY <1>8 DEF Settling
  <1>10. sendJob' = [sendJob EXCEPT ![r] = sendJob[r]] /\ sendJob[r].state = "ACTIVE"
    BY <1>1, <1>2, SendIs DEF CampaignsTypeOK
  <1>11. accepted'[r] \in {0, 1} /\ (rcpt'[r] = "SENT" => accepted'[r] = 1)
    BY <1>1, <1>6, <1>8, SendIs
  <1>12. /\ paused' \subseteq Campaign /\ streak' \in [Campaign -> 0 .. Threshold - 1]
        /\ invited' \in [Person -> [by : Campaign \cup {"nobody"}, status : DeliveryStatus]]
        /\ rcpt' \in [Recipient -> DeliveryStatus] /\ accepted' \in [Recipient -> Nat]
    BY <1>1, <1>2, <1>7 DEF CampaignsTypeOK
  <1> QED BY <1>1, <1>3, <1>4, <1>5, <1>7, <1>8, <1>9, <1>10, <1>11, <1>12, SendIs, SendMoves, ZenonT(60)

LEMMA RecordInvitationKeeps ==
  ASSUME CampaignsIInv, NEW r \in Recipient, RecordInvitation(r)
  PROVE  CampaignsIInv'
  <1>1. /\ UNCHANGED <<kind, status, paused, rcpt, coins, desk, streak>>
        /\ UNCHANGED <<author, basket, announced, botBlocked, accepted, mishaps, listed, late>>
        /\ sender[r].at = "recorded"
        /\ sender' = [sender EXCEPT ![r] = NoSend]
        /\ sendJob' = [sendJob EXCEPT ![r] = Completed(sendJob[r])]
    BY DEF RecordInvitation, drafting, outside
  <1>2. CampaignsTypeOK
    BY DEF CampaignsIInv
  <1>3. Completed(sendJob[r]) \in Job /\ Completed(sendJob[r]).state = "DONE"
          /\ sendJob[r] # NoJob
    BY <1>1, SendIs, JobFacts, JobMoves
  <1>4. invited' \in [Person -> [by : Campaign \cup {"nobody"}, status : DeliveryStatus]]
    <2>1. /\ r[2] \in Person
          /\ invited \in [Person -> [by : Campaign \cup {"nobody"}, status : DeliveryStatus]]
      BY <1>2, RecipientFacts DEF CampaignsTypeOK
    <2>2. sender[r].answer \in DeliveryStatus
      BY <1>1, SendIs DEF Settling, DeliveryStatus
    <2> DEFINE was == invited[r[2]]
    <2>3. [was EXCEPT !.status = sender[r].answer]
            \in [by : Campaign \cup {"nobody"}, status : DeliveryStatus]
      BY <2>1, <2>2
    <2>4. PICK now \in [by : Campaign \cup {"nobody"}, status : DeliveryStatus] :
            invited' = [invited EXCEPT ![r[2]] = now]
      <3>1. CASE was.by = r[1] /\ was.status = "PENDING"
        <4>1. invited' = [invited EXCEPT ![r[2]] = [was EXCEPT !.status = sender[r].answer]]
          BY <3>1 DEF RecordInvitation
        <4> QED BY <2>3, <4>1
      <3>2. CASE ~ (was.by = r[1] /\ was.status = "PENDING")
        <4>1. invited' = [invited EXCEPT ![r[2]] = was]
          BY <3>2 DEF RecordInvitation
        <4> QED BY <2>1, <4>1
      <3> QED BY <3>1, <3>2
    <2> QED BY <2>1, <2>4
  <1>5. sender[r] # Answered("SENT")
    BY <1>1, SenderFacts
  <1>6. /\ paused' \subseteq Campaign /\ streak' \in [Campaign -> 0 .. Threshold - 1]
        /\ invited' \in [Person -> [by : Campaign \cup {"nobody"}, status : DeliveryStatus]]
        /\ rcpt' \in [Recipient -> DeliveryStatus] /\ accepted' \in [Recipient -> Nat]
    BY <1>1, <1>2, <1>4 DEF CampaignsTypeOK
  <1> QED BY <1>1, <1>3, <1>5, <1>6, SendIs, SenderFacts, SendMoves, ZenonT(60)

LEMMA ThrowKeeps ==
  ASSUME CampaignsIInv, NEW r \in Recipient, Throw(r)
  PROVE  CampaignsIInv'
  <1> DEFINE n == streak[r[1]] + 1
  <1>1. /\ UNCHANGED <<kind, status, rcpt, invited, coins, desk>>
        /\ UNCHANGED <<author, basket, announced, botBlocked, accepted, mishaps, listed, late>>
        /\ sender[r].at = "answered" /\ sender[r].answer \in {"RETRY", "RATE_LIMITED"}
        /\ sender' = [sender EXCEPT ![r] = NoSend]
        /\ sendJob' = [sendJob EXCEPT ![r] = Thrown(sendJob[r])]
    BY DEF Throw, drafting, outside
  <1>2. CampaignsTypeOK
    BY DEF CampaignsIInv
  <1>3. sendJob[r] \in Job /\ sendJob[r].state = "ACTIVE" /\ sendJob[r].tries < Attempts
          /\ sendJob[r] # NoJob
    BY <1>1, SendIs
  <1>4. /\ Thrown(sendJob[r]) \in Job /\ Thrown(sendJob[r]).state # "ACTIVE"
        /\ Thrown(sendJob[r]).state = "WAITING" => Thrown(sendJob[r]).tries < Attempts
    BY <1>3, JobFacts, JobMoves
  <1>5. r[1] \in Campaign /\ streak[r[1]] \in 0 .. Threshold - 1
    BY <1>2, RecipientFacts DEF CampaignsTypeOK
  <1>6. paused' \subseteq Campaign /\ streak' \in [Campaign -> 0 .. Threshold - 1]
    <2>1. n \in Nat /\ (n < Threshold => n \in 0 .. Threshold - 1) /\ 0 \in 0 .. Threshold - 1
      BY <1>5, ConstantFacts
    <2>2. CASE sender[r].answer = "RETRY"
      BY <1>2, <2>2 DEF Throw, CampaignsTypeOK
    <2>3. CASE sender[r].answer # "RETRY"
      <3>1. /\ streak' = [streak EXCEPT ![r[1]] = IF n < Threshold THEN n ELSE 0]
            /\ paused' = IF n < Threshold THEN paused ELSE paused \cup {r[1]}
        BY <2>3 DEF Throw
      <3> HIDE DEF n
      <3> QED BY <1>2, <1>5, <2>1, <3>1 DEF CampaignsTypeOK
    <2> QED BY <2>2, <2>3
  <1>7. /\ invited' \in [Person -> [by : Campaign \cup {"nobody"}, status : DeliveryStatus]]
        /\ rcpt' \in [Recipient -> DeliveryStatus] /\ accepted' \in [Recipient -> Nat]
    BY <1>1, <1>2 DEF CampaignsTypeOK
  <1>8. sender[r] # Answered("SENT")
    BY <1>1, SenderFacts
  <1>9. rcpt[r] \in {"PENDING", "SKIPPED"} /\ accepted[r] \in {0, 1}
          /\ (rcpt[r] = "PENDING" => accepted[r] = 0)
    BY <1>1, <1>8, SendIs
  <1>10. NoSend \in Sender /\ NoSend.at = "idle" /\ NoSend # Answered("SENT")
    BY SenderFacts
  <1> QED BY <1>1, <1>3, <1>4, <1>6, <1>7, <1>9, <1>10, SendMoves, ZenonT(60)

LEMMA ForgetSendJobKeeps ==
  ASSUME CampaignsIInv, NEW r \in Recipient, ForgetSendJob(r)
  PROVE  CampaignsIInv'
  <1>1. /\ UNCHANGED <<kind, status, paused, rcpt, invited, coins, desk, sender, streak>>
        /\ UNCHANGED <<author, basket, announced, botBlocked, accepted, mishaps, listed, late>>
        /\ sendJob[r].state = "DONE"
        /\ sendJob' = [sendJob EXCEPT ![r] = Forgotten(sendJob[r])]
    BY DEF ForgetSendJob, drafting, outside
  <1>2. CampaignsTypeOK
    BY DEF CampaignsIInv
  <1>3. sendJob[r] \in Job /\ sendJob[r] # NoJob /\ sender[r].at = "idle"
    BY <1>1, SendIs
  <1>4. Forgotten(sendJob[r]) \in Job /\ Forgotten(sendJob[r]).state = "NONE"
    BY <1>1, <1>3, JobFacts, JobMoves
  <1>5. sender' = [sender EXCEPT ![r] = sender[r]]
    BY <1>1, <1>2 DEF CampaignsTypeOK
  <1>6. /\ paused' \subseteq Campaign /\ streak' \in [Campaign -> 0 .. Threshold - 1]
        /\ invited' \in [Person -> [by : Campaign \cup {"nobody"}, status : DeliveryStatus]]
        /\ rcpt' \in [Recipient -> DeliveryStatus] /\ accepted' \in [Recipient -> Nat]
    BY <1>1, <1>2 DEF CampaignsTypeOK
  <1> QED BY <1>1, <1>3, <1>4, <1>5, <1>6, SendIs, SendMoves, ZenonT(60)

\* What the worker still knows of after it has lost a send.
LEMMA UnrecordedFacts ==
  ASSUME CampaignsIInv, NEW r \in Recipient
  PROVE  /\ Unrecorded(r) \in {0, 1}
         /\ rcpt[r] \in {"NONE", "PENDING"} => Unrecorded(r) = 0
         /\ rcpt[r] = "SENT" => Unrecorded(r) = 1
  <1>1. CASE sender[r] = Answered("SENT")
    <2>1. sender[r].at = "answered"
      BY <1>1, SenderFacts
    <2> QED BY <1>1, <2>1, SendIs DEF Unrecorded
  <1>2. CASE sender[r] # Answered("SENT")
    BY <1>2, SendIs DEF Unrecorded
  <1> QED BY <1>1, <1>2

LEMMA SendFailsKeeps ==
  ASSUME CampaignsIInv, NEW r \in Recipient, SendFails(r)
  PROVE  CampaignsIInv'
  <1>1. /\ UNCHANGED <<kind, status, paused, rcpt, invited, coins, desk, streak>>
        /\ UNCHANGED <<author, basket, announced, botBlocked, listed, late>>
        /\ sendJob[r].state \in {"WAITING", "ACTIVE"} /\ mishaps' \in 0 .. MaxMishaps
        /\ sender' = [sender EXCEPT ![r] = NoSend]
        /\ sendJob' = [sendJob EXCEPT ![r] = Thrown(sendJob[r])]
        /\ accepted' = [accepted EXCEPT ![r] = Unrecorded(r)]
    BY ConstantFacts DEF SendFails, Mishap, drafting, CampaignsIInv, CampaignsTypeOK
  <1>2. CampaignsTypeOK
    BY DEF CampaignsIInv
  <1>3. sendJob[r] \in Job /\ sendJob[r].tries < Attempts
          /\ sendJob[r] # NoJob
    BY <1>1, SendIs
  <1>4. /\ Thrown(sendJob[r]) \in Job /\ Thrown(sendJob[r]).state # "ACTIVE"
        /\ Thrown(sendJob[r]).state = "WAITING" => Thrown(sendJob[r]).tries < Attempts
    BY <1>3, JobFacts, JobMoves
  <1>5. accepted \in [Recipient -> Nat] /\ Unrecorded(r) \in {0, 1}
    BY <1>2, UnrecordedFacts DEF CampaignsTypeOK
  <1>6. /\ accepted' \in [Recipient -> Nat] /\ accepted'[r] = Unrecorded(r)
        /\ \A q \in Recipient : q # r => accepted'[q] = accepted[q]
    <2> DEFINE k == Unrecorded(r)
    <2>1. accepted' = [accepted EXCEPT ![r] = k] /\ k \in Nat
      BY <1>1, <1>5
    <2> HIDE DEF k
    <2>2. /\ accepted' \in [Recipient -> Nat] /\ accepted'[r] = k
          /\ \A q \in Recipient : q # r => accepted'[q] = accepted[q]
      BY <1>5, <2>1
    <2> QED BY <2>2 DEF k
  <1>7. /\ paused' \subseteq Campaign /\ streak' \in [Campaign -> 0 .. Threshold - 1]
        /\ invited' \in [Person -> [by : Campaign \cup {"nobody"}, status : DeliveryStatus]]
        /\ rcpt' \in [Recipient -> DeliveryStatus]
    BY <1>1, <1>2 DEF CampaignsTypeOK
  <1>8. /\ accepted'[r] \in {0, 1}
        /\ rcpt'[r] \in {"NONE", "PENDING"} => accepted'[r] = 0
        /\ rcpt'[r] = "SENT" => accepted'[r] = 1
    BY <1>1, <1>6, UnrecordedFacts
  <1>9. NoSend \in Sender /\ NoSend.at = "idle" /\ NoSend # Answered("SENT")
    BY SenderFacts
  <1> QED BY <1>1, <1>3, <1>4, <1>6, <1>7, <1>8, <1>9, SendMoves, ZenonT(60)

LEMMA CrashWorkerKeeps ==
  ASSUME CampaignsIInv, CrashWorker
  PROVE  CampaignsIInv'
  <1> USE DEF CampaignsIInv, SendRows
  <1>1. /\ UNCHANGED <<kind, status, paused, rcpt, invited, basket, coins, announced, botBlocked>>
        /\ UNCHANGED <<listed, late>> /\ mishaps' \in 0 .. MaxMishaps
        /\ desk' = [p \in Tick |-> Clear]
        /\ \A c \in Campaign : author'[c] \in {author[c], 0}
        /\ author' \in [Campaign -> {0} \cup {author[d] : d \in Campaign}]
        /\ streak' \in [Campaign -> 0 .. Threshold - 1]
    BY ConstantFacts DEF CrashWorker, Mishap, CampaignsTypeOK
  <1>2. \A r \in Recipient :
          /\ sendJob'[r] = Stalled(sendJob[r]) /\ sender'[r] = NoSend
          /\ accepted'[r] = Unrecorded(r)
    BY DEF CrashWorker
  <1>3. \A r \in Recipient :
          /\ sendJob'[r] \in Job /\ sendJob'[r].state # "ACTIVE"
          /\ sendJob'[r].state = "WAITING" => sendJob'[r].tries < Attempts
          /\ sendJob[r] = NoJob => sendJob'[r] = NoJob
    <2> SUFFICES ASSUME NEW r \in Recipient
                 PROVE  /\ sendJob'[r] \in Job /\ sendJob'[r].state # "ACTIVE"
                        /\ sendJob'[r].state = "WAITING" => sendJob'[r].tries < Attempts
                        /\ sendJob[r] = NoJob => sendJob'[r] = NoJob
      OBVIOUS
    <2>1. /\ sendJob[r] \in Job
          /\ sendJob[r].state \in {"WAITING", "ACTIVE"} => sendJob[r].tries < Attempts
      BY SendIs
    <2>2. Stalled(NoJob) = NoJob
      BY DEF Stalled, NoJob
    <2>3. Stalled(sendJob[r]) \in Job
      BY <2>1, JobFacts
    <2>4. /\ Stalled(sendJob[r]).state =
               IF sendJob[r].state = "ACTIVE" THEN "WAITING" ELSE sendJob[r].state
          /\ Stalled(sendJob[r]).tries = sendJob[r].tries
      BY <2>1, JobMoves
    <2>5. sendJob'[r] = Stalled(sendJob[r])
      BY <1>2
    <2> QED BY <2>1, <2>2, <2>3, <2>4, <2>5
  <1>4. \A r \in Recipient :
          /\ accepted'[r] \in {0, 1}
          /\ rcpt[r] \in {"NONE", "PENDING"} => accepted'[r] = 0
          /\ rcpt[r] = "SENT" => accepted'[r] = 1
    BY <1>2, UnrecordedFacts
  <1>5. CampaignsTypeOK'
    <2>1. sendJob' \in [Recipient -> Job]
      BY <1>3 DEF CrashWorker
    <2>2. sender' \in [Recipient -> Sender] /\ \A r \in Recipient : sender'[r].at = "idle"
      BY SenderFacts DEF CrashWorker
    <2>3. accepted' \in [Recipient -> Nat]
      BY <1>4 DEF CrashWorker
    <2>4. desk' \in [Tick -> Desk]
      BY <1>1, DeskFacts
    <2>5. author' \in [Campaign -> Nat] /\ \A d \in Campaign : author'[d] <= Confirming(d)
      BY <1>1, AuthorsStop
    <2> QED BY <1>1, <1>3, <2>1, <2>2, <2>3, <2>4, <2>5 DEF CampaignsTypeOK
  <1>6. CampaignRows'
    BY <1>1, CampaignRowsStay
  <1>7. DryRunsSendNothing' /\ SendTriesLeft'
    BY <1>1, <1>3, RecipientFacts DEF DryRunsSendNothing, SendTriesLeft
  <1>8. OneCopy' /\ RecordedIsFinal'
    BY <1>1, <1>2, <1>4, SenderFacts DEF OneCopy, RecordedIsFinal, Answered
  <1> QED BY <1>5, <1>6, <1>7, <1>8

LEMMA CrashApiKeeps ==
  ASSUME CampaignsIInv, CrashApi
  PROVE  CampaignsIInv'
  <1> USE DEF CampaignsIInv
  <1>1. /\ UNCHANGED <<kind, status, paused, rcpt, invited, coins, announced, desk, sendJob>>
        /\ UNCHANGED <<sender, streak, botBlocked, accepted, listed, late>>
        /\ \A c \in Campaign : author'[c] \in {author[c], 0}
        /\ \A c \in Campaign, i \in Call : basket'[c][i] \in {basket[c][i], Nothing}
    BY DEF CrashApi, sending
  <1>2. CampaignsTypeOK'
    <2>1. mishaps' \in 0 .. MaxMishaps
      BY ConstantFacts DEF CrashApi, Mishap, CampaignsTypeOK
    <2>3. author' \in [Campaign -> Nat] /\ \A d \in Campaign : author'[d] <= Confirming(d)
      <3>1. author' \in [Campaign -> {0} \cup {author[d] : d \in Campaign}]
        BY DEF CrashApi
      <3> QED BY <1>1, <3>1, AuthorsStop
    <2>2. basket' \in [Campaign -> [Call -> SUBSET Person]]
      BY DEF CrashApi, Nothing
    <2> QED BY <1>1, <2>1, <2>2, <2>3 DEF CampaignsTypeOK
  <1>3. CampaignRows'
    BY <1>1, CampaignRowsStay
  <1>4. SendRows'
    BY <1>1, SendRowsStay
  <1> QED BY <1>2, <1>3, <1>4

LEMMA CreationFailsKeeps ==
  ASSUME CampaignsIInv, NEW c \in Campaign, CreationFails(c)
  PROVE  CampaignsIInv'
  <1> USE DEF CampaignsIInv
  <1>1. /\ UNCHANGED <<kind, status, paused, rcpt, invited, coins, announced, desk, sendJob>>
        /\ UNCHANGED <<basket, sender, streak, botBlocked, accepted, listed, late>>
        /\ mishaps' \in 0 .. MaxMishaps
        /\ \A d \in Campaign : author'[d] = IF d = c THEN 0 ELSE author[d]
    BY ConstantFacts DEF CreationFails, Mishap, sending, CampaignsTypeOK
  <1>2. CampaignsTypeOK'
    <2>1. author' \in [Campaign -> Nat] /\ \A d \in Campaign : author'[d] <= Confirming(d)
      <3>1. 0 \in Nat /\ 0 <= Confirming(c) /\ author' = [author EXCEPT ![c] = 0]
        BY ConstantFacts DEF CreationFails
      <3> QED BY <3>1, AuthorMoves
    <2> QED BY <1>1, <2>1 DEF CampaignsTypeOK
  <1>3. CampaignRows'
    BY <1>1, CampaignRowsStay
  <1>4. SendRows'
    BY <1>1, SendRowsStay
  <1> QED BY <1>2, <1>3, <1>4
-----------------------------------------------------------------------------
LEMMA CampaignsInitInvariant == CampaignsInit => CampaignsIInv
  <1> SUFFICES ASSUME CampaignsInit PROVE CampaignsIInv
    OBVIOUS
  <1> USE DEF CampaignsInit
  <1>0. NoJob \in Job /\ NoJob.state = "NONE"
    BY AttemptsAssumption DEF NoJob, Job, JobState
  <1>1. CampaignsTypeOK
    <2>1. desk \in [Tick -> Desk] /\ listed \in Seq(Campaign)
      BY DeskFacts
    <2>2. kind \in [Campaign -> Kind]
      BY CampaignsAssumption
    <2> QED BY <1>0, <2>1, <2>2, ConstantFacts, SenderFacts
            DEF CampaignsTypeOK, CampaignStatus, DeliveryStatus, NotInvited, Nothing
  <1>2. \A c \in Campaign : Of(c) = {} /\ Pending(c) = {}
    BY RecipientFacts DEF Of, Pending
  <1>3. NoneYet /\ Authors /\ DryRunsRest /\ FinishedIsSettled /\ Desks
    BY <1>2, DeskFacts DEF NoneYet, Authors, DryRunsRest, FinishedIsSettled, OnlyLate,
                           Desks, InHand
  <1>4. Purchases
    BY DEF Purchases
  <1>5. InvitedAreChosen
    <2>1. Chosen({})
      BY FS_EmptySet, ConstantFacts DEF Chosen
    <2> QED BY <1>2, <2>1 DEF InvitedAreChosen, Nothing
  <1>6. Charged
    <2>1. Bought = {}
      BY DEF Bought
    <2> QED BY <2>1, FS_EmptySet, ConstantFacts DEF Charged
  <1>7. DryRunsSendNothing /\ SendTriesLeft
    BY <1>0, RecipientFacts DEF DryRunsSendNothing, SendTriesLeft
  <1>8. OneCopy /\ RecordedIsFinal
    BY SenderFacts DEF OneCopy, RecordedIsFinal
  <1> QED BY <1>1, <1>3, <1>4, <1>5, <1>6, <1>7, <1>8 DEF CampaignsIInv, CampaignRows, SendRows

LEMMA CampaignsStepInvariant == CampaignsIInv /\ [CampaignsNext]_campaignsVars => CampaignsIInv'
  <1> SUFFICES ASSUME CampaignsIInv, [CampaignsNext]_campaignsVars PROVE CampaignsIInv'
    OBVIOUS
  <1>1. ASSUME NEW c \in Campaign,
               CreateCampaign(c) \/ Create(c) \/ FinishClaim(c) \/ ConfirmByOperator(c)
                 \/ Cancel(c) \/ Resume(c)
        PROVE  CampaignsIInv'
    BY <1>1, CreateCampaignKeeps, MaterialiseKeeps, FinishCreationKeeps, ConfirmOwnKeeps,
       FinishClaimKeeps, ConfirmByOperatorKeeps, CancelKeeps, QuietKeeps, CreationFailsKeeps
       DEF Create
  <1>2. ASSUME NEW c \in Campaign, NEW i \in Call, SelectTop(c, i) \/ PayTop(c, i)
        PROVE  CampaignsIInv'
    BY <1>2, SelectTopKeeps, PayTopKeeps
  <1>3. ASSUME NEW p \in Tick, ClaimSending(p) \/ Work(p) \/ DispatchFails(p)
        PROVE  CampaignsIInv'
    BY <1>3, ClaimSendingKeeps, ReadBatchKeeps, EnqueueNextKeeps, CountKeeps, CloseKeeps,
       DispatchFailsKeeps DEF Work
  <1>4. ASSUME NEW r \in Recipient, SenderStep(r) \/ SendFails(r) \/ ForgetSendJob(r)
        PROVE  CampaignsIInv'
    BY <1>4, LoadDeliveryKeeps, SendCopyKeeps, RecordDeliveryKeeps, RecordInvitationKeeps,
       ThrowKeeps, SendFailsKeeps, ForgetSendJobKeeps DEF SenderStep
  <1>5. CASE \E u \in Fickle : MarkBlocked(u) \/ ArriveByTelegram(u)
    BY <1>5, QuietKeeps
  <1>6. CASE CrashWorker \/ CrashApi
    BY <1>6, CrashWorkerKeeps, CrashApiKeeps
  <1>7. CASE UNCHANGED campaignsVars
    BY <1>7, QuietKeeps
  <1> QED BY <1>1, <1>2, <1>3, <1>4, <1>5, <1>6, <1>7 DEF CampaignsNext

THEOREM CampaignsInvariant == CampaignsSpec => []CampaignsIInv
  BY CampaignsInitInvariant, CampaignsStepInvariant, PTL DEF CampaignsSpec
-----------------------------------------------------------------------------
\* Campaigns, recipients and sends hold only what their columns and states allow, a
\* send is in the worker's hands exactly while its job is active, the streak of a
\* campaign stays below the breaker's threshold, and the host's balance is never
\* negative.
THEOREM CampaignTypes == CampaignsSpec => []CampaignsTypeOK
  <1>1. CampaignsIInv => CampaignsTypeOK
    BY DEF CampaignsIInv
  <1> QED BY <1>1, CampaignsInvariant, PTL

\* finalizeIfDone and recordDelivery: a finished campaign has nobody pending but for
\* rows written after its draft was confirmed, and no recipient a second copy the
\* worker knew of, for any audience, pages, batch, threshold, attempts, number of
\* passes that overlap and number of statements that throw and processes that die.
THEOREM FinishedLeavesNobody == CampaignsSpec => []ReportIsHonest
  <1>1. CampaignsIInv => ReportIsHonest
    <2> SUFFICES ASSUME CampaignsIInv PROVE ReportIsHonest
      OBVIOUS
    <2>1. \A c \in Campaign : status[c] \in Finished /\ kind[c] # "DRY_RUN" =>
                               \A u \in Pending(c) : <<c, u>> \in late
      BY DEF CampaignsIInv, CampaignRows, FinishedIsSettled, OnlyLate
    <2>2. \A c \in Campaign, u \in Person : accepted[<<c, u>>] \in {0, 1}
      BY RecipientFacts DEF CampaignsIInv, SendRows, OneCopy
    <2> QED BY <2>1, <2>2 DEF ReportIsHonest
  <1> QED BY <1>1, CampaignsInvariant, PTL

\* recordDelivery, whatever overlaps: a row that says SENT stands for exactly one copy
\* the worker knew of, and one that is pending for none unless it is being recorded.
THEOREM SentRowIsOneCopy ==
  CampaignsSpec => [](\A r \in Recipient :
                        /\ accepted[r] <= 1
                        /\ rcpt[r] = "SENT" => accepted[r] = 1
                        /\ rcpt[r] = "PENDING" =>
                             accepted[r] = 0 \/ sender[r] = Answered("SENT"))
  <1>1. CampaignsIInv => \A r \in Recipient :
                           /\ accepted[r] <= 1
                           /\ rcpt[r] = "SENT" => accepted[r] = 1
                           /\ rcpt[r] = "PENDING" =>
                                accepted[r] = 0 \/ sender[r] = Answered("SENT")
    <2> SUFFICES ASSUME CampaignsIInv, NEW r \in Recipient
                 PROVE  /\ accepted[r] <= 1
                        /\ rcpt[r] = "SENT" => accepted[r] = 1
                        /\ rcpt[r] = "PENDING" =>
                             accepted[r] = 0 \/ sender[r] = Answered("SENT")
      OBVIOUS
    <2> QED BY SendIs
  <1> QED BY <1>1, CampaignsInvariant, PTL

\* inviteTop and the dispatcher: a dry run has no job at all, and the host is short of
\* exactly the price of each purchase that reached somebody, for any price, wallet,
\* number of overlapping calls and crashes.
THEOREM PurchasesAreChargedOnce == CampaignsSpec => []PaidAndMeant
  <1>1. CampaignsIInv => PaidAndMeant
    <2> SUFFICES ASSUME CampaignsIInv PROVE PaidAndMeant
      OBVIOUS
    <2>1. {c \in Campaign : kind[c] = "INVITE" /\ Of(c) # {}} = Bought
      BY DEF CampaignsIInv, CampaignRows, NoneYet, Purchases, Bought
    <2>2. coins = Wallet - Cost * Cardinality(Bought)
      BY DEF CampaignsIInv, CampaignRows, Charged
    <2>3. \A c \in Campaign : kind[c] = "DRY_RUN" => \A u \in Person : sendJob[<<c, u>>] = NoJob
      BY DEF CampaignsIInv, SendRows, DryRunsSendNothing
    <2> QED BY <2>1, <2>2, <2>3 DEF PaidAndMeant
  <1> QED BY <1>1, CampaignsInvariant, PTL

\* rankCandidates and candidatePool: whatever the weights and the audience, a purchase
\* goes to no more people than the limit it was sold with, and to nobody who opted out.
THEOREM InvitationsWithinLimit ==
  CampaignsSpec => [](\A c \in Campaign : kind[c] = "INVITE" =>
                        /\ Cardinality(Of(c)) <= InviteLimit
                        /\ \A u \in Of(c) : ~ Fact[u].optOut)
  <1>1. CampaignsIInv => \A c \in Campaign : kind[c] = "INVITE" =>
                           /\ Cardinality(Of(c)) <= InviteLimit
                           /\ \A u \in Of(c) : ~ Fact[u].optOut
    BY DEF CampaignsIInv, CampaignRows, InvitedAreChosen, Chosen
  <1> QED BY <1>1, CampaignsInvariant, PTL

\* Every write to message_recipient.status is conditional on PENDING: a settled
\* recipient is never unsettled, by a retry, a cancellation or a second page.
THEOREM SettledForGood ==
  CampaignsSpec => [][\A r \in Recipient :
                        rcpt[r] \notin {"NONE", "PENDING"} => rcpt'[r] = rcpt[r]]_campaignsVars
  <1>1. CampaignsIInv /\ [CampaignsNext]_campaignsVars =>
          [\A r \in Recipient :
             rcpt[r] \notin {"NONE", "PENDING"} => rcpt'[r] = rcpt[r]]_campaignsVars
    <2> SUFFICES ASSUME CampaignsIInv, CampaignsNext, NEW r \in Recipient,
                        rcpt[r] \notin {"NONE", "PENDING"}
                 PROVE  rcpt'[r] = rcpt[r]
      OBVIOUS
    <2>1. ASSUME NEW c \in Campaign,
                 CreateCampaign(c) \/ Create(c) \/ FinishClaim(c) \/ ConfirmByOperator(c)
                   \/ Cancel(c) \/ Resume(c)
          PROVE  rcpt'[r] = rcpt[r]
      BY <2>1 DEF CreateCampaign, Create, Materialise, Page, FinishCreation, ConfirmOwn,
                  CreationFails, FinishClaim, ConfirmByOperator, Cancel, Resume
    <2>2. ASSUME NEW c \in Campaign, NEW i \in Call, SelectTop(c, i) \/ PayTop(c, i)
          PROVE  rcpt'[r] = rcpt[r]
      <3>1. CASE SelectTop(c, i)
        BY <3>1 DEF SelectTop
      <3>2. CASE PayTop(c, i)
        <4>1. status[c] = "NONE" => \A u \in Person : rcpt[<<c, u>>] = "NONE"
          BY DEF CampaignsIInv, CampaignRows, NoneYet, Of
        <4>2. status[c] = "NONE" => r[1] # c
          BY <4>1, RecipientFacts
        <4> QED BY <3>2, <4>2 DEF PayTop
      <3> QED BY <2>2, <3>1, <3>2
    <2>3. ASSUME NEW q \in Recipient, SenderStep(q) \/ SendFails(q) \/ ForgetSendJob(q)
          PROVE  rcpt'[r] = rcpt[r]
      <3>1. rcpt \in [Recipient -> DeliveryStatus]
        BY DEF CampaignsIInv, CampaignsTypeOK
      <3> QED BY <2>3, <3>1 DEF SenderStep, LoadDelivery, SendCopy, RecordDelivery,
                                RecordInvitation, Throw, SendFails, ForgetSendJob
    <2>4. ASSUME NEW p \in Tick, ClaimSending(p) \/ Work(p) \/ DispatchFails(p)
          PROVE  rcpt'[r] = rcpt[r]
      BY <2>4 DEF ClaimSending, Work, ReadBatch, EnqueueNext, Count, Close, DispatchFails
    <2>5. CASE CrashWorker \/ CrashApi \/ \E u \in Fickle : MarkBlocked(u) \/ ArriveByTelegram(u)
      BY <2>5 DEF CrashWorker, CrashApi, MarkBlocked, ArriveByTelegram
    <2> QED BY <2>1, <2>2, <2>3, <2>4, <2>5 DEF CampaignsNext
  <1> QED BY <1>1, CampaignsInvariant, PTL DEF CampaignsSpec

\* finalizeIfDone and cancel, whatever overlaps: although a pass closes a campaign some
\* time after it has counted, a campaign is only closed while nobody is pending but for
\* rows written after its draft was confirmed; a closed one keeps its status, and so
\* does a cancelled one unless it was a dry run still being written.
THEOREM EndsForGood ==
  CampaignsSpec => [][\A c \in Campaign :
                        /\ status[c] \in Finished => status'[c] = status[c]
                        /\ status[c] = "CANCELLED" =>
                             status'[c] = status[c] \/ kind[c] = "DRY_RUN"
                        /\ status'[c] # status[c] /\ status'[c] \in Finished =>
                             (\A u \in Pending(c) : <<c, u>> \in late) \/ kind[c] = "DRY_RUN"]_campaignsVars
  <1> DEFINE Ends(c) ==
        /\ status[c] \in Finished => status'[c] = status[c]
        /\ status[c] = "CANCELLED" => status'[c] = status[c] \/ kind[c] = "DRY_RUN"
        /\ status'[c] # status[c] /\ status'[c] \in Finished =>
             (\A u \in Pending(c) : <<c, u>> \in late) \/ kind[c] = "DRY_RUN"
  <1>1. CampaignsIInv /\ [CampaignsNext]_campaignsVars =>
          [\A c \in Campaign : Ends(c)]_campaignsVars
    <2> SUFFICES ASSUME CampaignsIInv, CampaignsNext, NEW d \in Campaign
                 PROVE  Ends(d)
      OBVIOUS
    <2>0. status \in [Campaign -> CampaignStatus]
      BY DEF CampaignsIInv, CampaignsTypeOK
    <2>1. CASE status'[d] = status[d]
      BY <2>1
    <2>2. ASSUME NEW c \in Campaign, CreateCampaign(c)
          PROVE  Ends(d)
      BY <2>0, <2>2 DEF CreateCampaign, Finished
    <2>3. ASSUME NEW c \in Campaign, FinishCreation(c)
          PROVE  Ends(d)
      <3>1. CASE d = c /\ kind[c] = "DRY_RUN"
        BY <2>0, <2>3, <3>1 DEF FinishCreation, CampaignsIInv, CampaignRows, DryRunsRest, Finished
      <3>2. CASE ~ (d = c /\ kind[c] = "DRY_RUN")
        <4>1. status'[d] = status[d]
          BY <2>0, <2>3, <3>2 DEF FinishCreation
        <4> QED BY <4>1
      <3> QED BY <3>1, <3>2
    <2>4. ASSUME NEW c \in Campaign, ConfirmOwn(c) \/ FinishClaim(c) \/ ConfirmByOperator(c)
          PROVE  Ends(d)
      <3>1. status' = Confirmed(c)
        BY <2>4 DEF ConfirmOwn, FinishClaim, ConfirmByOperator
      <3>2. status'[d] = status[d] \/ (status[d] = "DRAFT" /\ status'[d] = "QUEUED")
        BY <3>1, ConfirmedFacts
      <3> QED BY <3>2 DEF Finished
    <2>5. ASSUME NEW c \in Campaign, Cancel(c)
          PROVE  Ends(d)
      BY <2>0, <2>5 DEF Cancel, Cancellable, Finished
    <2>6. ASSUME NEW p \in Tick, Close(p)
          PROVE  Ends(d)
      <3>1. OnlyLate(desk[p].on)
        BY <2>6, DeskIs DEF Close, InHand
      <3>2. \/ status'[d] = status[d]
            \/ OnlyLate(d) /\ status[d] = "SENDING"
        BY <2>0, <2>6, <3>1 DEF Close
      <3> QED BY <3>2 DEF Finished, OnlyLate
    <2>7. ASSUME NEW c \in Campaign, NEW i \in Call, PayTop(c, i)
          PROVE  Ends(d)
      <3>1. \/ status'[d] = status[d]
            \/ status[d] = "NONE" /\ status'[d] = "QUEUED"
        BY <2>0, <2>7 DEF PayTop
      <3> QED BY <3>1 DEF Finished
    <2>8. ASSUME NEW p \in Tick, ClaimSending(p)
          PROVE  Ends(d)
      BY <2>0, <2>8 DEF ClaimSending, Finished
    <2> HIDE DEF Ends
    <2>9. ASSUME NEW c \in Campaign, Materialise(c) \/ CreationFails(c) \/ Resume(c)
          PROVE  Ends(d)
      BY <2>1, <2>9 DEF Materialise, CreationFails, Resume
    <2>10. ASSUME NEW c \in Campaign, NEW i \in Call, SelectTop(c, i)
           PROVE  Ends(d)
      BY <2>1, <2>10 DEF SelectTop
    <2>11. ASSUME NEW r \in Recipient, SenderStep(r) \/ SendFails(r) \/ ForgetSendJob(r)
           PROVE  Ends(d)
      BY <2>1, <2>11 DEF SenderStep, LoadDelivery, SendCopy, RecordDelivery, RecordInvitation,
                         Throw, SendFails, ForgetSendJob
    <2>12. CASE CrashWorker \/ CrashApi \/ \E u \in Fickle : MarkBlocked(u) \/ ArriveByTelegram(u)
      BY <2>1, <2>12 DEF CrashWorker, CrashApi, MarkBlocked, ArriveByTelegram
    <2>13. ASSUME NEW p \in Tick,
                  (\E c \in Campaign : ReadBatch(p, c)) \/ EnqueueNext(p) \/ Count(p)
                    \/ DispatchFails(p)
           PROVE  Ends(d)
      BY <2>1, <2>13 DEF ReadBatch, EnqueueNext, Count, DispatchFails
    <2> QED BY <2>2, <2>3, <2>4, <2>5, <2>6, <2>7, <2>8, <2>9, <2>10, <2>11, <2>12, <2>13
            DEF CampaignsNext, Create, Work
  <1> QED BY <1>1, CampaignsInvariant, PTL DEF CampaignsSpec
=============================================================================
