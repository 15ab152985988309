------------------------------ MODULE Delivery ------------------------------
(***************************************************************************)
(* How a committed change reaches somebody's chat: the transactional       *)
(* outbox, the relay that turns its rows into notifications and jobs, and  *)
(* the sender.                                                             *)
(*                                                                         *)
(* A relay pass is a loop over what it has read, one database or Redis     *)
(* call per step, and several run at once (the domain-events queue, the    *)
(* backstop, the sweeps).  A send is the read of the notification, the     *)
(* call to Telegram and the write of its outcome.  Between any two steps   *)
(* either may throw, and the worker may die; what they hold in memory is   *)
(* gone then.                                                              *)
(***************************************************************************)
EXTENDS JobQueue, Fanout, FiniteSetsExt

CONSTANTS
  Source,      \* outbox rows the product may emit
  User,
  Seed,        \* seed identities
  Gone,        \* public ids that resolve to nobody
  Unlinked,    \* users without telegram_account
  Unknown,     \* templates this build cannot render
  Pass,        \* relay passes that may run at once
  BatchSize,   \* the limit of drain
  MaxRows,     \* bound: rows the product emits
  MaxFailures  \* bound: deaths of the worker and errors thrown

PlannedFor(rows) == UNION {Range(planNotifications(r)) : r \in rows}
Notices == {blockedCounterpartEvent(n, Seed) : n \in PlannedFor(Source)} \ {None}

\* Everything that can be emitted and everything that can be sent.  A notice names
\* no counterpart, so it leads to no further notice.
Outbox == Source \cup Notices
Notifications == PlannedFor(Outbox)

\* The tables of the database by their keys.
Row == {r.id : r \in Outbox}
Note == {n.dedupeKey : n \in Notifications}
Plan == [i \in Row |-> planNotifications(CHOOSE r \in Outbox : r.id = i)]
Data == [k \in Note |-> CHOOSE n \in Notifications : n.dedupeKey = k]

To(n) == Data[n].to
Notice == [n \in Note |-> LET e == blockedCounterpartEvent(Data[n], Seed)
                          IN IF e = None THEN None ELSE e.id]
Muting == [n \in Note |-> {To(n)} \X notificationCategory(Data[n])]
Absent == Seed \cup Gone

ASSUME RowAssumption ==
  /\ \A n \in Note : To(n) \in User
  /\ \A r \in Outbox, s \in Outbox : r.id = s.id => r = s
  /\ Seed \subseteq Unlinked /\ Unlinked \subseteq User /\ Gone \subseteq User
\* Row ids are uuids and a notice's is made of the dedupe_key it is about.
ASSUME NoticeAssumption ==
  /\ \A n \in Note : Notice[n] \in Row \cup {None}
  /\ \A m, n \in Note : Notice[m] = Notice[n] => m = n \/ Notice[n] = None
  /\ \A r \in Source, n \in Note : r.id # Notice[n]
ASSUME BoundAssumption == BatchSize \in Nat \ {0} /\ MaxFailures \in Nat

VARIABLES
  log,       \* outbox_event, by created_at
  done,      \* positions of log with processed_at set
  note,      \* notification.status, NONE before the row exists
  job,       \* the telegram-send job of a notification
  pass,      \* what each relay pass holds in memory
  send,      \* what the sender of a notification holds in memory
  blocked,   \* users with telegram_account.bot_blocked
  refusing,  \* users who have blocked the bot in Telegram
  muted,     \* preferences switched off, <<user, category>>
  known,     \* messages Telegram accepted and the worker has learnt of, by notification
  dropped,   \* notifications that nothing will enqueue any more (a history variable)
  failures

memory == <<pass, send>>
people == <<blocked, refusing, muted>>
harm == <<dropped, failures>>
vars == <<log, done, note, job, pass, send, blocked, refusing, muted, known, dropped, failures>>

NoteStatus == {"NONE", "PENDING", "SENT", "FAILED", "SUPPRESSED", "UNDELIVERABLE"}
Outcome == {"SENT", "BLOCKED", "RETRY"}

\* What drain returns and relayOutbox enqueues: rows still to fan out, how many
\* notifications of the first are recorded, and the ids collected so far.
Idle == [rows |-> {}, at |-> 0, queued |-> <<>>]

TypeOK ==
  /\ log \in Seq(Row)
  /\ done \subseteq DOMAIN log
  /\ note \in [Note -> NoteStatus]
  /\ job \in [Note -> Job]
  /\ \A p \in Pass :
       /\ pass[p].rows \subseteq DOMAIN log
       /\ Range(pass[p].queued) \subseteq {n \in Note : note[n] # "NONE"}
       /\ pass[p].rows = {} => pass[p].at = 0
  /\ send \in [Note -> {"idle", "mark", "send"} \cup Outcome]
  /\ \A n \in Note : (send[n] # "idle") <=> (job[n].state = "ACTIVE")
  /\ blocked \subseteq User \ Unlinked
  /\ refusing \subseteq User /\ muted \subseteq User \X Preference
  /\ known \in [Note -> Nat]
  /\ dropped \subseteq Note
  /\ failures \in 0 .. MaxFailures

Init ==
  /\ log = <<>> /\ done = {}
  /\ note = [n \in Note |-> "NONE"]
  /\ job = [n \in Note |-> NoJob]
  /\ pass = [p \in Pass |-> Idle]
  /\ send = [n \in Note |-> "idle"]
  /\ blocked = {} /\ refusing = {} /\ muted = {}
  /\ known = [n \in Note |-> 0]
  /\ dropped = {} /\ failures = 0

-----------------------------------------------------------------------------
(* The outbox and the relay. *)

\* OutboxService.emit, inside the transaction that changes the state.
Emitted(r) == Append(log, r)

Emit(r) ==
  /\ r.id \notin Range(log)
  /\ Cardinality({s \in Source : s.id \in Range(log)}) < MaxRows
  /\ log' = Emitted(r.id)
  /\ UNCHANGED <<done, note, job, memory, people, known, harm>>

\* The rows a pass would take: unprocessed, oldest first, at most BatchSize.
Backlog ==
  LET open == DOMAIN log \ done
  IN {i \in open : Cardinality({k \in open : k < i}) < BatchSize}

\* A nudge of the API, the backstop or a sweep that did something.
Drain(p) ==
  /\ pass[p] = Idle /\ Backlog # {}
  /\ pass' = [pass EXCEPT ![p].rows = Backlog]
  /\ UNCHANGED <<log, done, note, job, send, people, known, harm>>

\* planNotifications of the row a pass is at, the oldest it still has.
At(p) == Min(pass[p].rows)
Current(p) == Plan[log[At(p)]]
Fanning(p) == pass[p].rows # {} /\ pass[p].at + 1 \in DOMAIN Current(p)

\* NotificationService.queue: insert, or find what an earlier pass inserted.
Queued(n) == [note EXCEPT ![n] = IF @ = "NONE" THEN "PENDING" ELSE @]

QueueNote(p) ==
  /\ Fanning(p)
  /\ LET n == Current(p)[pass[p].at + 1].dedupeKey
     IN IF To(n) \in Absent
        THEN /\ pass' = [pass EXCEPT ![p].at = @ + 1]
             /\ UNCHANGED note
        ELSE /\ note' = Queued(n)
             /\ pass' = [pass EXCEPT ![p].at = @ + 1,
                                     ![p].queued = Append(@, n)]
  /\ UNCHANGED <<log, done, job, send, people, known, harm>>

\* "processed_at is set after the notifications are recorded, not before."
MarkProcessed(p) ==
  /\ pass[p].rows # {} /\ ~ Fanning(p)
  /\ done' = done \cup {At(p)}
  /\ pass' = [pass EXCEPT ![p].rows = @ \ {At(p)}, ![p].at = 0]
  /\ UNCHANGED <<log, note, job, send, people, known, harm>>

\* relayOutbox, after drain has returned: one job per collected id.
Enqueue(p) ==
  /\ pass[p].rows = {} /\ pass[p].queued # <<>>
  /\ job' = [job EXCEPT ![Head(pass[p].queued)] = Added(@)]
  /\ pass' = [pass EXCEPT ![p].queued = Tail(@)]
  /\ UNCHANGED <<log, done, note, send, people, known, harm>>

-----------------------------------------------------------------------------
(* The sender. *)

\* Forgetting to look for one of the two final outcomes.
LoadableAfterSent(n) == note[n] # "UNDELIVERABLE"
LoadableAfterBlock(n) == note[n] # "SENT"

\* NotificationService.load: nothing to do for what has been settled.
Loadable(n) == note[n] \notin {"SENT", "UNDELIVERABLE"}

Finish(n) ==
  /\ job' = [job EXCEPT ![n] = Completed(@)]
  /\ send' = [send EXCEPT ![n] = "idle"]

\* onSend as far as the call to Telegram.
Load(n) ==
  /\ job[n].state = "WAITING"
  /\ IF ~ Loadable(n)
     THEN /\ job' = [job EXCEPT ![n] = Completed(@)]
          /\ UNCHANGED <<note, send>>
     ELSE IF To(n) \in Unlinked \cup blocked
     THEN /\ job' = [job EXCEPT ![n] = Taken(@)]
          /\ send' = [send EXCEPT ![n] = "mark"]
          /\ UNCHANGED note
     ELSE IF Muting[n] \cap muted # {}
     THEN /\ note' = [note EXCEPT ![n] = "SUPPRESSED"]
          /\ job' = [job EXCEPT ![n] = Completed(@)]
          /\ UNCHANGED send
     ELSE IF Data[n].template \in Unknown
     THEN /\ note' = [note EXCEPT ![n] = "FAILED"]
          /\ job' = [job EXCEPT ![n] = Completed(@)]
          /\ UNCHANGED send
     ELSE /\ job' = [job EXCEPT ![n] = Taken(@)]
          /\ send' = [send EXCEPT ![n] = "send"]
          /\ UNCHANGED note
  /\ UNCHANGED <<log, done, pass, people, known, harm>>

\* What classify makes of Telegram's answer.  RETRY is a 429, an error or a broken
\* connection; the message may have gone out even so, and the worker cannot know.
Answers(n) ==
  IF To(n) \in refusing THEN {"BLOCKED", "RETRY"} ELSE {"SENT", "RETRY"}

CallTelegram(n) ==
  /\ send[n] = "send"
  /\ \E a \in Answers(n) :
       /\ send' = [send EXCEPT ![n] = a]
       /\ known' = [known EXCEPT ![n] = IF a = "SENT" THEN @ + 1 ELSE @]
  /\ UNCHANGED <<log, done, note, job, pass, people, harm>>

MarkSent(n) ==
  /\ send[n] = "SENT"
  /\ note' = [note EXCEPT ![n] = "SENT"]
  /\ Finish(n)
  /\ UNCHANGED <<log, done, pass, people, known, harm>>

\* One transaction: the status, the account and the notice to the sender.
MarkUndeliverable(n) ==
  /\ send[n] \in {"mark", "BLOCKED"}
  /\ note' = [note EXCEPT ![n] = "UNDELIVERABLE"]
  /\ IF To(n) \in Unlinked
     THEN UNCHANGED <<blocked, log>>
     ELSE /\ blocked' = blocked \cup {To(n)}
          /\ log' = IF Notice[n] = None THEN log ELSE Emitted(Notice[n])
  /\ Finish(n)
  /\ UNCHANGED <<done, pass, refusing, muted, known, harm>>

\* A failed send that is recorded and not thrown: the queue thinks it is done.
MarkFailedQuietly(n) ==
  /\ send[n] = "RETRY"
  /\ note' = [note EXCEPT ![n] = "FAILED"]
  /\ Finish(n)
  /\ UNCHANGED <<log, done, pass, people, known, harm>>

\* markFailed, and the throw that makes the queue try again.
MarkFailed(n) ==
  /\ send[n] = "RETRY"
  /\ note' = [note EXCEPT ![n] = "FAILED"]
  /\ job' = [job EXCEPT ![n] = Thrown(@)]
  /\ send' = [send EXCEPT ![n] = "idle"]
  /\ UNCHANGED <<log, done, pass, people, known, harm>>

\* onFailed of an exhausted job.
RecordFailure(n) ==
  /\ job[n].state = "FAILED"
  /\ job' = [job EXCEPT ![n] = Recorded(@)]
  /\ UNCHANGED <<log, done, note, memory, people, known, harm>>

ForgetJob(n) ==
  /\ job[n].state = "DONE"
  /\ job' = [job EXCEPT ![n] = Forgotten(@)]
  /\ UNCHANGED <<log, done, note, memory, people, known, harm>>

-----------------------------------------------------------------------------
(* People and the worker's process. *)

BlockBot(u) ==
  /\ u \notin Unlinked
  /\ refusing' = refusing \cup {u}
  /\ UNCHANGED <<log, done, note, job, memory, blocked, muted, known, harm>>

\* The webhook brings the my_chat_member update of a block or an unblock.
MarkBotBlocked(u) ==
  /\ u \notin Unlinked
  /\ blocked' = IF u \in refusing THEN blocked \cup {u} ELSE blocked \ {u}
  /\ UNCHANGED <<log, done, note, job, memory, refusing, muted, known, harm>>

\* arriveByTelegram: "Seeing the user again proves the bot is not blocked."
Arrive(u) ==
  /\ u \notin Unlinked
  /\ refusing' = refusing \ {u}
  /\ blocked' = blocked \ {u}
  /\ UNCHANGED <<log, done, note, job, memory, muted, known, harm>>

\* Everything somebody does, they do through their Telegram account.
ChangePreference(u, c) ==
  /\ u \notin Unlinked
  /\ \E n \in Note : <<u, c>> \in Muting[n]
  /\ muted' = IF <<u, c>> \in muted THEN muted \ {<<u, c>>} ELSE muted \cup {<<u, c>>}
  /\ UNCHANGED <<log, done, note, job, memory, blocked, refusing, known, harm>>

-----------------------------------------------------------------------------
(* What goes wrong.  An error of the database or of Redis ends one pass or one send *)
(* and the worker lives on; its death ends them all.                                *)

\* Nothing will enqueue n any more: its row is processed, and no pass holds its id
\* or has its row still to go through.
Doomed(n) ==
  /\ note[n] = "PENDING" /\ job[n].state = "NONE"
  /\ \A i \in DOMAIN log \ done : \A d \in Range(Plan[log[i]]) : d.dedupeKey # n
  /\ \A p \in Pass :
       /\ n \notin Range(pass[p].queued)
       /\ \A i \in pass[p].rows : \A d \in Range(Plan[log[i]]) : d.dedupeKey # n

Failed ==
  /\ failures < MaxFailures
  /\ failures' = failures + 1
  /\ dropped' = dropped \cup {n \in Note : Doomed(n)'}

\* A copy that went out and is not recorded is one the worker does not know of.
Unlearnt(n) == IF send[n] = "SENT" THEN known[n] - 1 ELSE known[n]

\* drain, or the loop over what it returned, throws: the ids it held are gone.
PassFails(p) ==
  /\ pass[p] # Idle
  /\ pass' = [pass EXCEPT ![p] = Idle]
  /\ UNCHANGED <<log, done, note, job, send, people, known>>
  /\ Failed

\* Any read or write of onSend throws, the write of the outcome included.
SendThrows(n) ==
  /\ job[n].state \in {"WAITING", "ACTIVE"}
  /\ job' = [job EXCEPT ![n] = Thrown(@)]
  /\ send' = [send EXCEPT ![n] = "idle"]
  /\ known' = [known EXCEPT ![n] = Unlearnt(n)]
  /\ UNCHANGED <<log, done, note, pass, people>>
  /\ Failed

Crash ==
  /\ pass' = [p \in Pass |-> Idle]
  /\ send' = [n \in Note |-> "idle"]
  /\ job' = [n \in Note |-> Stalled(job[n])]
  /\ known' = [n \in Note |-> Unlearnt(n)]
  /\ UNCHANGED <<log, done, note, people>>
  /\ Failed

RelayStep(p) == QueueNote(p) \/ MarkProcessed(p) \/ Enqueue(p)
SendStep(n) == Load(n) \/ CallTelegram(n) \/ MarkSent(n) \/ MarkUndeliverable(n) \/ MarkFailed(n)

Next ==
  \/ \E r \in Source : Emit(r)
  \/ \E p \in Pass : Drain(p) \/ RelayStep(p) \/ PassFails(p)
  \/ \E n \in Note : SendStep(n) \/ SendThrows(n) \/ RecordFailure(n) \/ ForgetJob(n)
  \/ \E u \in User : BlockBot(u) \/ MarkBotBlocked(u) \/ Arrive(u) \/ \E c \in Preference : ChangePreference(u, c)
  \/ Crash

Spec == Init /\ [][Next]_vars

\* The backstop runs every five minutes, BullMQ hands out waiting jobs, and a
\* step that has begun goes on unless it throws or the worker dies, which happens
\* finitely often.
Fairness ==
  /\ WF_vars(\E p \in Pass : Drain(p))
  /\ \A p \in Pass : WF_vars(RelayStep(p))
  /\ \A n \in Note : WF_vars(SendStep(n))

FairSpec == Spec /\ Fairness

-----------------------------------------------------------------------------
(* Properties. *)

\* "The exactly-once effect": a second message for one notification is sent only
\* after the worker could not know, or could not write down, that the first went
\* out.  Neither two passes over one row, nor a late enqueue of a job that has
\* been forgotten, nor a retry, sends it twice.
SecondOnlyAfterDoubt == \A n \in Note : known[n] <= 1

\* "The sender is told, in the same transaction": a message that bounced off a
\* blocked bot has exactly one notice to its sender, whatever dies in between.
SenderIsTold ==
  \A n \in Note :
    Notice[n] # None =>
      Cardinality({i \in DOMAIN log : log[i] = Notice[n]})
        = IF note[n] = "UNDELIVERABLE" /\ To(n) \notin Unlinked THEN 1 ELSE 0

\* An exhausted job is mirrored in job_failure, where somebody looks.
Settled(n) ==
  \/ note[n] \in {"SENT", "SUPPRESSED", "UNDELIVERABLE"}
  \/ GivenUp(job[n])
  \/ note[n] = "FAILED" /\ Data[n].template \in Unknown
  \/ To(n) \in Absent

Relayed(r) == \A i \in DOMAIN log : log[i] = r => i \in done

\* Every committed row is relayed, whatever throws or dies, and everybody it concerns
\* is told or known to be out of reach, but for those whose notification a pass that
\* failed between marking their row and enqueueing the job was holding alone.
EveryRowIsTold ==
  \A r \in Row :
    r \in Range(log) ~>
      /\ Relayed(r)
      /\ \A n \in Range(Plan[r]) : Settled(n.dedupeKey) \/ n.dedupeKey \in dropped

\* "A crash at any point either leaves the row undelivered (and it is delivered on
\* restart) or delivers it twice ... What it never does is lose it"
\* (relay.service.ts:37-39).
NeverLost ==
  \A r \in Row : r \in Range(log) ~> \A n \in Range(Plan[r]) : Settled(n.dedupeKey)
=============================================================================
