--------------------------- MODULE Participation ---------------------------
(***************************************************************************)
(* One activity ("event") and the people who ask to join it:               *)
(* ParticipationService, EventLifecycleService and the event's own host    *)
(* and moderation operations (packages/domain/src).                        *)
(*                                                                         *)
(* Every operation that moves a participant row or accepted_count runs in  *)
(* one transaction that first takes SELECT ... FOR UPDATE on the event row *)
(* (ADR-0006), so it is one action here.  What the lock does not cover is  *)
(* modelled as it is:                                                      *)
(*  - the clock is read BEFORE the lock is waited for, so an operation     *)
(*    decides with a time that may be up to LockWait old (Nows);           *)
(*  - host edits and moderators read the event's status without the lock   *)
(*    and write it back later (variable seen);                             *)
(*  - settlement and purge pick their activities without the lock and do   *)
(*    not look at the status again under it (variable listed).             *)
(***************************************************************************)
EXTENDS Integers, FiniteSets

CONSTANTS
  Guest,         \* people who ask to join (the host is not one of them)
  Seed,          \* marketing identities the seed scheduler seats directly
  MaxCapacity,   \* bound on the capacity a host may set
  StartsAt,      \* event.starts_at
  EndsAt,        \* event.ends_at
  Horizon,       \* bound on the clock
  LockWait,      \* bound on the age of the time an operation decides with
  ResponseTime,  \* participation.host_response_hours
  JoinMargin,    \* participation.min_hours_before_event
  PromotionTime, \* waitlist.promotion_deadline_hours
  WaitMargin,    \* waitlist.min_hours_before_event
  MinResponse,   \* participation.min_response_minutes
  Grace,         \* participation.grace_minutes
  SettleDelay,   \* participation.settlement_delay_hours
  Early,         \* the 24 h threshold of bucketForLateness
  Late,          \* the 3 h threshold of bucketForLateness
  JoinCost       \* economy.event_join_coins

Person == Guest \cup Seed

ASSUME PeopleAssumption == /\ IsFiniteSet(Guest) /\ IsFiniteSet(Seed)
                           /\ Guest \cap Seed = {}
ASSUME CapacityAssumption == MaxCapacity \in Nat \ {0}
ASSUME ScheduleAssumption ==
  /\ StartsAt \in Nat /\ EndsAt \in Nat /\ Horizon \in Nat
  /\ StartsAt < EndsAt
ASSUME DurationAssumption ==
  /\ LockWait \in Nat /\ ResponseTime \in Nat /\ JoinMargin \in Nat
  /\ PromotionTime \in Nat /\ WaitMargin \in Nat /\ MinResponse \in Nat
  /\ Grace \in Nat /\ SettleDelay \in Nat /\ Early \in Nat /\ Late \in Nat
ASSUME CostAssumption == JoinCost \in Nat
\* A transaction does not wait for a lock longer than an activity lasts.
ASSUME LockWaitAssumption == StartsAt + LockWait <= EndsAt

VARIABLES
  clock,           \* the server clock
  evStatus,        \* event.status
  seen,            \* status an unlocked writer has read and not yet used
  listed,          \* sweeps that have listed the activity and not yet visited it
  capacity,        \* event.capacity
  acceptedCount,   \* event.accepted_count, the stored counter
  status,          \* event_participant.status, "NONE" where there is no row yet,
                   \* "PURGED" where a seed's row was deleted whose seat the counter
                   \* still counts, "DELETED" where it was not or no longer is counted
  requestedAt,     \* event_participant.requested_at
  ticket,          \* order of event_participant.id (UUIDv7: insertion order)
  hostDeadlineAt,  \* event_participant.host_deadline_at
  graceExpiresAt,  \* event_participant.grace_expires_at
  charge,          \* the EVENT_JOIN_SPEND ledger row of this participation
  fine,            \* bucket of the penalty charged to the participant
  hostFine         \* bucket of the penalty charged to the host

eventVars == <<evStatus, seen, listed, capacity>>
rowVars   == <<status, requestedAt, ticket, hostDeadlineAt, graceExpiresAt>>
vars == <<clock, eventVars, acceptedCount, rowVars, charge, fine, hostFine>>

EventStatus == {"PUBLISHED", "PENDING_MODERATION", "HIDDEN", "REJECTED",
                "CANCELLED_BY_HOST", "ONGOING", "COMPLETED", "EXPIRED"}

ParticipantStatus ==
  {"PENDING", "WAITLISTED", "ACCEPTED", "REJECTED", "EXPIRED",
   "CANCELLED_BY_PARTICIPANT", "CANCELLED_BY_HOST", "COMPLETED", "NO_SHOW"}

Bucket == {"GRACE", "GT_24H", "H24_TO_H3", "LT_3H", "NO_SHOW"}

NoTime == -1
Time == 0 .. Horizon

(***************************************************************************)
(* PARTICIPANT_TRANSITIONS and EVENT_TRANSITIONS, as sets of edges.        *)
(* (DRAFT, which no participant ever sees, and DELETED are left out.)      *)
(***************************************************************************)
ParticipantEdges ==
  ({"PENDING"} \X {"ACCEPTED", "REJECTED", "EXPIRED", "CANCELLED_BY_PARTICIPANT"})
  \cup ({"WAITLISTED"} \X {"PENDING", "ACCEPTED", "REJECTED",
                           "CANCELLED_BY_PARTICIPANT", "EXPIRED"})
  \cup ({"ACCEPTED"} \X {"COMPLETED", "NO_SHOW", "CANCELLED_BY_HOST",
                         "CANCELLED_BY_PARTICIPANT"})
  \cup {<<"NO_SHOW", "COMPLETED">>}

EventEdges ==
  ({"PENDING_MODERATION"} \X {"PUBLISHED", "REJECTED"})
  \cup ({"PUBLISHED"} \X {"PENDING_MODERATION", "HIDDEN", "CANCELLED_BY_HOST",
                          "ONGOING", "EXPIRED"})
  \cup ({"HIDDEN"} \X {"PUBLISHED", "REJECTED"})
  \cup {<<"ONGOING", "COMPLETED">>}

-----------------------------------------------------------------------------
(* Times, deadlines and prices *)

\* The values `now` may have in a transaction that holds the event lock: the
\* clock was read at the top of the method, before the lock was waited for.
Nows == {t \in Time : t <= clock /\ clock <= t + LockWait}

Least(a, b)    == IF a <= b THEN a ELSE b
Greatest(a, b) == IF a <= b THEN b ELSE a

HostDeadline(now, window, margin) ==
  Greatest(Least(now + window, StartsAt - margin),
           Least(now + MinResponse, StartsAt))

BucketForLateness(now) ==
  IF StartsAt - now > Early THEN "GT_24H"
  ELSE IF StartsAt - now >= Late THEN "H24_TO_H3"
  ELSE "LT_3H"

\* Deviation: a request that never became a seat is priced too.
PricedWithoutSeat(u, now) ==
  IF now <= graceExpiresAt[u] THEN "GRACE" ELSE BucketForLateness(now)

BucketFor(u, now) ==
  IF status[u] # "ACCEPTED" THEN "NONE"
  ELSE IF now <= graceExpiresAt[u] THEN "GRACE"
  ELSE BucketForLateness(now)

Refunded(c) == IF c = "HELD" THEN "REFUNDED" ELSE c

-----------------------------------------------------------------------------
(* Seats, slots and the queue *)

Pending(s) == {u \in Person : s[u] = "PENDING"}
Waiting(s) == {u \in Person : s[u] = "WAITLISTED"}
Seated(s)  == {u \in Person : s[u] = "ACCEPTED"}

\* Rows the counter still counts: a settled guest keeps the seat they took.
Counted(s) == {u \in Person : s[u] \in {"ACCEPTED", "COMPLETED", "NO_SHOW"}}

\* Seats the counter still counts although the seed's row was deleted.
Vacated(s) == {u \in Person : s[u] = "PURGED"}

\* Deviation: join looks at the seats and forgets the open questions.
RoomForASeat == acceptedCount < capacity

RoomToAsk == acceptedCount + Cardinality(Pending(status)) < capacity

\* ORDER BY requested_at, id
Before(u, v) == \/ requestedAt[u] < requestedAt[v]
                \/ requestedAt[u] = requestedAt[v] /\ ticket[u] < ticket[v]

\* A new row's id is later than every id there is.
NextTicket == 1 + Cardinality({u \in Person : status[u] # "NONE"})

\* Deviation: the queue is served from its end.
PromotedLastFirst(s, seats) ==
  {u \in Waiting(s) :
     Cardinality({v \in Waiting(s) : Before(u, v)})
       < capacity - seats - Cardinality(Pending(s))}

\* The people fillFreedSeats takes off the queue: its loop promotes the first
\* of the queue while accepted + outstanding < capacity.
Promoted(s, seats) ==
  {u \in Waiting(s) :
     Cardinality({v \in Waiting(s) : Before(v, u)})
       < capacity - seats - Cardinality(Pending(s))}

\* What a row's columns are after a step that left the rows in status'.  Each is
\* modelled only while some operation reads it: the queue order of people who
\* wait, the deadline of an open request, the grace period of a seat.
Columns(requested, tickets, deadlines, graces) ==
  /\ requestedAt' = [u \in Person |-> IF status'[u] = "WAITLISTED"
                                      THEN requested[u] ELSE NoTime]
  /\ ticket' = [u \in Person |-> IF status'[u] = "WAITLISTED"
                                 THEN tickets[u] ELSE 0]
  /\ hostDeadlineAt' = [u \in Person |-> IF status'[u] = "PENDING"
                                         THEN deadlines[u] ELSE NoTime]
  /\ graceExpiresAt' = [u \in Person |-> IF status'[u] = "ACCEPTED"
                                         THEN graces[u] ELSE NoTime]

KeepColumns == Columns(requestedAt, ticket, hostDeadlineAt, graceExpiresAt)

\* Rows s with `seats` seats taken, after fillFreedSeats has run on them.
Fill(s, seats, now) ==
  LET up == Promoted(s, seats) IN
  /\ status' = [u \in Person |-> IF u \in up THEN "PENDING" ELSE s[u]]
  /\ Columns(requestedAt, ticket,
             [u \in Person |-> IF u \in up
                               THEN HostDeadline(now, PromotionTime, WaitMargin)
                               ELSE hostDeadlineAt[u]],
             graceExpiresAt)

-----------------------------------------------------------------------------
(* Initial state: a published activity nobody has asked to join. *)

Init ==
  /\ clock = 0
  /\ evStatus = "PUBLISHED"
  /\ seen = "NONE"
  /\ listed = {}
  /\ capacity \in 1 .. MaxCapacity
  /\ acceptedCount = 0
  /\ status = [u \in Person |-> "NONE"]
  /\ requestedAt = [u \in Person |-> NoTime]
  /\ ticket = [u \in Person |-> 0]
  /\ hostDeadlineAt = [u \in Person |-> NoTime]
  /\ graceExpiresAt = [u \in Person |-> NoTime]
  /\ charge = [u \in Person |-> "NONE"]
  /\ fine = [u \in Person |-> "NONE"]
  /\ hostFine = "NONE"

Tick ==
  /\ clock < Horizon
  /\ clock' = clock + 1
  /\ UNCHANGED <<eventVars, acceptedCount, rowVars, charge, fine, hostFine>>

-----------------------------------------------------------------------------
(* ParticipationService: each action is one transaction under the event lock *)

\* join: one row per person, ever; a slot in the host's queue if there is one,
\* the waiting list otherwise.  No seat is taken.  Asking is what is paid for.
Join(u) ==
  /\ evStatus = "PUBLISHED"
  /\ status[u] = "NONE"
  /\ status' = [status EXCEPT ![u] = IF RoomToAsk THEN "PENDING" ELSE "WAITLISTED"]
  /\ \E now \in Nows :
       /\ now < StartsAt
       /\ Columns([requestedAt EXCEPT ![u] = now],
                  [ticket EXCEPT ![u] = NextTicket],
                  [hostDeadlineAt EXCEPT ![u] =
                     HostDeadline(now, ResponseTime, JoinMargin)],
                  graceExpiresAt)
  /\ charge' = [charge EXCEPT ![u] = IF JoinCost > 0 THEN "HELD" ELSE "NONE"]
  /\ UNCHANGED <<clock, eventVars, acceptedCount, fine, hostFine>>

\* takeSeat, and the row that takes it.
Seat(u) ==
  /\ acceptedCount < capacity
  /\ acceptedCount' = acceptedCount + 1
  /\ status' = [status EXCEPT ![u] = "ACCEPTED"]
  /\ \E now \in Nows :
       Columns(requestedAt, ticket, hostDeadlineAt,
               [graceExpiresAt EXCEPT ![u] = now + Grace])
  /\ UNCHANGED <<clock, eventVars, charge, fine, hostFine>>

\* seatSeedParticipant: a seed identity is created directly in a seat.
SeatSeedParticipant(u) == status[u] = "NONE" /\ Seat(u)

\* accept: the only way a guest takes a seat.  Neither the event's status nor
\* the time is looked at, only the row's status and the counter.
Accept(u) == <<status[u], "ACCEPTED">> \in ParticipantEdges /\ Seat(u)

\* Deviation: a rejection keeps the join charge.
RejectWithoutRefund(u) ==
  /\ <<status[u], "REJECTED">> \in ParticipantEdges
  /\ \E now \in Nows : Fill([status EXCEPT ![u] = "REJECTED"], acceptedCount, now)
  /\ UNCHANGED <<clock, eventVars, acceptedCount, charge, fine, hostFine>>

\* reject: the host says no; the join charge comes back and the queue moves up.
Reject(u) ==
  /\ <<status[u], "REJECTED">> \in ParticipantEdges
  /\ charge' = [charge EXCEPT ![u] = Refunded(@)]
  /\ \E now \in Nows : Fill([status EXCEPT ![u] = "REJECTED"], acceptedCount, now)
  /\ UNCHANGED <<clock, eventVars, acceptedCount, fine, hostFine>>

\* Deviation: a withdrawal gives a seat back whether or not one was taken.
CancelReleasesAlways(u) ==
  /\ <<status[u], "CANCELLED_BY_PARTICIPANT">> \in ParticipantEdges
  /\ acceptedCount' = acceptedCount - 1
  /\ \E now \in Nows :
       /\ fine' = [fine EXCEPT ![u] = BucketFor(u, now)]
       /\ Fill([status EXCEPT ![u] = "CANCELLED_BY_PARTICIPANT"],
               acceptedCount', now)
  /\ UNCHANGED <<clock, eventVars, charge, hostFine>>

\* cancel: the guest withdraws.  A seat is given back and fined by lateness,
\* a place in the queue is free; the join charge is kept either way.
Cancel(u) ==
  /\ <<status[u], "CANCELLED_BY_PARTICIPANT">> \in ParticipantEdges
  /\ acceptedCount' = acceptedCount - (IF status[u] = "ACCEPTED" THEN 1 ELSE 0)
  /\ \E now \in Nows :
       /\ fine' = [fine EXCEPT ![u] = BucketFor(u, now)]
       /\ Fill([status EXCEPT ![u] = "CANCELLED_BY_PARTICIPANT"],
               acceptedCount', now)
  /\ UNCHANGED <<clock, eventVars, charge, hostFine>>

\* expireOverdue / expireOne: the scan runs without the lock, but everything it
\* looked at is looked at again under it, with the time of the scan.
ExpireOverdue(u) ==
  /\ status[u] = "PENDING"
  /\ \E now \in Nows :
       /\ hostDeadlineAt[u] <= now
       /\ Fill([status EXCEPT ![u] = "EXPIRED"], acceptedCount, now)
  /\ charge' = [charge EXCEPT ![u] = Refunded(@)]
  /\ UNCHANGED <<clock, eventVars, acceptedCount, fine, hostFine>>

\* Deviation: the job looks only at activities that are still PUBLISHED.
ExpireWaitlistedWhilePublished(u) ==
  /\ evStatus = "PUBLISHED"
  /\ status[u] = "WAITLISTED"
  /\ \E now \in Nows : StartsAt <= now
  /\ status' = [status EXCEPT ![u] = "EXPIRED"]
  /\ KeepColumns
  /\ charge' = [charge EXCEPT ![u] = Refunded(@)]
  /\ UNCHANGED <<clock, eventVars, acceptedCount, fine, hostFine>>

\* expireWaitlisted / expireWaitlistedOne: nobody is promoted, the activity has
\* begun.
ExpireWaitlisted(u) ==
  /\ status[u] = "WAITLISTED"
  /\ \E now \in Nows : StartsAt <= now
  /\ status' = [status EXCEPT ![u] = "EXPIRED"]
  /\ KeepColumns
  /\ charge' = [charge EXCEPT ![u] = Refunded(@)]
  /\ UNCHANGED <<clock, eventVars, acceptedCount, fine, hostFine>>

\* sweepWaitlists / promoteForEvent
SweepWaitlists ==
  /\ evStatus = "PUBLISHED"
  /\ Promoted(status, acceptedCount) # {}
  /\ \E now \in Nows :
       /\ now < StartsAt
       /\ Fill(status, acceptedCount, now)
  /\ UNCHANGED <<clock, eventVars, acceptedCount, charge, fine, hostFine>>

-----------------------------------------------------------------------------
(* EventService and EventLifecycleService, under the same lock *)

\* Deviation: the seats already taken are not looked at.
EditCapacityUnchecked(n) ==
  /\ evStatus \in {"PENDING_MODERATION", "PUBLISHED"}
  /\ \E now \in Nows : now < StartsAt
  /\ capacity' = n
  /\ evStatus' \in {"PENDING_MODERATION", "PUBLISHED"}
  /\ UNCHANGED <<clock, seen, listed, acceptedCount, rowVars, charge, fine, hostFine>>

\* EventService.update with a capacity: the only edit that takes the lock.  An
\* edit of the text that comes with it is scanned as any other.
EditCapacity(n) ==
  /\ evStatus \in {"PENDING_MODERATION", "PUBLISHED"}
  /\ \E now \in Nows : now < StartsAt
  /\ n >= acceptedCount
  /\ capacity' = n
  /\ evStatus' \in {"PENDING_MODERATION", "PUBLISHED"}
  /\ UNCHANGED <<clock, seen, listed, acceptedCount, rowVars, charge, fine, hostFine>>

\* EventService.cancelByHost.  Seated guests are refunded and the host is fined
\* for them; people still waiting for an answer end as EXPIRED.
CancelByHost ==
  /\ <<evStatus, "CANCELLED_BY_HOST">> \in EventEdges
  /\ \E now \in Nows :
       /\ now < StartsAt
       /\ hostFine' = IF Seated(status) # {} THEN BucketForLateness(now)
                                             ELSE hostFine
  /\ evStatus' = "CANCELLED_BY_HOST"
  /\ acceptedCount' = 0
  /\ status' = [u \in Person |->
                  CASE u \in Seated(status) -> "CANCELLED_BY_HOST"
                    [] u \in Pending(status) \cup Waiting(status) -> "EXPIRED"
                    [] u \in Vacated(status) -> "DELETED"
                    [] OTHER -> status[u]]
  /\ charge' = [u \in Person |-> IF u \in Seated(status)
                                 THEN Refunded(charge[u]) ELSE charge[u]]
  /\ KeepColumns
  /\ UNCHANGED <<clock, seen, listed, capacity, fine>>

\* retireStarted / retireOne: a started event is ONGOING, COMPLETED or, if it
\* was never begun and nobody is seated, EXPIRED.
Retire ==
  /\ evStatus \in {"PUBLISHED", "ONGOING"}
  /\ \E now \in Nows :
       /\ StartsAt <= now
       /\ evStatus' = IF evStatus = "PUBLISHED" /\ Seated(status) = {} THEN "EXPIRED"
                       ELSE IF EndsAt <= now THEN "COMPLETED" ELSE "ONGOING"
  /\ evStatus' # evStatus
  /\ UNCHANGED <<clock, seen, listed, capacity, acceptedCount, rowVars, charge,
                 fine, hostFine>>

\* The candidates of settleAttendance, read without the lock.
ListForSettlement ==
  /\ evStatus = "COMPLETED"
  /\ Seated(status) # {}
  /\ \E now \in Nows : EndsAt + SettleDelay <= now
  /\ "settlement" \notin listed
  /\ listed' = listed \cup {"settlement"}
  /\ UNCHANGED <<clock, evStatus, seen, capacity, acceptedCount, rowVars, charge,
                 fine, hostFine>>

\* Deviation: an activity in which somebody was reported absent is left alone.
SettleUnlessReported ==
  /\ "settlement" \in listed
  /\ listed' = listed \ {"settlement"}
  /\ status' = [u \in Person |-> IF u \in Seated(status) /\ Counted(status) = Seated(status)
                                 THEN "COMPLETED" ELSE status[u]]
  /\ KeepColumns
  /\ UNCHANGED <<clock, evStatus, seen, capacity, acceptedCount, charge, fine, hostFine>>

\* settleOne: everybody still seated attended, whatever has become of the activity
\* since it was listed.
SettleAttendance ==
  /\ "settlement" \in listed
  /\ listed' = listed \ {"settlement"}
  /\ status' = [u \in Person |-> IF u \in Seated(status) THEN "COMPLETED"
                                                         ELSE status[u]]
  /\ KeepColumns
  /\ UNCHANGED <<clock, evStatus, seen, capacity, acceptedCount, charge, fine, hostFine>>

\* The candidates of SeedSchedulerService.purge: an activity that is over.
ListForPurge ==
  /\ \/ evStatus \in {"CANCELLED_BY_HOST", "EXPIRED", "REJECTED"}
     \/ evStatus \in {"COMPLETED", "HIDDEN"} /\ \E now \in Nows : EndsAt <= now
  /\ \E u \in Seed : status[u] \in ParticipantStatus
  /\ "purge" \notin listed
  /\ listed' = listed \cup {"purge"}
  /\ UNCHANGED <<clock, evStatus, seen, capacity, acceptedCount, rowVars, charge,
                 fine, hostFine>>

\* The rows after the purge: every seed's is deleted.
WithoutSeeds ==
  [u \in Person |-> IF u \notin Seed THEN status[u]
                    ELSE IF u \in Counted(status) \cup Vacated(status) THEN "PURGED"
                    ELSE IF status[u] = "NONE" THEN "NONE" ELSE "DELETED"]

\* purgeEvent: the seeds go with their rows, the seats they were counted for stay
\* counted.  A seed that was fined is named by a ledger row and cannot be deleted,
\* which undoes the whole transaction.
PurgeEvent ==
  /\ "purge" \in listed
  /\ listed' = listed \ {"purge"}
  /\ IF \E u \in Seed : fine[u] # "NONE" THEN UNCHANGED <<rowVars, charge>>
     ELSE /\ status' = WithoutSeeds
          /\ charge' = [u \in Person |-> IF u \in Seed THEN "NONE" ELSE charge[u]]
          /\ KeepColumns
  /\ UNCHANGED <<clock, evStatus, seen, capacity, acceptedCount, fine, hostFine>>

\* Deviation: a no-show gives the seat back.
MarkNoShowReleases(u) ==
  /\ <<status[u], "NO_SHOW">> \in ParticipantEdges
  /\ \E now \in Nows : EndsAt <= now
  /\ status' = [status EXCEPT ![u] = "NO_SHOW"]
  /\ acceptedCount' = acceptedCount - 1
  /\ KeepColumns
  /\ fine' = [fine EXCEPT ![u] = "NO_SHOW"]
  /\ UNCHANGED <<clock, eventVars, charge, hostFine>>

\* markNoShow: the host reports a guest who had a seat and did not come.
MarkNoShow(u) ==
  /\ <<status[u], "NO_SHOW">> \in ParticipantEdges
  /\ \E now \in Nows : EndsAt <= now
  /\ status' = [status EXCEPT ![u] = "NO_SHOW"]
  /\ KeepColumns
  /\ fine' = [fine EXCEPT ![u] = "NO_SHOW"]
  /\ UNCHANGED <<clock, eventVars, acceptedCount, charge, hostFine>>

-----------------------------------------------------------------------------
(* Writers of event.status that do not take the lock: a host's edit of the   *)
(* text and a moderator's decision.  Both read the row, decide, and update   *)
(* it by id, so what they write follows from the status they read, which is  *)
(* not necessarily the status they overwrite.  One such writer at a time.    *)

ReadStatus ==
  /\ seen = "NONE"
  /\ evStatus \in {"PUBLISHED", "PENDING_MODERATION", "HIDDEN"}
  /\ seen' = evStatus
  /\ UNCHANGED <<clock, evStatus, listed, capacity, acceptedCount, rowVars, charge,
                 fine, hostFine>>

\* EventService.update of a scanned field: published again, or held for review.
EditContent ==
  /\ seen \in {"PUBLISHED", "PENDING_MODERATION"}
  /\ \E now \in Nows : now < StartsAt
  /\ evStatus' \in {"PUBLISHED", "PENDING_MODERATION"}
  /\ seen' = "NONE"
  /\ UNCHANGED <<clock, listed, capacity, acceptedCount, rowVars, charge, fine,
                 hostFine>>

\* AdminOperationsService.moderateEvent and decideCase, ReportService's
\* threshold: hide, restore or reject.
Moderate ==
  /\ seen # "NONE"
  /\ \E to \in {"HIDDEN", "PUBLISHED", "REJECTED"} :
       /\ <<seen, to>> \in EventEdges
       /\ evStatus' = to
  /\ seen' = "NONE"
  /\ UNCHANGED <<clock, listed, capacity, acceptedCount, rowVars, charge, fine,
                 hostFine>>

-----------------------------------------------------------------------------

GuestStep(u) == Join(u) \/ Cancel(u)

HostStep ==
  \/ \E u \in Person : Accept(u) \/ Reject(u) \/ MarkNoShow(u)
  \/ \E n \in 1 .. MaxCapacity : EditCapacity(n)
  \/ CancelByHost

SweepStep ==
  \/ \E u \in Person : ExpireOverdue(u) \/ ExpireWaitlisted(u)
  \/ SweepWaitlists \/ Retire
  \/ ListForSettlement \/ SettleAttendance
  \/ ListForPurge \/ PurgeEvent

Next ==
  \/ Tick
  \/ \E u \in Guest : GuestStep(u)
  \/ \E u \in Seed : SeatSeedParticipant(u)
  \/ HostStep
  \/ SweepStep
  \/ ReadStatus \/ EditContent \/ Moderate

Spec == Init /\ [][Next]_vars

\* Time passes, and the worker's repeatable jobs (SCHEDULE in queues.ts: every
\* minute, every five minutes, hourly) keep visiting every row they apply to.
\* People and moderators owe the system nothing.
Fairness ==
  /\ WF_vars(Tick)
  /\ \A u \in Guest : WF_vars(ExpireOverdue(u)) /\ WF_vars(ExpireWaitlisted(u))
  /\ WF_vars(SweepWaitlists)
  /\ WF_vars(Retire)
  /\ WF_vars(ListForSettlement) /\ WF_vars(SettleAttendance)

FairSpec == Spec /\ Fairness

-----------------------------------------------------------------------------
(* Properties *)

\* Every variable has its type; a reset capacity, an unknown status or a
\* deadline outside the clock would show here first.
TypeOK ==
  /\ clock \in Time
  /\ evStatus \in EventStatus
  /\ seen \in {"NONE", "PUBLISHED", "PENDING_MODERATION", "HIDDEN"}
  /\ listed \subseteq {"settlement", "purge"}
  /\ capacity \in 1 .. MaxCapacity
  /\ acceptedCount \in Nat
  /\ status \in [Person -> ParticipantStatus \cup {"NONE", "PURGED", "DELETED"}]
  /\ requestedAt \in [Person -> Nat \cup {NoTime}]
  /\ ticket \in [Person -> Nat]
  /\ hostDeadlineAt \in [Person -> Nat \cup {NoTime}]
  /\ graceExpiresAt \in [Person -> Nat \cup {NoTime}]
  /\ charge \in [Person -> {"NONE", "HELD", "REFUNDED"}]
  /\ fine \in [Person -> Bucket \cup {"NONE"}]
  /\ hostFine \in Bucket \cup {"NONE"}

\* The stored counter is the rows it stands for and the seats seeds had before they
\* were purged ("a record of how many seats were", the purge's design says), after
\* every transaction of whatever actor: accept, cancel, cancelByHost, settlement,
\* no-show reports and the purge each move one without recounting the other, and
\* a purged activity may be revived by a stale write.
SeatsCounted ==
  acceptedCount = Cardinality(Counted(status) \cup Vacated(status))

\* accepted_count <= capacity (ADR-0006): the CHECK behind takeSeat and behind
\* the capacity edit never has to refuse anything.
CapacityRespected == acceptedCount <= capacity

\* A request is put to the host only when seats and open questions together
\* leave room for it: join and fillFreedSeats agree on the same arithmetic.
AskedWithinCapacity ==
  [][\A u \in Person :
       status[u] # "PENDING" /\ status'[u] = "PENDING"
         => acceptedCount' + Cardinality(Pending(status')) <= capacity']_vars

\* People wait although the host could be asked about them.
Idle == Waiting(status) # {} /\ RoomToAsk

\* fillFreedSeats serves the queue in the order of (requested_at, id): nobody is
\* promoted past someone who goes on waiting.  And it serves it at once: every
\* operation that frees a seat or a slot moves the queue up itself, so people
\* are left waiting for the five-minute backstop with room only by a host who
\* raised the capacity.
QueueIsServed ==
  [][/\ \A u, v \in Person :
          (/\ status[u] = "WAITLISTED" /\ status'[u] = "PENDING"
           /\ status[v] = "WAITLISTED" /\ status'[v] = "WAITLISTED")
            => ~ Before(v, u)
     /\ ~ Idle /\ Idle' => capacity' > capacity]_vars

\* A join charge comes back to nobody but the people the product turned down,
\* to every one a host rejected and to every seated guest of a cancelled
\* activity, who is never also fined.
ChargeFollowsOutcome ==
  \A u \in Person :
    /\ status[u] = "REJECTED" => charge[u] # "HELD"
    /\ status[u] = "CANCELLED_BY_HOST" => charge[u] # "HELD" /\ fine[u] = "NONE"
    /\ charge[u] = "REFUNDED"
         => status[u] \in {"REJECTED", "EXPIRED", "CANCELLED_BY_HOST"}

\* CANCELLED_BY_HOST leads nowhere but DELETED (EVENT_TRANSITIONS): an activity
\* its host called off stays called off.  An edit or a moderation decision that
\* read the status before the cancellation writes over it.
CancelledIsFinal ==
  [][evStatus = "CANCELLED_BY_HOST" => evStatus' = "CANCELLED_BY_HOST"]_vars

\* What u may be charged for giving up a seat now, the lock having been waited for.
FairPrice(u, bucket) ==
  /\ clock <= graceExpiresAt[u] => bucket = "GRACE"
  /\ bucket = "GRACE" => clock <= graceExpiresAt[u] + LockWait
  /\ bucket = "GT_24H" => StartsAt - clock > Early - LockWait
  /\ bucket = "H24_TO_H3" => /\ StartsAt - clock <= Early
                             /\ StartsAt - clock >= Late - LockWait
  /\ bucket = "LT_3H" => StartsAt - clock < Late

\* A fine is the price of a seat that was given up or not used: nobody is fined
\* for a request, a rejection or somebody else's cancellation, or fined twice,
\* and a guest who withdraws pays no dearer price than the server's clock gives
\* while the lock is held (GRACE, more than 24 h, 24 h to 3 h, less), and a cheaper
\* one only by as much as the lock made them wait.
FinesNeedASeat ==
  [][\A u \in Person :
       fine'[u] # fine[u]
         => /\ fine[u] = "NONE" /\ status[u] = "ACCEPTED"
            /\ \/ status'[u] = "NO_SHOW"
               \/ /\ status'[u] = "CANCELLED_BY_PARTICIPANT"
                  /\ FairPrice(u, fine'[u])]_vars

\* Every request is answered, promoted or expired in the end: no host and no
\* worker schedule leaves somebody waiting past the activity.
EveryRequestIsAnswered ==
  \A u \in Guest : status[u] \in {"PENDING", "WAITLISTED"}
                     ~> status[u] \notin {"PENDING", "WAITLISTED"}

\* Everybody who still has a seat when the activity is over is settled, for as
\* long as no moderator's stale decision takes the activity out of COMPLETED.
EverySeatIsSettled ==
  evStatus = "COMPLETED" /\ Seated(status) # {}
    ~> Seated(status) = {} \/ evStatus # "COMPLETED"
====
