----------------------- MODULE Participation_proofs -----------------------
(***************************************************************************)
(* What holds of an activity for every number of guests, every capacity    *)
(* and every value of the settings: the types, the seat counter, the       *)
(* capacity, the queue and what charges and fines mean.                    *)
(***************************************************************************)
EXTENDS Participation, FiniteSetTheorems, WellFoundedInduction, TLAPS

\* A person is settled, one way or the other, only once the activity is over:
\* cancelByHost, which needs the activity not to have begun, resets the counter
\* without recounting it, and is right to because of this.
SettledAfterTheEnd ==
  \A u \in Person : status[u] \in {"COMPLETED", "NO_SHOW"} => EndsAt <= clock

\* A fine is found only on a row that has left its seat.
FinedAfterASeat ==
  \A u \in Person :
    fine[u] # "NONE" => status[u] \in {"CANCELLED_BY_PARTICIPANT", "NO_SHOW"}

\* What settlement has listed is over.
ListedAfterTheEnd == "settlement" \in listed => EndsAt <= clock

\* The people the counter counts: those with a row and the purged.
Occupied(s) == Counted(s) \cup Vacated(s)

\* The inductive invariant.
IInv ==
  /\ TypeOK
  /\ SeatsCounted
  /\ CapacityRespected
  /\ SettledAfterTheEnd
  /\ ListedAfterTheEnd
  /\ FinedAfterASeat
  /\ ChargeFollowsOutcome

-----------------------------------------------------------------------------
(* Helpers *)

\* People are finitely many, so the sets of rows can be counted.
LEMMA PersonFinite == IsFiniteSet(Person)
  BY PeopleAssumption, FS_Union DEF Person

\* The number of rows the counter stands for is a natural number.
LEMMA CountedFinite ==
  ASSUME NEW s
  PROVE  IsFiniteSet(Occupied(s)) /\ Cardinality(Occupied(s)) \in Nat
  BY PersonFinite, FS_Subset, FS_CardinalityType DEF Occupied, Counted, Vacated

\* Taking a seat adds one to the people counted.
LEMMA CountOneMore ==
  ASSUME NEW s, NEW t, NEW u \in Person,
         s[u] \notin {"ACCEPTED", "COMPLETED", "NO_SHOW", "PURGED"}, t[u] = "ACCEPTED",
         \A v \in Person \ {u} : t[v] = s[v]
  PROVE  Cardinality(Occupied(t)) = Cardinality(Occupied(s)) + 1
  <1>1. Occupied(t) = Occupied(s) \cup {u} /\ u \notin Occupied(s)
    BY DEF Occupied, Counted, Vacated
  <1>2. IsFiniteSet(Occupied(s))
    BY CountedFinite
  <1>3. Cardinality(Occupied(s) \cup {u}) = Cardinality(Occupied(s)) + 1
    BY <1>1, <1>2, FS_AddElement
  <1> QED BY <1>1, <1>3

\* Giving one back takes one away.
LEMMA CountOneLess ==
  ASSUME NEW s, NEW t, NEW u \in Person,
         s[u] = "ACCEPTED", t[u] \notin {"ACCEPTED", "COMPLETED", "NO_SHOW", "PURGED"},
         \A v \in Person \ {u} : t[v] = s[v]
  PROVE  Cardinality(Occupied(t)) = Cardinality(Occupied(s)) - 1
  <1>1. Occupied(t) = Occupied(s) \ {u} /\ u \in Occupied(s)
    BY DEF Occupied, Counted, Vacated
  <1>2. IsFiniteSet(Occupied(s))
    BY CountedFinite
  <1>3. Cardinality(Occupied(s) \ {u}) = Cardinality(Occupied(s)) - 1
    BY <1>1, <1>2, FS_RemoveElement
  <1> QED BY <1>1, <1>3

\* Moving the queue up changes who is asked, never who is counted.
LEMMA FillKeeps ==
  ASSUME NEW s \in [Person -> ParticipantStatus \cup {"NONE", "PURGED", "DELETED"}], NEW seats,
         NEW now, Fill(s, seats, now)
  PROVE  /\ status' \in [Person -> ParticipantStatus \cup {"NONE", "PURGED", "DELETED"}]
         /\ Occupied(status') = Occupied(s)
         /\ \A u \in Person : \/ status'[u] = s[u]
                              \/ s[u] = "WAITLISTED" /\ status'[u] = "PENDING"
  <1>1. \A u \in Promoted(s, seats) : u \in Person /\ s[u] = "WAITLISTED"
    BY DEF Promoted, Waiting
  <1>2. status' = [u \in Person |-> IF u \in Promoted(s, seats) THEN "PENDING"
                                                                ELSE s[u]]
    BY DEF Fill
  <1>3. \A u \in Person : \/ status'[u] = s[u]
                          \/ s[u] = "WAITLISTED" /\ status'[u] = "PENDING"
    BY <1>1, <1>2
  <1>4. status' \in [Person -> ParticipantStatus \cup {"NONE", "PURGED", "DELETED"}]
    BY <1>2 DEF ParticipantStatus
  <1>5. Occupied(status') = Occupied(s)
    BY <1>3 DEF Occupied, Counted, Vacated
  <1> QED BY <1>3, <1>4, <1>5

\* A host deadline is a time, whatever the settings: the floor at
\* starts_at keeps a large margin from making it negative.
LEMMA DeadlineType ==
  ASSUME NEW now \in Nat, NEW window \in Nat, NEW margin \in Nat
  PROVE  HostDeadline(now, window, margin) \in Nat
  BY DurationAssumption, ScheduleAssumption DEF HostDeadline, Least, Greatest

\* The time an operation decides with is not in the future and not too old.
LEMMA NowType ==
  ASSUME NEW now \in Nows, clock \in Time
  PROVE  now \in Nat /\ now <= clock /\ clock <= now + LockWait
  BY ScheduleAssumption DEF Nows, Time

\* The columns of a row stay typed.
RowTypes ==
  /\ requestedAt \in [Person -> Nat \cup {NoTime}]
  /\ ticket \in [Person -> Nat]
  /\ hostDeadlineAt \in [Person -> Nat \cup {NoTime}]
  /\ graceExpiresAt \in [Person -> Nat \cup {NoTime}]

\* Writing typed values keeps the columns typed.
LEMMA ColumnsType ==
  ASSUME NEW a \in [Person -> Nat \cup {NoTime}], NEW b \in [Person -> Nat],
         NEW c \in [Person -> Nat \cup {NoTime}],
         NEW d \in [Person -> Nat \cup {NoTime}],
         Columns(a, b, c, d)
  PROVE  RowTypes'
  BY DEF Columns, RowTypes

\* Keeping the values does too.
LEMMA KeepColumnsType ==
  ASSUME RowTypes, KeepColumns
  PROVE  RowTypes'
  BY DEF KeepColumns, Columns, RowTypes

\* So does moving the queue up.
LEMMA FillType ==
  ASSUME RowTypes, NEW s, NEW seats, NEW now \in Nat, Fill(s, seats, now)
  PROVE  RowTypes'
  <1> DEFINE c == [u \in Person |-> IF u \in Promoted(s, seats)
                                    THEN HostDeadline(now, PromotionTime, WaitMargin)
                                    ELSE hostDeadlineAt[u]]
  <1>1. c \in [Person -> Nat \cup {NoTime}]
    BY DeadlineType, DurationAssumption DEF RowTypes
  <1>2. Columns(requestedAt, ticket, c, graceExpiresAt)
    BY DEF Fill
  <1> QED
    <2> HIDE DEF c
    <2> QED BY <1>1, <1>2, ColumnsType DEF RowTypes

-----------------------------------------------------------------------------
(* One lemma per operation of the code *)

\* A published activity nobody has asked to join satisfies the invariant.
LEMMA InitIInv == Init => IInv
  <1> SUFFICES ASSUME Init PROVE IInv
    OBVIOUS
  <1>1. TypeOK
    BY ScheduleAssumption, CapacityAssumption
    DEF Init, TypeOK, Time, EventStatus, ParticipantStatus, Bucket, NoTime
  <1>2. Occupied(status) = {}
    BY DEF Init, Occupied, Counted, Vacated
  <1>3. SeatsCounted
    BY <1>2, FS_EmptySet DEF Init, SeatsCounted, Occupied
  <1>4. CapacityRespected
    BY CapacityAssumption DEF Init, CapacityRespected
  <1>5. SettledAfterTheEnd /\ ListedAfterTheEnd /\ FinedAfterASeat /\ ChargeFollowsOutcome
    BY DEF Init, ListedAfterTheEnd, SettledAfterTheEnd, FinedAfterASeat, ChargeFollowsOutcome
  <1> QED BY <1>1, <1>3, <1>4, <1>5 DEF IInv

\* Time only moves forward, so nobody who was settled becomes unsettled.
LEMMA TickStep == IInv /\ Tick => IInv'
  <1> SUFFICES ASSUME IInv, Tick PROVE IInv'
    OBVIOUS
  <1> USE DEF Tick, eventVars, rowVars
  <1>1. TypeOK'
    BY ScheduleAssumption DEF IInv, TypeOK, Time
  <1>2. SeatsCounted' /\ CapacityRespected'
    BY DEF IInv, SeatsCounted, CapacityRespected, Occupied, Counted, Vacated
  <1>3. SettledAfterTheEnd' /\ ListedAfterTheEnd'
    BY ScheduleAssumption DEF IInv, TypeOK, Time, SettledAfterTheEnd, ListedAfterTheEnd
  <1>4. FinedAfterASeat' /\ ChargeFollowsOutcome'
    BY DEF IInv, FinedAfterASeat, ChargeFollowsOutcome
  <1> QED BY <1>1, <1>2, <1>3, <1>4 DEF IInv

\* join adds a row that is not counted.
LEMMA JoinStep == ASSUME IInv, NEW u \in Person, Join(u) PROVE IInv'
  <1> USE DEF Join, eventVars
  <1>1. status' \in [Person -> ParticipantStatus \cup {"NONE", "PURGED", "DELETED"}]
    BY DEF IInv, TypeOK, ParticipantStatus
  <1>2. RowTypes'
    <2>1. PICK now \in Nows :
            Columns([requestedAt EXCEPT ![u] = now],
                    [ticket EXCEPT ![u] = NextTicket],
                    [hostDeadlineAt EXCEPT ![u] =
                       HostDeadline(now, ResponseTime, JoinMargin)],
                    graceExpiresAt)
      OBVIOUS
    <2>2. now \in Nat
      BY NowType DEF IInv, TypeOK
    <2>3. HostDeadline(now, ResponseTime, JoinMargin) \in Nat
      BY <2>2, DeadlineType, DurationAssumption
    <2>4. NextTicket \in Nat
      <3>1. IsFiniteSet({v \in Person : status[v] # "NONE"})
        BY PersonFinite, FS_Subset
      <3> QED BY <3>1, FS_CardinalityType DEF NextTicket
    <2>5. /\ [requestedAt EXCEPT ![u] = now] \in [Person -> Nat \cup {NoTime}]
          /\ [ticket EXCEPT ![u] = NextTicket] \in [Person -> Nat]
          /\ [hostDeadlineAt EXCEPT ![u] =
                HostDeadline(now, ResponseTime, JoinMargin)]
               \in [Person -> Nat \cup {NoTime}]
          /\ graceExpiresAt \in [Person -> Nat \cup {NoTime}]
      BY <2>2, <2>3, <2>4 DEF IInv, TypeOK
    <2> QED BY <2>1, <2>5, ColumnsType
  <1>3. TypeOK'
    BY <1>1, <1>2 DEF IInv, TypeOK, RowTypes
  <1>4. Occupied(status') = Occupied(status)
    BY DEF IInv, TypeOK, Occupied, Counted, Vacated
  <1>5. SeatsCounted' /\ CapacityRespected'
    BY <1>4 DEF IInv, SeatsCounted, CapacityRespected, Occupied, Counted, Vacated
  <1>6. SettledAfterTheEnd' /\ ListedAfterTheEnd' /\ FinedAfterASeat' /\ ChargeFollowsOutcome'
    BY DEF IInv, TypeOK, SettledAfterTheEnd, ListedAfterTheEnd, FinedAfterASeat, ChargeFollowsOutcome
  <1> QED BY <1>3, <1>5, <1>6 DEF IInv

\* takeSeat and the row that takes the seat: accept and seatSeedParticipant.
LEMMA SeatStep ==
  ASSUME IInv, NEW u \in Person, Seat(u),
         status[u] \in {"NONE", "PENDING", "WAITLISTED"}
  PROVE  IInv'
  <1> USE DEF Seat, eventVars
  <1>1. RowTypes'
    <2>1. PICK now \in Nows :
            Columns(requestedAt, ticket, hostDeadlineAt,
                    [graceExpiresAt EXCEPT ![u] = now + Grace])
      OBVIOUS
    <2>2. now \in Nat
      BY NowType DEF IInv, TypeOK
    <2>3. [graceExpiresAt EXCEPT ![u] = now + Grace]
            \in [Person -> Nat \cup {NoTime}]
      BY <2>2, DurationAssumption DEF IInv, TypeOK
    <2> QED BY <2>1, <2>3, ColumnsType DEF IInv, TypeOK
  <1>2. TypeOK'
    <2>1. status' \in [Person -> ParticipantStatus \cup {"NONE", "PURGED", "DELETED"}]
      BY DEF IInv, TypeOK, ParticipantStatus
    <2>2. acceptedCount' \in Nat
      BY DEF IInv, TypeOK
    <2> QED BY <1>1, <2>1, <2>2 DEF IInv, TypeOK, RowTypes
  <1>3. status'[u] = "ACCEPTED" /\ \A v \in Person \ {u} : status'[v] = status[v]
    BY DEF IInv, TypeOK
  <1>4. SeatsCounted'
    <2>1. Cardinality(Occupied(status')) = Cardinality(Occupied(status)) + 1
      BY <1>3, CountOneMore
    <2> QED BY <2>1 DEF IInv, SeatsCounted, Occupied, Counted, Vacated
  <1>5. CapacityRespected'
    BY DEF IInv, TypeOK, CapacityRespected
  <1>6. SettledAfterTheEnd' /\ ListedAfterTheEnd' /\ FinedAfterASeat' /\ ChargeFollowsOutcome'
    BY <1>3 DEF IInv, ListedAfterTheEnd, SettledAfterTheEnd, FinedAfterASeat, ChargeFollowsOutcome
  <1> QED BY <1>2, <1>4, <1>5, <1>6 DEF IInv

\* What the transition table lets each operation start from.
LEMMA EdgesInto ==
  ASSUME NEW x
  PROVE  /\ <<x, "ACCEPTED">> \in ParticipantEdges => x \in {"PENDING", "WAITLISTED"}
         /\ <<x, "REJECTED">> \in ParticipantEdges => x \in {"PENDING", "WAITLISTED"}
         /\ <<x, "CANCELLED_BY_PARTICIPANT">> \in ParticipantEdges
              => x \in {"PENDING", "WAITLISTED", "ACCEPTED"}
         /\ <<x, "NO_SHOW">> \in ParticipantEdges => x = "ACCEPTED"
  BY DEF ParticipantEdges

\* The bucket a cancellation is priced in.
LEMMA BucketType ==
  ASSUME NEW u \in Person, NEW now
  PROVE  /\ BucketForLateness(now) \in Bucket
         /\ BucketFor(u, now) \in Bucket \cup {"NONE"}
         /\ status[u] # "ACCEPTED" => BucketFor(u, now) = "NONE"
  BY DEF BucketForLateness, BucketFor, Bucket

\* A request that ends without a seat, and the queue that moves up behind it:
\* reject and the expiry of an unanswered request.
LEMMA TurnedDownStep ==
  ASSUME IInv, NEW u \in Person, NEW to \in {"REJECTED", "EXPIRED"},
         NEW now \in Nows,
         status[u] \in {"PENDING", "WAITLISTED"},
         Fill([status EXCEPT ![u] = to], acceptedCount, now),
         charge' = [charge EXCEPT ![u] = Refunded(@)],
         UNCHANGED <<clock, eventVars, acceptedCount, fine, hostFine>>
  PROVE  IInv'
  <1> DEFINE s == [status EXCEPT ![u] = to]
  <1> USE DEF eventVars
  <1>1. s \in [Person -> ParticipantStatus \cup {"NONE", "PURGED", "DELETED"}]
    BY DEF IInv, TypeOK, ParticipantStatus
  <1>2. s[u] = to /\ \A v \in Person \ {u} : s[v] = status[v]
    BY DEF IInv, TypeOK
  <1>3. Occupied(s) = Occupied(status)
    BY <1>2 DEF Occupied, Counted, Vacated
  <1>4. Fill(s, acceptedCount, now)
    OBVIOUS
  <1> HIDE DEF s
  <1>5. /\ status' \in [Person -> ParticipantStatus \cup {"NONE", "PURGED", "DELETED"}]
        /\ Occupied(status') = Occupied(s)
        /\ \A v \in Person : \/ status'[v] = s[v]
                             \/ s[v] = "WAITLISTED" /\ status'[v] = "PENDING"
    BY <1>1, <1>4, FillKeeps
  <1>6. RowTypes'
    <2>1. RowTypes /\ now \in Nat
      BY NowType DEF IInv, TypeOK, RowTypes
    <2> QED BY <2>1, <1>4, FillType
  <1>7. TypeOK'
    <2>1. charge' \in [Person -> {"NONE", "HELD", "REFUNDED"}]
      BY DEF IInv, TypeOK, Refunded
    <2> QED BY <1>5, <1>6, <2>1 DEF IInv, TypeOK, RowTypes
  <1>8. SeatsCounted' /\ CapacityRespected'
    <2>1. Occupied(status') = Occupied(status)
      BY <1>3, <1>5
    <2> QED BY <2>1 DEF IInv, SeatsCounted, CapacityRespected, Occupied, Counted, Vacated
  <1>9. SettledAfterTheEnd' /\ ListedAfterTheEnd'
    BY <1>2, <1>5 DEF IInv, ListedAfterTheEnd, SettledAfterTheEnd
  <1>10. FinedAfterASeat'
    BY <1>2, <1>5 DEF IInv, FinedAfterASeat
  <1>11. ChargeFollowsOutcome'
    <2>1. charge'[u] # "HELD" /\ \A v \in Person \ {u} : charge'[v] = charge[v]
      BY DEF IInv, TypeOK, Refunded
    <2>2. status'[u] = to
      BY <1>2, <1>5
    <2> QED BY <1>2, <1>5, <2>1, <2>2 DEF IInv, ChargeFollowsOutcome
  <1> QED BY <1>7, <1>8, <1>9, <1>10, <1>11 DEF IInv

\* reject.
LEMMA RejectStep == ASSUME IInv, NEW u \in Person, Reject(u) PROVE IInv'
  <1>1. status[u] \in {"PENDING", "WAITLISTED"}
    BY EdgesInto DEF Reject
  <1>2. PICK now \in Nows :
          Fill([status EXCEPT ![u] = "REJECTED"], acceptedCount, now)
    BY DEF Reject
  <1> QED BY <1>1, <1>2, TurnedDownStep DEF Reject

\* expireOverdue.
LEMMA ExpireOverdueStep ==
  ASSUME IInv, NEW u \in Person, ExpireOverdue(u) PROVE IInv'
  <1>1. PICK now \in Nows :
          Fill([status EXCEPT ![u] = "EXPIRED"], acceptedCount, now)
    BY DEF ExpireOverdue
  <1> QED BY <1>1, TurnedDownStep DEF ExpireOverdue

\* cancel: the seat, if there was one, leaves the counter and the rows together.
LEMMA CancelStep == ASSUME IInv, NEW u \in Person, Cancel(u) PROVE IInv'
  <1> DEFINE s == [status EXCEPT ![u] = "CANCELLED_BY_PARTICIPANT"]
  <1>0. PICK now \in Nows :
          /\ fine' = [fine EXCEPT ![u] = BucketFor(u, now)]
          /\ Fill(s, acceptedCount', now)
    BY DEF Cancel
  <1>1. s \in [Person -> ParticipantStatus \cup {"NONE", "PURGED", "DELETED"}]
    BY DEF IInv, TypeOK, ParticipantStatus
  <1>2. /\ s[u] = "CANCELLED_BY_PARTICIPANT"
        /\ \A v \in Person \ {u} : s[v] = status[v]
        /\ status[u] \in {"PENDING", "WAITLISTED", "ACCEPTED"}
    BY EdgesInto DEF IInv, TypeOK, Cancel
  <1> HIDE DEF s
  <1>3. acceptedCount' = Cardinality(Occupied(s))
    <2>1. CASE status[u] = "ACCEPTED"
      <3>1. Cardinality(Occupied(s)) = Cardinality(Occupied(status)) - 1
        BY <1>2, <2>1, CountOneLess
      <3> QED BY <2>1, <3>1 DEF Cancel, IInv, SeatsCounted, Occupied
    <2>2. CASE status[u] # "ACCEPTED"
      <3>1. Occupied(s) = Occupied(status)
        BY <1>2, <2>2 DEF Occupied, Counted, Vacated
      <3>2. acceptedCount' = acceptedCount
        BY <2>2 DEF Cancel, IInv, TypeOK
      <3> QED BY <3>1, <3>2 DEF IInv, SeatsCounted, Occupied
    <2> QED BY <2>1, <2>2
  <1>4. /\ status' \in [Person -> ParticipantStatus \cup {"NONE", "PURGED", "DELETED"}]
        /\ Occupied(status') = Occupied(s)
        /\ \A v \in Person : \/ status'[v] = s[v]
                             \/ s[v] = "WAITLISTED" /\ status'[v] = "PENDING"
    BY <1>0, <1>1, FillKeeps
  <1>5. RowTypes'
    <2>1. RowTypes /\ now \in Nat
      BY NowType DEF IInv, TypeOK, RowTypes
    <2> QED BY <2>1, <1>0, FillType
  <1>6. fine' \in [Person -> Bucket \cup {"NONE"}]
    BY <1>0, BucketType DEF IInv, TypeOK
  <1>7. TypeOK'
    <2>1. acceptedCount' \in Nat
      BY <1>3, CountedFinite
    <2> QED BY <1>4, <1>5, <1>6, <2>1 DEF Cancel, eventVars, IInv, TypeOK, RowTypes
  <1>8. SeatsCounted'
    <2>1. acceptedCount' = Cardinality(Occupied(status'))
      BY <1>3, <1>4
    <2> QED BY <2>1 DEF SeatsCounted, Occupied, Counted, Vacated
  <1>9. CapacityRespected'
    BY DEF Cancel, eventVars, IInv, TypeOK, CapacityRespected
  <1>10. SettledAfterTheEnd' /\ ListedAfterTheEnd'
    BY <1>2, <1>4 DEF Cancel, eventVars, IInv, SettledAfterTheEnd, ListedAfterTheEnd
  <1>11. FinedAfterASeat'
    <2>1. \A v \in Person \ {u} : fine'[v] = fine[v]
      BY <1>0 DEF IInv, TypeOK
    <2>2. status'[u] = "CANCELLED_BY_PARTICIPANT"
      BY <1>2, <1>4
    <2> QED BY <1>2, <1>4, <2>1, <2>2 DEF IInv, FinedAfterASeat
  <1>12. ChargeFollowsOutcome'
    <2>1. \A v \in Person \ {u} : fine'[v] = fine[v]
      BY <1>0 DEF IInv, TypeOK
    <2>2. status'[u] = "CANCELLED_BY_PARTICIPANT" /\ charge' = charge
      BY <1>2, <1>4 DEF Cancel
    <2> QED BY <1>2, <1>4, <2>1, <2>2 DEF IInv, ChargeFollowsOutcome
  <1> QED BY <1>7, <1>8, <1>9, <1>10, <1>11, <1>12 DEF IInv

\* expireWaitlisted: one row ends, refunded, and nobody is promoted.
LEMMA ExpireWaitlistedStep ==
  ASSUME IInv, NEW u \in Person, ExpireWaitlisted(u) PROVE IInv'
  <1> USE DEF ExpireWaitlisted, eventVars
  <1>1. status'[u] = "EXPIRED" /\ \A v \in Person \ {u} : status'[v] = status[v]
    BY DEF IInv, TypeOK
  <1>2. charge'[u] # "HELD" /\ \A v \in Person \ {u} : charge'[v] = charge[v]
    BY DEF IInv, TypeOK, Refunded
  <1>3. RowTypes'
    BY KeepColumnsType DEF IInv, TypeOK, RowTypes
  <1>4. TypeOK'
    <2>1. /\ status' \in [Person -> ParticipantStatus \cup {"NONE", "PURGED", "DELETED"}]
          /\ charge' \in [Person -> {"NONE", "HELD", "REFUNDED"}]
      BY DEF IInv, TypeOK, ParticipantStatus, Refunded
    <2> QED BY <1>3, <2>1 DEF IInv, TypeOK, RowTypes
  <1>5. SeatsCounted' /\ CapacityRespected'
    <2>1. Occupied(status') = Occupied(status)
      BY <1>1 DEF Occupied, Counted, Vacated
    <2> QED BY <2>1 DEF IInv, SeatsCounted, CapacityRespected, Occupied, Counted, Vacated
  <1>6. SettledAfterTheEnd' /\ ListedAfterTheEnd' /\ FinedAfterASeat' /\ ChargeFollowsOutcome'
    BY <1>1, <1>2
    DEF IInv, ListedAfterTheEnd, SettledAfterTheEnd, FinedAfterASeat, ChargeFollowsOutcome
  <1> QED BY <1>4, <1>5, <1>6 DEF IInv

\* sweepWaitlists: promotions only.
LEMMA SweepWaitlistsStep == ASSUME IInv, SweepWaitlists PROVE IInv'
  <1> USE DEF SweepWaitlists, eventVars
  <1>1. PICK now \in Nows : Fill(status, acceptedCount, now)
    OBVIOUS
  <1>2. /\ status' \in [Person -> ParticipantStatus \cup {"NONE", "PURGED", "DELETED"}]
        /\ Occupied(status') = Occupied(status)
        /\ \A v \in Person : \/ status'[v] = status[v]
                             \/ status[v] = "WAITLISTED" /\ status'[v] = "PENDING"
    BY <1>1, FillKeeps DEF IInv, TypeOK
  <1>3. RowTypes'
    <2>1. RowTypes /\ now \in Nat
      BY NowType DEF IInv, TypeOK, RowTypes
    <2> QED BY <2>1, <1>1, FillType
  <1>4. TypeOK'
    BY <1>2, <1>3 DEF IInv, TypeOK, RowTypes
  <1>5. SeatsCounted' /\ CapacityRespected'
    BY <1>2 DEF IInv, SeatsCounted, CapacityRespected, Occupied, Counted, Vacated
  <1>6. SettledAfterTheEnd' /\ ListedAfterTheEnd' /\ FinedAfterASeat' /\ ChargeFollowsOutcome'
    BY <1>2 DEF IInv, ListedAfterTheEnd, SettledAfterTheEnd, FinedAfterASeat, ChargeFollowsOutcome
  <1> QED BY <1>4, <1>5, <1>6 DEF IInv

\* A capacity edit never goes below the counter.
LEMMA EditCapacityStep ==
  ASSUME IInv, NEW n \in 1 .. MaxCapacity, EditCapacity(n) PROVE IInv'
  <1> USE DEF EditCapacity, rowVars
  <1>1. TypeOK'
    BY DEF IInv, TypeOK, EventStatus
  <1>2. SeatsCounted'
    BY DEF IInv, SeatsCounted, Occupied, Counted, Vacated
  <1>3. CapacityRespected'
    BY DEF IInv, TypeOK, CapacityRespected
  <1>4. SettledAfterTheEnd' /\ ListedAfterTheEnd' /\ FinedAfterASeat' /\ ChargeFollowsOutcome'
    BY DEF IInv, ListedAfterTheEnd, SettledAfterTheEnd, FinedAfterASeat, ChargeFollowsOutcome
  <1> QED BY <1>1, <1>2, <1>3, <1>4 DEF IInv

\* The counter is set to zero, not recounted.  Nobody is settled yet, so the
\* seats of the guests it cancels are all there are.
LEMMA CancelByHostStep == ASSUME IInv, CancelByHost PROVE IInv'
  <1> USE DEF CancelByHost
  <1>1. PICK now \in Nows :
          /\ now < StartsAt
          /\ hostFine' = IF Seated(status) # {} THEN BucketForLateness(now)
                                                ELSE hostFine
    OBVIOUS
  <1>2. clock < EndsAt
    <2>1. now \in Nat /\ clock <= now + LockWait /\ clock \in Nat
      BY NowType, ScheduleAssumption DEF IInv, TypeOK, Time
    <2> QED BY <1>1, <2>1, LockWaitAssumption, ScheduleAssumption,
               DurationAssumption
  <1>3. \A u \in Person : status[u] \notin {"COMPLETED", "NO_SHOW"}
    BY <1>2, ScheduleAssumption DEF IInv, TypeOK, Time, SettledAfterTheEnd
  <1>4. \A u \in Person :
          \/ status[u] = "ACCEPTED" /\ status'[u] = "CANCELLED_BY_HOST"
          \/ status[u] \in {"PENDING", "WAITLISTED"} /\ status'[u] = "EXPIRED"
          \/ status[u] = "PURGED" /\ status'[u] = "DELETED"
          \/ /\ status[u] \notin {"ACCEPTED", "PENDING", "WAITLISTED", "PURGED"}
             /\ status'[u] = status[u]
    BY DEF Seated, Pending, Waiting, Vacated
  <1>5. \A u \in Person :
          charge'[u] = IF status[u] = "ACCEPTED" THEN Refunded(charge[u])
                                                 ELSE charge[u]
    BY DEF Seated
  <1>6. RowTypes'
    BY KeepColumnsType DEF IInv, TypeOK, RowTypes
  <1>7. TypeOK'
    <2>1. status' \in [Person -> ParticipantStatus \cup {"NONE", "PURGED", "DELETED"}]
      BY <1>4 DEF IInv, TypeOK, ParticipantStatus
    <2>2. charge' \in [Person -> {"NONE", "HELD", "REFUNDED"}]
      BY <1>5 DEF IInv, TypeOK, Refunded
    <2>3. hostFine' \in Bucket \cup {"NONE"}
      <3>1. BucketForLateness(now) \in Bucket
        BY DEF BucketForLateness, Bucket
      <3> QED BY <1>1, <3>1 DEF IInv, TypeOK
    <2>4. evStatus' \in EventStatus
      BY DEF EventStatus
    <2> QED BY <1>6, <2>1, <2>2, <2>3, <2>4 DEF IInv, TypeOK, RowTypes
  <1>8. SeatsCounted'
    <2>1. Occupied(status') = {}
      BY <1>3, <1>4 DEF Occupied, Counted, Vacated
    <2>2. acceptedCount' = Cardinality(Occupied(status'))
      BY <2>1, FS_EmptySet
    <2> QED BY <2>2 DEF SeatsCounted, Occupied, Counted, Vacated
  <1>9. CapacityRespected'
    BY CapacityAssumption DEF IInv, TypeOK, CapacityRespected
  <1>10. SettledAfterTheEnd' /\ ListedAfterTheEnd'
    BY <1>3, <1>4 DEF IInv, SettledAfterTheEnd, ListedAfterTheEnd
  <1>11. FinedAfterASeat'
    BY <1>4 DEF IInv, FinedAfterASeat
  <1>12. ChargeFollowsOutcome'
    <2> SUFFICES ASSUME NEW u \in Person
                 PROVE  /\ status'[u] = "REJECTED" => charge'[u] # "HELD"
                        /\ status'[u] = "CANCELLED_BY_HOST"
                             => charge'[u] # "HELD" /\ fine'[u] = "NONE"
                        /\ charge'[u] = "REFUNDED"
                             => status'[u] \in {"REJECTED", "EXPIRED",
                                                "CANCELLED_BY_HOST"}
      BY DEF ChargeFollowsOutcome
    <2>1. CASE status[u] = "ACCEPTED"
      <3>1. charge'[u] # "HELD" /\ status'[u] = "CANCELLED_BY_HOST"
        BY <2>1, <1>4, <1>5 DEF Refunded
      <3>2. fine'[u] = "NONE"
        BY <2>1 DEF IInv, FinedAfterASeat
      <3> QED BY <3>1, <3>2
    <2>2. CASE status[u] # "ACCEPTED"
      BY <2>2, <1>4, <1>5 DEF IInv, ChargeFollowsOutcome
    <2> QED BY <2>1, <2>2
  <1> QED BY <1>7, <1>8, <1>9, <1>10, <1>11, <1>12 DEF IInv

\* The event's own status and the purge's list disturb nothing but their types.
LEMMA EventStatusStep ==
  ASSUME IInv, Retire \/ ReadStatus \/ EditContent \/ Moderate \/ ListForPurge PROVE IInv'
  <1> USE DEF rowVars
  <1>1. /\ evStatus' \in EventStatus
        /\ seen' \in {"NONE", "PUBLISHED", "PENDING_MODERATION", "HIDDEN"}
        /\ listed' \subseteq {"settlement", "purge"}
        /\ "settlement" \in listed' => "settlement" \in listed
        /\ UNCHANGED <<clock, capacity, acceptedCount, rowVars, charge, fine,
                       hostFine>>
    <2>1. CASE Retire
      BY <2>1 DEF Retire, IInv, TypeOK, EventStatus
    <2>2. CASE ReadStatus
      BY <2>2 DEF ReadStatus, IInv, TypeOK, EventStatus
    <2>3. CASE EditContent
      BY <2>3 DEF EditContent, IInv, TypeOK, EventStatus
    <2>4. CASE Moderate
      BY <2>4 DEF Moderate, IInv, TypeOK, EventStatus
    <2>5. CASE ListForPurge
      BY <2>5 DEF ListForPurge, IInv, TypeOK, EventStatus
    <2> QED BY <2>1, <2>2, <2>3, <2>4, <2>5
  <1>2. TypeOK'
    BY <1>1 DEF IInv, TypeOK
  <1>3. SeatsCounted' /\ CapacityRespected'
    BY <1>1 DEF IInv, SeatsCounted, CapacityRespected, Occupied, Counted, Vacated
  <1>4. SettledAfterTheEnd' /\ ListedAfterTheEnd' /\ FinedAfterASeat' /\ ChargeFollowsOutcome'
    BY <1>1 DEF IInv, ListedAfterTheEnd, SettledAfterTheEnd, FinedAfterASeat, ChargeFollowsOutcome
  <1> QED BY <1>2, <1>3, <1>4 DEF IInv

\* settleAttendance lists nothing that is not over.
LEMMA ListForSettlementStep == ASSUME IInv, ListForSettlement PROVE IInv'
  <1> USE DEF ListForSettlement, rowVars
  <1>1. EndsAt <= clock
    <2>1. PICK now \in Nows : EndsAt + SettleDelay <= now
      OBVIOUS
    <2>2. now \in Nat /\ now <= clock /\ clock \in Nat
      BY NowType, ScheduleAssumption DEF IInv, TypeOK, Time
    <2> QED BY <2>1, <2>2, DurationAssumption, ScheduleAssumption
  <1>2. TypeOK'
    BY DEF IInv, TypeOK
  <1>3. SeatsCounted' /\ CapacityRespected'
    BY DEF IInv, SeatsCounted, CapacityRespected, Occupied, Counted, Vacated
  <1>4. SettledAfterTheEnd' /\ ListedAfterTheEnd' /\ FinedAfterASeat' /\ ChargeFollowsOutcome'
    BY <1>1 DEF IInv, ListedAfterTheEnd, SettledAfterTheEnd, FinedAfterASeat, ChargeFollowsOutcome
  <1> QED BY <1>2, <1>3, <1>4 DEF IInv

\* The purge takes away rows and leaves the counter: the seats it empties are
\* still occupied, and nobody who was fined goes.
LEMMA PurgeEventStep == ASSUME IInv, PurgeEvent PROVE IInv'
  <1> USE DEF PurgeEvent
  <1>1. /\ UNCHANGED <<clock, evStatus, seen, capacity, acceptedCount, fine, hostFine>>
        /\ listed' \subseteq {"settlement", "purge"}
        /\ "settlement" \in listed' => "settlement" \in listed
    BY DEF IInv, TypeOK
  <1>2. CASE \E u \in Seed : fine[u] # "NONE"
    <2>1. UNCHANGED <<rowVars, charge>>
      BY <1>2
    <2>2. TypeOK'
      BY <1>1, <2>1 DEF IInv, TypeOK, rowVars
    <2>3. SeatsCounted' /\ CapacityRespected'
      BY <1>1, <2>1 DEF IInv, rowVars, SeatsCounted, CapacityRespected, Occupied, Counted, Vacated
    <2>4. SettledAfterTheEnd' /\ ListedAfterTheEnd' /\ FinedAfterASeat' /\ ChargeFollowsOutcome'
      BY <1>1, <2>1 DEF IInv, rowVars, ListedAfterTheEnd, SettledAfterTheEnd, FinedAfterASeat,
                        ChargeFollowsOutcome
    <2> QED BY <2>2, <2>3, <2>4 DEF IInv
  <1>3. CASE ~ \E u \in Seed : fine[u] # "NONE"
    <2>1. /\ status' = WithoutSeeds /\ KeepColumns
          /\ charge' = [u \in Person |-> IF u \in Seed THEN "NONE" ELSE charge[u]]
      BY <1>3
    <2>2. /\ \A u \in Person \ Seed : status'[u] = status[u]
          /\ \A u \in Seed : u \in Person => status'[u] \in {"NONE", "PURGED", "DELETED"}
      BY <2>1 DEF WithoutSeeds
    <2>3. Occupied(status') = Occupied(status)
      BY <2>1 DEF WithoutSeeds, Occupied, Counted, Vacated
    <2>4. TypeOK'
      <3>1. status' \in [Person -> ParticipantStatus \cup {"NONE", "PURGED", "DELETED"}]
        BY <2>1 DEF WithoutSeeds, IInv, TypeOK
      <3>2. RowTypes'
        BY <2>1, KeepColumnsType DEF IInv, TypeOK, RowTypes
      <3>3. charge' \in [Person -> {"NONE", "HELD", "REFUNDED"}]
        BY <2>1 DEF IInv, TypeOK
      <3> QED BY <1>1, <3>1, <3>2, <3>3 DEF IInv, TypeOK, RowTypes
    <2>5. SeatsCounted' /\ CapacityRespected'
      BY <1>1, <2>3 DEF IInv, SeatsCounted, CapacityRespected, Occupied, Counted, Vacated
    <2>6. SettledAfterTheEnd' /\ ListedAfterTheEnd' /\ FinedAfterASeat' /\ ChargeFollowsOutcome'
      BY <1>1, <1>3, <2>1, <2>2
      DEF IInv, ListedAfterTheEnd, SettledAfterTheEnd, FinedAfterASeat, ChargeFollowsOutcome
    <2> QED BY <2>4, <2>5, <2>6 DEF IInv
  <1> QED BY <1>2, <1>3

\* settleAttendance: a settled guest is still counted.
LEMMA SettleAttendanceStep == ASSUME IInv, SettleAttendance PROVE IInv'
  <1> USE DEF SettleAttendance
  <1>1. \A u \in Person :
          \/ status[u] = "ACCEPTED" /\ status'[u] = "COMPLETED"
          \/ status[u] # "ACCEPTED" /\ status'[u] = status[u]
    BY DEF Seated
  <1>2. EndsAt <= clock
    BY DEF IInv, ListedAfterTheEnd
  <1>3. TypeOK'
    <2>1. status' \in [Person -> ParticipantStatus \cup {"NONE", "PURGED", "DELETED"}]
      BY <1>1 DEF IInv, TypeOK, ParticipantStatus
    <2>2. RowTypes'
      BY KeepColumnsType DEF IInv, TypeOK, RowTypes
    <2> QED BY <2>1, <2>2 DEF IInv, TypeOK, RowTypes
  <1>4. SeatsCounted' /\ CapacityRespected'
    <2>1. Occupied(status') = Occupied(status)
      BY <1>1 DEF Occupied, Counted, Vacated
    <2> QED BY <2>1 DEF IInv, SeatsCounted, CapacityRespected, Occupied, Counted, Vacated
  <1>5. SettledAfterTheEnd' /\ ListedAfterTheEnd'
    BY <1>2 DEF SettledAfterTheEnd, ListedAfterTheEnd
  <1>6. FinedAfterASeat' /\ ChargeFollowsOutcome'
    BY <1>1 DEF IInv, FinedAfterASeat, ChargeFollowsOutcome
  <1> QED BY <1>3, <1>4, <1>5, <1>6 DEF IInv

\* markNoShow: so is a guest reported absent, who had no fine before.
LEMMA MarkNoShowStep == ASSUME IInv, NEW u \in Person, MarkNoShow(u) PROVE IInv'
  <1> USE DEF MarkNoShow, eventVars
  <1>1. /\ status[u] = "ACCEPTED" /\ status'[u] = "NO_SHOW"
        /\ \A v \in Person \ {u} : status'[v] = status[v]
    BY EdgesInto DEF IInv, TypeOK
  <1>2. fine'[u] = "NO_SHOW" /\ \A v \in Person \ {u} : fine'[v] = fine[v]
    BY DEF IInv, TypeOK
  <1>3. EndsAt <= clock
    <2>1. PICK now \in Nows : EndsAt <= now
      OBVIOUS
    <2>2. now \in Nat /\ now <= clock /\ clock \in Nat
      BY NowType, ScheduleAssumption DEF IInv, TypeOK, Time
    <2> QED BY <2>1, <2>2, ScheduleAssumption
  <1>4. TypeOK'
    <2>1. /\ status' \in [Person -> ParticipantStatus \cup {"NONE", "PURGED", "DELETED"}]
          /\ fine' \in [Person -> Bucket \cup {"NONE"}]
      BY DEF IInv, TypeOK, ParticipantStatus, Bucket
    <2>2. RowTypes'
      BY KeepColumnsType DEF IInv, TypeOK, RowTypes
    <2> QED BY <2>1, <2>2 DEF IInv, TypeOK, RowTypes
  <1>5. SeatsCounted' /\ CapacityRespected'
    <2>1. Occupied(status') = Occupied(status)
      BY <1>1 DEF Occupied, Counted, Vacated
    <2> QED BY <2>1 DEF IInv, SeatsCounted, CapacityRespected, Occupied, Counted, Vacated
  <1>6. SettledAfterTheEnd' /\ ListedAfterTheEnd'
    BY <1>3 DEF IInv, SettledAfterTheEnd, ListedAfterTheEnd
  <1>7. FinedAfterASeat' /\ ChargeFollowsOutcome'
    BY <1>1, <1>2 DEF IInv, FinedAfterASeat, ChargeFollowsOutcome
  <1> QED BY <1>4, <1>5, <1>6, <1>7 DEF IInv

\* Steps of nothing.
LEMMA StutterStep == ASSUME IInv, UNCHANGED vars PROVE IInv'
  <1> USE DEF vars, eventVars, rowVars, IInv
  <1>1. TypeOK'
    BY DEF TypeOK
  <1>2. SeatsCounted' /\ CapacityRespected'
    BY DEF SeatsCounted, CapacityRespected, Occupied, Counted, Vacated
  <1>3. SettledAfterTheEnd' /\ ListedAfterTheEnd' /\ FinedAfterASeat' /\ ChargeFollowsOutcome'
    BY DEF SettledAfterTheEnd, ListedAfterTheEnd, FinedAfterASeat, ChargeFollowsOutcome
  <1> QED BY <1>1, <1>2, <1>3

-----------------------------------------------------------------------------
(* The theorems *)

\* Every step of every actor preserves the invariant.
LEMMA NextIInv == IInv /\ [Next]_vars => IInv'
  <1> SUFFICES ASSUME IInv, [Next]_vars PROVE IInv'
    OBVIOUS
  <1>1. CASE Tick
    BY <1>1, TickStep
  <1>2. ASSUME NEW u \in Guest, GuestStep(u) PROVE IInv'
    <2>1. u \in Person
      BY DEF Person
    <2> QED BY <1>2, <2>1, JoinStep, CancelStep DEF GuestStep
  <1>3. ASSUME NEW u \in Seed, SeatSeedParticipant(u) PROVE IInv'
    <2>1. u \in Person
      BY DEF Person
    <2> QED BY <1>3, <2>1, SeatStep DEF SeatSeedParticipant
  <1>4. CASE HostStep
    <2>1. ASSUME NEW u \in Person, Accept(u) PROVE IInv'
      BY <2>1, EdgesInto, SeatStep DEF Accept
    <2> QED BY <1>4, <2>1, RejectStep, MarkNoShowStep, EditCapacityStep,
               CancelByHostStep DEF HostStep
  <1>5. CASE SweepStep
    BY <1>5, ExpireOverdueStep, ExpireWaitlistedStep, SweepWaitlistsStep,
       EventStatusStep, ListForSettlementStep, SettleAttendanceStep, PurgeEventStep
    DEF SweepStep
  <1>6. CASE ReadStatus \/ EditContent \/ Moderate
    BY <1>6, EventStatusStep
  <1>7. CASE UNCHANGED vars
    BY <1>7, StutterStep
  <1> QED BY <1>1, <1>2, <1>3, <1>4, <1>5, <1>6, <1>7 DEF Next

\* The inductive invariant holds of every reachable state.
THEOREM Invariance == Spec => []IInv
  BY InitIInv, NextIInv, PTL DEF Spec

\* Type correctness of every column the operations write.
THEOREM TypeCorrect == Spec => []TypeOK
  BY Invariance, PTL DEF IInv

\* accepted_count is the number of people it counts and of the seats the purge
\* emptied, whichever operations ran, however stale the clocks they decided with
\* and whatever a stale write made of a purged activity.
THEOREM CounterIsExact == Spec => []SeatsCounted
  BY Invariance, PTL DEF IInv

\* No activity is ever overbooked, by accept, by the seed scheduler or by an
\* edit of the capacity.
THEOREM NeverOverbooked == Spec => []CapacityRespected
  BY Invariance, PTL DEF IInv

\* A refunded charge belongs to somebody the product turned down; a rejected
\* guest and a seated guest of a cancelled activity never keep paying.
THEOREM ChargesFollowOutcomes == Spec => []ChargeFollowsOutcome
  BY Invariance, PTL DEF IInv

\* Nobody is fined for anything but a seat, nobody twice, and nobody more than the
\* clock gives when the lock is held, whatever the thresholds and the grace period.
THEOREM FinedOnceForASeat == Spec => FinesNeedASeat
  <1> DEFINE Fined ==
        \A u \in Person :
          fine'[u] # fine[u]
            => /\ fine[u] = "NONE" /\ status[u] = "ACCEPTED"
               /\ \/ status'[u] = "NO_SHOW"
                  \/ /\ status'[u] = "CANCELLED_BY_PARTICIPANT"
                     /\ FairPrice(u, fine'[u])
  <1>1. IInv /\ [Next]_vars => [Fined]_vars
    <2> SUFFICES ASSUME IInv, Next, NEW u \in Person, fine'[u] # fine[u]
                 PROVE  /\ fine[u] = "NONE" /\ status[u] = "ACCEPTED"
                        /\ \/ status'[u] = "NO_SHOW"
                           \/ /\ status'[u] = "CANCELLED_BY_PARTICIPANT"
                              /\ FairPrice(u, fine'[u])
      OBVIOUS
    <2>1. PICK v \in Person : Cancel(v) \/ MarkNoShow(v)
      BY DEF Next, GuestStep, HostStep, SweepStep, Tick, Join, Seat,
             SeatSeedParticipant, Accept, Reject, ExpireOverdue,
             ExpireWaitlisted, SweepWaitlists, EditCapacity, CancelByHost,
             Retire, ListForSettlement, SettleAttendance, ListForPurge, PurgeEvent,
             ReadStatus, EditContent, Moderate, Person
    <2>2. CASE Cancel(v)
      <3> DEFINE s == [status EXCEPT ![v] = "CANCELLED_BY_PARTICIPANT"]
      <3>1. PICK now \in Nows :
              /\ fine' = [fine EXCEPT ![v] = BucketFor(v, now)]
              /\ Fill(s, acceptedCount', now)
        BY <2>2 DEF Cancel
      <3>2. /\ s \in [Person -> ParticipantStatus \cup {"NONE", "PURGED", "DELETED"}]
            /\ s[v] = "CANCELLED_BY_PARTICIPANT"
        BY DEF IInv, TypeOK, ParticipantStatus
      <3> HIDE DEF s
      <3>3. status'[v] = "CANCELLED_BY_PARTICIPANT"
        BY <3>1, <3>2, FillKeeps
      <3>4. u = v
        BY <3>1 DEF IInv, TypeOK
      <3>5. CASE status[v] = "ACCEPTED"
        <4>1. fine'[v] = BucketFor(v, now)
          BY <3>1 DEF IInv, TypeOK
        <4>2. /\ now \in Int /\ clock \in Int /\ now <= clock /\ clock <= now + LockWait
              /\ graceExpiresAt[v] \in Int
          BY NowType DEF IInv, TypeOK, Nows, Time, NoTime
        <4>3. FairPrice(v, BucketFor(v, now))
          BY <3>5, <4>2, ScheduleAssumption, DurationAssumption
          DEF FairPrice, BucketFor, BucketForLateness
        <4> QED BY <3>3, <3>4, <3>5, <4>1, <4>3 DEF IInv, FinedAfterASeat
      <3>6. CASE status[v] # "ACCEPTED"
        <4>1. status[v] \in {"PENDING", "WAITLISTED"}
          BY <2>2, <3>6, EdgesInto DEF Cancel
        <4>2. fine[v] = "NONE" /\ BucketFor(v, now) = "NONE"
          BY <3>6, <4>1, BucketType DEF IInv, FinedAfterASeat
        <4> QED BY <3>1, <3>4, <4>2 DEF IInv, TypeOK
      <3> QED BY <3>5, <3>6
    <2>3. CASE MarkNoShow(v)
      <3>1. status[v] = "ACCEPTED" /\ status'[v] = "NO_SHOW"
        BY <2>3, EdgesInto DEF MarkNoShow, IInv, TypeOK
      <3>2. u = v
        BY <2>3 DEF MarkNoShow, IInv, TypeOK
      <3> QED BY <3>1, <3>2 DEF IInv, FinedAfterASeat
    <2> QED BY <2>1, <2>2, <2>3
  <1> QED BY <1>1, Invariance, PTL DEF Spec, FinesNeedASeat

-----------------------------------------------------------------------------
(* The queue *)

Asked(s) == {u \in Person : s[u] # "NONE"}

\* People who wait have different tickets, and none of them has one that is still
\* to be given out: a row that is deleted keeps its place in the order.
TicketsDiffer ==
  /\ \A u \in Waiting(status) : ticket[u] <= Cardinality(Asked(status))
  /\ \A u, v \in Waiting(status) : ticket[u] = ticket[v] => u = v

\* Sets of people can be counted.
LEMMA PeopleCount ==
  ASSUME NEW S \in SUBSET Person
  PROVE  IsFiniteSet(S) /\ Cardinality(S) \in Nat
  BY PersonFinite, FS_Subset, FS_CardinalityType

\* Where nobody begins to wait, tickets stay different.
LEMMA TicketsKept ==
  ASSUME IInv, TicketsDiffer,
         \A u \in Person : status'[u] = "WAITLISTED" =>
                             status[u] = "WAITLISTED" /\ ticket'[u] = ticket[u],
         \A u \in Person : status'[u] = "NONE" => status[u] = "NONE"
  PROVE  TicketsDiffer'
  <1>1. Asked(status) \subseteq Asked(status') /\ Asked(status') \subseteq Person
    BY DEF Asked
  <1>2. /\ Cardinality(Asked(status)) <= Cardinality(Asked(status'))
        /\ Cardinality(Asked(status)) \in Nat /\ Cardinality(Asked(status')) \in Nat
    BY <1>1, PersonFinite, PeopleCount, FS_Subset
  <1>3. \A u \in Waiting(status') : u \in Waiting(status) /\ ticket'[u] = ticket[u]
    BY DEF Waiting
  <1>4. \A u \in Waiting(status) : ticket[u] \in Nat
    BY DEF Waiting, IInv, TypeOK
  <1>5. \A u \in Waiting(status') : ticket'[u] <= Cardinality(Asked(status'))
    BY <1>2, <1>3, <1>4 DEF TicketsDiffer
  <1>6. \A u, v \in Waiting(status') : ticket'[u] = ticket'[v] => u = v
    BY <1>3 DEF TicketsDiffer
  <1> HIDE DEF Asked, Waiting
  <1> QED BY <1>5, <1>6 DEF TicketsDiffer, Asked, Waiting

\* join gives out the next one.
LEMMA JoinTickets ==
  ASSUME IInv, TicketsDiffer, NEW u \in Person, Join(u) PROVE TicketsDiffer'
  <1>1. PICK to \in {"PENDING", "WAITLISTED"} : status' = [status EXCEPT ![u] = to]
    BY DEF Join
  <1>2. /\ ticket' = [v \in Person |-> IF status'[v] = "WAITLISTED"
                                       THEN [ticket EXCEPT ![u] = NextTicket][v] ELSE 0]
        /\ status[u] = "NONE"
    BY DEF Join, Columns
  <1>3. /\ \A v \in Waiting(status') \ {u} : v \in Waiting(status) /\ ticket'[v] = ticket[v]
        /\ u \in Waiting(status') => ticket'[u] = NextTicket
    BY <1>1, <1>2 DEF IInv, TypeOK, Waiting
  <1>4. Asked(status') = Asked(status) \cup {u} /\ u \notin Asked(status)
    BY <1>1, <1>2 DEF IInv, TypeOK, Asked
  <1>5. /\ Cardinality(Asked(status)) \in Nat
        /\ Cardinality(Asked(status')) = Cardinality(Asked(status)) + 1
        /\ NextTicket = Cardinality(Asked(status)) + 1
    <2>1. Asked(status) \in SUBSET Person
      BY DEF Asked
    <2>2. NextTicket = 1 + Cardinality(Asked(status))
      BY DEF NextTicket, Asked
    <2> QED BY <1>4, <2>1, <2>2, PeopleCount, FS_AddElement
  <1>6. \A v \in Waiting(status) : ticket[v] \in Nat /\ ticket[v] <= Cardinality(Asked(status))
    BY DEF Waiting, IInv, TypeOK, TicketsDiffer
  <1>7. \A v \in Waiting(status') : ticket'[v] <= Cardinality(Asked(status'))
    BY <1>3, <1>5, <1>6
  <1>8. \A v, w \in Waiting(status') : ticket'[v] = ticket'[w] => v = w
    <2> SUFFICES ASSUME NEW v \in Waiting(status'), NEW w \in Waiting(status'), v # w
                 PROVE  ticket'[v] # ticket'[w]
      OBVIOUS
    <2>1. CASE v = u \/ w = u
      BY <1>3, <1>5, <1>6, <2>1
    <2>2. CASE v # u /\ w # u
      BY <1>3, <2>2 DEF TicketsDiffer
    <2> QED BY <2>1, <2>2
  <1> QED BY <1>7, <1>8 DEF TicketsDiffer, Asked, Waiting

\* Every step of every actor leaves different people different tickets.
LEMMA TicketsStep == IInv /\ TicketsDiffer /\ [Next]_vars => TicketsDiffer'
  <1> SUFFICES ASSUME IInv, TicketsDiffer, [Next]_vars PROVE TicketsDiffer'
    OBVIOUS
  <1> DEFINE Kept == \A u \in Person :
                       /\ status'[u] = "WAITLISTED" =>
                            status[u] = "WAITLISTED" /\ ticket'[u] = ticket[u]
                       /\ status'[u] = "NONE" => status[u] = "NONE"
  <1>1. Kept => TicketsDiffer'
    BY TicketsKept
  <1>2. ASSUME NEW u \in Person, NEW to, NEW seats, NEW now, to \notin {"NONE", "WAITLISTED"},
               to \in ParticipantStatus, Fill([status EXCEPT ![u] = to], seats, now)
        PROVE  Kept
    <2>1. [status EXCEPT ![u] = to] \in [Person -> ParticipantStatus \cup {"NONE", "PURGED", "DELETED"}]
      BY <1>2 DEF IInv, TypeOK
    <2>2. \A v \in Person : [status EXCEPT ![u] = to][v] = IF v = u THEN to ELSE status[v]
      BY DEF IInv, TypeOK
    <2>3. \A v \in Person : \/ status'[v] = IF v = u THEN to ELSE status[v]
                            \/ status'[v] = "PENDING"
      BY <1>2, <2>1, <2>2, FillKeeps
    <2>4. \A v \in Person : status'[v] = "WAITLISTED" => ticket'[v] = ticket[v]
      BY <1>2 DEF Fill, Columns
    <2> QED BY <1>2, <2>3, <2>4
  <1>3. ASSUME NEW u \in Person, Reject(u) \/ Cancel(u) \/ ExpireOverdue(u) PROVE Kept
    <2>1. /\ "REJECTED" \in ParticipantStatus /\ "EXPIRED" \in ParticipantStatus
          /\ "CANCELLED_BY_PARTICIPANT" \in ParticipantStatus
      BY DEF ParticipantStatus
    <2> HIDE DEF Kept
    <2>2. CASE Reject(u)
      <3>1. PICK now \in Nows : Fill([status EXCEPT ![u] = "REJECTED"], acceptedCount, now)
        BY <2>2 DEF Reject
      <3> QED BY <1>2, <2>1, <3>1
    <2>3. CASE Cancel(u)
      <3>1. PICK now \in Nows :
              Fill([status EXCEPT ![u] = "CANCELLED_BY_PARTICIPANT"], acceptedCount', now)
        BY <2>3 DEF Cancel
      <3> QED BY <1>2, <2>1, <3>1
    <2>4. CASE ExpireOverdue(u)
      <3>1. PICK now \in Nows : Fill([status EXCEPT ![u] = "EXPIRED"], acceptedCount, now)
        BY <2>4 DEF ExpireOverdue
      <3> QED BY <1>2, <2>1, <3>1
    <2> QED BY <1>3, <2>2, <2>3, <2>4
  <1>4. ASSUME NEW u \in Person, Seat(u) \/ ExpireWaitlisted(u) \/ MarkNoShow(u) PROVE Kept
    BY <1>4 DEF Seat, ExpireWaitlisted, MarkNoShow, KeepColumns, Columns, IInv, TypeOK
  <1>5. CASE SweepWaitlists
    <2>1. PICK now \in Nows : Fill(status, acceptedCount, now)
      BY <1>5 DEF SweepWaitlists
    <2>2. \A v \in Person : status'[v] = status[v] \/ status'[v] = "PENDING"
      BY <2>1, FillKeeps DEF IInv, TypeOK
    <2>3. \A v \in Person : status'[v] = "WAITLISTED" => ticket'[v] = ticket[v]
      BY <2>1 DEF Fill, Columns
    <2> QED BY <1>1, <2>2, <2>3
  <1>6. CASE CancelByHost \/ SettleAttendance
    BY <1>1, <1>6 DEF CancelByHost, SettleAttendance, KeepColumns, Columns, Seated, Pending, Waiting, Vacated
  <1>11. CASE PurgeEvent
    <2>1. CASE status' = WithoutSeeds /\ KeepColumns
      BY <1>1, <2>1 DEF WithoutSeeds, KeepColumns, Columns
    <2>2. CASE UNCHANGED rowVars
      BY <1>1, <2>2 DEF rowVars
    <2> QED BY <1>11, <2>1, <2>2 DEF PurgeEvent
  <1>7. CASE UNCHANGED rowVars
    BY <1>1, <1>7 DEF rowVars
  <1>8. Tick \/ Retire \/ ListForSettlement \/ ListForPurge \/ ReadStatus \/ EditContent
          \/ Moderate \/ UNCHANGED vars
          => UNCHANGED rowVars
    BY DEF Tick, Retire, ListForSettlement, ListForPurge, ReadStatus, EditContent, Moderate, vars
  <1>9. \A n \in 1 .. MaxCapacity : EditCapacity(n) => UNCHANGED rowVars
    BY DEF EditCapacity
  <1>10. Guest \subseteq Person /\ Seed \subseteq Person
    BY DEF Person
  <1> HIDE DEF Kept
  <1> QED BY <1>1, <1>3, <1>4, <1>5, <1>6, <1>7, <1>8, <1>9, <1>10, <1>11, JoinTickets
          DEF Next, GuestStep, HostStep, SweepStep, SeatSeedParticipant, Accept

\* A seed is seated directly: it is never among the people who wait or are asked about.
SeedsNeverAsk == \A u \in Seed : status[u] \notin {"PENDING", "WAITLISTED"}

\* Only join makes somebody ask, and no seed joins.
LEMMA SeedsStep == IInv /\ SeedsNeverAsk /\ [Next]_vars => SeedsNeverAsk'
  <1> SUFFICES ASSUME IInv, SeedsNeverAsk, [Next]_vars PROVE SeedsNeverAsk'
    OBVIOUS
  <1> DEFINE NobodyNew == \A u \in Seed : status'[u] \in {"PENDING", "WAITLISTED"}
                                           => status[u] \in {"PENDING", "WAITLISTED"}
  <1>1. NobodyNew => SeedsNeverAsk'
    BY DEF SeedsNeverAsk
  <1>2. Guest \subseteq Person /\ Seed \subseteq Person
    BY DEF Person
  <1>3. ASSUME NEW u \in Guest, Join(u) PROVE NobodyNew
    BY <1>3, PeopleAssumption DEF Join, IInv, TypeOK
  <1>4. ASSUME NEW u \in Person, NEW to \in {"REJECTED", "EXPIRED", "CANCELLED_BY_PARTICIPANT"},
               NEW seats, NEW now, Fill([status EXCEPT ![u] = to], seats, now)
        PROVE  NobodyNew
    <2> DEFINE s == [status EXCEPT ![u] = to]
    <2>1. /\ s \in [Person -> ParticipantStatus \cup {"NONE", "PURGED", "DELETED"}]
          /\ \A v \in Person : s[v] = status[v] \/ s[v] \notin {"PENDING", "WAITLISTED"}
      BY DEF IInv, TypeOK, ParticipantStatus
    <2>2. Fill(s, seats, now)
      BY <1>4
    <2> HIDE DEF s
    <2>3. \A v \in Person : status'[v] = s[v] \/ s[v] = "WAITLISTED"
      BY <2>1, <2>2, FillKeeps
    <2> QED BY <1>2, <2>1, <2>3
  <1>5. ASSUME NEW u \in Person, Reject(u) \/ Cancel(u) \/ ExpireOverdue(u) PROVE NobodyNew
    <2> HIDE DEF NobodyNew
    <2>1. CASE Reject(u)
      <3>1. PICK now \in Nows : Fill([status EXCEPT ![u] = "REJECTED"], acceptedCount, now)
        BY <2>1 DEF Reject
      <3> QED BY <1>4, <3>1
    <2>2. CASE Cancel(u)
      <3>1. PICK now \in Nows :
              Fill([status EXCEPT ![u] = "CANCELLED_BY_PARTICIPANT"], acceptedCount', now)
        BY <2>2 DEF Cancel
      <3> QED BY <1>4, <3>1
    <2>3. CASE ExpireOverdue(u)
      <3>1. PICK now \in Nows : Fill([status EXCEPT ![u] = "EXPIRED"], acceptedCount, now)
        BY <2>3 DEF ExpireOverdue
      <3> QED BY <1>4, <3>1
    <2> QED BY <1>5, <2>1, <2>2, <2>3
  <1>6. ASSUME NEW u \in Person, Seat(u) \/ ExpireWaitlisted(u) \/ MarkNoShow(u) PROVE NobodyNew
    BY <1>2, <1>6 DEF Seat, ExpireWaitlisted, MarkNoShow, IInv, TypeOK
  <1>7. CASE SweepWaitlists
    <2>1. PICK now \in Nows : Fill(status, acceptedCount, now)
      BY <1>7 DEF SweepWaitlists
    <2>2. \A v \in Person : status'[v] = status[v] \/ status[v] = "WAITLISTED"
      BY <2>1, FillKeeps DEF IInv, TypeOK
    <2> QED BY <1>1, <1>2, <2>2
  <1>8. CASE CancelByHost \/ SettleAttendance
    BY <1>1, <1>2, <1>8 DEF CancelByHost, SettleAttendance, Seated, Pending, Waiting, Vacated
  <1>9. CASE PurgeEvent
    <2>1. CASE status' = WithoutSeeds
      BY <1>1, <1>2, <2>1 DEF WithoutSeeds
    <2>2. CASE status' = status
      BY <1>1, <2>2
    <2> QED BY <1>9, <2>1, <2>2 DEF PurgeEvent, rowVars
  <1>10. CASE status' = status
    BY <1>1, <1>10
  <1>11. Tick \/ Retire \/ ListForSettlement \/ ListForPurge \/ ReadStatus \/ EditContent
           \/ Moderate \/ UNCHANGED vars
           => status' = status
    BY DEF Tick, Retire, ListForSettlement, ListForPurge, ReadStatus, EditContent, Moderate,
           vars, rowVars
  <1>12. \A n \in 1 .. MaxCapacity : EditCapacity(n) => status' = status
    BY DEF EditCapacity, rowVars
  <1> HIDE DEF NobodyNew
  <1> QED BY <1>1, <1>2, <1>3, <1>5, <1>6, <1>7, <1>8, <1>9, <1>10, <1>11, <1>12
          DEF Next, GuestStep, HostStep, SweepStep, SeatSeedParticipant, Accept

\* (requested_at, id) is a strict order of everybody who waits.
LEMMA BeforeIsAnOrder ==
  ASSUME IInv, TicketsDiffer,
         NEW u \in Waiting(status), NEW v \in Waiting(status), NEW w \in Waiting(status)
  PROVE  /\ ~ Before(u, u)
         /\ Before(u, v) /\ Before(v, w) => Before(u, w)
         /\ u # v => Before(u, v) \/ Before(v, u)
  <1>1. \A x \in Waiting(status) : requestedAt[x] \in Int /\ ticket[x] \in Int
    BY DEF IInv, TypeOK, Waiting, NoTime
  <1>2. u # v => ticket[u] # ticket[v]
    BY DEF TicketsDiffer
  <1> QED BY <1>1, <1>2 DEF Before

\* Every set of numbers has a least one.
LEMMA LeastNatural ==
  ASSUME NEW T, T \subseteq Nat, T # {}
  PROVE  \E x \in T : \A y \in T : ~ (y < x)
  <1>1. PICK x \in T : \A y \in T : ~ (<<y, x>> \in OpToRel(<, Nat))
    BY NatLessThanWellFounded, WFMin
  <1>2. \A i, k \in Nat : i < k => <<i, k>> \in OpToRel(<, Nat)
    BY DEF OpToRel
  <1> QED BY <1>1, <1>2

\* How many of the queue W are before u.
Rank(W, u) == Cardinality({v \in W : Before(v, u)})

\* They can be counted.
LEMMA RankType ==
  ASSUME NEW W \in SUBSET Person, NEW u
  PROVE  IsFiniteSet({v \in W : Before(v, u)}) /\ Rank(W, u) \in Nat
  BY PeopleCount DEF Rank

\* Whoever comes earlier has fewer people before them.
LEMMA RankGrows ==
  ASSUME IInv, TicketsDiffer, NEW W \in SUBSET Waiting(status),
         NEW u \in W, NEW v \in W, Before(v, u)
  PROVE  Rank(W, v) < Rank(W, u)
  <1> DEFINE A == {x \in W : Before(x, v)}
             B == {x \in W : Before(x, u)}
  <1>1. W \subseteq Person
    BY DEF Waiting
  <1>2. A \subseteq B /\ v \in B /\ v \notin A
    BY BeforeIsAnOrder
  <1>3. IsFiniteSet(B) /\ Cardinality(A) \in Nat /\ Cardinality(B) \in Nat
    BY <1>1, RankType DEF Rank
  <1>4. Cardinality(A) <= Cardinality(B) /\ Cardinality(A) # Cardinality(B)
    BY <1>2, <1>3, FS_Subset
  <1> QED BY <1>3, <1>4 DEF Rank

\* The first n of a queue: no more than n, all n if anybody is left behind, and
\* nobody behind somebody who is left behind.
LEMMA FirstOfTheQueue ==
  ASSUME IInv, TicketsDiffer, NEW W \in SUBSET Waiting(status), NEW n \in Int
  PROVE  LET First == {u \in W : Rank(W, u) < n} IN
         /\ n >= 0 => Cardinality(First) <= n
         /\ First # W => Cardinality(First) >= n
         /\ \A u \in First, v \in W \ First : ~ Before(v, u)
  <1> DEFINE First == {u \in W : Rank(W, u) < n}
  <1>1. W \subseteq Person /\ \A u : Rank(W, u) \in Nat
    BY RankType DEF Waiting
  <1>2. IsFiniteSet(First) /\ Cardinality(First) \in Nat
    BY <1>1, PeopleCount
  <1>3. ASSUME n >= 0 PROVE Cardinality(First) <= n
    <2> DEFINE f == [u \in First |-> Rank(W, u) + 1]
    <2>1. f \in [First -> 1 .. n]
      BY <1>1, <1>3
    <2>2. \A u, v \in First : f[u] = f[v] => u = v
      <3> SUFFICES ASSUME NEW u \in First, NEW v \in First, u # v PROVE f[u] # f[v]
        OBVIOUS
      <3>1. Before(u, v) \/ Before(v, u)
        BY BeforeIsAnOrder
      <3>2. Rank(W, u) < Rank(W, v) \/ Rank(W, v) < Rank(W, u)
        BY <3>1, RankGrows
      <3> QED BY <1>1, <3>2
    <2> HIDE DEF f
    <2>3. f \in Injection(First, 1 .. n)
      BY <2>1, <2>2 DEF Injection, IsInjective
    <2>4. IsFiniteSet(1 .. n) /\ Cardinality(1 .. n) = n
      BY <1>3, FS_Interval
    <2> HIDE DEF First
    <2> QED BY <2>3, <2>4, FS_Injection
  <1>4. ASSUME First # W PROVE Cardinality(First) >= n
    <2> DEFINE Ranks == {Rank(W, u) : u \in W \ First}
    <2>1. Ranks \subseteq Nat /\ Ranks # {}
      BY <1>1, <1>4
    <2>2. PICK x \in Ranks : \A y \in Ranks : ~ (y < x)
      <3> HIDE DEF Ranks
      <3> QED BY <2>1, LeastNatural
    <2>3. PICK w \in W \ First : x = Rank(W, w)
      BY <2>2
    <2>4. {v \in W : Before(v, w)} \subseteq First
      BY <2>2, <2>3, RankGrows
    <2>5. Rank(W, w) <= Cardinality(First)
      BY <1>2, <2>4, FS_Subset DEF Rank
    <2>6. Rank(W, w) \in Nat /\ Rank(W, w) >= n
      BY <1>1, <2>3
    <2> QED BY <1>2, <2>5, <2>6
  <1>5. ASSUME NEW u \in First, NEW v \in W \ First PROVE ~ Before(v, u)
    <2>1. Before(v, u) => Rank(W, v) < Rank(W, u)
      BY RankGrows
    <2> QED BY <1>1, <2>1
  <1> HIDE DEF First
  <1>6. /\ n >= 0 => Cardinality(First) <= n
        /\ First # W => Cardinality(First) >= n
        /\ \A u \in First, v \in W \ First : ~ Before(v, u)
    BY <1>3, <1>4, <1>5
  <1> QED BY <1>6 DEF First

\* fillFreedSeats, on rows s in which at most some people have just left: the
\* slots there are go to the first of the queue, and nobody waits while one is left.
LEMMA FillServes ==
  ASSUME IInv, TicketsDiffer, NEW s \in [Person -> ParticipantStatus \cup {"NONE", "PURGED", "DELETED"}],
         Waiting(s) \subseteq Waiting(status), NEW seats \in Nat, NEW now,
         Fill(s, seats, now)
  PROVE  LET up == Promoted(s, seats) IN
         /\ Pending(status') = Pending(s) \cup up
         /\ Waiting(status') = Waiting(s) \ up
         /\ up # {} => seats + Cardinality(Pending(status')) <= capacity
         /\ Waiting(status') # {} => seats + Cardinality(Pending(status')) >= capacity
         /\ \A u \in up, v \in Waiting(status') : ~ Before(v, u)
  <1> DEFINE up == Promoted(s, seats)
             n == capacity - seats - Cardinality(Pending(s))
  <1>1. /\ Waiting(s) \subseteq Person /\ Pending(s) \subseteq Person
        /\ Pending(s) \cap Waiting(s) = {} /\ up \subseteq Waiting(s)
    BY DEF Waiting, Pending, Promoted
  <1>2. /\ Cardinality(Pending(s)) \in Nat /\ Cardinality(up) \in Nat
        /\ IsFiniteSet(Pending(s)) /\ IsFiniteSet(up)
        /\ n \in Int /\ capacity \in Nat
    <2> HIDE DEF up
    <2>1. IsFiniteSet(Pending(s)) /\ Cardinality(Pending(s)) \in Nat
      BY <1>1, PeopleCount
    <2>2. IsFiniteSet(up) /\ Cardinality(up) \in Nat
      BY <1>1, PeopleCount
    <2> QED BY <2>1, <2>2 DEF IInv, TypeOK
  <1>3. up = {u \in Waiting(s) : Rank(Waiting(s), u) < n}
    BY DEF Promoted, Rank
  <1>4. /\ n >= 0 => Cardinality(up) <= n
        /\ up # Waiting(s) => Cardinality(up) >= n
        /\ \A u \in up, v \in Waiting(s) \ up : ~ Before(v, u)
    <2> HIDE DEF n, up
    <2> QED BY <1>2, <1>3, FirstOfTheQueue
  <1>5. up # {} => n > 0
    <2> SUFFICES ASSUME NEW u \in up PROVE n > 0
      OBVIOUS
    <2>1. Rank(Waiting(s), u) < n
      BY <1>3
    <2>2. Rank(Waiting(s), u) \in Nat
      BY <1>1, RankType
    <2> HIDE DEF n
    <2> QED BY <1>2, <2>1, <2>2
  <1>6. Pending(status') = Pending(s) \cup up /\ Waiting(status') = Waiting(s) \ up
    <2>1. status' = [u \in Person |-> IF u \in up THEN "PENDING" ELSE s[u]]
      BY DEF Fill
    <2> HIDE DEF up
    <2> QED BY <1>1, <2>1 DEF Pending, Waiting
  <1>7. Cardinality(Pending(status')) = Cardinality(Pending(s)) + Cardinality(up)
    <2>1. Pending(s) \cap up = {}
      BY <1>1
    <2> HIDE DEF up
    <2>2. Cardinality(Pending(s) \cup up)
            = Cardinality(Pending(s)) + Cardinality(up) - Cardinality(Pending(s) \cap up)
      BY <1>2, FS_Union
    <2>3. Cardinality(Pending(s) \cap up) = 0
      BY <2>1, FS_EmptySet
    <2> QED BY <1>2, <1>6, <2>2, <2>3
  <1>8. up # {} => seats + Cardinality(Pending(status')) <= capacity
    <2> HIDE DEF up
    <2> QED BY <1>2, <1>4, <1>5, <1>7
  <1>9. Waiting(status') # {} => seats + Cardinality(Pending(status')) >= capacity
    <2> HIDE DEF up
    <2> QED BY <1>1, <1>2, <1>4, <1>6, <1>7
  <1> HIDE DEF up, n
  <1>10. /\ Pending(status') = Pending(s) \cup up
         /\ Waiting(status') = Waiting(s) \ up
         /\ up # {} => seats + Cardinality(Pending(status')) <= capacity
         /\ Waiting(status') # {} => seats + Cardinality(Pending(status')) >= capacity
         /\ \A u \in up, v \in Waiting(status') : ~ Before(v, u)
    BY <1>4, <1>6, <1>8, <1>9
  <1> QED BY <1>10 DEF up

\* What AskedWithinCapacity and QueueIsServed ask of one step.
AskedWithin ==
  \A u \in Person :
    status[u] # "PENDING" /\ status'[u] = "PENDING"
      => acceptedCount' + Cardinality(Pending(status')) <= capacity'

InOrderOfTheQueue ==
  \A u, v \in Person :
    (/\ status[u] = "WAITLISTED" /\ status'[u] = "PENDING"
     /\ status[v] = "WAITLISTED" /\ status'[v] = "WAITLISTED")
      => ~ Before(v, u)

NoIdleSlot == ~ Idle /\ Idle' => capacity' > capacity

Served == AskedWithin /\ InOrderOfTheQueue /\ NoIdleSlot

\* reject, cancel, expireOverdue and the sweep: whoever leaves, the queue moves up.
LEMMA FillStep ==
  ASSUME IInv, TicketsDiffer, NEW s \in [Person -> ParticipantStatus \cup {"NONE", "PURGED", "DELETED"}],
         \A u \in Person : s[u] = status[u] \/ s[u] \notin {"PENDING", "WAITLISTED"},
         NEW now, acceptedCount' \in Nat, capacity' = capacity,
         Fill(s, acceptedCount', now)
  PROVE  Served
  <1> DEFINE up == Promoted(s, acceptedCount')
  <1>1. Waiting(s) \subseteq Waiting(status) /\ Waiting(s) \subseteq Person
    BY DEF Waiting
  <1>2. /\ Pending(status') = Pending(s) \cup up
        /\ Waiting(status') = Waiting(s) \ up
        /\ up # {} => acceptedCount' + Cardinality(Pending(status')) <= capacity
        /\ Waiting(status') # {} => acceptedCount' + Cardinality(Pending(status')) >= capacity
        /\ \A u \in up, v \in Waiting(status') : ~ Before(v, u)
    BY <1>1, FillServes
  <1> HIDE DEF up
  <1>3. \A u \in Person : status[u] # "PENDING" /\ status'[u] = "PENDING" => u \in up
    <2> SUFFICES ASSUME NEW u \in Person, status[u] # "PENDING", status'[u] = "PENDING"
                 PROVE  u \in up
      OBVIOUS
    <2>1. u \in Pending(status') /\ u \notin Pending(s)
      BY DEF Pending
    <2> QED BY <1>2, <2>1
  <1>4. AskedWithin
    BY <1>2, <1>3 DEF AskedWithin
  <1>5. InOrderOfTheQueue
    <2>1. \A v \in Person : status'[v] = "WAITLISTED" => v \in Waiting(status')
      BY DEF Waiting
    <2> QED BY <1>2, <1>3, <2>1 DEF InOrderOfTheQueue
  <1>6. NoIdleSlot
    <2>1. Cardinality(Pending(status')) \in Nat /\ capacity \in Nat
      <3>1. Pending(status') \in SUBSET Person
        BY DEF Pending
      <3> QED BY <3>1, PeopleCount DEF IInv, TypeOK
    <2>2. ~ Idle'
      BY <1>2, <2>1 DEF Idle, RoomToAsk, Waiting, Pending
    <2> QED BY <2>2 DEF NoIdleSlot
  <1> QED BY <1>4, <1>5, <1>6 DEF Served

\* A step that asks about nobody, lets nobody begin to wait and, unless it raises
\* the capacity, makes no room.
LEMMA QuietStep ==
  ASSUME IInv, IInv',
         Pending(status') \subseteq Pending(status),
         Waiting(status') \subseteq Waiting(status),
         \/ Waiting(status') = {}
         \/ capacity' > capacity
         \/ /\ capacity' <= capacity
            /\ acceptedCount + Cardinality(Pending(status))
                 <= acceptedCount' + Cardinality(Pending(status'))
  PROVE  Served
  <1>1. /\ Cardinality(Pending(status)) \in Nat /\ Cardinality(Pending(status')) \in Nat
        /\ acceptedCount \in Nat /\ acceptedCount' \in Nat
        /\ capacity \in Nat /\ capacity' \in Nat
    <2>1. Pending(status) \in SUBSET Person /\ Pending(status') \in SUBSET Person
      BY DEF Pending
    <2> QED BY <2>1, PeopleCount DEF IInv, TypeOK
  <1>2. \A u \in Person : status'[u] = "PENDING" => status[u] = "PENDING"
    BY DEF Pending
  <1>3. AskedWithin /\ InOrderOfTheQueue
    BY <1>2 DEF AskedWithin, InOrderOfTheQueue
  <1>4. NoIdleSlot
    BY <1>1 DEF NoIdleSlot, Idle, RoomToAsk, Waiting, Pending
  <1> QED BY <1>3, <1>4 DEF Served

\* join asks only where there is room, which nobody was waiting for.
LEMMA JoinServed ==
  ASSUME IInv, NEW u \in Person, Join(u) PROVE Served
  <1>1. status[u] = "NONE" /\ acceptedCount' = acceptedCount /\ capacity' = capacity
    BY DEF Join, eventVars
  <1>2. /\ Cardinality(Pending(status)) \in Nat /\ IsFiniteSet(Pending(status))
        /\ acceptedCount \in Nat /\ capacity \in Nat
    <2>1. Pending(status) \in SUBSET Person
      BY DEF Pending
    <2> QED BY <2>1, PeopleCount DEF IInv, TypeOK
  <1>3. CASE RoomToAsk
    <2>1. status' = [status EXCEPT ![u] = "PENDING"]
      BY <1>3 DEF Join
    <2>2. /\ Pending(status') = Pending(status) \cup {u} /\ u \notin Pending(status)
          /\ Waiting(status') = Waiting(status)
      BY <1>1, <2>1 DEF IInv, TypeOK, Pending, Waiting
    <2>3. Cardinality(Pending(status')) = Cardinality(Pending(status)) + 1
      BY <1>2, <2>2, FS_AddElement
    <2>4. acceptedCount' + Cardinality(Pending(status')) <= capacity'
      BY <1>1, <1>2, <1>3, <2>3 DEF RoomToAsk
    <2>5. AskedWithin
      BY <2>4 DEF AskedWithin
    <2>6. InOrderOfTheQueue
      BY <1>1, <2>1 DEF InOrderOfTheQueue, IInv, TypeOK
    <2>7. NoIdleSlot
      BY <1>3, <2>2 DEF NoIdleSlot, Idle, Waiting
    <2> QED BY <2>5, <2>6, <2>7 DEF Served
  <1>4. CASE ~ RoomToAsk
    <2>1. status' = [status EXCEPT ![u] = "WAITLISTED"]
      BY <1>4 DEF Join
    <2>2. Pending(status') = Pending(status)
      BY <1>1, <2>1 DEF IInv, TypeOK, Pending
    <2>3. AskedWithin /\ InOrderOfTheQueue
      BY <2>2 DEF AskedWithin, InOrderOfTheQueue, Pending
    <2>4. NoIdleSlot
      BY <1>1, <1>4, <2>2 DEF NoIdleSlot, Idle, RoomToAsk, Pending
    <2> QED BY <2>3, <2>4 DEF Served
  <1> QED BY <1>3, <1>4

\* A seat taken frees at most the slot of the question it answers.
LEMMA SeatServed ==
  ASSUME IInv, IInv', NEW u \in Person, Seat(u) PROVE Served
  <1>1. /\ status' = [status EXCEPT ![u] = "ACCEPTED"]
        /\ acceptedCount' = acceptedCount + 1 /\ capacity' = capacity
    BY DEF Seat, eventVars
  <1>2. /\ Pending(status') = Pending(status) \ {u}
        /\ Waiting(status') \subseteq Waiting(status)
    BY <1>1 DEF IInv, TypeOK, Pending, Waiting
  <1>3. /\ IsFiniteSet(Pending(status)) /\ Cardinality(Pending(status)) \in Nat
        /\ acceptedCount \in Nat /\ capacity \in Nat
    <2>1. Pending(status) \in SUBSET Person
      BY DEF Pending
    <2> QED BY <2>1, PeopleCount DEF IInv, TypeOK
  <1>4. Cardinality(Pending(status)) <= 1 + Cardinality(Pending(status'))
    BY <1>2, <1>3, FS_RemoveElement
  <1>5. Cardinality(Pending(status')) \in Nat
    <2>1. Pending(status') \in SUBSET Person
      BY DEF Pending
    <2> QED BY <2>1, PeopleCount
  <1>6. /\ capacity' <= capacity
        /\ acceptedCount + Cardinality(Pending(status))
             <= acceptedCount' + Cardinality(Pending(status'))
    BY <1>1, <1>3, <1>4, <1>5
  <1> QED BY <1>2, <1>6, QuietStep

\* Every step of every actor asks within the capacity and serves the queue.
LEMMA ServedStep == IInv /\ TicketsDiffer /\ SeedsNeverAsk /\ Next => Served
  <1> SUFFICES ASSUME IInv, TicketsDiffer, SeedsNeverAsk, Next PROVE Served
    OBVIOUS
  <1>0. IInv' /\ acceptedCount' \in Nat
    BY NextIInv DEF IInv, TypeOK
  <1>1. ASSUME NEW u \in Person, NEW to \in ParticipantStatus \ {"PENDING", "WAITLISTED"},
               NEW now, capacity' = capacity,
               Fill([status EXCEPT ![u] = to], acceptedCount', now)
        PROVE  Served
    <2> DEFINE s == [status EXCEPT ![u] = to]
    <2>1. /\ s \in [Person -> ParticipantStatus \cup {"NONE", "PURGED", "DELETED"}]
          /\ \A v \in Person : s[v] = status[v] \/ s[v] \notin {"PENDING", "WAITLISTED"}
      BY <1>1 DEF IInv, TypeOK
    <2>2. Fill(s, acceptedCount', now)
      BY <1>1
    <2> HIDE DEF s
    <2> QED BY <1>0, <1>1, <2>1, <2>2, FillStep
  <1>2. ASSUME NEW u \in Person, Reject(u) \/ Cancel(u) \/ ExpireOverdue(u) PROVE Served
    <2>1. /\ "REJECTED" \in ParticipantStatus /\ "EXPIRED" \in ParticipantStatus
          /\ "CANCELLED_BY_PARTICIPANT" \in ParticipantStatus
      BY DEF ParticipantStatus
    <2>2. CASE Reject(u)
      <3>1. /\ capacity' = capacity /\ acceptedCount' = acceptedCount
            /\ \E now \in Nows : Fill([status EXCEPT ![u] = "REJECTED"], acceptedCount, now)
        BY <2>2 DEF Reject, eventVars
      <3> QED BY <1>1, <2>1, <3>1
    <2>3. CASE Cancel(u)
      <3>1. /\ capacity' = capacity
            /\ \E now \in Nows :
                 Fill([status EXCEPT ![u] = "CANCELLED_BY_PARTICIPANT"], acceptedCount', now)
        BY <2>3 DEF Cancel, eventVars
      <3> QED BY <1>1, <2>1, <3>1
    <2>4. CASE ExpireOverdue(u)
      <3>1. /\ capacity' = capacity /\ acceptedCount' = acceptedCount
            /\ \E now \in Nows : Fill([status EXCEPT ![u] = "EXPIRED"], acceptedCount, now)
        BY <2>4 DEF ExpireOverdue, eventVars
      <3> QED BY <1>1, <2>1, <3>1
    <2> QED BY <1>2, <2>2, <2>3, <2>4
  <1>3. CASE SweepWaitlists
    <2>1. /\ capacity' = capacity /\ acceptedCount' = acceptedCount
          /\ \E now \in Nows : Fill(status, acceptedCount, now)
      BY <1>3 DEF SweepWaitlists, eventVars
    <2>2. status \in [Person -> ParticipantStatus \cup {"NONE", "PURGED", "DELETED"}]
      BY DEF IInv, TypeOK
    <2> QED BY <1>0, <2>1, <2>2, FillStep
  <1>4. ASSUME /\ capacity' = capacity /\ acceptedCount' = acceptedCount
               /\ Pending(status') = Pending(status)
               /\ Waiting(status') \subseteq Waiting(status)
        PROVE  Served
    <2>1. /\ acceptedCount + Cardinality(Pending(status))
               <= acceptedCount' + Cardinality(Pending(status'))
          /\ capacity' <= capacity
      <3>1. Pending(status) \in SUBSET Person
        BY DEF Pending
      <3>2. /\ Cardinality(Pending(status)) \in Nat /\ acceptedCount \in Nat
            /\ capacity \in Nat
        BY <3>1, PeopleCount DEF IInv, TypeOK
      <3> QED BY <1>4, <3>2
    <2> QED BY <1>0, <1>4, <2>1, QuietStep
  <1>5. ASSUME NEW u \in Person, ExpireWaitlisted(u) \/ MarkNoShow(u) PROVE Served
    <2>1. capacity' = capacity /\ acceptedCount' = acceptedCount
      BY <1>5 DEF ExpireWaitlisted, MarkNoShow, eventVars
    <2>2. /\ status[u] \in {"WAITLISTED", "ACCEPTED"}
          /\ \/ status' = [status EXCEPT ![u] = "EXPIRED"]
             \/ status' = [status EXCEPT ![u] = "NO_SHOW"]
      BY <1>5, EdgesInto DEF ExpireWaitlisted, MarkNoShow
    <2>3. /\ Pending(status') = Pending(status)
          /\ Waiting(status') \subseteq Waiting(status)
      BY <2>2 DEF IInv, TypeOK, Pending, Waiting
    <2> QED BY <1>4, <2>1, <2>3
  <1>6. CASE SettleAttendance
    <2>1. /\ capacity' = capacity /\ acceptedCount' = acceptedCount
          /\ Pending(status') = Pending(status)
          /\ Waiting(status') \subseteq Waiting(status)
      BY <1>6 DEF SettleAttendance, Seated, Pending, Waiting
    <2> QED BY <1>4, <2>1
  <1>11. CASE PurgeEvent
    <2>1. capacity' = capacity /\ acceptedCount' = acceptedCount
      BY <1>11 DEF PurgeEvent
    <2>2. CASE status' = WithoutSeeds
      <3>1. /\ Pending(status') = Pending(status)
            /\ Waiting(status') \subseteq Waiting(status)
        BY <2>2 DEF WithoutSeeds, SeedsNeverAsk, Pending, Waiting
      <3> QED BY <1>4, <2>1, <3>1
    <2>3. CASE status' = status
      BY <1>4, <2>1, <2>3
    <2> QED BY <1>11, <2>2, <2>3 DEF PurgeEvent, rowVars
  <1>7. CASE CancelByHost
    <2>1. \A u \in Person : status'[u] \notin {"PENDING", "WAITLISTED"}
      BY <1>7 DEF CancelByHost, Seated, Pending, Waiting, Vacated
    <2>2. Pending(status') = {} /\ Waiting(status') = {}
      BY <2>1 DEF Pending, Waiting
    <2> QED BY <1>0, <2>2, QuietStep
  <1>8. ASSUME NEW n \in 1 .. MaxCapacity, EditCapacity(n) PROVE Served
    <2>1. status' = status /\ acceptedCount' = acceptedCount
      BY <1>8 DEF EditCapacity, rowVars
    <2>2. capacity' > capacity \/ capacity' <= capacity
      BY <1>0 DEF IInv, TypeOK
    <2>3. Cardinality(Pending(status)) \in Nat /\ acceptedCount \in Nat
      <3>1. Pending(status) \in SUBSET Person
        BY DEF Pending
      <3> QED BY <3>1, PeopleCount DEF IInv, TypeOK
    <2> QED BY <1>0, <2>1, <2>2, <2>3, QuietStep
  <1>9. CASE Tick \/ Retire \/ ListForSettlement \/ ListForPurge \/ ReadStatus
             \/ EditContent \/ Moderate
    <2>1. capacity' = capacity /\ acceptedCount' = acceptedCount /\ status' = status
      BY <1>9 DEF Tick, Retire, ListForSettlement, ListForPurge, ReadStatus, EditContent,
                  Moderate, eventVars, rowVars
    <2> QED BY <1>4, <2>1
  <1>10. Guest \subseteq Person /\ Seed \subseteq Person
    BY DEF Person
  <1> QED BY <1>0, <1>2, <1>3, <1>5, <1>6, <1>7, <1>8, <1>9, <1>10, <1>11, JoinServed, SeatServed
          DEF Next, GuestStep, HostStep, SweepStep, SeatSeedParticipant, Accept

\* Nobody waits yet.
LEMMA TicketsInit == Init => TicketsDiffer
  BY DEF Init, TicketsDiffer, Waiting

\* Tickets differ in every reachable state.
LEMMA TicketsInvariant == Spec => []TicketsDiffer
  BY Invariance, TicketsInit, TicketsStep, PTL DEF Spec

\* And no seed ever asks.
LEMMA SeedsInvariant == Spec => []SeedsNeverAsk
  <1>1. Init => SeedsNeverAsk
    BY DEF Init, SeedsNeverAsk, Person
  <1> QED BY <1>1, Invariance, SeedsStep, PTL DEF Spec

\* join and fillFreedSeats agree on one arithmetic: nobody is put before the host
\* when the seats taken and the questions open already fill the activity.
THEOREM AsksWithinCapacity == Spec => AskedWithinCapacity
  <1>1. IInv /\ TicketsDiffer /\ SeedsNeverAsk /\ [Next]_vars => [AskedWithin]_vars
    BY ServedStep DEF Served
  <1> QED BY <1>1, Invariance, TicketsInvariant, SeedsInvariant, PTL DEF Spec, AskedWithinCapacity, AskedWithin

\* The waiting list is served in its order and at once, by whichever operation
\* frees the seat or the slot.
THEOREM QueueIsAlwaysServed == Spec => QueueIsServed
  <1>1. IInv /\ TicketsDiffer /\ SeedsNeverAsk /\ [Next]_vars => [InOrderOfTheQueue /\ NoIdleSlot]_vars
    BY ServedStep DEF Served
  <1> QED BY <1>1, Invariance, TicketsInvariant, SeedsInvariant, PTL
          DEF Spec, QueueIsServed, InOrderOfTheQueue, NoIdleSlot
====
