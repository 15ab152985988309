------------------------------- MODULE Fanout -------------------------------
(***************************************************************************)
(* Who is told what about a committed change, and who may not want to be:  *)
(* the tables of fanout.ts, blocked-counterpart.ts and                     *)
(* notification-category.ts as data.                                       *)
(*                                                                         *)
(* An outbox row is a record: its id, its event type, the people its       *)
(* payload names (to), the guests of a cancelled activity and the one who  *)
(* wrote or asked (sender).  A notification has the row it came from as    *)
(* its payload, and a dedupe_key made of the row's id and the recipient's  *)
(* part in it.                                                             *)
(***************************************************************************)
EXTENDS Sequences, Functions, TLC

CONSTANT None

\* planNotifications, the event types with a fixed list of recipients.
Recipients ==
  ("participation.requested" :> << <<"host", "PARTICIPATION_REQUESTED_HOST">>,
                                   <<"guest", "PARTICIPATION_REQUESTED_GUEST">> >>) @@
  ("participation.accepted" :> << <<"guest", "PARTICIPATION_ACCEPTED">> >>) @@
  ("participation.rejected" :> << <<"guest", "PARTICIPATION_REJECTED">> >>) @@
  ("participation.expired" :> << <<"guest", "PARTICIPATION_EXPIRED">> >>) @@
  ("participation.cancelled" :> << <<"host", "PARTICIPATION_CANCELLED_HOST">> >>) @@
  ("participation.no_show" :> << <<"guest", "NO_SHOW_RECORDED">> >>) @@
  ("participation.no_show_dispute_offer" :> << <<"guest", "NO_SHOW_DISPUTE_OFFER">> >>) @@
  ("no_show.host_absent_reported" :> << <<"host", "HOST_ABSENT_REPORTED">> >>) @@
  ("no_show.claim_decided" :> << <<"recipient", "NO_SHOW_CLAIM_DECIDED">> >>) @@
  ("waitlist.promoted" :> << <<"guest", "WAITLIST_PROMOTED_GUEST">>,
                             <<"host", "WAITLIST_PROMOTED_HOST">> >>) @@
  ("direct.message_sent" :> << <<"recipient", "DIRECT_MESSAGE_RECEIVED">> >>) @@
  ("direct.message_seen" :> << <<"sender", "DIRECT_MESSAGE_SEEN">> >>) @@
  ("delivery.counterpart_blocked" :> << <<"sender", "COUNTERPART_BLOCKED_BOT">> >>) @@
  ("event.reminder_guest" :> << <<"guest", "EVENT_REMINDER_GUEST">> >>) @@
  ("event.reminder_host" :> << <<"host", "EVENT_REMINDER_HOST">> >>) @@
  ("event.attendance_prompt" :> << <<"host", "EVENT_ATTENDANCE_PROMPT">> >>) @@
  ("review.window_open" :> << <<"host", "REVIEW_WINDOW_OPEN">>,
                              <<"guest", "REVIEW_WINDOW_OPEN">> >>) @@
  ("review.revealed" :> << <<"host", "REVIEW_REVEALED">>, <<"guest", "REVIEW_REVEALED">> >>) @@
  ("moderation.content_hidden" :> << <<"owner", "CONTENT_HIDDEN">> >>) @@
  ("moderation.content_restored" :> << <<"owner", "CONTENT_RESTORED">> >>) @@
  ("user.blocked" :> << <<"user", "ACCOUNT_BLOCKED">> >>) @@
  ("referral.qualified" :> << <<"referrer", "REFERRAL_QUALIFIED_REFERRER">>,
                              <<"referred", "REFERRAL_QUALIFIED_REFERRED">> >>) @@
  ("host.settled" :> << <<"host", "HOST_SETTLED">> >>) @@
  ("economy.comeback_granted" :> << <<"user", "COMEBACK_GRANTED">> >>) @@
  ("profile.gender_requested" :> << <<"user", "PROFILE_GENDER_REQUEST">> >>)

Notification(row, key, template, u) ==
  [dedupeKey |-> row.id \o ":" \o key, row |-> row, template |-> template, to |-> u]

\* A referrer who has reached the cap is told so.
TemplateFor(row, entry) ==
  IF entry[2] = "REFERRAL_QUALIFIED_REFERRER" /\ row.capped
  THEN "REFERRAL_QUALIFIED_REFERRER_CAPPED" ELSE entry[2]

\* A party the payload does not name is left out; an event type nobody is told
\* about plans nothing.
planNotifications(row) ==
  IF row.type = "event.cancelled_by_host"
  THEN [i \in DOMAIN row.guests |->
          Notification(row, row.guests[i].id, "EVENT_CANCELLED", row.guests[i].user)]
  ELSE IF row.type \notin DOMAIN Recipients THEN <<>>
  ELSE LET named == SelectSeq(Recipients[row.type], LAMBDA e : e[1] \in DOMAIN row.to)
       IN [i \in DOMAIN named |->
             Notification(row, named[i][1], TemplateFor(row, named[i]), row.to[named[i][1]])]

\* Templates somebody may have switched off, by preference.
Categories ==
  [events |->
     {"PARTICIPATION_REQUESTED_HOST", "PARTICIPATION_REQUESTED_GUEST",
      "PARTICIPATION_ACCEPTED", "PARTICIPATION_REJECTED", "PARTICIPATION_EXPIRED",
      "WAITLIST_PROMOTED_GUEST", "WAITLIST_PROMOTED_HOST", "EVENT_CANCELLED",
      "EVENT_REMINDER_GUEST", "EVENT_REMINDER_HOST", "EVENT_ATTENDANCE_PROMPT",
      "REVIEW_WINDOW_OPEN", "REVIEW_REVEALED"},
   chat |-> {"DIRECT_MESSAGE_RECEIVED", "DIRECT_MESSAGE_SEEN"}]

Preference == DOMAIN Categories
notificationCategory(n) == {c \in Preference : n.template \in Categories[c]}

\* REASON_BY_TEMPLATE: the templates with which one side of an activity writes to
\* the other, and who that side is.
senderOf(n) ==
  CASE n.template = "PARTICIPATION_REQUESTED_HOST" ->
         IF "guest" \in DOMAIN n.row.to THEN n.row.to["guest"] ELSE None
    [] n.template \in {"DIRECT_MESSAGE_RECEIVED", "PARTICIPATION_ACCEPTED"} -> n.row.sender
    [] OTHER -> None

\* The row that tells the sender, unless nobody real is there to be told.
blockedCounterpartEvent(n, seeds) ==
  IF senderOf(n) \in seeds \cup {None, n.to} THEN None
  ELSE [id |-> "blocked " \o n.dedupeKey, type |-> "delivery.counterpart_blocked",
        to |-> [sender |-> senderOf(n)]]
=============================================================================
