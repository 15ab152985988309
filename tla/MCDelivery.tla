----------------------------- MODULE MCDelivery -----------------------------
(* Small instances of Delivery for TLC. *)
EXTENDS Delivery

CONSTANTS reader, writer, seed, stray, p1, p2

\* A message, a cancellation and a row nobody is told about.  One of the guests is a
\* seed and one has no Telegram link.
Message == [id |-> "message", type |-> "direct.message_sent",
            to |-> [recipient |-> reader], sender |-> writer]
Guest(i, u) == [id |-> i, user |-> u]
Cancelled == [id |-> "cancelled", type |-> "event.cancelled_by_host",
              guests |-> <<Guest("a", reader), Guest("b", seed), Guest("c", stray)>>]
Published == [id |-> "published", type |-> "event.published", to |-> [host |-> reader]]

Rows == {Message, Cancelled, Published}
Users == {reader, writer, seed, stray}
Passes == {p1, p2}
Seeds == {seed}
Strays == {seed, stray}
OnePass == {p1}
OneRow == {Message}
Nobody == {}
Strange == {"COUNTERPART_BLOCKED_BOT"}
=============================================================================
