------------------------------ MODULE Notifier ------------------------------
(***************************************************************************)
(* What the notifiers of src/dispatcher/notifier.py answer, and what the   *)
(* hub records of an answer.  A setup s says whether the credentials are   *)
(* set, which numbers are placeholders (the block that is reserved for     *)
(* fiction), and what the service answers: it accepts the message, it      *)
(* refuses it, it cannot be reached, or it accepts and its answer comes    *)
(* too late or never, which the caller cannot tell from the one before.    *)
(***************************************************************************)

Answers == {"accepts", "refuses", "unreachable", "lost"}
Setups  == [set : BOOLEAN, to : {"real", "fictional"}, from : {"real", "fictional"},
            answer : Answers]

MutPostable(s) == s.set    \* placeholder numbers are posted to

\* Nothing is posted with placeholder credentials or numbers.
Postable(s) == s.set /\ s.to = "real" /\ s.from = "real"

\* The "status" of the result, by SMS and by WhatsApp alike.
Status(s) == IF Postable(s) /\ s.answer = "accepts" THEN "sent" ELSE "failed"

\* NOTIFY_DELIVERED of hub.py
Delivered == {"sent", "delivered", "shown"}

\* What the hub appends: for a status, for an exception, for a notifier that
\* reports nothing.  Only a delivery names its transport.
Outcome(res) ==
  [kind      |-> IF res \in Delivered \cup {"nothing"} THEN "human.notified" ELSE "human.notify_failed",
   transport |-> IF res = "nothing" THEN "not reported" ELSE IF res \in Delivered THEN res ELSE "none"]

\* The message went out to a person; and it did, but the caller was not told.
Reached(s) == s.set /\ s.to = "real" /\ s.from = "real" /\ s.answer \in {"accepts", "lost"}
Lost(s)    == Reached(s) /\ s.answer = "lost"
=============================================================================
