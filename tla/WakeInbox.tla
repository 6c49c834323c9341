----------------------------- MODULE WakeInbox -----------------------------
(***************************************************************************)
(* The durable inbox and outbox of the resident agent (wake/store.py).     *)
(* Each operation is one transaction; none of them looks at the status it  *)
(* changes.                                                                *)
(***************************************************************************)
EXTENDS Integers

CONSTANTS
    Messages,     \* messages somebody may leave
    MaxReplies    \* bound: replies counted per message

ASSUME RepliesBound == MaxReplies \in Nat

VARIABLES
    inbox,     \* wake_inbox.status, "none" before post()
    replies    \* message -> outbox rows that answer it

InboxInit ==
    /\ inbox = [m \in Messages |-> "none"]
    /\ replies = [m \in Messages |-> 0]

InboxTypeOK ==
    /\ inbox \in [Messages -> {"none", "pending", "done", "failed"}]
    /\ replies \in [Messages -> 0 .. MaxReplies]

pending == {m \in Messages : inbox[m] = "pending"}

post(m) ==
    /\ inbox[m] = "none"
    /\ inbox' = [inbox EXCEPT ![m] = "pending"]
    /\ UNCHANGED replies

\* Slip: the reply is stored and the message stays pending.
RespondOpen(m) ==
    /\ replies' = [replies EXCEPT ![m] = IF @ < MaxReplies THEN @ + 1 ELSE @]
    /\ UNCHANGED inbox

\* The outbox row and the new status, in one transaction.
respond(m) ==
    /\ replies' = [replies EXCEPT ![m] = IF @ < MaxReplies THEN @ + 1 ELSE @]
    /\ inbox' = [inbox EXCEPT ![m] = "done"]

mark_failed(m) ==
    /\ inbox' = [inbox EXCEPT ![m] = "failed"]
    /\ UNCHANGED replies

=============================================================================
