----------------------------- MODULE VestaTasks -----------------------------
(***************************************************************************)
(* The states of a Vesta task and the moves the task store allows          *)
(* (vesta/runtime.py).                                                     *)
(***************************************************************************)

TASK_STATES ==
    {"RECEIVED", "AUTHENTICATED", "PLANNED", "AUTHORIZED", "WAITING_APPROVAL",
     "APPROVED", "EXECUTING", "VERIFYING", "RECOVERING", "COMPLETED",
     "DENIED", "QUARANTINED"}

_ALLOWED_TRANSITIONS ==
    [RECEIVED         |-> {"AUTHENTICATED", "DENIED", "QUARANTINED"},
     AUTHENTICATED    |-> {"PLANNED", "DENIED", "QUARANTINED"},
     PLANNED          |-> {"AUTHORIZED", "WAITING_APPROVAL", "DENIED", "QUARANTINED"},
     AUTHORIZED       |-> {"APPROVED", "EXECUTING", "DENIED", "QUARANTINED"},
     WAITING_APPROVAL |-> {"APPROVED", "DENIED", "QUARANTINED"},
     APPROVED         |-> {"EXECUTING", "DENIED", "QUARANTINED"},
     EXECUTING        |-> {"VERIFYING", "RECOVERING", "QUARANTINED"},
     VERIFYING        |-> {"COMPLETED", "RECOVERING", "QUARANTINED"},
     RECOVERING       |-> {"COMPLETED", "QUARANTINED"},
     COMPLETED        |-> {},
     DENIED           |-> {},
     QUARANTINED      |-> {}]

_RECOVERABLE_STATES == {"EXECUTING", "VERIFYING", "RECOVERING"}

TERMINAL_TASK_STATES == {"COMPLETED", "DENIED", "QUARANTINED"}

\* The watchdog's third class: the task is neither terminal nor in flight.
Dangling(state) == state \notin TERMINAL_TASK_STATES \cup _RECOVERABLE_STATES

\* transition() refuses every other move; a missing row ("none") has none.
CanMove(from, to) ==
    from \in DOMAIN _ALLOWED_TRANSITIONS /\ to \in _ALLOWED_TRANSITIONS[from]

=============================================================================
