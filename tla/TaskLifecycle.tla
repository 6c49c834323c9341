--------------------------- MODULE TaskLifecycle ---------------------------
(***************************************************************************)
(* The event-sourced task (tasks/lifecycle.py, tasks/events.py) and its    *)
(* replay (replay/engine.py).  A write validates against the projection,   *)
(* appends to the audit chain, and then commits the event row and the      *)
(* projection in one transaction.                                          *)
(*                                                                         *)
(* Only events that move the state are kept: an informational one repeats  *)
(* the current state, and replay_state() skips a repeated state.           *)
(***************************************************************************)
EXTENDS Naturals, Sequences

CONSTANTS
    TaskIds,
    MaxFaults    \* bound: faults of the stores, acts of the operator, deaths

ASSUME FaultsAssumption == MaxFaults \in Nat /\ TaskIds # {}

VARIABLES
    row,      \* id -> unified_tasks.state, "none" before create()
    log,      \* id -> its task_events rows: [state, seq], seq the place on the chain or 0
    chain,    \* id -> the states of its events on the audit chain
    faults    \* faults so far

taskVars == <<row, log, chain, faults>>

_ALLOWED_TRANSITIONS ==
    [none        |-> {},
     CREATED     |-> {"PLANNED", "DENIED", "QUARANTINED"},
     PLANNED     |-> {"EXECUTING", "DENIED", "QUARANTINED"},
     EXECUTING   |-> {"VERIFYING", "FAILED", "QUARANTINED"},
     VERIFYING   |-> {"COMPLETED", "FAILED", "QUARANTINED"},
     COMPLETED   |-> {},
     FAILED      |-> {},
     QUARANTINED |-> {},
     DENIED      |-> {}]

TASK_STATES == DOMAIN _ALLOWED_TRANSITIONS \ {"none"}
TERMINAL == {s \in TASK_STATES : _ALLOWED_TRANSITIONS[s] = {}}

TaskInit ==
    /\ row = [i \in TaskIds |-> "none"]
    /\ log = [i \in TaskIds |-> <<>>]
    /\ chain = [i \in TaskIds |-> <<>>]
    /\ faults = 0

Fault == faults < MaxFaults /\ faults' = faults + 1

-----------------------------------------------------------------------------
(* Writes.                                                                  *)

\* The transaction commits.  If append() raised, the row has no audit_seq, whether
\* the event is on the chain or not.
Recorded(i, s) ==
    /\ row' = [row EXCEPT ![i] = s]
    /\ \/ /\ chain' = [chain EXCEPT ![i] = Append(@, s)]
          /\ log' = [log EXCEPT ![i] = Append(@, [state |-> s, seq |-> Len(chain[i]) + 1])]
          /\ UNCHANGED faults
       \/ /\ Fault
          /\ chain' \in {chain, [chain EXCEPT ![i] = Append(@, s)]}
          /\ log' = [log EXCEPT ![i] = Append(@, [state |-> s, seq |-> 0])]

\* It does not, before the event is on the chain or after.
NotRecorded(i, s) ==
    /\ Fault
    /\ chain' \in {chain, [chain EXCEPT ![i] = Append(@, s)]}
    /\ UNCHANGED <<row, log>>

validate_transition(from, to) == to \in _ALLOWED_TRANSITIONS[from]

create(i) == row[i] = "none" /\ Recorded(i, "CREATED")

\* create() for an id that is taken, or whose transaction fails.
CreateFails(i) ==
    \/ row[i] # "none" /\ UNCHANGED taskVars
    \/ row[i] = "none" /\ NotRecorded(i, "CREATED")

\* Slip: the move is not checked against the projection.
MoveUnchecked(i, s) == row[i] # "none" /\ Recorded(i, s)

transition(i, s) == validate_transition(row[i], s) /\ Recorded(i, s)

\* An illegal move or an unknown task raises before anything is written.
TransitionFails(i, s) ==
    \/ ~validate_transition(row[i], s) /\ UNCHANGED taskVars
    \/ validate_transition(row[i], s) /\ NotRecorded(i, s)

-----------------------------------------------------------------------------
(* Replay.                                                                  *)

\* replay_state(): whether the events make a legal walk that ends in the row.
Legal(rows) ==
    /\ rows[1].state = "CREATED"
    /\ \A k \in 1 .. Len(rows) - 1 :
        LET from == rows[k].state
            to == rows[k + 1].state
        IN from # to => validate_transition(from, to)

replay_state(i) ==
    [legal      |-> log[i] = <<>> \/ Legal(log[i]),
     consistent |-> row[i] = IF log[i] = <<>> THEN "none" ELSE log[i][Len(log[i])].state]

\* reconcile(): the tasks whose record contradicts itself.
Divergences ==
    {i \in TaskIds : ~replay_state(i).legal \/ ~replay_state(i).consistent}

\* The rows that carry an audit_seq name their own events on the chain, in order.
Mirrored(i) ==
    LET on == {k \in 1 .. Len(log[i]) : log[i][k].seq # 0} IN
    /\ \A k \in on : chain[i][log[i][k].seq] = log[i][k].state
    /\ \A k, m \in on : k < m => log[i][k].seq < log[i][m].seq

TaskTypeOK ==
    /\ row \in [TaskIds -> TASK_STATES \cup {"none"}]
    /\ log \in [TaskIds -> Seq([state : TASK_STATES, seq : Nat])]
    /\ chain \in [TaskIds -> Seq(TASK_STATES)]
    /\ faults \in 0 .. MaxFaults

=============================================================================
