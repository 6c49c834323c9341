---------------------------- MODULE MissionStore ----------------------------
(***************************************************************************)
(* The mission store (mission/store.py) as it runs: every write opens a    *)
(* SQLite write transaction (BEGIN IMMEDIATE, so one writer at a time over *)
(* all processes), runs its step against the tables, appends the matching  *)
(* event to the audit chain, a different database, and only then commits.  *)
(* Each of the three is a step here, and the process may die or the        *)
(* database may fail between any two of them.                              *)
(*                                                                         *)
(* The missions row and the latest versions are kept per mission; the      *)
(* append-only rows of all tables (missions, mission_versions,             *)
(* mission_transitions) are kept as one sequence `log` in commit order,    *)
(* each row standing for the event that evidences it and, as a history     *)
(* field, for the chain position where that event was appended.            *)
(***************************************************************************)
EXTENDS MissionStates, FiniteSets

CONSTANTS
    Missions,   \* mission ids
    Anchored,   \* TRUE when the chain is an AnchoredAuditChain
    MaxChain    \* bound: events the chain may hold

ASSUME AnchoredAssumption == Anchored \in BOOLEAN
ASSUME MaxChainAssumption == MaxChain \in Nat

VARIABLES
    db,     \* mission -> its committed row and latest versions
    log,    \* committed append-only rows, in commit order: [event, at]
    txn,    \* the open write transaction, or Idle
    chain,  \* events on the audit chain
    gaps    \* events chained whose COMMIT failed or never came (auxiliary)

vars == <<db, log, txn, chain, gaps>>

NoRow == [state |-> "none", resume |-> None, latest |-> [k \in VersionKind |-> None]]

Approvers == Operators \cup Strangers \cup {None}

Created(m) == [type |-> "mission.created", mission |-> m]

Versioned(m, sha) == [type |-> "mission.version", mission |-> m, sha |-> sha]

Moved(m, from, to, actor, approver) ==
    [type |-> "mission.transition", mission |-> m, from |-> from, to |-> to,
     actor |-> actor, approver |-> approver]

Idle == [phase |-> "idle"]

Init ==
    /\ db = [m \in Missions |-> NoRow]
    /\ log = <<>>
    /\ txn = Idle
    /\ chain = <<>>
    /\ gaps = 0

-----------------------------------------------------------------------------
(* BEGIN IMMEDIATE and the step: what the transaction will write.  A call   *)
(* the step refuses, or that writes nothing, changes nothing and is no      *)
(* action here.                                                             *)

Open(m, row, event) ==
    /\ txn = Idle
    /\ Len(chain) < MaxChain
    /\ txn' = [phase |-> "stepped", mission |-> m, row |-> row,
               event |-> event, at |-> 0]
    /\ UNCHANGED <<db, log, chain, gaps>>

\* create() draws a fresh uuid: no earlier attempt ever used this id.
create(m) ==
    /\ db[m].state = "none"
    /\ \A i \in DOMAIN chain : chain[i].mission # m
    /\ Open(m, [db[m] EXCEPT !.state = "DRAFT"], Created(m))

add_version(m, kind, body) ==
    LET row == db[m]
        sha == version_sha256(kind, ParentSha(row.latest, kind), body)
    IN  /\ row.state # "none"
        /\ MayAddVersion(row.state, row.latest, kind, body)
        /\ Open(m, [row EXCEPT !.latest[kind] = sha], Versioned(m, sha))

\* Slip: resume_state is left as it was.
TransitionKeepsResume(m, target, actor, approver) ==
    LET row == db[m]
    IN  /\ row.state # "none"
        /\ MayTransition(row.state, row.resume, row.latest, target, actor, approver)
        /\ Open(m, [row EXCEPT !.state = target],
                   Moved(m, row.state, target, actor, approver))

transition(m, target, actor, approver) ==
    LET row == db[m]
    IN  /\ row.state # "none"
        /\ MayTransition(row.state, row.resume, row.latest, target, actor, approver)
        /\ Open(m, [row EXCEPT !.state = target,
                               !.resume = ResumeAfter(row.state, target)],
                   Moved(m, row.state, target, actor, approver))

-----------------------------------------------------------------------------
(* The rest of _atomic.                                                     *)

\* The chain takes the event.
ChainAppend ==
    /\ txn.phase = "stepped"
    /\ chain' = Append(chain, txn.event)
    /\ txn' = [txn EXCEPT !.phase = "chained", !.at = Len(chain) + 1]
    /\ UNCHANGED <<db, log, gaps>>

\* append() raises before it inserts (keyless, migrating or blocked chain).
ChainRefuses ==
    /\ txn.phase = "stepped"
    /\ txn' = Idle
    /\ UNCHANGED <<db, log, chain, gaps>>

\* append() raises after it inserted: AnchoredAuditChain re-anchors after the
\* insert, and a failure to sign or write the anchor surfaces from append().
AnchorFails ==
    /\ Anchored
    /\ txn.phase = "stepped"
    /\ chain' = Append(chain, txn.event)
    /\ txn' = Idle
    /\ UNCHANGED <<db, log, gaps>>

\* Slip: the commit does not wait for the chain.
CommitEarly ==
    /\ txn.phase \in {"stepped", "chained"}
    /\ db' = [db EXCEPT ![txn.mission] = txn.row]
    /\ log' = Append(log, [event |-> txn.event, at |-> txn.at])
    /\ txn' = Idle
    /\ UNCHANGED <<chain, gaps>>

Commit ==
    /\ txn.phase = "chained"
    /\ db' = [db EXCEPT ![txn.mission] = txn.row]
    /\ log' = Append(log, [event |-> txn.event, at |-> txn.at])
    /\ txn' = Idle
    /\ UNCHANGED <<chain, gaps>>

\* COMMIT fails, or the process dies: SQLite discards the transaction.
Abort ==
    /\ txn # Idle
    /\ gaps' = IF txn.phase = "chained" THEN gaps + 1 ELSE gaps
    /\ txn' = Idle
    /\ UNCHANGED <<db, log, chain>>

Next ==
    \/ \E m \in Missions : create(m)
    \/ \E m \in Missions, kind \in VersionKind, body \in Bodies : add_version(m, kind, body)
    \/ \E m \in Missions, target \in MissionState, actor \in Actors, approver \in Approvers :
          transition(m, target, actor, approver)
    \/ ChainAppend
    \/ ChainRefuses
    \/ AnchorFails
    \/ Commit
    \/ Abort

Spec == Init /\ [][Next]_vars

-----------------------------------------------------------------------------
Row == [state : MissionState \cup {"none"}, resume : WorkStates \cup {None}, latest : Latest]

Sha == BlueprintSha \cup PlanSha \cup GraphSha

Event ==
    [type : {"mission.created"}, mission : Missions]
      \cup [type : {"mission.version"}, mission : Missions, sha : Sha]
      \cup [type : {"mission.transition"}, mission : Missions, from : MissionState,
            to : MissionState, actor : Actors, approver : Approvers]

TypeOK ==
    /\ db \in [Missions -> Row]
    /\ log \in Seq([event : Event, at : Nat])
    /\ chain \in Seq(Event)
    /\ gaps \in Nat
    /\ txn \in {Idle} \cup
         [phase : {"stepped", "chained"}, mission : Missions, row : Row, event : Event, at : Nat]

(***************************************************************************)
(* A mission transition that cannot be evidenced does not happen           *)
(* (store.py 5-10): whatever fails, every committed row has its own event  *)
(* on the audit chain, and the chain holds them in commit order.           *)
(***************************************************************************)
StoreEvidenced ==
    /\ \A i \in DOMAIN log :
          log[i].at \in DOMAIN chain /\ chain[log[i].at] = log[i].event
    /\ \A i, j \in DOMAIN log : i < j => log[i].at < log[j].at

(***************************************************************************)
(* "One gap remains" (store.py 11-13): an event the chain holds and the    *)
(* store does not belongs to a COMMIT that failed, or to the transaction   *)
(* still open.                                                             *)
(***************************************************************************)
OneGapOnly ==
    Len(chain) = Len(log) + gaps + (IF txn.phase = "chained" THEN 1 ELSE 0)

(* What the open transaction's event makes of a row.                        *)
Image(row, e) ==
    CASE e.type = "mission.created" -> [row EXCEPT !.state = "DRAFT"]
      [] e.type = "mission.version" -> [row EXCEPT !.latest[e.sha.kind] = e.sha]
      [] e.type = "mission.transition" ->
             [row EXCEPT !.state = e.to, !.resume = ResumeAfter(row.state, e.to)]

(***************************************************************************)
(* The open transaction was decided on the rows it will replace: no writer *)
(* slipped in between its reads and its commit (BEGIN IMMEDIATE).  This is *)
(* the invariant the refinement of the spine rests on.                     *)
(***************************************************************************)
StepStillValid ==
    txn # Idle =>
        LET row == db[txn.mission]
            e   == txn.event
        IN  /\ e.mission = txn.mission
            /\ txn.row = Image(row, e)
            /\ e.type = "mission.created" => row.state = "none"
            /\ e.type # "mission.created" => row.state # "none"
            /\ e.type = "mission.version" =>
                  /\ MayAddVersion(row.state, row.latest, e.sha.kind, e.sha.body)
                  /\ e.sha.parent = ParentSha(row.latest, e.sha.kind)
            /\ e.type = "mission.transition" =>
                  /\ e.from = row.state
                  /\ MayTransition(row.state, row.resume, row.latest,
                                   e.to, e.actor, e.approver)

-----------------------------------------------------------------------------
(* The spine's history variables, read off the log.                         *)
Moves(m) ==
    {i \in DOMAIN log : log[i].event.type = "mission.transition" /\ log[i].event.mission = m}

\* The rows that give the present build its verdict, or void it.
Judging(e) ==
    \/ e.from = "VERIFYING" /\ e.to \in GATE_VERDICTS
    \/ e.to = "BUILDING"

JudgingRows(m) == {i \in Moves(m) : Judging(log[i].event)}

\* At most one verdict stands: the latest judging row's, if it gave one.
LatestVerdicts(m) ==
    {v \in Verdict : \E i \in JudgingRows(m) :
        /\ \A j \in JudgingRows(m) : j <= i
        /\ v = [to |-> log[i].event.to, actor |-> log[i].event.actor]}

VerdictOf(m) == IF LatestVerdicts(m) = {} THEN None ELSE CHOOSE v \in LatestVerdicts(m) : TRUE

CrossedBy(m) ==
    {g \in HUMAN_GATED : \E i \in Moves(m) :
        <<log[i].event.from, log[i].event.to>> = g /\ log[i].event.approver \in Operators}

Spine(m) == INSTANCE MissionSpine WITH
    state <- db[m].state, resume <- db[m].resume, latest <- db[m].latest,
    verdict <- VerdictOf(m), crossed <- CrossedBy(m)

SpineStep(m) == Spine(m)!Next \/ UNCHANGED Spine(m)!vars

(***************************************************************************)
(* Transactions, chain failures and crashes are invisible in the tables:   *)
(* every step of the store is, for every mission, a step of the spine or   *)
(* no step at all.                                                         *)
(***************************************************************************)
SpineSteps == [][\A m \in Missions : SpineStep(m)]_vars
=============================================================================
