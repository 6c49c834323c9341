--------------------------- MODULE AgentRunProofs ---------------------------
(***************************************************************************)
(* The safety of handle(), for any number of runs and tasks, any plans,    *)
(* grants, retries and faults.                                             *)
(***************************************************************************)
EXTENDS AgentRun, NaturalsInduction, WellFoundedInduction, TLAPS

-----------------------------------------------------------------------------
(* The inductive invariant.                                                 *)

(***************************************************************************)
(* The task store's records of one task: the events are a legal walk that  *)
(* ends in the projection, and what they name on the chain is there.       *)
(***************************************************************************)
TaskInv(i) ==
    /\ log[i] = <<>> <=> row[i] = "none"
    /\ log[i] # <<>> => Legal(log[i]) /\ row[i] = log[i][Len(log[i])].state
    /\ Mirrored(i)
    /\ \A k \in 1 .. Len(log[i]) : log[i][k].seq <= Len(chain[i])
    /\ Len(chain[i]) <= Len(log[i]) + faults

LocalSteps == {"moie", "intent", "planning", "build", "tools", "record", "failing"}
DelegatedSteps == {"available", "inversion", "compose", "worker"}

\* The steps of a run that is still undecided, and of one that went on.
Undecided(r) ==
    \/ pc[r] \in {"idle", "create", "moie", "intent", "planning", "available", "inversion",
                  "deny", "decide"}
    \/ pc[r] = "PLANNED" /\ run[r].kind = "local"
Proceeds(r) ==
    \/ pc[r] \in {"build", "EXECUTING", "execution", "tools", "record", "compose", "worker",
                  "VERIFYING", "final", "verification"}
    \/ pc[r] = "PLANNED" /\ run[r].kind = "delegated"
Executed == {"tools", "record", "compose", "worker", "VERIFYING", "final", "verification"}

(***************************************************************************)
(* Control: what a step says of the path taken, of the verdict so far and  *)
(* of the work done.                                                       *)
(***************************************************************************)
Control(r) ==
    /\ pc[r] \in LocalSteps => run[r].kind = "local"
    /\ pc[r] \in DelegatedSteps => run[r].kind = "delegated"
    /\ pc[r] \in {"idle", "create"} => ~made[r]
    /\ pc[r] \in {"idle", "create", "moie", "intent", "planning", "available", "inversion", "PLANNED",
                 "build", "EXECUTING", "execution", "tools", "compose", "worker"}
          => result[r] = "none"
    /\ pc[r] = "deny" => result[r] \in {"BLOCKED", "UNAVAILABLE", "ERROR", "REVIEW"}
    /\ pc[r] = "decide" => result[r] \in {"none", "BLOCKED", "ERROR", "REVIEW"}
    /\ pc[r] \in {"record", "VERIFYING", "final", "verification"} => result[r] \in {"PASS", "FAIL"}
    /\ pc[r] = "failing" => result[r] = "ERROR"
    /\ pc[r] = "return" => result[r] # "none"
    /\ worked[r] # {} =>
          pc[r] \in {"tools", "record", "VERIFYING", "final", "verification", "failing",
                     "return", "raised"}

\* Evidence: no decision before "decide", one that lets the run go on after it.
Evidence(r) ==
    /\ Undecided(r) => spine[r].decision = "none"
    /\ Proceeds(r) => \/ spine[r].decision \in {"ALLOW", "REVIEW"}
                      \/ spine[r].decision = "none" /\ r \in hurt
    /\ pc[r] \in Executed => spine[r].execution \/ r \in hurt
    /\ worked[r] # {} =>
          /\ result[r] \notin {"BLOCKED", "REVIEW"}
          /\ spine[r].decision # "DENY"
          /\ spine[r].decision = "none" => r \in hurt
          /\ spine[r].execution \/ r \in hurt

(***************************************************************************)
(* Taint: the set holds every task so far that descends from an untrusted  *)
(* tool, the present one once such a tool of it ran or any with such an    *)
(* input, and what the operator approved covers nothing he did not.        *)
(***************************************************************************)
TaintClosed(g) ==
    /\ \A j \in 1 .. g.pos - 1 : PassesOn(g.plan[j], g.tainted) => j \in g.tainted
    /\ \A m \in 1 .. g.tool - 1 :
          /\ g.pos \in 1 .. Len(g.plan)
          /\ g.plan[g.pos].from \in g.tainted \/ g.plan[g.pos].tools[m] \in _TAINTED_TOOLS
          => g.pos \in g.tainted

Planning == {"idle", "create", "moie", "intent", "planning", "PLANNED", "decide", "build",
             "EXECUTING", "execution", "available", "inversion", "deny"}

Tainting(r) ==
    /\ pc[r] = "idle" => graph[r].approved = {}
    /\ graph[r].approved # {} => run[r].approve
    /\ pc[r] \in Planning => graph[r].pos = 1 /\ graph[r].tool = 1
    /\ pc[r] = "tools" => TaintClosed(graph[r]) /\ graph[r].pos \in 1 .. Len(graph[r].plan) + 1
    /\ \A k \in 1 .. Len(graph[r].plan) :
          (<<k, "vault_write">> \in worked[r] /\ Untrusted(graph[r].plan, k))
              => run[r].approve /\ "write_file" \in graph[r].approved

\* Told: the states of the task that fit where the run is.
Told(r) ==
    LET s == row[run[r].id] IN
    /\ pc[r] \in {"moie", "intent", "planning", "available", "inversion", "deny", "PLANNED"}
          => s = "CREATED"
    /\ pc[r] = "decide" /\ result[r] # "none" => s = "DENIED"
    /\ pc[r] = "decide" /\ result[r] = "none"
          => s = IF run[r].kind = "local" THEN "PLANNED" ELSE "CREATED"
    /\ pc[r] \in {"build", "EXECUTING"} => s = "PLANNED"
    /\ pc[r] \in {"execution", "tools", "record", "compose", "worker", "VERIFYING"}
          => s = "EXECUTING"
    /\ pc[r] = "final" => s = "VERIFYING"
    /\ pc[r] = "failing" => s \in {"CREATED", "PLANNED", "EXECUTING"}
    /\ pc[r] \in {"verification", "return", "done"} =>
          /\ result[r] = "PASS" => s = "COMPLETED"
          /\ result[r] = "FAIL" => s = "FAILED"
          /\ result[r] \in {"BLOCKED", "REVIEW", "UNAVAILABLE"} => s = "DENIED"
          /\ result[r] = "ERROR" => s \in {"DENIED", "FAILED", "CREATED", "PLANNED"}
          /\ result[r] # "none"
          /\ pc[r] = "done" => result[r] # "UNAVAILABLE"

Telling(r) == (made[r] /\ Alone(r) /\ r \notin hurt) => Told(r)

RunInv(r) == Control(r) /\ Evidence(r) /\ Tainting(r) /\ Telling(r)

IInv ==
    /\ TypeOK
    /\ \A i \in TaskIds : TaskInv(i)
    /\ \A r \in Runs : RunInv(r)

-----------------------------------------------------------------------------
(* The task store.                                                          *)

EventRow == [state : TASK_STATES, seq : Nat]

\* A move the lifecycle allows is to a state, from a task that exists.
LEMMA TransitionTypes ==
    ASSUME NEW from \in TASK_STATES \cup {"none"}, NEW to, validate_transition(from, to)
    PROVE  to \in TASK_STATES /\ from # "none"
  BY DEF validate_transition, _ALLOWED_TRANSITIONS, TASK_STATES

LEMMA StatesNamed ==
    /\ "none" \notin TASK_STATES
    /\ {"CREATED", "PLANNED", "EXECUTING", "VERIFYING", "COMPLETED", "FAILED", "DENIED"}
          \subseteq TASK_STATES
  BY DEF _ALLOWED_TRANSITIONS, TASK_STATES

\* One more row keeps a legal walk legal when the move to it is.
LEMMA WalkGrows ==
    ASSUME NEW rows \in Seq(EventRow), NEW e \in EventRow,
           \/ rows = <<>> /\ e.state = "CREATED"
           \/ rows # <<>> /\ Legal(rows) /\ validate_transition(rows[Len(rows)].state, e.state)
    PROVE  Legal(Append(rows, e))
<1> DEFINE grown == Append(rows, e)
<1>1. /\ Len(rows) \in Nat /\ Len(grown) = Len(rows) + 1
      /\ \A k \in 1 .. Len(rows) : grown[k] = rows[k]
      /\ grown[Len(rows) + 1] = e
  OBVIOUS
<1> HIDE DEF grown
<1>2. CASE rows = <<>> /\ e.state = "CREATED"
  <2>1. Len(rows) = 0
    BY <1>2
  <2> QED BY <1>1, <1>2, <2>1 DEF Legal, grown
<1>3. CASE rows # <<>> /\ Legal(rows) /\ validate_transition(rows[Len(rows)].state, e.state)
  <2>1. Len(rows) >= 1
    BY <1>3
  <2>2. grown[1].state = "CREATED"
    BY <1>1, <1>3, <2>1 DEF Legal
  <2>3. ASSUME NEW k \in 1 .. Len(grown) - 1, grown[k].state # grown[k + 1].state
        PROVE  validate_transition(grown[k].state, grown[k + 1].state)
    <3>1. CASE k = Len(rows)
      BY <1>1, <1>3, <2>1, <3>1
    <3>2. CASE k \in 1 .. Len(rows) - 1
      BY <1>1, <1>3, <2>3, <3>2 DEF Legal
    <3> QED BY <1>1, <3>1, <3>2
  <2> QED BY <2>2, <2>3 DEF Legal, grown
<1> QED BY <1>2, <1>3

\* Recorded(): the event and the projection commit together.
LEMMA RecordedKeeps ==
    ASSUME TaskTypeOK, \A i \in TaskIds : TaskInv(i),
           NEW i \in TaskIds, NEW s \in TASK_STATES, Recorded(i, s),
           \/ row[i] = "none" /\ s = "CREATED"
           \/ row[i] # "none" /\ validate_transition(row[i], s)
    PROVE  TaskTypeOK' /\ \A j \in TaskIds : TaskInv(j)'
<1> DEFINE e == [state |-> s, seq |-> IF faults' = faults THEN Len(chain[i]) + 1 ELSE 0]
<1>0. /\ log[i] \in Seq(EventRow) /\ chain[i] \in Seq(TASK_STATES) /\ TaskInv(i)
      /\ faults \in Nat /\ Len(chain[i]) \in Nat /\ Len(log[i]) \in Nat
  <2>1. log[i] \in Seq(EventRow) /\ chain[i] \in Seq(TASK_STATES)
    BY DEF TaskTypeOK, EventRow
  <2>2. faults \in Nat
    BY FaultsAssumption DEF TaskTypeOK
  <2> HIDE DEF TaskTypeOK
  <2> QED BY <2>1, <2>2
<1>1. /\ row' = [row EXCEPT ![i] = s]
      /\ log' = [log EXCEPT ![i] = Append(log[i], e)]
      /\ \/ faults' = faults /\ chain' = [chain EXCEPT ![i] = Append(chain[i], s)]
         \/ /\ faults' = faults + 1 /\ faults < MaxFaults
            /\ chain' \in {chain, [chain EXCEPT ![i] = Append(chain[i], s)]}
  BY <1>0 DEF Recorded, Fault
<1>2. e \in EventRow /\ e.state = s /\ e.seq = IF faults' = faults THEN Len(chain[i]) + 1 ELSE 0
  BY <1>0 DEF EventRow
<1> HIDE DEF e
<1>3. Append(log[i], e) \in Seq(EventRow) /\ Append(chain[i], s) \in Seq(TASK_STATES)
  BY <1>0, <1>2
<1>4. TaskTypeOK'
  <2>1. log' \in [TaskIds -> Seq(EventRow)] /\ chain' \in [TaskIds -> Seq(TASK_STATES)]
    BY <1>1, <1>3 DEF TaskTypeOK, EventRow
  <2>2. row' \in [TaskIds -> TASK_STATES \cup {"none"}] /\ faults' \in 0 .. MaxFaults
    BY <1>1, FaultsAssumption DEF TaskTypeOK
  <2> QED BY <2>1, <2>2 DEF TaskTypeOK, EventRow
<1>5. ASSUME NEW j \in TaskIds, j # i PROVE TaskInv(j)'
  <2>1. /\ row'[j] = row[j] /\ log'[j] = log[j] /\ chain'[j] = chain[j]
        /\ Len(chain[j]) \in Nat /\ Len(log[j]) \in Nat /\ faults \in Nat /\ faults' \in Nat
        /\ faults <= faults'
    BY <1>0, <1>1, <1>5 DEF TaskTypeOK
  <2> QED BY <2>1 DEF TaskInv, Mirrored
<1>6. TaskInv(i)'
  <2>1. row'[i] = s /\ log'[i] = Append(log[i], e)
    BY <1>1 DEF TaskTypeOK
  <2>2. /\ Len(log'[i]) = Len(log[i]) + 1 /\ log'[i][Len(log[i]) + 1] = e
        /\ \A k \in 1 .. Len(log[i]) : log'[i][k] = log[i][k]
        /\ log'[i] # <<>>
    BY <1>0, <1>2, <2>1
  <2>3. Legal(log'[i])
    <3>1. \/ log[i] = <<>> /\ e.state = "CREATED"
          \/ log[i] # <<>> /\ Legal(log[i])
             /\ validate_transition(log[i][Len(log[i])].state, e.state)
      BY <1>0, <1>2 DEF TaskInv
    <3> QED BY <1>0, <1>2, <2>1, <3>1, WalkGrows
  <2>4. \/ faults' = faults /\ chain'[i] = Append(chain[i], s)
        \/ faults' = faults + 1 /\ chain'[i] \in {chain[i], Append(chain[i], s)}
    BY <1>1 DEF TaskTypeOK
  <2>5. /\ Len(chain'[i]) \in Nat /\ Len(chain[i]) <= Len(chain'[i])
        /\ \A n \in 1 .. Len(chain[i]) : chain'[i][n] = chain[i][n]
        /\ faults' = faults => /\ Len(chain'[i]) = Len(chain[i]) + 1
                               /\ chain'[i][Len(chain[i]) + 1] = s
        /\ faults' # faults => Len(chain'[i]) <= Len(chain[i]) + 1 /\ faults' = faults + 1
    BY <1>0, <2>4
  <2>6. \A k \in 1 .. Len(log[i]) : log[i][k].seq \in Nat /\ log[i][k].seq <= Len(chain[i])
    <3>1. \A k \in 1 .. Len(log[i]) : log[i][k] \in EventRow
      BY <1>0
    <3>2. \A k \in 1 .. Len(log[i]) : log[i][k].seq <= Len(chain[i])
      BY <1>0 DEF TaskInv
    <3> QED BY <3>1, <3>2 DEF EventRow
  <2>10. /\ \A k \in 1 .. Len(log[i]) :
              log[i][k].seq # 0 => chain[i][log[i][k].seq] = log[i][k].state
         /\ \A k, m \in 1 .. Len(log[i]) :
              (log[i][k].seq # 0 /\ log[i][m].seq # 0 /\ k < m) => log[i][k].seq < log[i][m].seq
    BY <1>0 DEF TaskInv, Mirrored
  <2>7. Mirrored(i)'
    <3>1. ASSUME NEW k \in 1 .. Len(log'[i]), log'[i][k].seq # 0
          PROVE  chain'[i][log'[i][k].seq] = log'[i][k].state
      <4>1. CASE k = Len(log[i]) + 1
        BY <1>0, <1>2, <2>2, <2>5, <3>1, <4>1
      <4>2. CASE k \in 1 .. Len(log[i])
        <5>1. log'[i][k] = log[i][k] /\ log[i][k].seq \in 1 .. Len(chain[i])
          BY <1>0, <2>2, <2>6, <3>1, <4>2
        <5> QED BY <2>5, <2>10, <3>1, <4>2, <5>1
      <4> QED BY <1>0, <2>2, <4>1, <4>2
    <3>2. ASSUME NEW k \in 1 .. Len(log'[i]), NEW m \in 1 .. Len(log'[i]), k < m,
                 log'[i][k].seq # 0, log'[i][m].seq # 0
          PROVE  log'[i][k].seq < log'[i][m].seq
      <4>1. CASE m = Len(log[i]) + 1
        <5>1. k \in 1 .. Len(log[i]) /\ log'[i][k] = log[i][k] /\ log'[i][m] = e
          BY <1>0, <2>2, <3>2, <4>1
        <5>2. log[i][k].seq \in Nat /\ log[i][k].seq <= Len(chain[i]) /\ e.seq = Len(chain[i]) + 1
          BY <1>2, <2>6, <3>2, <5>1
        <5> QED BY <1>0, <5>1, <5>2
      <4>2. CASE m \in 1 .. Len(log[i])
        <5>1. k \in 1 .. Len(log[i]) /\ log'[i][k] = log[i][k] /\ log'[i][m] = log[i][m]
          BY <1>0, <2>2, <3>2, <4>2
        <5> QED BY <2>10, <3>2, <4>2, <5>1
      <4> QED BY <1>0, <2>2, <4>1, <4>2
    <3> QED BY <3>1, <3>2 DEF Mirrored
  <2>8. \A k \in 1 .. Len(log'[i]) : log'[i][k].seq <= Len(chain'[i])
    <3> SUFFICES ASSUME NEW k \in 1 .. Len(log'[i]) PROVE log'[i][k].seq <= Len(chain'[i])
      OBVIOUS
    <3>1. CASE k = Len(log[i]) + 1
      <4>1. log'[i][k] = e
        BY <2>2, <3>1
      <4> QED BY <1>0, <1>2, <2>5, <4>1
    <3>2. CASE k \in 1 .. Len(log[i])
      <4>1. log'[i][k] = log[i][k] /\ log[i][k].seq \in Nat /\ log[i][k].seq <= Len(chain[i])
        BY <2>2, <2>6, <3>2
      <4> QED BY <1>0, <2>5, <4>1
    <3> QED BY <1>0, <2>2, <3>1, <3>2
  <2>9. Len(chain'[i]) <= Len(log'[i]) + faults'
    BY <1>0, <2>2, <2>5 DEF TaskInv
  <2> QED BY <1>2, <2>1, <2>2, <2>3, <2>7, <2>8, <2>9, StatesNamed DEF TaskInv
<1> QED BY <1>4, <1>5, <1>6

\* A fault that writes nothing, or only the event on the chain.
LEMMA FaultKeeps ==
    ASSUME TaskTypeOK, \A i \in TaskIds : TaskInv(i), UNCHANGED <<row, log>>, Fault,
           NEW i \in TaskIds, NEW s \in TASK_STATES,
           chain' \in {chain, [chain EXCEPT ![i] = Append(@, s)]}
    PROVE  TaskTypeOK' /\ \A j \in TaskIds : TaskInv(j)'
<1>0. /\ chain[i] \in Seq(TASK_STATES) /\ faults \in Nat
      /\ faults' = faults + 1 /\ faults' \in 0 .. MaxFaults
  BY FaultsAssumption DEF TaskTypeOK, Fault
<1>1. /\ Append(chain[i], s) \in Seq(TASK_STATES)
      /\ Len(Append(chain[i], s)) = Len(chain[i]) + 1
      /\ \A n \in 1 .. Len(chain[i]) : Append(chain[i], s)[n] = chain[i][n]
  BY <1>0
<1>2. TaskTypeOK'
  <2>1. chain' \in [TaskIds -> Seq(TASK_STATES)]
    BY <1>1 DEF TaskTypeOK
  <2> QED BY <1>0, <2>1 DEF TaskTypeOK
<1>3. ASSUME NEW j \in TaskIds PROVE TaskInv(j)'
  <2>1. log[j] \in Seq(EventRow) /\ chain[j] \in Seq(TASK_STATES)
    BY DEF TaskTypeOK, EventRow
  <2>2. \/ chain'[j] = chain[j]
        \/ chain'[j] = Append(chain[j], s)
    BY DEF TaskTypeOK
  <2>3. /\ Len(chain[j]) <= Len(chain'[j]) /\ Len(chain'[j]) <= Len(chain[j]) + 1
        /\ Len(chain[j]) \in Nat /\ Len(chain'[j]) \in Nat
        /\ \A n \in 1 .. Len(chain[j]) : chain'[j][n] = chain[j][n]
    BY <2>1, <2>2
  <2>4. ASSUME NEW k \in 1 .. Len(log[j])
        PROVE  log[j][k].seq \in Nat /\ log[j][k].seq <= Len(chain[j])
    <3>1. log[j][k] \in EventRow
      BY <2>1
    <3> QED BY <3>1 DEF TaskInv, EventRow
  <2>5. /\ \A k \in 1 .. Len(log[j]) :
              log[j][k].seq # 0 => chain[j][log[j][k].seq] = log[j][k].state
        /\ \A k, m \in 1 .. Len(log[j]) :
              (log[j][k].seq # 0 /\ log[j][m].seq # 0 /\ k < m) => log[j][k].seq < log[j][m].seq
    BY DEF TaskInv, Mirrored
  <2>6. Mirrored(j)'
    <3>1. ASSUME NEW k \in 1 .. Len(log[j]), log[j][k].seq # 0
          PROVE  chain'[j][log[j][k].seq] = log[j][k].state
      <4>1. log[j][k].seq \in 1 .. Len(chain[j])
        BY <2>3, <2>4, <3>1
      <4> QED BY <2>3, <2>5, <3>1, <4>1
    <3> QED BY <2>5, <3>1 DEF Mirrored
  <2>7. \A k \in 1 .. Len(log[j]) : log[j][k].seq <= Len(chain'[j])
    BY <2>3, <2>4
  <2>8. Len(chain'[j]) <= Len(log[j]) + faults'
    <3>1. Len(log[j]) \in Nat
      BY <2>1
    <3>2. Len(chain[j]) <= Len(log[j]) + faults
      BY DEF TaskInv
    <3>3. \A a, b, c, d \in Nat : a <= b + 1 /\ b <= c + d => a <= c + (d + 1)
      OBVIOUS
    <3>4. faults' = faults + 1 /\ faults \in Nat
      BY <1>0
    <3>5. Len(chain'[j]) <= Len(log[j]) + (faults + 1)
      BY <2>3, <3>1, <3>2, <3>3, <3>4, Zenon
    <3> QED BY <3>4, <3>5, Zenon
  <2> QED BY <2>6, <2>7, <2>8 DEF TaskInv
<1> QED BY <1>2, <1>3

LEMMA StillKeeps ==
    ASSUME TaskTypeOK, \A i \in TaskIds : TaskInv(i), UNCHANGED <<row, log, chain>>,
           UNCHANGED faults \/ Fault
    PROVE  TaskTypeOK' /\ \A i \in TaskIds : TaskInv(i)'
<1>1. CASE UNCHANGED faults
  BY <1>1 DEF TaskTypeOK, TaskInv, Mirrored
<1>2. CASE Fault
  <2>1. PICK i \in TaskIds : TRUE
    BY FaultsAssumption
  <2> QED BY <1>2, <2>1, FaultKeeps, StatesNamed
<1> QED BY <1>1, <1>2

\* What a write of a state through the lifecycle does.
LEMMA EmitKeeps ==
    ASSUME TaskTypeOK, \A i \in TaskIds : TaskInv(i), NEW i \in TaskIds, NEW s \in TASK_STATES,
           transition(i, s) \/ TransitionFails(i, s)
    PROVE  TaskTypeOK' /\ \A j \in TaskIds : TaskInv(j)'
<1>0. row[i] \in TASK_STATES \cup {"none"}
  BY DEF TaskTypeOK
<1>1. CASE transition(i, s)
  <2>1. row[i] # "none" /\ validate_transition(row[i], s) /\ Recorded(i, s)
    BY <1>0, <1>1, TransitionTypes DEF transition
  <2> QED BY <2>1, RecordedKeeps
<1>2. CASE TransitionFails(i, s)
  <2>1. CASE UNCHANGED taskVars
    BY <2>1, StillKeeps DEF taskVars
  <2>2. CASE NotRecorded(i, s)
    BY <2>2, FaultKeeps DEF NotRecorded
  <2> QED BY <1>2, <2>1, <2>2 DEF TransitionFails
<1> QED BY <1>1, <1>2

LEMMA CreateKeeps ==
    ASSUME TaskTypeOK, \A i \in TaskIds : TaskInv(i), NEW i \in TaskIds,
           create(i) \/ CreateFails(i)
    PROVE  TaskTypeOK' /\ \A j \in TaskIds : TaskInv(j)'
<1>1. CASE create(i)
  BY <1>1, RecordedKeeps, StatesNamed DEF create
<1>2. CASE CreateFails(i)
  <2>1. CASE UNCHANGED taskVars
    BY <2>1, StillKeeps DEF taskVars
  <2>2. CASE NotRecorded(i, "CREATED")
    BY <2>2, FaultKeeps, StatesNamed DEF NotRecorded
  <2> QED BY <1>2, <2>1, <2>2 DEF CreateFails
<1> QED BY <1>1, <1>2

\* Every step of every run keeps the records of every task.
LEMMA TaskStep ==
    ASSUME TypeOK, \A i \in TaskIds : TaskInv(i), [Next]_vars
    PROVE  TaskTypeOK' /\ \A i \in TaskIds : TaskInv(i)'
<1>0. TaskTypeOK /\ \A r \in Runs : run[r].id \in TaskIds
  BY DEF TypeOK, RunRecord
<1>1. ASSUME UNCHANGED <<row, log, chain>>, UNCHANGED faults \/ Fault
      PROVE  TaskTypeOK' /\ \A i \in TaskIds : TaskInv(i)'
  BY <1>0, <1>1, StillKeeps
<1>2. ASSUME NEW r \in Runs, NEW s \in {"PLANNED", "EXECUTING", "VERIFYING", "COMPLETED", "FAILED",
                                       "DENIED"}, NEW to, _lifecycle_emit(r, s, to)
      PROVE  TaskTypeOK' /\ \A i \in TaskIds : TaskInv(i)'
  BY <1>0, <1>2, EmitKeeps, StatesNamed DEF _lifecycle_emit
<1>3. ASSUME NEW r \in Runs, Create(r)
      PROVE  TaskTypeOK' /\ \A i \in TaskIds : TaskInv(i)'
  BY <1>0, <1>3, CreateKeeps DEF Create
<1>4. ASSUME NEW r \in Runs,
             \/ Deny(r) \/ Failing(r) \/ Final(r)
             \/ \E s \in {"PLANNED", "EXECUTING", "VERIFYING"} : Emit(r, s)
      PROVE  TaskTypeOK' /\ \A i \in TaskIds : TaskInv(i)'
  BY <1>2, <1>4 DEF Deny, Failing, Final, Emit
<1>5. ASSUME NEW r \in Runs,
             \/ UnknownAgent(r) \/ Begin(r) \/ _quick_reject_gate(r) \/ Available(r)
             \/ _delegation_inversion_gate(r) \/ Intent(r) \/ Plan(r) \/ Build(r) \/ ToolFails(r)
             \/ ToolRuns(r) \/ NoTools(r) \/ Raises(r) \/ Compose(r) \/ Worker(r) \/ Return(r)
      PROVE  TaskTypeOK' /\ \A i \in TaskIds : TaskInv(i)'
  <2>1. UNCHANGED taskVars
    BY <1>5 DEF UnknownAgent, Begin, _quick_reject_gate, Available, _delegation_inversion_gate,
                Intent, Plan, Build, ToolFails, ToolRuns, NoTools, Raises, Compose, Worker,
                Return, Stops, Passes
  <2> QED BY <1>1, <2>1 DEF taskVars
<1>6. ASSUME NEW r \in Runs,
             Decide(r) \/ Vertebra(r, "execution") \/ Vertebra(r, "verification") \/ Record(r)
      PROVE  TaskTypeOK' /\ \A i \in TaskIds : TaskInv(i)'
  <2>1. UNCHANGED <<row, log, chain>> /\ (UNCHANGED faults \/ Fault)
    BY <1>6 DEF Decide, Vertebra, Record, Passes, _spine_append, taskVars
  <2> QED BY <1>1, <2>1
<1>7. CASE Switch \/ Dies
  BY <1>1, <1>7 DEF Switch, Dies
<1>8. CASE UNCHANGED vars
  BY <1>1, <1>8 DEF vars, taskVars
<1> QED BY <1>3, <1>4, <1>5, <1>6, <1>7, <1>8 DEF Next, Step

-----------------------------------------------------------------------------
(* Control and types of the runs.                                           *)

\* The steps that follow, on both paths.
LEMMA AfterLocal ==
    ASSUME NEW r \in Runs, run[r].kind = "local"
    PROVE  /\ pc[r] = "moie" => After(r) = "intent"
           /\ pc[r] = "intent" => After(r) = "planning"
           /\ pc[r] = "planning" => After(r) = "PLANNED"
           /\ pc[r] = "PLANNED" => After(r) = "decide"
           /\ pc[r] = "decide" => After(r) = "build"
           /\ pc[r] = "build" => After(r) = "EXECUTING"
           /\ pc[r] = "EXECUTING" => After(r) = "execution"
           /\ pc[r] = "execution" => After(r) = "tools"
           /\ pc[r] = "tools" => After(r) = "record"
           /\ pc[r] = "record" => After(r) = "VERIFYING"
           /\ pc[r] = "VERIFYING" => After(r) = "final"
           /\ pc[r] = "final" => After(r) = "verification"
           /\ pc[r] = "verification" => After(r) = "return"
  BY DEF After, Script

LEMMA AfterDelegated ==
    ASSUME NEW r \in Runs, run[r].kind = "delegated"
    PROVE  /\ pc[r] = "available" => After(r) = "inversion"
           /\ pc[r] = "inversion" => After(r) = "decide"
           /\ pc[r] = "decide" => After(r) = "PLANNED"
           /\ pc[r] = "PLANNED" => After(r) = "EXECUTING"
           /\ pc[r] = "EXECUTING" => After(r) = "execution"
           /\ pc[r] = "execution" => After(r) = "compose"
           /\ pc[r] = "compose" => After(r) = "worker"
           /\ pc[r] = "worker" => After(r) = "VERIFYING"
           /\ pc[r] = "VERIFYING" => After(r) = "final"
           /\ pc[r] = "final" => After(r) = "verification"
           /\ pc[r] = "verification" => After(r) = "return"
  BY DEF After, Script

LEMMA KindsNamed ==
    /\ DOMAIN Script = {"local", "delegated"}
    /\ Places = {"idle", "create", "deny", "failing", "return", "done", "raised", "dead", "moie",
                 "intent", "planning", "PLANNED", "decide", "build", "EXECUTING", "execution",
                 "tools", "record", "VERIFYING", "final", "verification", "available",
                 "inversion", "compose", "worker"}
  BY DEF Script, Places, Ends

LEMMA AfterIsPlace ==
    ASSUME TypeOK, NEW r \in Runs, Control(r),
           pc[r] \in {"moie", "intent", "planning", "PLANNED", "decide", "build", "EXECUTING",
                     "execution", "tools", "record", "VERIFYING", "final", "verification",
                     "available", "inversion", "compose", "worker"}
    PROVE  After(r) \in Places
<1>1. run[r].kind \in {"local", "delegated"}
  BY KindsNamed DEF TypeOK, RunRecord
<1> QED BY <1>1, AfterLocal, AfterDelegated, KindsNamed DEF Control, LocalSteps, DelegatedSteps

LEMMA EmptyTypes == NoGraph \in GraphRecord /\ NoSpine \in SpineRecord
<1>1. NoGraph \in GraphRecord
  BY PlansAssumption DEF NoGraph, GraphRecord
<1>2. NoSpine \in SpineRecord
  BY DEF NoSpine, SpineRecord
<1> QED BY <1>1, <1>2

\* What the spine gets is typed.
LEMMA SpineTypes ==
    ASSUME TypeOK, NEW r \in Runs, NEW kind, NEW value, NEW to \in Places,
           _spine_append(r, kind, value, to),
           \/ kind = "decision" /\ value \in {"ALLOW", "REVIEW", "DENY"}
           \/ kind \in {"execution", "verification"} /\ value = TRUE
    PROVE  pc' \in [Runs -> Places] /\ spine' \in [Runs -> SpineRecord] /\ hurt' \subseteq Runs
<1>1. pc' \in [Runs -> Places] /\ hurt' \subseteq Runs
  BY DEF _spine_append, Goto, TypeOK
<1>2. spine[r] \in SpineRecord /\ spine \in [Runs -> SpineRecord]
  BY DEF TypeOK
<1>3. [spine[r] EXCEPT ![kind] = value] \in SpineRecord
  BY <1>2 DEF SpineRecord
<1>4. spine' \in [Runs -> SpineRecord]
  BY <1>2, <1>3 DEF _spine_append
<1> QED BY <1>1, <1>4

LEMMA PolicyTypes ==
    ASSUME NEW r \in Runs, Control(r), pc[r] = "decide"
    PROVE  PolicyResult(r) \in {"ALLOW", "REVIEW", "DENY"}
  BY DEF Control, PolicyResult

\* What a tool, or a task without one, leaves of the graph: the same, another try
\* from the first tool, the next tool with its marks, or the end of the task.
Marked(r) ==
    [graph[r] EXCEPT !.tainted =
        Taint(graph[r].plan, graph[r].pos, ToolUp(r), graph[r].tainted)]

LEMMA MarkedIs ==
    ASSUME TypeOK, NEW r \in Runs
    PROVE  LET g == graph[r]
               h == Marked(r)
           IN  /\ h \in GraphRecord /\ h.plan = g.plan /\ h.pos = g.pos /\ h.tool = g.tool
               /\ h.approved = g.approved /\ h.tainted = Taint(g.plan, g.pos, ToolUp(r), g.tainted)
<1> DEFINE g == graph[r]
           t == Taint(g.plan, g.pos, ToolUp(r), g.tainted)
<1>1. g \in GraphRecord
  BY DEF TypeOK
<1>2. t \in SUBSET Nat
  BY <1>1 DEF Taint, GraphRecord
<1>3. Marked(r) = [g EXCEPT !.tainted = t]
  BY DEF Marked
<1> HIDE DEF g, t
<1>4. LET h == [g EXCEPT !.tainted = t]
      IN  /\ h \in GraphRecord /\ h.plan = g.plan /\ h.pos = g.pos /\ h.tool = g.tool
          /\ h.approved = g.approved /\ h.tainted = t
  BY <1>1, <1>2 DEF GraphRecord
<1> QED BY <1>3, <1>4 DEF g, t

\* The end of a task: the position moves on, or the report is made.
LEMMA VerifiedIs ==
    ASSUME TypeOK, NEW r \in Runs, NEW g \in GraphRecord, Verified(r, g)
    PROVE  \E h \in GraphRecord, ok \in BOOLEAN :
              /\ graph' = [graph EXCEPT ![r] = h]
              /\ h.plan = g.plan /\ h.approved = g.approved /\ h.tainted = g.tainted /\ h.tool = 1
              /\ \/ /\ g.pos < Len(g.plan) /\ h.pos = g.pos + 1
                    /\ UNCHANGED <<pc, result>>
                 \/ Report(r, IF ok THEN "PASS" ELSE "FAIL")
<1>1. PICK ok \in BOOLEAN :
        /\ graph' = [graph EXCEPT ![r] = [g EXCEPT !.attempt = 0, !.tool = 1,
                !.pos = IF ok /\ g.pos < Len(g.plan) THEN g.pos + 1 ELSE g.pos]]
        /\ IF ok /\ g.pos < Len(g.plan) THEN UNCHANGED <<pc, result>>
                                        ELSE Report(r, IF ok THEN "PASS" ELSE "FAIL")
  BY DEF Verified
<1> DEFINE n == IF ok /\ g.pos < Len(g.plan) THEN g.pos + 1 ELSE g.pos
           h == [g EXCEPT !.attempt = 0, !.tool = 1, !.pos = n]
<1>2. n \in Nat /\ 0 \in 0 .. MaxRetries
  BY PlansAssumption DEF GraphRecord
<1>3. graph' = [graph EXCEPT ![r] = h]
  BY <1>1
<1>4. ok /\ g.pos < Len(g.plan) => n = g.pos + 1
  OBVIOUS
<1> HIDE DEF n
<1>5. /\ h \in GraphRecord /\ h.plan = g.plan /\ h.approved = g.approved
      /\ h.tainted = g.tainted /\ h.tool = 1 /\ h.pos = n
  BY <1>2 DEF GraphRecord
<1> HIDE DEF h
<1> QED BY <1>1, <1>3, <1>4, <1>5

\* The graph after a step of the tools, and what becomes of the run.
LEMMA ToolIs ==
    ASSUME TypeOK, NEW r \in Runs, ToolFails(r) \/ ToolRuns(r) \/ NoTools(r)
    PROVE  LET g == graph[r] IN
           \E h \in GraphRecord :
              /\ graph' = [graph EXCEPT ![r] = h]
              /\ h.plan = g.plan /\ h.approved = g.approved
              /\ \/ /\ UNCHANGED <<pc, result>>
                    /\ \/ h.pos = g.pos /\ h.tool = 1 /\ h.tainted = g.tainted
                       \/ /\ h.pos = g.pos /\ h.tool = g.tool + 1
                          /\ h.tainted = Taint(g.plan, g.pos, ToolUp(r), g.tainted)
                       \/ /\ g.pos < Len(g.plan) /\ h.pos = g.pos + 1 /\ h.tool = 1
                          /\ \/ /\ TaskUp(r).tools # <<>> /\ ~(g.tool < Len(TaskUp(r).tools))
                                /\ h.tainted = Taint(g.plan, g.pos, ToolUp(r), g.tainted)
                             \/ TaskUp(r).tools = <<>> /\ h.tainted = g.tainted
                 \/ \E v \in {"PASS", "FAIL"} : Report(r, v)
<1> DEFINE g == graph[r]
<1>1. /\ graph \in [Runs -> GraphRecord] /\ g \in GraphRecord
      /\ g.pos \in Nat /\ g.tool \in Nat /\ g.attempt \in 0 .. MaxRetries /\ MaxRetries \in Nat
  BY PlansAssumption DEF TypeOK, GraphRecord
<1>2. CASE ToolFails(r)
  <2>1. CASE g.attempt < MaxRetries
    <3> DEFINE h == [g EXCEPT !.attempt = g.attempt + 1, !.tool = 1]
    <3>1. graph' = [graph EXCEPT ![r] = h] /\ UNCHANGED <<pc, result>>
      BY <1>2, <2>1 DEF ToolFails
    <3>2. g.attempt + 1 \in 0 .. MaxRetries
      BY <1>1, <2>1
    <3> HIDE DEF g
    <3>3. /\ h \in GraphRecord /\ h.plan = g.plan /\ h.approved = g.approved /\ h.pos = g.pos
          /\ h.tool = 1 /\ h.tainted = g.tainted
      BY <1>1, <3>2 DEF GraphRecord
    <3> HIDE DEF h
    <3> QED BY <3>1, <3>3 DEF g
  <2>2. CASE ~(g.attempt < MaxRetries)
    <3>1. graph' = graph /\ Report(r, "FAIL")
      BY <1>2, <2>2 DEF ToolFails
    <3>2. graph' = [graph EXCEPT ![r] = g]
      BY <1>1, <3>1
    <3> QED BY <1>1, <3>1, <3>2
  <2> QED BY <2>1, <2>2
<1>3. CASE ToolRuns(r)
  <2>1. /\ Marked(r) \in GraphRecord /\ Marked(r).plan = g.plan /\ Marked(r).pos = g.pos
        /\ Marked(r).approved = g.approved
        /\ Marked(r).tainted = Taint(g.plan, g.pos, ToolUp(r), g.tainted)
    BY MarkedIs
  <2>2. CASE g.tool < Len(TaskUp(r).tools)
    <3> DEFINE h == [Marked(r) EXCEPT !.tool = g.tool + 1]
    <3>1. graph' = [graph EXCEPT ![r] = h] /\ UNCHANGED <<pc, result>>
      BY <1>3, <2>2 DEF ToolRuns, Marked
    <3> DEFINE m == Marked(r)
    <3>2. m \in GraphRecord /\ g.tool + 1 \in Nat /\ h = [m EXCEPT !.tool = g.tool + 1]
      BY <1>1, <2>1
    <3>3. /\ m.plan = g.plan /\ m.pos = g.pos /\ m.approved = g.approved
          /\ m.tainted = Taint(g.plan, g.pos, ToolUp(r), g.tainted)
      BY <2>1
    <3> HIDE DEF g, m, h
    <3>4. /\ h \in GraphRecord /\ h.plan = m.plan /\ h.approved = m.approved /\ h.pos = m.pos
          /\ h.tool = g.tool + 1 /\ h.tainted = m.tainted
      BY <3>2 DEF GraphRecord
    <3> QED BY <3>1, <3>3, <3>4 DEF g
  <2>3. CASE ~(g.tool < Len(TaskUp(r).tools))
    <3>1. Verified(r, Marked(r)) /\ TaskUp(r).tools # <<>>
      BY <1>3, <2>3 DEF ToolRuns, Marked
    <3>2. PICK h \in GraphRecord, ok \in BOOLEAN :
             /\ graph' = [graph EXCEPT ![r] = h]
             /\ h.plan = g.plan /\ h.approved = g.approved /\ h.tool = 1
             /\ h.tainted = Taint(g.plan, g.pos, ToolUp(r), g.tainted)
             /\ \/ /\ g.pos < Len(g.plan) /\ h.pos = g.pos + 1
                   /\ UNCHANGED <<pc, result>>
                \/ Report(r, IF ok THEN "PASS" ELSE "FAIL")
      <4> HIDE DEF g
      <4> QED BY <2>1, <3>1, VerifiedIs
    <3> HIDE DEF g
    <3> QED BY <2>3, <3>1, <3>2 DEF g
  <2> QED BY <2>2, <2>3
<1>4. CASE NoTools(r)
  <2>1. Verified(r, g) /\ TaskUp(r).tools = <<>>
    BY <1>4 DEF NoTools
  <2>2. PICK h \in GraphRecord, ok \in BOOLEAN :
           /\ graph' = [graph EXCEPT ![r] = h]
           /\ h.plan = g.plan /\ h.approved = g.approved /\ h.tool = 1 /\ h.tainted = g.tainted
           /\ \/ /\ g.pos < Len(g.plan) /\ h.pos = g.pos + 1
                 /\ UNCHANGED <<pc, result>>
              \/ Report(r, IF ok THEN "PASS" ELSE "FAIL")
    BY <1>1, <2>1, VerifiedIs
  <2> HIDE DEF g
  <2> QED BY <2>1, <2>2 DEF g
<1> QED BY <1>2, <1>3, <1>4

\* The work that a step of the tools adds.
LEMMA WorkIs ==
    ASSUME TypeOK, NEW r \in Runs, ToolFails(r) \/ ToolRuns(r) \/ NoTools(r)
    PROVE  \/ worked' = worked
           \/ /\ Allowed(r)
              /\ worked' = [worked EXCEPT ![r] = worked[r] \cup {<<graph[r].pos, ToolUp(r)>>}]
  BY DEF ToolFails, ToolRuns, NoTools, RecordWork

LEMMA ToolTypes ==
    ASSUME TypeOK, NEW r \in Runs, ToolFails(r) \/ ToolRuns(r) \/ NoTools(r)
    PROVE  graph' \in [Runs -> GraphRecord] /\ worked' \in [Runs -> SUBSET WorkItems]
<1>1. graph' \in [Runs -> GraphRecord]
  <2>1. \E h \in GraphRecord : graph' = [graph EXCEPT ![r] = h]
    BY ToolIs
  <2> QED BY <2>1 DEF TypeOK
<1>2. worked \in [Runs -> SUBSET WorkItems] /\ graph[r].pos \in Nat
  BY DEF TypeOK, GraphRecord
<1>3. Allowed(r) => <<graph[r].pos, ToolUp(r)>> \in WorkItems
  BY <1>2 DEF Allowed, WorkItems
<1>4. Allowed(r) => worked[r] \cup {<<graph[r].pos, ToolUp(r)>>} \in SUBSET WorkItems
  BY <1>2, <1>3
<1> QED BY <1>1, <1>2, <1>4, WorkIs

LEMMA WorkType == Work \in WorkItems /\ \A k \in Nat : <<k, "vault_write">> # Work
<1>1. Work[1] = 0 /\ Work[2] = "work" /\ Work = <<Work[1], Work[2]>>
  BY DEF Work
<1>2. "vault_write" # "work"
  OBVIOUS
<1>3. Work \in WorkItems
  BY DEF Work, WorkItems
<1>4. ASSUME NEW k \in Nat, <<k, "vault_write">> = Work PROVE FALSE
  <2>1. <<k, "vault_write">>[2] = "vault_write"
    OBVIOUS
  <2> QED BY <1>1, <1>2, <1>4, <2>1
<1> QED BY <1>3, <1>4

LEMMA TypeStep == ASSUME IInv, [Next]_vars PROVE TypeOK'
<1>0. TypeOK /\ TaskTypeOK' /\ \A r \in Runs : Control(r)
  BY TaskStep DEF IInv, RunInv
<1> USE <1>0
<1>1. ASSUME NEW r \in Runs, NEW to \in Places, Goto(r, to)
      PROVE  pc' \in [Runs -> Places]
  BY <1>1 DEF Goto, TypeOK
<1>2. ASSUME NEW r \in Runs, Passes(r),
             \E s \in {"moie", "available", "inversion", "build", "compose", "execution",
                      "verification"} : Turn(r, s)
      PROVE  TypeOK'
  <2>1. pc' \in [Runs -> Places]
    BY <1>1, <1>2, AfterIsPlace DEF Passes, Turn
  <2> QED BY <1>2, <2>1 DEF Passes, TypeOK
<1>3. ASSUME NEW r \in Runs, NEW to \in Places,
             \E v \in {"none", "ERROR", "BLOCKED", "REVIEW", "UNAVAILABLE"} : Stops(r, v, to)
      PROVE  TypeOK'
  <2>1. pc' \in [Runs -> Places]
    BY <1>1, <1>3 DEF Stops
  <2>2. result' \in [Runs -> {"none", "PASS", "FAIL", "ERROR", "REVIEW", "BLOCKED", "UNAVAILABLE"}]
    BY <1>3 DEF Stops, TypeOK
  <2> QED BY <1>3, <2>1, <2>2 DEF Stops, TypeOK
<1>4. ASSUME NEW r \in Runs, NEW s, NEW to \in Places, _lifecycle_emit(r, s, to)
      PROVE  TypeOK'
  <2>1. pc' \in [Runs -> Places]
    BY <1>1, <1>4 DEF _lifecycle_emit
  <2>2. hurt' \subseteq Runs
    BY <1>4 DEF _lifecycle_emit, TypeOK
  <2> QED BY <1>4, <2>1, <2>2 DEF _lifecycle_emit, TypeOK
<1>5. ASSUME NEW r \in Runs, NEW kind, NEW value, NEW to \in Places,
             _spine_append(r, kind, value, to),
             \/ kind = "decision" /\ value \in {"ALLOW", "REVIEW", "DENY"}
             \/ kind \in {"execution", "verification"} /\ value = TRUE
      PROVE  TypeOK'
  <2>1. pc' \in [Runs -> Places] /\ spine' \in [Runs -> SpineRecord] /\ hurt' \subseteq Runs
    BY <1>5, SpineTypes
  <2> QED BY <1>5, <2>1 DEF _spine_append, TypeOK
<1>6. ASSUME NEW r \in Runs, UnknownAgent(r) PROVE TypeOK'
  <2>1. pc' \in [Runs -> Places]
    BY <1>1, <1>6, KindsNamed DEF UnknownAgent
  <2>2. result' \in [Runs -> {"none", "PASS", "FAIL", "ERROR", "REVIEW", "BLOCKED", "UNAVAILABLE"}]
    BY <1>6 DEF UnknownAgent, TypeOK
  <2> QED BY <1>6, <2>1, <2>2 DEF UnknownAgent, TypeOK
<1>7. ASSUME NEW r \in Runs, Begin(r) PROVE TypeOK'
  <2>1. pc' \in [Runs -> Places]
    BY <1>1, <1>7, KindsNamed DEF Begin
  <2>2. PICK kind \in DOMAIN Script, i \in TaskIds, ok \in BOOLEAN, g \in Grants :
          run' = [run EXCEPT ![r] = [kind |-> kind, id |-> i, approve |-> ok, granted |-> g]]
    BY <1>7 DEF Begin
  <2>3. [kind |-> kind, id |-> i, approve |-> ok, granted |-> g] \in RunRecord
    BY DEF RunRecord
  <2>4. run' \in [Runs -> RunRecord]
    BY <2>2, <2>3 DEF TypeOK
  <2> QED BY <1>7, <2>1, <2>4 DEF Begin, TypeOK
<1>8. ASSUME NEW r \in Runs, Create(r) PROVE TypeOK'
  <2>1. FirstStep[run[r].kind] \in Places
    BY KindsNamed DEF FirstStep, TypeOK, RunRecord
  <2>2. pc' \in [Runs -> Places]
    BY <1>1, <1>8, <2>1 DEF Create
  <2>3. made' \in [Runs -> BOOLEAN]
    BY <1>8 DEF Create, TypeOK
  <2> QED BY <1>8, <2>2, <2>3 DEF Create, TypeOK
<1>9. ASSUME NEW r \in Runs,
             \/ _quick_reject_gate(r) \/ Available(r) \/ _delegation_inversion_gate(r) \/ Build(r)
             \/ Raises(r) \/ Compose(r)
      PROVE  TypeOK'
  <2>1. {"deny", "failing", "raised"} \subseteq Places
    BY KindsNamed
  <2> QED BY <1>2, <1>3, <1>9, <2>1
          DEF _quick_reject_gate, Available, _delegation_inversion_gate, Build, Raises, Compose
<1>10. ASSUME NEW r \in Runs, Deny(r) \/ Failing(r) \/ Final(r)
              \/ \E s \in {"PLANNED", "EXECUTING", "VERIFYING"} : Emit(r, s)
       PROVE  TypeOK'
  <2>1. {"return", "decide"} \subseteq Places
    BY KindsNamed
  <2>2. Final(r) \/ (\E s \in {"PLANNED", "EXECUTING", "VERIFYING"} : Emit(r, s))
          => After(r) \in Places
    BY AfterIsPlace DEF Final, Emit, Turn
  <2> QED BY <1>4, <1>10, <2>1, <2>2 DEF Deny, Failing, Final, Emit
<1>11. ASSUME NEW r \in Runs, Decide(r) PROVE TypeOK'
  <2>1. After(r) \in Places /\ "return" \in Places
    BY <1>11, AfterIsPlace, KindsNamed DEF Decide, Turn
  <2>2. PolicyResult(r) \in {"ALLOW", "REVIEW", "DENY"}
    BY <1>11, PolicyTypes DEF Decide, Turn
  <2> QED BY <1>5, <1>11, <2>1, <2>2 DEF Decide
<1>12. ASSUME NEW r \in Runs, NEW kind \in {"execution", "verification"}, Vertebra(r, kind)
       PROVE  TypeOK'
  <2>1. After(r) \in Places
    BY <1>12, AfterIsPlace DEF Vertebra, Turn
  <2> QED BY <1>2, <1>5, <1>12, <2>1 DEF Vertebra
<1>13. ASSUME NEW r \in Runs, Intent(r) \/ Plan(r) PROVE TypeOK'
  <2>1. pc' \in [Runs -> Places]
    BY <1>1, <1>13, AfterIsPlace DEF Intent, Plan, Turn
  <2>2. graph[r] \in GraphRecord /\ graph \in [Runs -> GraphRecord]
    BY DEF TypeOK
  <2>3. /\ \A a \in SUBSET {"write_file"} : [graph[r] EXCEPT !.approved = a] \in GraphRecord
        /\ \A p \in Plans : [graph[r] EXCEPT !.plan = p] \in GraphRecord
    BY <2>2 DEF GraphRecord
  <2>4. graph' \in [Runs -> GraphRecord]
    BY <1>13, <2>2, <2>3 DEF Intent, Plan
  <2> QED BY <1>13, <2>1, <2>4 DEF Intent, Plan, TypeOK
<1>14. ASSUME NEW r \in Runs, ToolFails(r) \/ ToolRuns(r) \/ NoTools(r) PROVE TypeOK'
  <2>1. After(r) \in Places
    BY <1>14, AfterIsPlace DEF ToolFails, ToolRuns, NoTools, Turn
  <2>2. UNCHANGED <<pc, result>> \/ \E v \in {"PASS", "FAIL"} : Report(r, v)
    BY <1>14, ToolIs
  <2>3. pc' \in [Runs -> Places]
    BY <1>1, <2>1, <2>2 DEF Report, TypeOK
  <2>4. result' \in [Runs -> {"none", "PASS", "FAIL", "ERROR", "REVIEW", "BLOCKED", "UNAVAILABLE"}]
    BY <2>2 DEF Report, TypeOK
  <2>5. graph' \in [Runs -> GraphRecord] /\ worked' \in [Runs -> SUBSET WorkItems]
    BY <1>14, ToolTypes
  <2>6. UNCHANGED <<run, made, spine, armed, hurt>>
    BY <1>14 DEF ToolFails, ToolRuns, NoTools
  <2> QED BY <2>3, <2>4, <2>5, <2>6 DEF TypeOK
<1>15. ASSUME NEW r \in Runs, Record(r) PROVE TypeOK'
  <2>1. After(r) \in Places /\ "failing" \in Places
    BY <1>15, AfterIsPlace, KindsNamed DEF Record, Turn
  <2>2. pc' \in [Runs -> Places]
    BY <1>1, <1>15, <2>1 DEF Record
  <2>3. graph' \in [Runs -> GraphRecord]
    BY <1>15, EmptyTypes DEF Record, TypeOK
  <2>4. worked' \in [Runs -> SUBSET WorkItems]
    BY <1>15, WorkType DEF Record, TypeOK
  <2>5. result' \in [Runs -> {"none", "PASS", "FAIL", "ERROR", "REVIEW", "BLOCKED", "UNAVAILABLE"}]
    BY <1>15 DEF Record, TypeOK
  <2> QED BY <1>15, <2>2, <2>3, <2>4, <2>5 DEF Record, TypeOK
<1>16. ASSUME NEW r \in Runs, Worker(r) PROVE TypeOK'
  <2>1. After(r) \in Places /\ "raised" \in Places
    BY <1>16, AfterIsPlace, KindsNamed DEF Worker, Turn
  <2>2. pc' \in [Runs -> Places]
    BY <1>1, <1>16, <2>1 DEF Worker, Report
  <2>3. worked' \in [Runs -> SUBSET WorkItems]
    BY <1>16, WorkType DEF Worker, TypeOK
  <2>4. result' \in [Runs -> {"none", "PASS", "FAIL", "ERROR", "REVIEW", "BLOCKED", "UNAVAILABLE"}]
    BY <1>16 DEF Worker, Report, TypeOK
  <2> QED BY <1>16, <2>2, <2>3, <2>4 DEF Worker, TypeOK
<1>17. ASSUME NEW r \in Runs, Return(r) PROVE TypeOK'
  <2>1. pc' \in [Runs -> Places]
    BY <1>1, <1>17, KindsNamed DEF Return
  <2>2. graph' \in [Runs -> GraphRecord] /\ spine' \in [Runs -> SpineRecord]
    BY <1>17, EmptyTypes DEF Return, TypeOK
  <2>3. worked' \in [Runs -> SUBSET WorkItems]
    BY <1>17 DEF Return, TypeOK
  <2>4. result' \in [Runs -> {"none", "PASS", "FAIL", "ERROR", "REVIEW", "BLOCKED", "UNAVAILABLE"}]
    BY <1>17 DEF Return, TypeOK
  <2> QED BY <1>17, <2>1, <2>2, <2>3, <2>4 DEF Return, TypeOK
<1>18. CASE Dies
  <2>1. pc' \in [Runs -> Places]
    BY <1>18, KindsNamed DEF Dies, TypeOK
  <2>2. graph' \in [Runs -> GraphRecord] /\ spine' \in [Runs -> SpineRecord]
    BY <1>18, EmptyTypes DEF Dies
  <2>3. worked' \in [Runs -> SUBSET WorkItems]
    BY <1>18 DEF Dies
  <2> QED BY <1>18, <2>1, <2>2, <2>3 DEF Dies, TypeOK
<1>19. CASE Switch \/ UNCHANGED vars
  BY <1>19 DEF Switch, vars, runVars, TypeOK
<1> QED BY <1>6, <1>7, <1>8, <1>9, <1>10, <1>11, <1>12, <1>13, <1>14, <1>15, <1>16, <1>17,
           <1>18, <1>19 DEF Next, Step

-----------------------------------------------------------------------------
(* The steps of a run.                                                      *)

\* A step of run r leaves the other runs alone, and the tasks of other ids.
Moves(r) ==
    /\ \A o \in Runs \ {r} :
          /\ pc'[o] = pc[o] /\ run'[o] = run[o] /\ made'[o] = made[o] /\ graph'[o] = graph[o]
          /\ worked'[o] = worked[o] /\ result'[o] = result[o] /\ spine'[o] = spine[o]
          /\ o \in hurt' <=> o \in hurt
    /\ pc'[r] # "idle"
    /\ IF pc[r] = "idle" THEN row' = row ELSE run'[r] = run[r]
    /\ \A i \in TaskIds \ {run[r].id} : row'[i] = row[i]

LEMMA OthersKept ==
    ASSUME TypeOK, NEW r \in Runs, Moves(r), NEW o \in Runs \ {r}, RunInv(o)
    PROVE  RunInv(o)'
<1>1. Control(o)' /\ Evidence(o)'
  BY DEF RunInv, Moves, Control, Evidence, Undecided, Proceeds
<1>2. Tainting(o)'
  BY DEF RunInv, Moves, Tainting, TaintClosed
<1>3. Telling(o)'
  <2> SUFFICES ASSUME made'[o], Alone(o)', o \notin hurt' PROVE Told(o)'
    BY DEF Telling
  <2>1. run'[o] = run[o] /\ run[o].id \in TaskIds
    BY DEF Moves, TypeOK, RunRecord
  <2>2. pc[r] = "idle" \/ run[r].id # run[o].id
    BY <2>1 DEF Alone, Moves
  <2>3. row'[run[o].id] = row[run[o].id]
    BY <2>1, <2>2 DEF Moves
  <2>4. Alone(o)
    BY <2>1, <2>2 DEF Alone, Moves
  <2>5. Told(o)
    BY <2>4 DEF RunInv, Telling, Moves
  <2> QED BY <2>1, <2>3, <2>5 DEF Told, Moves
<1> QED BY <1>1, <1>2, <1>3 DEF RunInv

\* A step that leaves plan, taint, approval and work alone.
LEMMA TaintingKept ==
    ASSUME TypeOK, NEW r \in Runs, Tainting(r),
           graph'[r] = graph[r], worked'[r] = worked[r], run'[r] = run[r], pc'[r] # "idle",
           pc'[r] \in Planning => pc[r] \in Planning,
           pc'[r] = "tools" => pc[r] = "execution"
    PROVE  Tainting(r)'
<1>1. ASSUME pc'[r] = "tools"
      PROVE  TaintClosed(graph[r]) /\ graph[r].pos \in 1 .. Len(graph[r].plan) + 1
  <2>1. graph[r].pos = 1 /\ graph[r].tool = 1
    BY <1>1 DEF Tainting, Planning
  <2>2. graph[r].plan \in Plans \cup {<<>>}
    BY DEF TypeOK, GraphRecord
  <2>3. Len(graph[r].plan) \in Nat
    BY <2>2, PlansAssumption
  <2> QED BY <2>1, <2>3 DEF TaintClosed
<1> QED BY <1>1 DEF Tainting, TaintClosed

LEMMA StillAlone ==
    ASSUME NEW r \in Runs, Moves(r), pc[r] # "idle", Alone(r)'
    PROVE  Alone(r)
  BY DEF Moves, Alone

\* UnknownAgent, Begin and Create.
LEMMA BeginKeeps ==
    ASSUME TypeOK, NEW r \in Runs, RunInv(r), UnknownAgent(r) \/ Begin(r) \/ Create(r)
    PROVE  Moves(r) /\ RunInv(r)'
<1>0. run[r].kind \in {"local", "delegated"} /\ run[r].id \in TaskIds
  BY KindsNamed DEF TypeOK, RunRecord
<1>1. CASE UnknownAgent(r)
  <2>1. /\ pc[r] = "idle" /\ pc'[r] = "done" /\ result'[r] = "ERROR"
        /\ \A o \in Runs \ {r} : pc'[o] = pc[o] /\ result'[o] = result[o]
        /\ UNCHANGED <<row, run, made, graph, worked, spine, armed, hurt>>
    BY <1>1 DEF UnknownAgent, Turn, Goto, TypeOK, taskVars
  <2>2. Moves(r)
    BY <2>1 DEF Moves
  <2>3. Control(r)' /\ Evidence(r)'
    BY <2>1 DEF RunInv, Control, Evidence, Undecided, Proceeds, LocalSteps, DelegatedSteps, Executed
  <2>4. Tainting(r)'
    BY <2>1, TaintingKept DEF RunInv, Planning
  <2>5. Telling(r)'
    BY <2>1 DEF RunInv, Control, Telling
  <2> QED BY <2>2, <2>3, <2>4, <2>5 DEF RunInv
<1>2. CASE Begin(r)
  <2>1. /\ pc[r] = "idle" /\ pc'[r] = "create"
        /\ \A o \in Runs \ {r} : pc'[o] = pc[o] /\ run'[o] = run[o]
        /\ UNCHANGED <<row, result, made, graph, worked, spine, armed, hurt>>
    BY <1>2 DEF Begin, Turn, Goto, TypeOK, taskVars
  <2>2. Moves(r)
    BY <2>1 DEF Moves
  <2>3. Control(r)' /\ Evidence(r)'
    BY <2>1 DEF RunInv, Control, Evidence, Undecided, Proceeds, LocalSteps, DelegatedSteps, Executed
  <2>4. Tainting(r)'
    <3>1. worked[r] = {} /\ graph[r].approved = {} /\ graph[r].pos = 1 /\ graph[r].tool = 1
      BY <2>1 DEF RunInv, Control, Tainting, Planning
    <3> QED BY <2>1, <3>1 DEF Tainting
  <2>5. Telling(r)'
    BY <2>1 DEF RunInv, Control, Telling
  <2> QED BY <2>2, <2>3, <2>4, <2>5 DEF RunInv
<1>3. CASE Create(r)
  <2>1. /\ pc[r] = "create" /\ pc'[r] = FirstStep[run[r].kind]
        /\ \A o \in Runs \ {r} : pc'[o] = pc[o] /\ made'[o] = made[o]
        /\ UNCHANGED <<run, result, graph, worked, spine, armed, hurt>>
        /\ made'[r] \/ made'[r] = made[r]
    BY <1>3 DEF Create, Turn, Goto, TypeOK
  <2>2. pc'[r] = IF run[r].kind = "local" THEN "moie" ELSE "available"
    BY <1>0, <2>1 DEF FirstStep
  <2>3. /\ \A i \in TaskIds \ {run[r].id} : row'[i] = row[i]
        /\ row'[run[r].id] = "CREATED" \/ made'[r] = made[r]
    <3>1. \/ row' = [row EXCEPT ![run[r].id] = "CREATED"]
          \/ row' = row /\ made' = made
      BY <1>3 DEF Create, create, CreateFails, Recorded, NotRecorded, taskVars
    <3>2. row \in [TaskIds -> TASK_STATES \cup {"none"}]
      BY DEF TypeOK, TaskTypeOK
    <3> QED BY <1>0, <3>1, <3>2
  <2>4. Moves(r)
    BY <2>1, <2>2, <2>3 DEF Moves
  <2>5. Control(r)' /\ Evidence(r)'
    BY <1>0, <2>1, <2>2 DEF RunInv, Control, Evidence, Undecided, Proceeds, LocalSteps,
                      DelegatedSteps, Executed
  <2>6. Tainting(r)'
    BY <2>1, <2>2, TaintingKept DEF RunInv, Planning
  <2>7. Telling(r)'
    BY <1>0, <2>1, <2>2, <2>3 DEF RunInv, Control, Telling, Told
  <2> QED BY <2>4, <2>5, <2>6, <2>7 DEF RunInv
<1> QED BY <1>1, <1>2, <1>3

\* What writing a state does to the task, and to the record of lost writes.
LEMMA EmitFacts ==
    ASSUME TypeOK, NEW r \in Runs, NEW s, NEW to, _lifecycle_emit(r, s, to)
    PROVE  /\ pc'[r] = to /\ \A o \in Runs \ {r} : pc'[o] = pc[o] /\ (o \in hurt' <=> o \in hurt)
           /\ UNCHANGED <<run, made, graph, worked, result, spine, armed>>
           /\ r \in hurt => r \in hurt'
           /\ \A i \in TaskIds \ {run[r].id} : row'[i] = row[i]
           /\ \/ row'[run[r].id] = s /\ validate_transition(row[run[r].id], s)
              \/ /\ row'[run[r].id] = row[run[r].id]
                 /\ ~validate_transition(row[run[r].id], s) \/ r \in hurt'
<1>0. /\ run[r].id \in TaskIds /\ faults \in Nat
      /\ row \in [TaskIds -> TASK_STATES \cup {"none"}]
  BY FaultsAssumption DEF TypeOK, TaskTypeOK, RunRecord
<1>1. /\ pc'[r] = to /\ \A o \in Runs \ {r} : pc'[o] = pc[o]
      /\ UNCHANGED <<run, made, graph, worked, result, spine, armed>>
  BY DEF _lifecycle_emit, Goto, TypeOK
<1>2. CASE transition(run[r].id, s) /\ UNCHANGED hurt
  <2>1. validate_transition(row[run[r].id], s) /\ row' = [row EXCEPT ![run[r].id] = s]
    BY <1>2 DEF transition, Recorded
  <2> QED BY <1>0, <1>1, <1>2, <2>1
<1>3. CASE /\ TransitionFails(run[r].id, s)
           /\ hurt' = IF faults' > faults THEN hurt \cup {r} ELSE hurt
  <2>1. row' = row /\ (~validate_transition(row[run[r].id], s) \/ faults' = faults + 1)
    BY <1>3 DEF TransitionFails, NotRecorded, Fault, taskVars
  <2>2. ~validate_transition(row[run[r].id], s) \/ r \in hurt'
    BY <1>0, <1>3, <2>1
  <2> QED BY <1>0, <1>1, <1>3, <2>1, <2>2
<1> QED BY <1>2, <1>3 DEF _lifecycle_emit

\* The steps that write the state of the task.
LEMMA EmitStep ==
    ASSUME TypeOK, NEW r \in Runs, RunInv(r),
           \/ Deny(r) \/ Failing(r) \/ Final(r)
           \/ \E s \in {"PLANNED", "EXECUTING", "VERIFYING"} : Emit(r, s)
    PROVE  Moves(r) /\ RunInv(r)'
<1>0. run[r].kind \in {"local", "delegated"} /\ run[r].id \in TaskIds
  BY KindsNamed DEF TypeOK, RunRecord
<1> DEFINE id == run[r].id
<1>1. PICK s, to :
        /\ _lifecycle_emit(r, s, to)
        /\ \/ /\ pc[r] = "deny" /\ s = "DENIED"
              /\ to = IF result[r] = "UNAVAILABLE" THEN "return" ELSE "decide"
           \/ pc[r] = "failing" /\ s = "FAILED" /\ to = "return"
           \/ /\ pc[r] = "final" /\ s = IF result[r] = "PASS" THEN "COMPLETED" ELSE "FAILED"
              /\ to = "verification"
           \/ /\ pc[r] = "PLANNED" /\ s = "PLANNED"
              /\ to = IF run[r].kind = "local" THEN "decide" ELSE "EXECUTING"
           \/ pc[r] = "EXECUTING" /\ s = "EXECUTING" /\ to = "execution"
           \/ pc[r] = "VERIFYING" /\ s = "VERIFYING" /\ to = "final"
  BY <1>0, AfterLocal, AfterDelegated DEF Deny, Failing, Final, Emit, Turn
<1>2. /\ pc'[r] = to /\ \A o \in Runs \ {r} : pc'[o] = pc[o] /\ (o \in hurt' <=> o \in hurt)
      /\ UNCHANGED <<run, made, graph, worked, result, spine, armed>>
      /\ r \in hurt => r \in hurt'
      /\ \A i \in TaskIds \ {run[r].id} : row'[i] = row[i]
      /\ \/ row'[id] = s /\ validate_transition(row[id], s)
         \/ row'[id] = row[id] /\ (~validate_transition(row[id], s) \/ r \in hurt')
  BY <1>1, EmitFacts
<1>3. Moves(r)
  BY <1>1, <1>2 DEF Moves
<1>4. Control(r)'
  BY <1>1, <1>2 DEF RunInv, Control, LocalSteps, DelegatedSteps
<1>5. Evidence(r)'
  BY <1>0, <1>1, <1>2 DEF RunInv, Evidence, Control, Undecided, Proceeds, Executed
<1>6. Tainting(r)'
  BY <1>1, <1>2, TaintingKept DEF RunInv, Planning
<1>7. Telling(r)'
  <2> SUFFICES ASSUME made'[r], Alone(r)', r \notin hurt' PROVE Told(r)'
    BY DEF Telling
  <2>1. Told(r)
    BY <1>1, <1>2, <1>3, StillAlone DEF RunInv, Telling
  <2>2. pc[r] # "failing" => validate_transition(row[id], s)
    BY <1>1, <2>1 DEF RunInv, Control, Told, validate_transition, _ALLOWED_TRANSITIONS
  <2>3. pc[r] = "failing" => row'[id] \in {"CREATED", "PLANNED", "FAILED"}
    BY <1>1, <1>2, <2>1 DEF Told, validate_transition, _ALLOWED_TRANSITIONS
  <2>4. pc[r] # "failing" => row'[id] = s
    BY <1>2, <2>2
  <2> QED BY <1>1, <1>2, <2>3, <2>4 DEF RunInv, Control, Told
<1> QED BY <1>3, <1>4, <1>5, <1>6, <1>7 DEF RunInv

\* The steps that only go on or stop: the gates, building the graph, exceptions.
LEMMA GateStep ==
    ASSUME TypeOK, NEW r \in Runs, RunInv(r),
           \/ _quick_reject_gate(r) \/ Available(r) \/ _delegation_inversion_gate(r)
           \/ Build(r) \/ Raises(r) \/ Compose(r)
    PROVE  Moves(r) /\ RunInv(r)'
<1>0. run[r].kind \in {"local", "delegated"} /\ run[r].id \in TaskIds
  BY KindsNamed DEF TypeOK, RunRecord
<1>1. PICK to, v :
        /\ Goto(r, to) /\ result' = [result EXCEPT ![r] = v]
        /\ UNCHANGED <<taskVars, run, made, graph, worked, spine, armed, hurt>>
        /\ \/ /\ pc[r] \in {"moie", "available", "inversion"} /\ to = "deny"
              /\ v \in {"BLOCKED", "UNAVAILABLE", "ERROR", "REVIEW"}
           \/ pc[r] = "moie" /\ to = "intent" /\ v = result[r]
           \/ pc[r] = "available" /\ to = "inversion" /\ v = result[r]
           \/ pc[r] = "inversion" /\ to = "decide" /\ v = result[r]
           \/ pc[r] = "build" /\ to = "EXECUTING" /\ v = result[r]
           \/ pc[r] \in {"intent", "planning", "build", "tools"} /\ to = "failing" /\ v = "ERROR"
           \/ pc[r] = "compose" /\ to = "worker" /\ v = result[r]
           \/ pc[r] = "compose" /\ to = "raised" /\ v = "none"
  <2>1. ASSUME NEW step, Turn(r, step), Passes(r)
        PROVE  /\ Goto(r, After(r)) /\ result' = [result EXCEPT ![r] = result[r]]
               /\ UNCHANGED <<taskVars, run, made, graph, worked, spine, armed, hurt>>
    BY <2>1 DEF Passes, TypeOK
  <2>2. /\ pc[r] = "moie" => After(r) = "intent"
        /\ pc[r] = "available" => After(r) = "inversion"
        /\ pc[r] = "inversion" => After(r) = "decide"
        /\ pc[r] = "build" => After(r) = "EXECUTING"
        /\ pc[r] = "compose" => After(r) = "worker"
    BY AfterLocal, AfterDelegated DEF RunInv, Control, LocalSteps, DelegatedSteps
  <2>3. CASE /\ Passes(r)
             /\ \/ _quick_reject_gate(r) \/ Available(r) \/ _delegation_inversion_gate(r)
                \/ Build(r) \/ Compose(r)
    BY <2>1, <2>2, <2>3 DEF _quick_reject_gate, Available, _delegation_inversion_gate, Build,
                            Compose, Turn
  <2>4. CASE \/ _quick_reject_gate(r) /\ Stops(r, "BLOCKED", "deny")
             \/ Available(r) /\ Stops(r, "UNAVAILABLE", "deny")
             \/ /\ _delegation_inversion_gate(r)
                /\ \E v \in {"ERROR", "BLOCKED", "REVIEW"} : Stops(r, v, "deny")
             \/ Raises(r)
             \/ Compose(r) /\ Stops(r, "none", "raised")
    BY <2>4 DEF _quick_reject_gate, Available, _delegation_inversion_gate, Raises, Compose, Turn,
                Stops
  <2> QED BY <2>3, <2>4 DEF _quick_reject_gate, Available, _delegation_inversion_gate, Build,
                            Compose
<1>2. /\ pc'[r] = to /\ result'[r] = v
      /\ \A o \in Runs \ {r} : pc'[o] = pc[o] /\ result'[o] = result[o]
      /\ UNCHANGED <<row, run, made, graph, worked, spine, armed, hurt>>
  BY <1>1 DEF Goto, TypeOK, taskVars
<1>3. Moves(r)
  BY <1>1, <1>2 DEF Moves
<1>4. Control(r)'
  BY <1>0, <1>1, <1>2 DEF RunInv, Control, LocalSteps, DelegatedSteps
<1>5. Evidence(r)'
  BY <1>0, <1>1, <1>2 DEF RunInv, Evidence, Control, Undecided, Proceeds, Executed
<1>6. Tainting(r)'
  BY <1>1, <1>2, TaintingKept DEF RunInv, Planning
<1>7. Telling(r)'
  <2> SUFFICES ASSUME made'[r], Alone(r)', r \notin hurt' PROVE Told(r)'
    BY DEF Telling
  <2>1. Told(r)
    BY <1>1, <1>2, <1>3, StillAlone DEF RunInv, Telling
  <2> QED BY <1>0, <1>1, <1>2, <2>1 DEF RunInv, Control, Told, LocalSteps, DelegatedSteps
<1> QED BY <1>3, <1>4, <1>5, <1>6, <1>7 DEF RunInv

\* The vertebrae of the spine.
LEMMA SpineStep ==
    ASSUME TypeOK, NEW r \in Runs, RunInv(r),
           Decide(r) \/ Vertebra(r, "execution") \/ Vertebra(r, "verification")
    PROVE  Moves(r) /\ RunInv(r)'
<1>0. /\ run[r].kind \in {"local", "delegated"} /\ run[r].id \in TaskIds
      /\ spine \in [Runs -> SpineRecord] /\ spine[r] \in SpineRecord
  BY KindsNamed DEF TypeOK, RunRecord
<1>1. /\ UNCHANGED <<row, run, made, graph, worked, result, armed>>
      /\ pc[r] \in {"decide", "execution", "verification"}
      /\ pc'[r] = IF pc[r] = "decide" /\ result[r] # "none" THEN "return" ELSE After(r)
      /\ \A o \in Runs \ {r} : pc'[o] = pc[o]
      /\ hurt \subseteq hurt' /\ hurt' \subseteq hurt \cup {r}
  BY DEF Decide, Vertebra, Turn, Passes, _spine_append, Goto, TypeOK, taskVars
<1>2. /\ \A o \in Runs \ {r} : spine'[o] = spine[o]
      /\ \/ spine'[r] = spine[r] /\ (r \in hurt' \/ (pc[r] # "decide" /\ spine[r].decision = "none"))
         \/ /\ pc[r] = "decide" /\ spine'[r].decision = PolicyResult(r)
            /\ spine'[r].execution = spine[r].execution
         \/ pc[r] = "execution" /\ spine'[r].decision = spine[r].decision /\ spine'[r].execution
         \/ /\ pc[r] = "verification" /\ spine'[r].decision = spine[r].decision
            /\ spine'[r].execution = spine[r].execution
  <2>1. CASE Decide(r)
    <3>1. \/ spine' = spine /\ r \in hurt'
          \/ spine' = [spine EXCEPT ![r]["decision"] = PolicyResult(r)]
      BY <2>1 DEF Decide, _spine_append
    <3> QED BY <1>0, <2>1, <3>1 DEF SpineRecord, Decide, Turn
  <2>2. CASE Vertebra(r, "execution")
    <3>1. \/ spine' = spine /\ (r \in hurt' \/ spine[r].decision = "none")
          \/ spine' = [spine EXCEPT ![r]["execution"] = TRUE]
      BY <2>2 DEF Vertebra, _spine_append, Passes
    <3> QED BY <1>0, <2>2, <3>1 DEF SpineRecord, Vertebra, Turn
  <2>3. CASE Vertebra(r, "verification")
    <3>1. \/ spine' = spine /\ (r \in hurt' \/ spine[r].decision = "none")
          \/ spine' = [spine EXCEPT ![r]["verification"] = TRUE]
      BY <2>3 DEF Vertebra, _spine_append, Passes
    <3> QED BY <1>0, <2>3, <3>1 DEF SpineRecord, Vertebra, Turn
  <2> QED BY <2>1, <2>2, <2>3
<1>3. \/ pc[r] = "decide" /\ result[r] # "none" /\ pc'[r] = "return"
      \/ /\ pc[r] = "decide" /\ result[r] = "none"
         /\ pc'[r] = IF run[r].kind = "local" THEN "build" ELSE "PLANNED"
      \/ pc[r] = "execution" /\ pc'[r] = IF run[r].kind = "local" THEN "tools" ELSE "compose"
      \/ pc[r] = "verification" /\ pc'[r] = "return"
  BY <1>0, <1>1, AfterLocal, AfterDelegated
<1>4. Moves(r)
  BY <1>1, <1>2, <1>3 DEF Moves
<1>5. Control(r)'
  BY <1>0, <1>1, <1>3 DEF RunInv, Control, LocalSteps, DelegatedSteps
<1>6. Evidence(r)'
  <2>1. pc[r] = "decide" /\ result[r] = "none" => PolicyResult(r) \in {"ALLOW", "REVIEW"}
    BY DEF PolicyResult
  <2>2. pc[r] \in {"decide", "execution"} => worked[r] = {}
    BY DEF RunInv, Control
  <2> QED BY <1>0, <1>1, <1>2, <1>3, <2>1, <2>2 DEF RunInv, Evidence, Undecided, Proceeds, Executed
<1>7. Tainting(r)'
  BY <1>1, <1>3, TaintingKept DEF RunInv, Planning
<1>8. Telling(r)'
  <2> SUFFICES ASSUME made'[r], Alone(r)', r \notin hurt' PROVE Told(r)'
    BY DEF Telling
  <2>1. Told(r)
    BY <1>1, <1>4, StillAlone DEF RunInv, Telling
  <2> QED BY <1>0, <1>1, <1>3, <2>1 DEF RunInv, Control, Told
<1> QED BY <1>4, <1>5, <1>6, <1>7, <1>8 DEF RunInv

\* The intent and the plan: nothing has run yet.
LEMMA PlanStep ==
    ASSUME TypeOK, NEW r \in Runs, RunInv(r), Intent(r) \/ Plan(r)
    PROVE  Moves(r) /\ RunInv(r)'
<1>0. run[r].kind = "local" /\ run[r].id \in TaskIds
  BY DEF Intent, Plan, Turn, RunInv, Control, LocalSteps, TypeOK, RunRecord
<1>1. /\ UNCHANGED <<row, run, made, worked, result, spine, armed, hurt>>
      /\ \/ pc[r] = "intent" /\ pc'[r] = "planning"
         \/ pc[r] = "planning" /\ pc'[r] = "PLANNED"
      /\ \A o \in Runs \ {r} : pc'[o] = pc[o]
  BY <1>0, AfterLocal DEF Intent, Plan, Turn, Goto, TypeOK, taskVars
<1>2. graph \in [Runs -> GraphRecord] /\ graph[r] \in GraphRecord
  BY DEF TypeOK
<1>3. /\ \A o \in Runs \ {r} : graph'[o] = graph[o]
      /\ graph'[r].pos = graph[r].pos /\ graph'[r].tool = graph[r].tool
      /\ graph'[r].approved = graph[r].approved \/ graph'[r].approved = {} \/ run[r].approve
  <2>1. CASE Intent(r)
    <3>1. PICK a \in SUBSET {"write_file"} :
            /\ graph' = [graph EXCEPT ![r].approved = a]
            /\ a = {} \/ run[r].approve
      BY <2>1 DEF Intent
    <3> QED BY <1>2, <3>1 DEF GraphRecord
  <2>2. CASE Plan(r)
    <3>1. PICK p \in Plans : graph' = [graph EXCEPT ![r].plan = p]
      BY <2>2 DEF Plan
    <3> QED BY <1>2, <3>1 DEF GraphRecord
  <2> QED BY <2>1, <2>2
<1>4. Moves(r)
  BY <1>1, <1>3 DEF Moves
<1>5. Control(r)'
  BY <1>0, <1>1 DEF RunInv, Control, LocalSteps, DelegatedSteps
<1>6. Evidence(r)'
  BY <1>0, <1>1 DEF RunInv, Evidence, Undecided, Proceeds, Executed
<1>7. Tainting(r)'
  <2>1. worked[r] = {} /\ graph[r].pos = 1 /\ graph[r].tool = 1
    BY <1>1 DEF RunInv, Control, Tainting, Planning
  <2> QED BY <1>1, <1>3, <2>1 DEF RunInv, Tainting
<1>8. Telling(r)'
  <2> SUFFICES ASSUME made'[r], Alone(r)', r \notin hurt' PROVE Told(r)'
    BY DEF Telling
  <2>1. Told(r)
    BY <1>1, <1>4, StillAlone DEF RunInv, Telling
  <2> QED BY <1>1, <2>1 DEF Told
<1> QED BY <1>4, <1>5, <1>6, <1>7, <1>8 DEF RunInv

-----------------------------------------------------------------------------
(* Taint.                                                                   *)

LEMMA Least ==
    ASSUME NEW T \in SUBSET Nat, T # {}
    PROVE  \E x \in T : \A y \in T : x <= y
<1> DEFINE R == {ss \in Nat \X Nat : ss[1] < ss[2]}
<1>1. IsWellFoundedOn(R, Nat)
  BY NatLessThanWellFounded DEF OpToRel
<1>2. \A x, y \in Nat : y < x => <<y, x>> \in R
  OBVIOUS
<1> HIDE DEF R
<1>3. PICK x \in T : \A y \in T : ~ (<<y, x>> \in R)
  BY <1>1, WFMin
<1>4. ASSUME NEW y \in T PROVE x <= y
  <2>1. x \in Nat /\ y \in Nat
    OBVIOUS
  <2>2. ~(y < x)
    BY <1>2, <1>3, <2>1
  <2> QED BY <2>1, <2>2
<1> QED BY <1>4

\* A task of the plan consumes the output of an earlier one.
LEMMA FromIsEarlier ==
    ASSUME NEW g \in GraphRecord, NEW j \in 1 .. Len(g.plan)
    PROVE  g.plan[j].from \in Nat /\ g.plan[j].from < j /\ Len(g.plan[j].tools) \in Nat
<1>1. g.plan \in Plans \cup {<<>>}
  BY DEF GraphRecord
<1>2. g.plan \in Plans
  <2>1. g.plan # <<>>
    OBVIOUS
  <2> QED BY <1>1, <2>1
<1> DEFINE Task == [tools : Seq(STRING), cap : STRING, from : Nat]
<1>3. g.plan \in Seq(Task)
  BY <1>2, PlansAssumption
<1>4. \A t \in Task : t.from \in Nat /\ Len(t.tools) \in Nat
  OBVIOUS
<1> HIDE DEF Task
<1>5. g.plan[j] \in Task
  BY <1>3
<1> QED BY <1>2, <1>4, <1>5, PlansAssumption

(***************************************************************************)
(* The mark that run_tool() passes from task to task reaches everything    *)
(* that descends from untrusted content, at any distance: the first task   *)
(* of a line of descent that lacked the mark would consume a marked one.   *)
(***************************************************************************)
LEMMA TaintReaches ==
    ASSUME NEW g \in GraphRecord, TaintClosed(g), g.pos \in 1 .. Len(g.plan) + 1,
           Untrusted(g.plan, g.pos)
    PROVE  g.plan[g.pos].from \in g.tainted
<1>0. /\ g.pos \in Nat /\ Len(g.plan) \in Nat
  <2>1. g.pos \in Nat /\ g.plan \in Plans \cup {<<>>}
    BY DEF GraphRecord
  <2> QED BY <2>1, PlansAssumption
<1>1. PICK up \in SUBSET (1 .. g.pos - 1) :
        /\ g.plan[g.pos].from \in up
        /\ \A j \in up : PassesOn(g.plan[j], up)
  BY DEF Untrusted
<1> DEFINE T == up \ g.tainted
<1>2. SUFFICES ASSUME T # {} PROVE FALSE
  BY <1>1
<1>3. T \in SUBSET Nat
  <2>1. \A n \in 1 .. g.pos - 1 : n \in Nat
    BY <1>0
  <2> QED BY <2>1
<1>4. PICK x \in T : \A y \in T : x <= y
  BY <1>2, <1>3, Least
<1>5. x \in up /\ x \notin g.tainted /\ x \in 1 .. g.pos - 1
  OBVIOUS
<1>6. x \in 1 .. Len(g.plan)
  BY <1>0, <1>5
<1>7. g.plan[x].from \in Nat /\ g.plan[x].from < x
  BY <1>6, FromIsEarlier
<1>8. g.plan[x].from \notin T
  BY <1>4, <1>5, <1>7
<1>9. PassesOn(g.plan[x], g.tainted)
  BY <1>1, <1>5, <1>8 DEF PassesOn
<1> QED BY <1>5, <1>9 DEF TaintClosed

\* The marks after a tool: for the next tool of the task, or for the next task when
\* it was the last.
LEMMA TaintGrows ==
    ASSUME NEW g \in GraphRecord, NEW h \in GraphRecord, TaintClosed(g),
           g.pos \in 1 .. Len(g.plan) + 1, g.tool \in Nat, h.plan = g.plan,
           h.tainted = Taint(g.plan, g.pos, g.plan[g.pos].tools[g.tool], g.tainted),
           \/ h.pos = g.pos /\ h.tool = g.tool + 1
           \/ /\ g.pos \in 1 .. Len(g.plan) /\ h.pos = g.pos + 1 /\ h.tool = 1
              /\ Len(g.plan[g.pos].tools) \in Nat /\ ~(g.tool < Len(g.plan[g.pos].tools))
    PROVE  TaintClosed(h)
<1>0. g.pos \in Nat /\ Len(g.plan) \in Nat
  <2>1. g.pos \in Nat /\ g.plan \in Plans \cup {<<>>}
    BY DEF GraphRecord
  <2> QED BY <2>1, PlansAssumption
<1>1. g.tainted \subseteq h.tainted /\ h.tainted \subseteq g.tainted \cup {g.pos}
  BY DEF Taint
<1>2. ASSUME NEW j \in 1 .. g.pos - 1, PassesOn(g.plan[j], h.tainted) PROVE j \in h.tainted
  <2>1. g.plan[j].from \in Nat /\ g.plan[j].from < j
    BY <1>0, FromIsEarlier
  <2>2. g.plan[j].from # g.pos
    BY <1>0, <2>1
  <2>3. PassesOn(g.plan[j], g.tainted)
    BY <1>1, <1>2, <2>2 DEF PassesOn
  <2> QED BY <1>1, <2>3 DEF TaintClosed
<1>3. ASSUME NEW m \in 1 .. g.tool, g.pos \in 1 .. Len(g.plan),
             g.plan[g.pos].from \in h.tainted \/ g.plan[g.pos].tools[m] \in _TAINTED_TOOLS
      PROVE  g.pos \in h.tainted
  <2>1. g.plan[g.pos].from \in Nat /\ g.plan[g.pos].from < g.pos
    BY <1>0, <1>3, FromIsEarlier
  <2>2. g.plan[g.pos].from # g.pos
    BY <1>0, <2>1
  <2>3. g.plan[g.pos].from \in g.tainted \/ g.plan[g.pos].tools[m] \in _TAINTED_TOOLS
    BY <1>1, <1>3, <2>2
  <2>4. CASE m = g.tool
    BY <2>3, <2>4 DEF Taint
  <2>5. CASE m \in 1 .. g.tool - 1
    BY <1>1, <1>3, <2>3, <2>5 DEF TaintClosed
  <2> QED BY <2>4, <2>5
<1>4. CASE h.pos = g.pos /\ h.tool = g.tool + 1
  BY <1>2, <1>3, <1>4 DEF TaintClosed
<1>5. CASE /\ g.pos \in 1 .. Len(g.plan) /\ h.pos = g.pos + 1 /\ h.tool = 1
           /\ Len(g.plan[g.pos].tools) \in Nat /\ ~(g.tool < Len(g.plan[g.pos].tools))
  <2>1. ASSUME PassesOn(g.plan[g.pos], h.tainted) PROVE g.pos \in h.tainted
    <3>1. CASE g.plan[g.pos].from \in h.tainted
      <4>1. g.plan[g.pos].from \in g.tainted
        <5>1. g.plan[g.pos].from \in Nat /\ g.plan[g.pos].from < g.pos
          BY <1>0, <1>5, FromIsEarlier
        <5> QED BY <1>0, <1>1, <3>1, <5>1
      <4> QED BY <4>1 DEF Taint
    <3>2. CASE ToolsOf(g.plan[g.pos]) \cap _TAINTED_TOOLS # {}
      <4>1. PICK m \in 1 .. Len(g.plan[g.pos].tools) : g.plan[g.pos].tools[m] \in _TAINTED_TOOLS
        BY <3>2 DEF ToolsOf
      <4>2. m \in 1 .. g.tool
        BY <1>5, <4>1
      <4> QED BY <1>3, <1>5, <4>1, <4>2
    <3> QED BY <2>1, <3>1, <3>2 DEF PassesOn
  <2>2. ASSUME NEW j \in 1 .. h.pos - 1, PassesOn(g.plan[j], h.tainted) PROVE j \in h.tainted
    <3>1. j = g.pos \/ j \in 1 .. g.pos - 1
      BY <1>0, <1>5
    <3> QED BY <1>2, <2>1, <2>2, <3>1
  <2> QED BY <1>5, <2>2 DEF TaintClosed
<1> QED BY <1>4, <1>5

\* The gate lets a file be written from marked content only on approval.
LEMMA GateHolds ==
    ASSUME NEW r \in Runs, Allowed(r), ToolUp(r) = "vault_write",
           TaskUp(r).from \in graph[r].tainted
    PROVE  "write_file" \in graph[r].approved
<1>1. Capability(ToolUp(r), TaskUp(r)) = "write_file"
  BY DEF Capability, TOOL_CAPABILITY
<1>2. gate("write_file", armed, run[r].granted, TRUE, graph[r].approved) = "SAFE"
  BY <1>1 DEF Allowed, Verdict
<1>3. "write_file" \in DOMAIN RISK_TIERS /\ "write_file" \in _TAINT_ESCALATED
  BY DEF RISK_TIERS, _TAINT_ESCALATED
<1> QED BY <1>2, <1>3 DEF gate

\* The tools: work follows the decision, and no mark is lost on the way.
LEMMA ToolStep ==
    ASSUME TypeOK, TypeOK', NEW r \in Runs, RunInv(r), ToolFails(r) \/ ToolRuns(r) \/ NoTools(r)
    PROVE  Moves(r) /\ RunInv(r)'
<1> DEFINE g == graph[r]
           h == graph'[r]
           added == <<g.pos, ToolUp(r)>>
<1>0. /\ pc[r] = "tools" /\ run[r].kind = "local" /\ run[r].id \in TaskIds
      /\ graph \in [Runs -> GraphRecord] /\ g \in GraphRecord /\ h \in GraphRecord
      /\ result[r] = "none"
  BY DEF ToolFails, ToolRuns, NoTools, Turn, RunInv, Control, LocalSteps, TypeOK, RunRecord
<1>1. /\ \A o \in Runs \ {r} : graph'[o] = graph[o]
      /\ h.plan = g.plan /\ h.approved = g.approved
      /\ \/ /\ UNCHANGED <<pc, result>>
            /\ \/ h.pos = g.pos /\ h.tool = 1 /\ h.tainted = g.tainted
               \/ /\ h.pos = g.pos /\ h.tool = g.tool + 1
                  /\ h.tainted = Taint(g.plan, g.pos, ToolUp(r), g.tainted)
               \/ /\ g.pos < Len(g.plan) /\ h.pos = g.pos + 1 /\ h.tool = 1
                  /\ \/ /\ TaskUp(r).tools # <<>> /\ ~(g.tool < Len(TaskUp(r).tools))
                        /\ h.tainted = Taint(g.plan, g.pos, ToolUp(r), g.tainted)
                     \/ TaskUp(r).tools = <<>> /\ h.tainted = g.tainted
         \/ \E v \in {"PASS", "FAIL"} : Report(r, v)
  <2>1. PICK new \in GraphRecord :
           /\ graph' = [graph EXCEPT ![r] = new]
           /\ new.plan = g.plan /\ new.approved = g.approved
           /\ \/ /\ UNCHANGED <<pc, result>>
                 /\ \/ new.pos = g.pos /\ new.tool = 1 /\ new.tainted = g.tainted
                    \/ /\ new.pos = g.pos /\ new.tool = g.tool + 1
                       /\ new.tainted = Taint(g.plan, g.pos, ToolUp(r), g.tainted)
                    \/ /\ g.pos < Len(g.plan) /\ new.pos = g.pos + 1 /\ new.tool = 1
                       /\ \/ /\ TaskUp(r).tools # <<>> /\ ~(g.tool < Len(TaskUp(r).tools))
                             /\ new.tainted = Taint(g.plan, g.pos, ToolUp(r), g.tainted)
                          \/ TaskUp(r).tools = <<>> /\ new.tainted = g.tainted
              \/ \E v \in {"PASS", "FAIL"} : Report(r, v)
    BY ToolIs
  <2>2. graph'[r] = new /\ \A o \in Runs \ {r} : graph'[o] = graph[o]
    BY <1>0, <2>1
  <2> QED BY <2>1, <2>2
<1>2. /\ UNCHANGED <<row, run, made, spine, armed, hurt>>
      /\ \A o \in Runs \ {r} : pc'[o] = pc[o] /\ result'[o] = result[o] /\ worked'[o] = worked[o]
      /\ \/ pc'[r] = "tools" /\ result'[r] = "none"
         \/ pc'[r] = "record" /\ result'[r] \in {"PASS", "FAIL"}
      /\ worked'[r] = worked[r] \/ (Allowed(r) /\ worked'[r] = worked[r] \cup {added})
  <2>1. UNCHANGED <<row, run, made, spine, armed, hurt>>
    BY DEF ToolFails, ToolRuns, NoTools, taskVars
  <2>2. (pc' = pc /\ result' = result) \/ \E v \in {"PASS", "FAIL"} : Report(r, v)
    BY <1>1
  <2>3. pc \in [Runs -> Places] /\ DOMAIN worked = Runs /\ DOMAIN result = Runs
    BY DEF TypeOK
  <2>4. After(r) = "record"
    BY <1>0, AfterLocal
  <2>5. worked' = worked \/ (Allowed(r) /\ worked' = [worked EXCEPT ![r] = worked[r] \cup {added}])
    BY WorkIs
  <2> HIDE DEF g, added
  <2> QED BY <1>0, <2>1, <2>2, <2>3, <2>4, <2>5 DEF Report, Goto
<1>3. Moves(r)
  BY <1>0, <1>2, <1>1 DEF Moves
<1>4. Control(r)'
  BY <1>0, <1>2 DEF RunInv, Control, LocalSteps, DelegatedSteps
<1>5. Evidence(r)'
  BY <1>0, <1>2 DEF RunInv, Evidence, Undecided, Proceeds, Executed
<1>6. Tainting(r)'
  <2>0. /\ TaintClosed(g) /\ g.pos \in 1 .. Len(g.plan) + 1 /\ g.tool \in Nat /\ Len(g.plan) \in Nat
        /\ g.pos \in Nat
    <3>1. g.plan \in Plans \cup {<<>>} /\ g.pos \in Nat /\ g.tool \in Nat
      BY <1>0 DEF GraphRecord
    <3>2. Len(g.plan) \in Nat
      BY <3>1, PlansAssumption
    <3> QED BY <1>0, <3>1, <3>2 DEF RunInv, Tainting
  <2>1. pc'[r] = "tools" => TaintClosed(h) /\ h.pos \in 1 .. Len(h.plan) + 1
    <3> SUFFICES ASSUME pc'[r] = "tools" PROVE TaintClosed(h) /\ h.pos \in 1 .. Len(h.plan) + 1
      OBVIOUS
    <3>0. UNCHANGED <<pc, result>>
      <4>1. After(r) = "record"
        BY <1>0, AfterLocal
      <4> QED BY <1>1, <4>1 DEF Report, Goto, TypeOK
    <3>1. CASE h.pos = g.pos /\ h.tool = 1 /\ h.tainted = g.tainted
      BY <1>1, <2>0, <3>1 DEF TaintClosed
    <3>2. CASE /\ h.pos = g.pos /\ h.tool = g.tool + 1
               /\ h.tainted = Taint(g.plan, g.pos, ToolUp(r), g.tainted)
      <4>1. TaintClosed(h)
        BY <1>0, <1>1, <2>0, <3>2, TaintGrows DEF ToolUp, TaskUp
      <4> QED BY <1>1, <2>0, <3>2, <4>1
    <3>3. CASE /\ g.pos < Len(g.plan) /\ h.pos = g.pos + 1 /\ h.tool = 1
               /\ TaskUp(r).tools # <<>> /\ ~(g.tool < Len(TaskUp(r).tools))
               /\ h.tainted = Taint(g.plan, g.pos, ToolUp(r), g.tainted)
      <4>1. Len(g.plan[g.pos].tools) \in Nat /\ g.pos \in 1 .. Len(g.plan)
        <5>1. g.pos \in 1 .. Len(g.plan)
          BY <2>0, <3>3
        <5> QED BY <1>0, <5>1, FromIsEarlier
      <4>2. TaintClosed(h)
        BY <1>0, <1>1, <2>0, <3>3, <4>1, TaintGrows DEF ToolUp, TaskUp
      <4> QED BY <1>1, <2>0, <3>3, <4>2
    <3>4. CASE /\ g.pos < Len(g.plan) /\ h.pos = g.pos + 1 /\ h.tool = 1
               /\ TaskUp(r).tools = <<>> /\ h.tainted = g.tainted
      <4>1. ~PassesOn(g.plan[g.pos], g.tainted)
        BY <3>4 DEF PassesOn, TaskUp
      <4>2. \A j \in 1 .. h.pos - 1 : j = g.pos \/ j \in 1 .. g.pos - 1
        BY <2>0, <3>4
      <4>3. TaintClosed(h)
        BY <1>1, <2>0, <3>4, <4>1, <4>2 DEF TaintClosed
      <4> QED BY <1>1, <2>0, <3>4, <4>3
    <3>5. \A v : ~Report(r, v)
      <4>1. After(r) = "record" /\ "tools" # "record"
        BY <1>0, AfterLocal
      <4>2. pc \in [Runs -> Places]
        BY DEF TypeOK
      <4> QED BY <4>1, <4>2 DEF Report, Goto
    <3> HIDE DEF g, h
    <3> QED BY <1>1, <3>1, <3>2, <3>3, <3>4, <3>5
  <2>2. ASSUME NEW k \in 1 .. Len(g.plan), <<k, "vault_write">> \in worked'[r],
               Untrusted(g.plan, k)
        PROVE  run[r].approve /\ "write_file" \in g.approved
    <3>1. CASE <<k, "vault_write">> \in worked[r]
      BY <2>2, <3>1 DEF RunInv, Tainting
    <3>2. CASE <<k, "vault_write">> = added /\ Allowed(r)
      <4>0. k = g.pos /\ ToolUp(r) = "vault_write"
        BY <3>2
      <4>1. TaskUp(r).from \in g.tainted
        BY <1>0, <2>0, <2>2, <4>0, TaintReaches DEF TaskUp
      <4>2. "write_file" \in g.approved
        BY <3>2, <4>0, <4>1, GateHolds
      <4> QED BY <4>2 DEF RunInv, Tainting
    <3> QED BY <1>2, <2>2, <3>1, <3>2
  <2> QED BY <1>0, <1>2, <1>1, <2>1, <2>2 DEF RunInv, Tainting, Planning
<1>7. Telling(r)'
  <2> SUFFICES ASSUME made'[r], Alone(r)', r \notin hurt' PROVE Told(r)'
    BY DEF Telling
  <2>1. Told(r)
    BY <1>0, <1>2, <1>3, StillAlone DEF RunInv, Telling
  <2> QED BY <1>0, <1>2, <2>1 DEF Told
<1> QED BY <1>3, <1>4, <1>5, <1>6, <1>7 DEF RunInv

-----------------------------------------------------------------------------
(* The end of a run.                                                        *)

\* What is left of the graph after the trace, the worker and the answer.
LEMMA EndStep ==
    ASSUME TypeOK, NEW r \in Runs, RunInv(r), Record(r) \/ Worker(r) \/ Return(r)
    PROVE  Moves(r) /\ RunInv(r)'
<1>0. run[r].kind \in {"local", "delegated"} /\ run[r].id \in TaskIds
  BY KindsNamed DEF TypeOK, RunRecord
<1>1. CASE Record(r)
  <2>1. /\ UNCHANGED <<row, run, made, spine, armed, hurt>>
        /\ pc[r] = "record" /\ run[r].kind = "local"
        /\ \A o \in Runs \ {r} : /\ pc'[o] = pc[o] /\ result'[o] = result[o]
                                 /\ worked'[o] = worked[o] /\ graph'[o] = graph[o]
        /\ \/ pc'[r] = "VERIFYING" /\ result'[r] = result[r]
           \/ pc'[r] = "failing" /\ result'[r] = "ERROR"
        /\ graph'[r] = NoGraph
        /\ worked'[r] = IF worked[r] = {} THEN {} ELSE {Work}
    BY <1>1, AfterLocal DEF Record, Goto, Turn, TypeOK, RunInv, Control, LocalSteps
  <2>2. Moves(r)
    BY <2>1 DEF Moves
  <2>3. Control(r)'
    BY <2>1 DEF RunInv, Control, LocalSteps, DelegatedSteps
  <2>4. Evidence(r)'
    BY <2>1 DEF RunInv, Evidence, Undecided, Proceeds, Executed
  <2>5. Tainting(r)'
    BY <2>1 DEF Tainting, Planning, NoGraph
  <2>6. Telling(r)'
    <3> SUFFICES ASSUME made'[r], Alone(r)', r \notin hurt' PROVE Told(r)'
      BY DEF Telling
    <3>1. Told(r)
      BY <2>1, <2>2, StillAlone DEF RunInv, Telling
    <3> QED BY <2>1, <3>1 DEF Told
  <2> QED BY <2>2, <2>3, <2>4, <2>5, <2>6 DEF RunInv
<1>2. CASE Worker(r)
  <2>1. /\ UNCHANGED <<row, run, made, graph, spine, armed, hurt>>
        /\ pc[r] = "worker" /\ run[r].kind = "delegated" /\ result[r] = "none"
        /\ \A o \in Runs \ {r} : /\ pc'[o] = pc[o] /\ result'[o] = result[o]
                                 /\ worked'[o] = worked[o]
        /\ \/ pc'[r] = "VERIFYING" /\ result'[r] \in {"PASS", "FAIL"}
           \/ pc'[r] = "raised" /\ result'[r] = result[r]
        /\ worked'[r] = {Work}
    BY <1>2, AfterDelegated DEF Worker, Report, Goto, Turn, TypeOK, RunInv, Control,
                                DelegatedSteps, taskVars
  <2>2. Moves(r)
    BY <2>1 DEF Moves
  <2>3. Control(r)'
    BY <2>1 DEF RunInv, Control, LocalSteps, DelegatedSteps
  <2>4. Evidence(r)'
    BY <2>1 DEF RunInv, Evidence, Undecided, Proceeds, Executed
  <2>5. Tainting(r)'
    <3>1. \A k \in 1 .. Len(graph[r].plan) : <<k, "vault_write">> \notin worked'[r]
      <4>1. \A k \in 1 .. Len(graph[r].plan) : k \in Nat
        <5>1. graph[r].plan \in Plans \cup {<<>>}
          BY DEF TypeOK, GraphRecord
        <5>2. Len(graph[r].plan) \in Nat
          BY <5>1, PlansAssumption
        <5> QED BY <5>2
      <4> QED BY <2>1, <4>1, WorkType
    <3> QED BY <2>1, <3>1 DEF RunInv, Tainting, Planning
  <2>6. Telling(r)'
    <3> SUFFICES ASSUME made'[r], Alone(r)', r \notin hurt' PROVE Told(r)'
      BY DEF Telling
    <3>1. Told(r)
      BY <2>1, <2>2, StillAlone DEF RunInv, Telling
    <3> QED BY <2>1, <3>1 DEF Told
  <2> QED BY <2>2, <2>3, <2>4, <2>5, <2>6 DEF RunInv
<1>3. CASE Return(r)
  <2>1. /\ UNCHANGED <<row, run, made, armed, hurt>>
        /\ pc[r] = "return" /\ pc'[r] = "done"
        /\ \A o \in Runs \ {r} : /\ pc'[o] = pc[o] /\ result'[o] = result[o]
                                 /\ worked'[o] = worked[o] /\ graph'[o] = graph[o]
                                 /\ spine'[o] = spine[o]
        /\ result'[r] = IF result[r] = "UNAVAILABLE" THEN "ERROR" ELSE result[r]
        /\ worked'[r] = {} /\ graph'[r] = NoGraph /\ spine'[r] = NoSpine
    BY <1>3 DEF Return, Goto, Turn, TypeOK, taskVars
  <2>2. Moves(r)
    BY <2>1 DEF Moves
  <2>3. Control(r)'
    BY <2>1 DEF RunInv, Control, LocalSteps, DelegatedSteps
  <2>4. Evidence(r)'
    BY <2>1 DEF Evidence, Undecided, Proceeds, Executed, NoSpine
  <2>5. Tainting(r)'
    BY <2>1 DEF Tainting, Planning, NoGraph
  <2>6. Telling(r)'
    <3> SUFFICES ASSUME made'[r], Alone(r)', r \notin hurt' PROVE Told(r)'
      BY DEF Telling
    <3>1. Told(r)
      BY <2>1, <2>2, StillAlone DEF RunInv, Telling
    <3> QED BY <2>1, <3>1 DEF RunInv, Control, Told
  <2> QED BY <2>2, <2>3, <2>4, <2>5, <2>6 DEF RunInv
<1> QED BY <1>1, <1>2, <1>3

\* The process dies, and every run in it.
LEMMA DiesKeeps ==
    ASSUME TypeOK, Dies, NEW r \in Runs, RunInv(r)
    PROVE  RunInv(r)'
<1>1. /\ UNCHANGED <<row, run, made, result, armed, hurt>>
      /\ \A o \in Runs : pc'[o] = IF pc[o] \in Ends \cup {"idle"} THEN pc[o] ELSE "dead"
      /\ graph'[r] = NoGraph /\ worked'[r] = {} /\ spine'[r] = NoSpine
  BY DEF Dies
<1>2. pc'[r] = pc[r] \/ pc'[r] = "dead"
  BY <1>1
<1>3. Control(r)'
  BY <1>1, <1>2 DEF RunInv, Control, LocalSteps, DelegatedSteps
<1>4. Evidence(r)'
  BY <1>1, <1>2 DEF RunInv, Evidence, Undecided, Proceeds, Executed, Ends, NoSpine
<1>5. Tainting(r)'
  BY <1>1, <1>2 DEF Tainting, Planning, NoGraph, Ends
<1>6. Telling(r)'
  <2> SUFFICES ASSUME made'[r], Alone(r)', r \notin hurt' PROVE Told(r)'
    BY DEF Telling
  <2>1. Alone(r)
    BY <1>1 DEF Alone, Ends
  <2>2. Told(r)
    BY <1>1, <2>1 DEF RunInv, Telling
  <2> QED BY <1>1, <1>2, <2>2 DEF Told
<1> QED BY <1>3, <1>4, <1>5, <1>6 DEF RunInv

-----------------------------------------------------------------------------
(* The theorems.                                                            *)

LEMMA RunStep == ASSUME IInv, [Next]_vars, NEW r \in Runs PROVE RunInv(r)'
<1>0. TypeOK /\ TypeOK' /\ \A o \in Runs : RunInv(o)
  BY TypeStep DEF IInv
<1>1. ASSUME NEW m \in Runs, UnknownAgent(m) \/ Begin(m) \/ Step(m)
      PROVE  Moves(m) /\ RunInv(m)'
  BY <1>0, <1>1, BeginKeeps, EmitStep, GateStep, SpineStep, PlanStep, ToolStep, EndStep DEF Step
<1>2. ASSUME NEW m \in Runs, UnknownAgent(m) \/ Begin(m) \/ Step(m)
      PROVE  RunInv(r)'
  BY <1>0, <1>1, <1>2, OthersKept
<1>3. CASE Dies
  BY <1>0, <1>3, DiesKeeps
<1>4. CASE Switch \/ UNCHANGED vars
  <2>1. UNCHANGED <<row, pc, run, made, graph, worked, result, spine, hurt>>
    BY <1>4 DEF Switch, vars, taskVars, runVars
  <2> QED BY <1>0, <2>1 DEF RunInv, Control, Evidence, Undecided, Proceeds, Tainting, TaintClosed,
                            Telling, Told, Alone
<1> QED BY <1>2, <1>3, <1>4 DEF Next

LEMMA InitKeeps == Init => IInv
<1> SUFFICES ASSUME Init PROVE IInv
  OBVIOUS
<1>1. TypeOK
  <2>1. TaskTypeOK
    BY FaultsAssumption DEF Init, TaskInit, TaskTypeOK
  <2>2. (CHOOSE i \in TaskIds : TRUE) \in TaskIds
    BY FaultsAssumption
  <2>3. run \in [Runs -> RunRecord]
    <3>1. [kind |-> "local", id |-> CHOOSE i \in TaskIds : TRUE, approve |-> FALSE,
           granted |-> AllCaps] \in RunRecord
      BY <2>2, KindsNamed DEF RunRecord
    <3> QED BY <3>1 DEF Init
  <2>4. pc \in [Runs -> Places]
    BY KindsNamed DEF Init
  <2> QED BY <2>1, <2>3, <2>4, EmptyTypes DEF Init, TypeOK
<1>2. ASSUME NEW i \in TaskIds PROVE TaskInv(i)
  <2>1. row[i] = "none" /\ log[i] = <<>> /\ chain[i] = <<>> /\ faults = 0
    BY DEF Init, TaskInit
  <2> QED BY <2>1 DEF TaskInv, Mirrored
<1>3. ASSUME NEW r \in Runs PROVE RunInv(r)
  <2>1. /\ pc[r] = "idle" /\ ~made[r] /\ graph[r] = NoGraph /\ worked[r] = {}
        /\ result[r] = "none" /\ spine[r] = NoSpine
    BY DEF Init
  <2> QED BY <2>1 DEF RunInv, Control, LocalSteps, DelegatedSteps, Evidence, Undecided, Proceeds,
                      Executed, Tainting, NoGraph, NoSpine, Telling
<1> QED BY <1>1, <1>2, <1>3 DEF IInv

\* The invariant holds of every reachable state of handle() and its task store.
THEOREM AgentInvariant == Spec => []IInv
<1>1. IInv /\ [Next]_vars => IInv'
  <2> SUFFICES ASSUME IInv, [Next]_vars PROVE IInv'
    OBVIOUS
  <2>1. TypeOK' /\ \A r \in Runs : RunInv(r)'
    BY TypeStep, RunStep
  <2>2. \A i \in TaskIds : TaskInv(i)'
    BY TaskStep DEF IInv
  <2> QED BY <2>1, <2>2 DEF IInv
<1> QED BY <1>1, InitKeeps, PTL DEF Spec

(***************************************************************************)
(* The task store (tasks/lifecycle.py, tasks/events.py): whatever writes   *)
(* are lost and however many runs share a task, its events replay to its   *)
(* projection and name their own events on the chain.                      *)
(***************************************************************************)
THEOREM RecordsHold == Spec => []RecordsAgree
<1>1. IInv => RecordsAgree
  <2> SUFFICES ASSUME IInv PROVE RecordsAgree
    OBVIOUS
  <2>1. ASSUME NEW i \in TaskIds
        PROVE  replay_state(i).legal /\ replay_state(i).consistent /\ Mirrored(i)
               /\ Len(chain[i]) <= Len(log[i]) + faults
    BY DEF IInv, TaskInv, replay_state
  <2> QED BY <2>1 DEF RecordsAgree, Divergences
<1> QED BY <1>1, AgentInvariant, PTL

\* What a run answers is what its task says (agent/handle.py), when no write was
\* lost and nobody shares the task.
THEOREM TaskTells == Spec => []TaskTellsResult
<1>1. IInv => TaskTellsResult
  <2> SUFFICES ASSUME IInv, NEW r \in Runs, pc[r] = "done", made[r], Alone(r), r \notin hurt
               PROVE  CASE result[r] = "PASS" -> row[run[r].id] = "COMPLETED"
                        [] result[r] = "FAIL" -> row[run[r].id] = "FAILED"
                        [] result[r] \in {"BLOCKED", "REVIEW"} -> row[run[r].id] = "DENIED"
                        [] result[r] = "ERROR" ->
                              row[run[r].id] \in {"DENIED", "FAILED", "CREATED", "PLANNED"}
                        [] OTHER -> FALSE
    BY DEF TaskTellsResult
  <2>1. Told(r)
    BY DEF IInv, RunInv, Telling
  <2>2. result[r] \in {"PASS", "FAIL", "ERROR", "REVIEW", "BLOCKED"}
    BY <2>1 DEF Told, IInv, TypeOK
  <2> QED BY <2>1, <2>2 DEF Told
<1> QED BY <1>1, AgentInvariant, PTL

\* No file is written from untrusted content without approval, over plans of any
\* length (the taint of agent/safety.py).
THEOREM TaintHolds == Spec => []TaintedWriteApproved
<1>1. IInv => TaintedWriteApproved
  BY DEF IInv, RunInv, Tainting, TaintedWriteApproved
<1> QED BY <1>1, AgentInvariant, PTL

\* No tool and no worker runs against the decision on the spine (agent/handle.py).
THEOREM WorkHolds == Spec => []WorkIsDecided
<1>1. IInv => WorkIsDecided
  BY DEF IInv, RunInv, Evidence, WorkIsDecided
<1> QED BY <1>1, AgentInvariant, PTL

=============================================================================
