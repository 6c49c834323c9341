------------------------------ MODULE AgentRun ------------------------------
(***************************************************************************)
(* handle() (agent/handle.py): a request becomes a unified task and runs   *)
(* either the local slice, a plan executed tool by tool through the action *)
(* gate (agent/executor.py, agent/safety.py), or is delegated whole to an  *)
(* external worker behind the inversion gate.  Runs are coroutines of one  *)
(* server: between two awaits a run is alone, but the process may die, and *)
(* every write to the task store, the audit chain and the evidence spine   *)
(* (evidence/spine.py) may fail and is then only logged.                   *)
(*                                                                         *)
(* The id of a run is the second and a hash of the request: equal requests *)
(* of one second share a task.                                             *)
(***************************************************************************)
EXTENDS TaskLifecycle, ToolGate

CONSTANTS
    Runs,
    Plans,       \* what the planner may return
    Grants,      \* capability grants of registered agents
    MaxRetries   \* bound: the retries of a task's retry_policy

ASSUME PlansAssumption ==
    /\ MaxRetries \in Nat
    /\ Plans \subseteq Seq([tools : Seq(STRING), cap : STRING, from : Nat])
    /\ \A p \in Plans : p # <<>> /\ \A k \in 1 .. Len(p) : p[k].from < k

VARIABLES
    pc,       \* run -> the next step, a name of Script or an end
    run,      \* run -> [kind, id, approve, granted], fixed when it begins
    made,     \* run -> its create() succeeded
    graph,    \* run -> [plan, pos, tool, attempt, tainted, approved]
    worked,   \* run -> the tools that ran, with their task's position, or Work
    result,   \* run -> the verdict to return
    spine,    \* run -> [decision, execution, verification] on the spine
    armed,    \* the kill switch
    hurt      \* runs that lost a write to the task store or the spine (auxiliary)

runVars == <<pc, run, made, graph, worked, result, spine, armed, hurt>>
vars == <<taskVars, runVars>>

AllCaps == DOMAIN RISK_TIERS
Ends == {"done", "raised", "dead"}

\* The two paths: the first step of each, and the step after each step.
FirstStep == [local |-> "moie", delegated |-> "available"]

Script ==
    [local     |-> [moie |-> "intent", intent |-> "planning", planning |-> "PLANNED",
                    PLANNED |-> "decide", decide |-> "build", build |-> "EXECUTING",
                    EXECUTING |-> "execution", execution |-> "tools", tools |-> "record",
                    record |-> "VERIFYING", VERIFYING |-> "final", final |-> "verification",
                    verification |-> "return"],
     delegated |-> [available |-> "inversion", inversion |-> "decide", decide |-> "PLANNED",
                    PLANNED |-> "EXECUTING", EXECUTING |-> "execution",
                    execution |-> "compose", compose |-> "worker", worker |-> "VERIFYING",
                    VERIFYING |-> "final", final |-> "verification",
                    verification |-> "return"]]

Awaits == {"idle", "moie", "intent", "planning", "tools", "inversion", "worker"} \cup Ends

After(r) == Script[run[r].kind][pc[r]]

Goto(r, to) == pc' = [pc EXCEPT ![r] = to]

\* A run is at a step, and no other run is between two awaits.
Turn(r, step) == pc[r] = step /\ \A o \in Runs \ {r} : pc[o] \in Awaits

NoSpine == [decision |-> "none", execution |-> FALSE, verification |-> FALSE]
NoGraph ==
    [plan |-> <<>>, pos |-> 1, tool |-> 1, attempt |-> 0, tainted |-> {}, approved |-> {}]

\* A worker's own work, and what is left of a graph's in the end.
Work == <<0, "work">>

Init ==
    /\ TaskInit
    /\ pc = [r \in Runs |-> "idle"]
    /\ run = [r \in Runs |-> [kind |-> "local", id |-> CHOOSE i \in TaskIds : TRUE,
                              approve |-> FALSE, granted |-> AllCaps]]
    /\ made = [r \in Runs |-> FALSE]
    /\ graph = [r \in Runs |-> NoGraph]
    /\ worked = [r \in Runs |-> {}]
    /\ result = [r \in Runs |-> "none"]
    /\ spine = [r \in Runs |-> NoSpine]
    /\ armed = FALSE
    /\ hurt = {}

-----------------------------------------------------------------------------
(* The durable writes, all of them best effort.                             *)

\* _lifecycle_emit() with a state, on the way to another step.
_lifecycle_emit(r, s, to) ==
    /\ Goto(r, to)
    /\ \/ transition(run[r].id, s) /\ UNCHANGED hurt
       \/ /\ TransitionFails(run[r].id, s)
          /\ hurt' = IF faults' > faults THEN hurt \cup {r} ELSE hurt
    /\ UNCHANGED <<run, made, graph, worked, result, spine, armed>>

\* _spine_append() of one vertebra.
_spine_append(r, kind, value, to) ==
    /\ Goto(r, to)
    /\ \/ spine' = [spine EXCEPT ![r][kind] = value] /\ UNCHANGED <<faults, hurt>>
       \/ Fault /\ hurt' = hurt \cup {r} /\ UNCHANGED spine
    /\ UNCHANGED <<row, log, chain, run, made, graph, worked, result, armed>>

-----------------------------------------------------------------------------
(* The beginning.                                                           *)

\* An unknown agent, a revoked one and one without a provider never run.
UnknownAgent(r) ==
    /\ Turn(r, "idle")
    /\ Goto(r, "done") /\ result' = [result EXCEPT ![r] = "ERROR"]
    /\ UNCHANGED <<taskVars, run, made, graph, worked, spine, armed, hurt>>

Begin(r) ==
    /\ Turn(r, "idle")
    /\ \E kind \in DOMAIN Script, i \in TaskIds, ok \in BOOLEAN, g \in Grants :
        /\ kind = "delegated" => g = AllCaps
        /\ run' = [run EXCEPT ![r] = [kind |-> kind, id |-> i, approve |-> ok, granted |-> g]]
    /\ Goto(r, "create")
    /\ UNCHANGED <<taskVars, made, graph, worked, result, spine, armed, hurt>>

Create(r) ==
    /\ Turn(r, "create")
    /\ Goto(r, FirstStep[run[r].kind])
    /\ \/ create(run[r].id) /\ made' = [made EXCEPT ![r] = TRUE]
       \/ CreateFails(run[r].id) /\ UNCHANGED made
    /\ UNCHANGED <<run, graph, worked, result, spine, armed, hurt>>

-----------------------------------------------------------------------------
(* The gates, and the decision on the spine.                                *)

Passes(r) ==
    /\ Goto(r, After(r))
    /\ UNCHANGED <<taskVars, run, made, graph, worked, result, spine, armed, hurt>>

Stops(r, verdict, to) ==
    /\ Goto(r, to) /\ result' = [result EXCEPT ![r] = verdict]
    /\ UNCHANGED <<taskVars, run, made, graph, worked, spine, armed, hurt>>

\* Only BLOCK denies: a conditional verdict and an outage proceed.
_quick_reject_gate(r) ==
    /\ Turn(r, "moie")
    /\ Stops(r, "BLOCKED", "deny") \/ Passes(r)

Available(r) ==
    /\ Turn(r, "available")
    /\ Stops(r, "UNAVAILABLE", "deny") \/ Passes(r)

\* An outage denies, and a conditional verdict needs the operator's approval.
_delegation_inversion_gate(r) ==
    /\ Turn(r, "inversion")
    /\ \/ \E verdict \in {"ERROR", "BLOCKED"} : Stops(r, verdict, "deny")
       \/ ~run[r].approve /\ Stops(r, "REVIEW", "deny")
       \/ Passes(r)

\* Slip: a run that is refused is marked FAILED.
DenyAsFailed(r) ==
    /\ Turn(r, "deny")
    /\ _lifecycle_emit(r, "FAILED", IF result[r] = "UNAVAILABLE" THEN "return" ELSE "decide")

\* A provider that is not available leaves no decision.
Deny(r) ==
    /\ Turn(r, "deny")
    /\ _lifecycle_emit(r, "DENIED", IF result[r] = "UNAVAILABLE" THEN "return" ELSE "decide")

\* The result of the policy that the decision records.
PolicyResult(r) ==
    CASE result[r] \in {"BLOCKED", "ERROR"} -> "DENY"
      [] result[r] = "REVIEW" -> "REVIEW"
      [] result[r] = "none" -> IF run[r].kind = "delegated" \/ run[r].approve THEN "ALLOW"
                                                                            ELSE "REVIEW"

\* Slip: a delegation goes on once its decision is recorded.
DecideGoesOn(r) ==
    /\ Turn(r, "decide")
    /\ _spine_append(r, "decision", PolicyResult(r),
                     IF result[r] = "none" \/ run[r].kind = "delegated" THEN After(r)
                                                                       ELSE "return")

Decide(r) ==
    /\ Turn(r, "decide")
    /\ _spine_append(r, "decision", PolicyResult(r),
                     IF result[r] = "none" THEN After(r) ELSE "return")

\* The later vertebrae hang on the decision that was stored.
Vertebra(r, kind) ==
    /\ Turn(r, kind)
    /\ IF spine[r].decision = "none" THEN Passes(r)
                                     ELSE _spine_append(r, kind, TRUE, After(r))

Emit(r, s) == Turn(r, s) /\ _lifecycle_emit(r, s, After(r))

-----------------------------------------------------------------------------
(* The local slice.                                                         *)

\* The steps of the slice whose code may raise: the exception is caught,
\* FAILED is tried, and the caller gets an answer.
Raises(r) ==
    /\ \E step \in {"intent", "planning", "build", "tools"} : Turn(r, step)
    /\ Stops(r, "ERROR", "failing")

Failing(r) ==
    /\ Turn(r, "failing")
    /\ _lifecycle_emit(r, "FAILED", "return")

\* The intent declares whether it wants to write; the approval covers what it
\* declares.
Intent(r) ==
    /\ Turn(r, "intent")
    /\ \E permissions \in SUBSET {"write_file"} :
        graph' = [graph EXCEPT ![r].approved = IF run[r].approve THEN permissions ELSE {}]
    /\ Goto(r, After(r))
    /\ UNCHANGED <<taskVars, run, made, worked, result, spine, armed, hurt>>

Plan(r) ==
    /\ Turn(r, "planning")
    /\ \E p \in Plans : graph' = [graph EXCEPT ![r].plan = p]
    /\ Goto(r, After(r))
    /\ UNCHANGED <<taskVars, run, made, worked, result, spine, armed, hurt>>

Build(r) == Turn(r, "build") /\ Passes(r)

\* The task that is up, and the tool of it that is.
TaskUp(r) == graph[r].plan[graph[r].pos]
ToolUp(r) == TaskUp(r).tools[graph[r].tool]

Verdict(r) ==
    gate(Capability(ToolUp(r), TaskUp(r)), armed, run[r].granted,
         TaskUp(r).from \in graph[r].tainted, graph[r].approved)

\* execute_graph() ends with its report.
Report(r, verdict) == Goto(r, After(r)) /\ result' = [result EXCEPT ![r] = verdict]

\* The gate lets the tool through to a provider that knows it.
Allowed(r) == Verdict(r) = "SAFE" /\ ToolUp(r) \in DOMAIN TOOL_CAPABILITY

RecordWork(r) == worked' = [worked EXCEPT ![r] = @ \cup {<<graph[r].pos, ToolUp(r)>>}]

\* The gate refuses, or the tool raises or times out, with its effect or without
\* it: the task is tried again from its first tool.
ToolFails(r) ==
    /\ Turn(r, "tools") /\ TaskUp(r).tools # <<>>
    /\ UNCHANGED worked \/ (Allowed(r) /\ RecordWork(r))
    /\ IF graph[r].attempt < MaxRetries
       THEN /\ graph' = [graph EXCEPT ![r] = [graph[r] EXCEPT
                    !.attempt = graph[r].attempt + 1, !.tool = 1]]
            /\ UNCHANGED <<pc, result>>
       ELSE Report(r, "FAIL") /\ UNCHANGED graph
    /\ UNCHANGED <<taskVars, run, made, spine, armed, hurt>>

\* The output of the task, at the marks `g`, is verified; the next task is up.
Verified(r, g) ==
    \E ok \in BOOLEAN :
        /\ graph' = [graph EXCEPT ![r] = [g EXCEPT !.attempt = 0, !.tool = 1,
                !.pos = IF ok /\ g.pos < Len(g.plan) THEN g.pos + 1 ELSE g.pos]]
        /\ IF ok /\ g.pos < Len(g.plan) THEN UNCHANGED <<pc, result>>
                                        ELSE Report(r, IF ok THEN "PASS" ELSE "FAIL")

\* A tool runs, and the next one of its task is up, if there is one.
ToolRuns(r) ==
    LET g == graph[r]
        marked == [g EXCEPT !.tainted = Taint(g.plan, g.pos, ToolUp(r), g.tainted)]
    IN
    /\ Turn(r, "tools") /\ TaskUp(r).tools # <<>> /\ Allowed(r)
    /\ RecordWork(r)
    /\ IF g.tool < Len(TaskUp(r).tools)
       THEN /\ graph' = [graph EXCEPT ![r] = [marked EXCEPT !.tool = g.tool + 1]]
            /\ UNCHANGED <<pc, result>>
       ELSE Verified(r, marked)
    /\ UNCHANGED <<taskVars, run, made, spine, armed, hurt>>

\* A task without tools: there is nothing to gate and nothing to mark.
NoTools(r) ==
    /\ Turn(r, "tools") /\ TaskUp(r).tools = <<>>
    /\ Verified(r, graph[r])
    /\ UNCHANGED <<taskVars, run, made, worked, spine, armed, hurt>>

\* record_trace(): when the chain refuses, the run fails after its work.  What
\* is left of the graph is that it worked.
Record(r) ==
    /\ Turn(r, "record")
    /\ \/ Goto(r, After(r)) /\ UNCHANGED <<faults, result>>
       \/ Fault /\ Goto(r, "failing") /\ result' = [result EXCEPT ![r] = "ERROR"]
    /\ graph' = [graph EXCEPT ![r] = NoGraph]
    /\ worked' = [worked EXCEPT ![r] = IF @ = {} THEN {} ELSE {Work}]
    /\ UNCHANGED <<row, log, chain, run, made, spine, armed, hurt>>

-----------------------------------------------------------------------------
(* The worker.                                                              *)

\* The composed context is filed under the task, and a task that was never
\* created raises out of handle().
Compose(r) ==
    /\ Turn(r, "compose")
    /\ \/ Passes(r)
       \/ row[run[r].id] = "none" /\ Stops(r, "none", "raised")

Worker(r) ==
    /\ Turn(r, "worker")
    /\ worked' = [worked EXCEPT ![r] = {Work}]
    /\ \/ \E verdict \in {"PASS", "FAIL"} : Report(r, verdict)
       \/ Goto(r, "raised") /\ UNCHANGED result
    /\ UNCHANGED <<taskVars, run, made, graph, spine, armed, hurt>>

-----------------------------------------------------------------------------
(* The end, and the environment.                                            *)

Final(r) ==
    /\ Turn(r, "final")
    /\ _lifecycle_emit(r, IF result[r] = "PASS" THEN "COMPLETED" ELSE "FAILED", After(r))

\* The answer; nothing else of the run outlives it.
Return(r) ==
    /\ Turn(r, "return")
    /\ Goto(r, "done")
    /\ result' = [result EXCEPT ![r] = IF @ = "UNAVAILABLE" THEN "ERROR" ELSE @]
    /\ graph' = [graph EXCEPT ![r] = NoGraph]
    /\ worked' = [worked EXCEPT ![r] = {}]
    /\ spine' = [spine EXCEPT ![r] = NoSpine]
    /\ UNCHANGED <<taskVars, run, made, armed, hurt>>

Switch ==
    /\ Fault /\ armed' = ~armed
    /\ UNCHANGED <<row, log, chain, pc, run, made, graph, worked, result, spine, hurt>>

Dies ==
    /\ Fault /\ \E r \in Runs : pc[r] \notin Ends \cup {"idle"}
    /\ pc' = [r \in Runs |-> IF pc[r] \in Ends \cup {"idle"} THEN pc[r] ELSE "dead"]
    /\ graph' = [r \in Runs |-> NoGraph]
    /\ worked' = [r \in Runs |-> {}]
    /\ spine' = [r \in Runs |-> NoSpine]
    /\ UNCHANGED <<row, log, chain, run, made, result, armed, hurt>>

Step(r) ==
    \/ Create(r) \/ _quick_reject_gate(r) \/ Available(r) \/ _delegation_inversion_gate(r)
    \/ Deny(r) \/ Decide(r) \/ Vertebra(r, "execution") \/ Vertebra(r, "verification")
    \/ \E s \in {"PLANNED", "EXECUTING", "VERIFYING"} : Emit(r, s)
    \/ Intent(r) \/ Plan(r) \/ Build(r) \/ ToolFails(r) \/ ToolRuns(r) \/ NoTools(r)
    \/ Record(r) \/ Raises(r) \/ Failing(r) \/ Compose(r) \/ Worker(r) \/ Final(r) \/ Return(r)

Next ==
    \/ \E r \in Runs : UnknownAgent(r) \/ Begin(r) \/ Step(r)
    \/ Switch \/ Dies

Spec == Init /\ [][Next]_vars

-----------------------------------------------------------------------------
(* Properties.                                                              *)

Places ==
    {"idle", "create", "deny", "failing", "return"} \cup Ends
        \cup DOMAIN Script["local"] \cup DOMAIN Script["delegated"]
RunRecord == [kind : DOMAIN Script, id : TaskIds, approve : BOOLEAN,
              granted : Grants \cup {AllCaps}]
GraphRecord == [plan : Plans \cup {<<>>}, pos : Nat, tool : Nat, attempt : 0 .. MaxRetries,
                tainted : SUBSET Nat, approved : SUBSET {"write_file"}]
WorkItems == Nat \X (DOMAIN TOOL_CAPABILITY \cup {"work"})
SpineRecord == [decision : {"none", "ALLOW", "REVIEW", "DENY"}, execution : BOOLEAN,
                verification : BOOLEAN]

TypeOK ==
    /\ TaskTypeOK
    /\ pc \in [Runs -> Places]
    /\ run \in [Runs -> RunRecord]
    /\ made \in [Runs -> BOOLEAN]
    /\ graph \in [Runs -> GraphRecord]
    /\ worked \in [Runs -> SUBSET WorkItems]
    /\ result \in [Runs -> {"none", "PASS", "FAIL", "ERROR", "REVIEW", "BLOCKED",
                            "UNAVAILABLE"}]
    /\ spine \in [Runs -> SpineRecord]
    /\ armed \in BOOLEAN /\ hurt \subseteq Runs

\* The three records of a task agree, whatever writes are lost and even when two
\* runs share it: its events replay along legal transitions to its projection
\* (ReplayEngine.reconcile() finds no divergence), every event with an audit_seq
\* is that event of the chain, and the chain is ahead only by lost writes.
RecordsAgree ==
    /\ Divergences = {}
    /\ \A i \in TaskIds : Mirrored(i) /\ Len(chain[i]) <= Len(log[i]) + faults

Alone(r) == \A o \in Runs \ {r} : pc[o] = "idle" \/ run[o].id # run[r].id

\* When a run that lost no write and shares its task with nobody returns, the
\* task says what the caller was told; only a run that raised before EXECUTING
\* leaves it open.
TaskTellsResult ==
    \A r \in Runs : (pc[r] = "done" /\ made[r] /\ Alone(r) /\ r \notin hurt) =>
        CASE result[r] = "PASS" -> row[run[r].id] = "COMPLETED"
          [] result[r] = "FAIL" -> row[run[r].id] = "FAILED"
          [] result[r] \in {"BLOCKED", "REVIEW"} -> row[run[r].id] = "DENIED"
          [] result[r] = "ERROR" -> row[run[r].id] \in {"DENIED", "FAILED", "CREATED", "PLANNED"}
          [] OTHER -> FALSE

\* A file is never written from content that descends from untrusted sources,
\* over any number of tasks, unless the operator approved the run and the intent
\* declared the write (the A8 rule of SafeProvider and ActionGate).
TaintedWriteApproved ==
    \A r \in Runs : \A k \in 1 .. Len(graph[r].plan) :
        (<<k, "vault_write">> \in worked[r] /\ Untrusted(graph[r].plan, k))
            => run[r].approve /\ "write_file" \in graph[r].approved

\* No worker and no tool runs against the recorded decision, or without one
\* unless a write to the spine was lost; what runs is never reported as refused.
WorkIsDecided ==
    \A r \in Runs : worked[r] # {} =>
        /\ result[r] \notin {"BLOCKED", "REVIEW"}
        /\ spine[r].decision # "DENY"
        /\ spine[r].decision = "none" => r \in hurt
        /\ spine[r].execution \/ r \in hurt

\* A run that fails leaves the evidence: every run that returns has taken its
\* task to a terminal state ("the loop must fail with evidence, not crash").
FailsWithEvidence ==
    \A r \in Runs : (pc[r] = "done" /\ made[r] /\ r \notin hurt) => row[run[r].id] \in TERMINAL

=============================================================================
