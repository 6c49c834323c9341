------------------------------ MODULE ToolGate ------------------------------
(***************************************************************************)
(* The action gate and the taint rule of SafeProvider (agent/safety.py)    *)
(* for the tools of the handle slice.  A plan is a sequence of tasks in    *)
(* execution order, each with its tools in order, if any, the capability   *)
(* it declares first or "none", and the position of the one task whose     *)
(* output it consumes, 0 for none (agent/dag.py; both planners derive a    *)
(* task's inputs from its parent_id).                                      *)
(***************************************************************************)
EXTENDS Naturals, Sequences

RISK_TIERS ==
    [read_vault   |-> 1, llm_synthesis |-> 1, web_search |-> 1, write_file  |-> 2,
     vault_delete |-> 3, send_message  |-> 3, financial  |-> 4, permissions |-> 4]

TOOL_CAPABILITY ==
    [search_query |-> "read_vault", vault_read |-> "read_vault", chat |-> "llm_synthesis",
     vault_write |-> "write_file"]

_TAINTED_TOOLS == {"search_query", "vault_read"}
_TAINT_ESCALATED == {"write_file", "vault_delete", "send_message", "financial", "permissions"}

REVIEW_TIER == 3
BLOCK_TIER == 4

\* A tool outside the map is gated as what its task declares, or as a read.
Capability(name, task) ==
    IF name \in DOMAIN TOOL_CAPABILITY THEN TOOL_CAPABILITY[name]
    ELSE IF task.cap # "none" THEN task.cap ELSE "read_vault"

\* _decide(): the verdict on one capability.
gate(capability, armed, granted, tainted, approved) ==
    IF capability \notin DOMAIN RISK_TIERS
    THEN IF tainted THEN "REVIEW" ELSE "BLOCK"
    ELSE LET tier == RISK_TIERS[capability] IN
         CASE armed \/ capability \notin granted -> "BLOCK"
           [] ~armed /\ capability \in granted ->
                IF tainted /\ capability \in _TAINT_ESCALATED \ approved THEN "REVIEW"
                ELSE IF tier >= BLOCK_TIER THEN "BLOCK"
                ELSE IF tier >= REVIEW_TIER THEN "REVIEW"
                ELSE "SAFE"

\* Slip: a task is marked for its own tool only.
TaintsItself(plan, k, name, tainted) ==
    IF name \in _TAINTED_TOOLS THEN tainted \cup {k} ELSE tainted

\* run_tool() after the call of one tool of task k: taint flows with the data.
Taint(plan, k, name, tainted) ==
    IF plan[k].from \in tainted \/ name \in _TAINTED_TOOLS
    THEN tainted \cup {k} ELSE tainted

ToolsOf(task) == {task.tools[m] : m \in 1 .. Len(task.tools)}

\* A task passes on what its tools made of its input or found themselves; the
\* output of a task without tools is empty.
PassesOn(task, inputs) ==
    /\ task.tools # <<>>
    /\ task.from \in inputs \/ ToolsOf(task) \cap _TAINTED_TOOLS # {}

\* The reference: what task k consumes was produced, at any distance, from
\* untrusted content.
Untrusted(plan, k) ==
    \E up \in SUBSET (1 .. k - 1) :
        plan[k].from \in up /\ \A j \in up : PassesOn(plan[j], up)

=============================================================================
