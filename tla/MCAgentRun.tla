----------------------------- MODULE MCAgentRun -----------------------------
(* Two runs that may share a task id, and plans of two shapes: the template *)
(* with its write, whose first task has a second tool, and a write that a   *)
(* task without tools feeds, followed by a tool nobody knows.               *)
EXTENDS AgentRun, TLC

Task(tools, cap, from) == [tools |-> tools, cap |-> cap, from |-> from]

MCPlans ==
    {<<Task(<<"search_query", "chat">>, "read_vault", 0), Task(<<"chat">>, "llm_synthesis", 1),
       Task(<<"vault_write">>, "write_file", 2)>>,
     <<Task(<<>>, "none", 0), Task(<<"vault_write", "shell">>, "write_file", 1)>>}

Symmetry == Permutations(Runs)

MCGrants == {AllCaps, {"read_vault", "llm_synthesis"}}

=============================================================================
