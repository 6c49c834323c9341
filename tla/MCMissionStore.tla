-------------------------- MODULE MCMissionStore --------------------------
(* Two new missions over one write lock and one chain or, for the states a    *)
(* short chain does not reach, one mission that the gate is about to judge.   *)
EXTENDS MissionStore, TLC

CONSTANTS agent, op, b1   \* the agent, operator and body of the late start

Blueprint == version_sha256("blueprint", None, b1)
Plan == version_sha256("plan", Blueprint, b1)

\* The events of a mission led, without a detour, from DRAFT to VERIFYING.
History(m) ==
    << Created(m), Moved(m, "DRAFT", "RESEARCHING", agent, None), Versioned(m, Blueprint),
       Moved(m, "RESEARCHING", "BLUEPRINT_REVIEW", agent, None),
       Moved(m, "BLUEPRINT_REVIEW", "PLANNING", agent, op), Versioned(m, Plan),
       Moved(m, "PLANNING", "PLAN_REVIEW", agent, None),
       Moved(m, "PLAN_REVIEW", "BUILDING", agent, op),
       Moved(m, "BUILDING", "VERIFYING", agent, None) >>

LateInit ==
    \E m \in Missions :
        /\ db = [n \in Missions |-> IF n # m THEN NoRow ELSE
                   [state |-> "VERIFYING", resume |-> None,
                    latest |-> [k \in VersionKind |->
                        CASE k = "blueprint" -> Blueprint [] k = "plan" -> Plan
                          [] OTHER -> None]]]
        /\ chain = History(m)
        /\ log = [i \in DOMAIN chain |-> [event |-> chain[i], at |-> i]]
        /\ txn = Idle
        /\ gaps = 0

StartSpec == (Init \/ LateInit) /\ [][Next]_vars

\* Bound: two missions share the first four events; after a late start one
\* mission has all of them.
FewEvents ==
    \/ Len(chain) <= 3
    \/ Len(chain) >= 9 /\ \A i \in DOMAIN chain : chain[i].mission = chain[1].mission

Symmetry == Permutations(Missions)
=============================================================================
