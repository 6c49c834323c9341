---------------------------- MODULE MissionSpine ----------------------------
(***************************************************************************)
(* What the mission store promises its callers: one mission's life as a    *)
(* sequence of indivisible, authorised moves.  MissionStore, which adds    *)
(* transactions, the audit chain and crashes, implements this              *)
(* specification for each of its missions.                                 *)
(*                                                                         *)
(* Two history variables project the append-only mission_transitions      *)
(* table: `verdict` is the verdict VERIFYING gave the present build, void  *)
(* once the mission is back in BUILDING, and `crossed` the reviews         *)
(* (HUMAN_GATED) the table records as approved by an operator.             *)
(***************************************************************************)
EXTENDS MissionStates

VARIABLES
    state,    \* missions.state, or "none" before create()
    resume,   \* missions.resume_state
    latest,   \* latest version per kind
    verdict,  \* the row that judged the present build, or None
    crossed   \* human-gated moves made with an operator's approval

vars == <<state, resume, latest, verdict, crossed>>

TypeOK ==
    /\ state \in MissionState \cup {"none"}
    /\ resume \in WorkStates \cup {None}
    /\ latest \in Latest
    /\ verdict \in Verdict \cup {None}
    /\ crossed \subseteq HUMAN_GATED

Init ==
    /\ state = "none"
    /\ resume = None
    /\ latest = [k \in VersionKind |-> None]
    /\ verdict = None
    /\ crossed = {}

\* create(): a mission starts as a DRAFT with no artifacts.
Create ==
    /\ state = "none"
    /\ state' = "DRAFT"
    /\ UNCHANGED <<resume, latest, verdict, crossed>>

\* add_version(): any non-terminal mission takes a new version, in any state.
AddVersion(kind, body) ==
    /\ state # "none"
    /\ MayAddVersion(state, latest, kind, body)
    /\ latest' = [latest EXCEPT ![kind] =
                    version_sha256(kind, ParentSha(latest, kind), body)]
    /\ UNCHANGED <<state, resume, verdict, crossed>>

\* Slip: resume_state is written once (COALESCE) and survives the return.
TransitionResumeStays(target, actor, approver) ==
    /\ state # "none"
    /\ MayTransition(state, resume, latest, target, actor, approver)
    /\ state' = target
    /\ resume' = IF resume = None THEN ResumeAfter(state, target) ELSE resume
    /\ verdict' = VerdictAfter(state, target, actor, verdict)
    /\ crossed' = IF approver \in Operators /\ <<state, target>> \in HUMAN_GATED
                  THEN crossed \cup {<<state, target>>} ELSE crossed
    /\ UNCHANGED latest

\* transition(): one authorised move.
Transition(target, actor, approver) ==
    /\ state # "none"
    /\ MayTransition(state, resume, latest, target, actor, approver)
    /\ state' = target
    /\ resume' = ResumeAfter(state, target)
    /\ verdict' = VerdictAfter(state, target, actor, verdict)
    /\ crossed' = IF approver \in Operators /\ <<state, target>> \in HUMAN_GATED
                  THEN crossed \cup {<<state, target>>} ELSE crossed
    /\ UNCHANGED latest

Next ==
    \/ Create
    \/ \E kind \in VersionKind, body \in Bodies : AddVersion(kind, body)
    \/ \E target \in MissionState, actor \in Actors,
          approver \in Operators \cup Strangers \cup {None} :
          Transition(target, actor, approver)

Spec == Init /\ [][Next]_vars

-----------------------------------------------------------------------------
(* Where a mission stands: its state, or the state it will resume in.       *)
Standing == IF state = "BLOCKED_ON_HUMAN" THEN resume ELSE state

AfterPlanGate == {"BUILDING", "VERIFYING", "MERGED"} \cup GATE_VERDICTS
AfterBlueprintGate == {"PLANNING", "PLAN_REVIEW"} \cup AfterPlanGate

(***************************************************************************)
(* No mission stands beyond a review it did not pass: whatever sequence of *)
(* rework, blocking and resuming it went through, a mission at or past     *)
(* PLANNING had its blueprint approved by a configured operator, and one   *)
(* at or past BUILDING its plan too (states.py HUMAN_GATED, store.py       *)
(* transition()).                                                          *)
(***************************************************************************)
ReviewsPassed ==
    /\ Standing \in AfterBlueprintGate => <<"BLUEPRINT_REVIEW", "PLANNING">> \in crossed
    /\ Standing \in AfterPlanGate => <<"PLAN_REVIEW", "BUILDING">> \in crossed

(***************************************************************************)
(* A mission is merged only on a GREEN or REVIEW verdict that the gate     *)
(* itself gave the build being merged, and the operator approved that very *)
(* merge: a BLOCK verdict, or one from before a rework, cannot be          *)
(* laundered into a merge through BLOCKED_ON_HUMAN (states.py docstring,   *)
(* rule 2; §9).                                                            *)
(***************************************************************************)
MergedOnVerdict ==
    state = "MERGED" =>
        /\ verdict # None
        /\ verdict.actor = GateActor
        /\ verdict.to \in {"GATED_GREEN", "GATED_REVIEW"}
        /\ <<verdict.to, "MERGED">> \in crossed

(***************************************************************************)
(* Blocking and resuming judge nothing.  A mission that is in a GATED_     *)
(* state, or is blocked and will resume in one, got exactly that verdict   *)
(* from the gate, out of VERIFYING, after its last BUILDING: a verdict on  *)
(* an earlier build, or a different one, cannot be had by parking the      *)
(* mission and coming back (store.py transition(), resume_state).          *)
(***************************************************************************)
VerdictStands ==
    Standing \in GATE_VERDICTS =>
        verdict # None /\ verdict.actor = GateActor /\ verdict.to = Standing

\* The three above, with what makes them inductive: resume_state is set
\* exactly while the mission is blocked.
Authority ==
    /\ ReviewsPassed /\ MergedOnVerdict /\ VerdictStands
    /\ (state = "BLOCKED_ON_HUMAN") <=> (resume # None)

(***************************************************************************)
(* A mission that merges or is abandoned is frozen: no later move and no   *)
(* later version changes what was merged (TERMINAL in both operations).    *)
(***************************************************************************)
TerminalIsFinal == [][state \notin TERMINAL]_vars
=============================================================================
