--------------------------- MODULE MissionStates ---------------------------
(***************************************************************************)
(* The frozen transition matrix of a mission (mission/states.py) and the   *)
(* decisions the store takes on it (mission/store.py): which moves exist,  *)
(* which of them a human or the gate must authorise, and which artifacts   *)
(* a state requires.  Everything here is a pure operator; MissionSpine and *)
(* MissionStore turn it into steps.                                        *)
(***************************************************************************)
EXTENDS Integers, Sequences

CONSTANTS
    Bodies,     \* contents an artifact version may have
    Actors,     \* strings a caller may pass as actor
    GateActor,  \* "msb-gate", the one actor that issues verdicts
    Operators,  \* ids configured in MSB_MISSION_OPERATORS
    Strangers,  \* other strings a caller may pass as approved_by
    None        \* Python's None

ASSUME GateAssumption == GateActor \in Actors
ASSUME NoneAssumption == None \notin Operators \cup Strangers
ASSUME StrangerAssumption == Operators \cap Strangers = {}

-----------------------------------------------------------------------------
TERMINAL == {"MERGED", "ABANDONED"}

\* The verdicts only the gate may issue.
GATE_VERDICTS == {"GATED_GREEN", "GATED_REVIEW", "GATED_BLOCK"}

\* A row of mission_transitions in which VERIFYING got its verdict.
Verdict == [to : GATE_VERDICTS, actor : Actors]

WorkStates ==
    {"DRAFT", "RESEARCHING", "BLUEPRINT_REVIEW", "PLANNING", "PLAN_REVIEW",
     "BUILDING", "VERIFYING"} \cup GATE_VERDICTS

MissionState == WorkStates \cup TERMINAL \cup {"BLOCKED_ON_HUMAN"}

\* Forward and rework edges, as pairs.
Edges ==
    { <<"DRAFT", "RESEARCHING">>, <<"RESEARCHING", "BLUEPRINT_REVIEW">>,
      <<"BLUEPRINT_REVIEW", "PLANNING">>, <<"BLUEPRINT_REVIEW", "RESEARCHING">>,
      <<"PLANNING", "PLAN_REVIEW">>,
      <<"PLAN_REVIEW", "BUILDING">>, <<"PLAN_REVIEW", "PLANNING">>,
      <<"BUILDING", "VERIFYING">>,
      <<"VERIFYING", "GATED_GREEN">>, <<"VERIFYING", "GATED_REVIEW">>,
      <<"VERIFYING", "GATED_BLOCK">>, <<"VERIFYING", "BUILDING">>,
      <<"GATED_GREEN", "MERGED">>,
      <<"GATED_REVIEW", "MERGED">>, <<"GATED_REVIEW", "BUILDING">>,
      <<"GATED_BLOCK", "BUILDING">> }

HUMAN_GATED ==
    { <<"BLUEPRINT_REVIEW", "PLANNING">>, <<"PLAN_REVIEW", "BUILDING">>,
      <<"GATED_GREEN", "MERGED">>, <<"GATED_REVIEW", "MERGED">> }

\* The moves out of `state`; BLOCKED_ON_HUMAN goes back where it came from.
allowed_targets(state, resume) ==
    CASE state \in TERMINAL -> {}
      [] state = "BLOCKED_ON_HUMAN" -> {"ABANDONED", resume} \ {None}
      [] OTHER -> {t \in MissionState : <<state, t>> \in Edges}
                     \cup {"ABANDONED", "BLOCKED_ON_HUMAN"}

\* Slip: a return from BLOCKED_ON_HUMAN counts as the only human decision.
IsHumanGatedOnlyOnReturn(from, to) == from = "BLOCKED_ON_HUMAN"

is_human_gated(from, to) ==
    \/ to = "ABANDONED"
    \/ from = "BLOCKED_ON_HUMAN"
    \/ <<from, to>> \in HUMAN_GATED

-----------------------------------------------------------------------------
(* Artifact versions.  A version is its hash; the parent's hash is part of  *)
(* the preimage, so the hash is the pair itself.  parent = None is a        *)
(* blueprint, which has no parent kind.                                     *)

VersionKind == {"blueprint", "plan", "task_graph"}

\* None is no state, kind or verdict name.
ASSUME NoneIsNoString == None \notin MissionState \cup VersionKind
ASSUME NoneIsNoVerdict == None \notin Verdict

\* PARENT_KIND: each kind is built against the latest version of its parent.
ParentKind == [k \in VersionKind |-> CASE k = "blueprint"  -> None
                                       [] k = "plan"       -> "blueprint"
                                       [] k = "task_graph" -> "plan"]

BlueprintSha == [kind : {"blueprint"}, parent : {None}, body : Bodies]
PlanSha == [kind : {"plan"}, parent : BlueprintSha, body : Bodies]
GraphSha == [kind : {"task_graph"}, parent : PlanSha, body : Bodies]

\* What `latest` may be: per kind, the latest version's hash, or None.
Latest == { f \in [VersionKind -> BlueprintSha \cup PlanSha \cup GraphSha \cup {None}] :
              /\ f["blueprint"] \in BlueprintSha \cup {None}
              /\ f["plan"] \in PlanSha \cup {None}
              /\ f["task_graph"] \in GraphSha \cup {None} }

version_sha256(kind, parent, body) == [kind |-> kind, parent |-> parent, body |-> body]

HasParent(latest, kind) == ParentKind[kind] # None => latest[ParentKind[kind]] # None

ParentSha(latest, kind) ==
    IF ParentKind[kind] = None THEN None ELSE latest[ParentKind[kind]]

\* The plan was built against a blueprint that is no longer the latest.
PlanStale(latest) ==
    latest["plan"] # None /\ latest["plan"].parent # latest["blueprint"]

\* _check_artifacts: what `target` demands before a mission may enter it.
ArtifactsReady(latest, target) ==
    /\ target = "BLUEPRINT_REVIEW" => latest["blueprint"] # None
    /\ target \in {"PLAN_REVIEW", "BUILDING"} =>
           latest["plan"] # None /\ ~PlanStale(latest)

-----------------------------------------------------------------------------
(* The two decisions of the store.                                          *)

\* Slip: the actor of a verdict is not compared with GATE_ACTOR.
MayTransitionAnyActor(state, resume, latest, target, actor, approver) ==
    /\ target \in allowed_targets(state, resume)
    /\ is_human_gated(state, target) => approver \in Operators
    /\ ArtifactsReady(latest, target)

\* transition(): every refusal, in the order the code raises them.
MayTransition(state, resume, latest, target, actor, approver) ==
    /\ target \in allowed_targets(state, resume)
    /\ target \in GATE_VERDICTS => actor = GateActor
    /\ is_human_gated(state, target) => approver \in Operators
    /\ ArtifactsReady(latest, target)

\* Slip: the state left is always remembered.
ResumeAlways(state, target) == state

ResumeAfter(state, target) ==
    IF target = "BLOCKED_ON_HUMAN" THEN state ELSE None

\* The verdict on the present build, as the rows tell it: what VERIFYING was
\* left with, until a row goes back to BUILDING.  A resume into a GATED_ state
\* writes a row too, but judges nothing.
VerdictAfter(state, target, actor, verdict) ==
    CASE state = "VERIFYING" /\ target \in GATE_VERDICTS -> [to |-> target, actor |-> actor]
      [] target = "BUILDING" -> None
      [] OTHER -> verdict

\* Slip: the terminal check is left to transition() alone.
MayAddVersionLate(state, latest, kind, body) ==
    /\ HasParent(latest, kind)
    /\ latest[kind] # version_sha256(kind, ParentSha(latest, kind), body)

\* add_version(): refused on a terminal mission or without a parent, and a
\* no-op when the latest version already is this one.
MayAddVersion(state, latest, kind, body) ==
    /\ state \notin TERMINAL
    /\ HasParent(latest, kind)
    /\ latest[kind] # version_sha256(kind, ParentSha(latest, kind), body)
=============================================================================
