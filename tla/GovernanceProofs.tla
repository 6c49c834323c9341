-------------------------- MODULE GovernanceProofs --------------------------
(***************************************************************************)
(* What governance promises, proved for any constants.  The mission spine  *)
(* keeps its authority rules for any bodies, actors and operators.  The    *)
(* guard lets no call through on a decision nobody took, and its budget    *)
(* ledger keeps every window of a capped category within its limit and any *)
(* window's length within twice the limit, for any callers and limits.     *)
(***************************************************************************)
EXTENDS MissionSpine, Guard, TLAPS

-----------------------------------------------------------------------------
(* The mission spine.                                                       *)

(***************************************************************************)
(* A new version has the type of its kind: a plan's parent is a blueprint, *)
(* a task graph's parent a plan (PARENT_KIND, version_sha256).             *)
(***************************************************************************)
LEMMA VersionType ==
    ASSUME NEW l \in Latest, NEW kind \in VersionKind, NEW body \in Bodies,
           HasParent(l, kind)
    PROVE  [l EXCEPT ![kind] = version_sha256(kind, ParentSha(l, kind), body)] \in Latest
<1> DEFINE new == [l EXCEPT ![kind] = version_sha256(kind, ParentSha(l, kind), body)]
<1>1. CASE kind = "blueprint"
  BY <1>1 DEF Latest, VersionKind, HasParent, ParentSha, ParentKind, version_sha256, BlueprintSha
<1>2. CASE kind = "plan"
  <2>1. l["blueprint"] \in BlueprintSha
    BY <1>2, NoneIsNoString DEF Latest, VersionKind, HasParent, ParentKind
  <2>2. new["plan"] \in PlanSha
    BY <1>2, <2>1, NoneIsNoString DEF Latest, VersionKind, ParentSha, ParentKind, version_sha256, PlanSha
  <2> QED
    BY <1>2, <2>2 DEF Latest, VersionKind
<1>3. CASE kind = "task_graph"
  <2>1. l["plan"] \in PlanSha
    BY <1>3, NoneIsNoString DEF Latest, VersionKind, HasParent, ParentKind
  <2>2. new["task_graph"] \in GraphSha
    BY <1>3, <2>1, NoneIsNoString DEF Latest, VersionKind, ParentSha, ParentKind, version_sha256, GraphSha
  <2> QED
    BY <1>3, <2>2 DEF Latest, VersionKind
<1> QED
  BY <1>1, <1>2, <1>3 DEF VersionKind

(***************************************************************************)
(* A move never leaves the matrix, and out of BLOCKED_ON_HUMAN it goes to  *)
(* ABANDONED or to the state recorded in resume_state (allowed_targets).   *)
(***************************************************************************)
LEMMA TargetType ==
    ASSUME NEW s \in MissionState, NEW r \in WorkStates \cup {None},
           NEW t \in allowed_targets(s, r)
    PROVE  /\ t \in MissionState
           /\ s \notin TERMINAL
           /\ s = "BLOCKED_ON_HUMAN" => t \in {"ABANDONED", r} \ {None}
           /\ s # "BLOCKED_ON_HUMAN" =>
                 <<s, t>> \in Edges \/ t \in {"ABANDONED", "BLOCKED_ON_HUMAN"}
  BY DEF allowed_targets, MissionState, WorkStates, TERMINAL, GATE_VERDICTS

(***************************************************************************)
(* Every variable of the spine keeps its type in every reachable state.    *)
(***************************************************************************)
THEOREM TypeCorrect == Spec => []TypeOK
<1>1. Init => TypeOK
  BY DEF Init, TypeOK, MissionState, Latest, VersionKind
<1>2. TypeOK /\ [Next]_vars => TypeOK'
  <2> SUFFICES ASSUME TypeOK, [Next]_vars PROVE TypeOK'
    OBVIOUS
  <2>1. CASE Create
    BY <2>1 DEF TypeOK, Create, MissionState, WorkStates
  <2>2. ASSUME NEW kind \in VersionKind, NEW body \in Bodies, AddVersion(kind, body)
        PROVE  TypeOK'
    <3>1. latest' \in Latest
      BY <2>2, VersionType DEF TypeOK, AddVersion, MayAddVersion
    <3> QED
      BY <2>2, <3>1 DEF TypeOK, AddVersion
  <2>3. ASSUME NEW target \in MissionState, NEW actor \in Actors,
               NEW approver \in Operators \cup Strangers \cup {None},
               Transition(target, actor, approver)
        PROVE  TypeOK'
    <3>1. state \in MissionState /\ target \in allowed_targets(state, resume)
      BY <2>3 DEF TypeOK, Transition, MayTransition
    <3>2. resume' \in WorkStates \cup {None}
      <4>1. target = "BLOCKED_ON_HUMAN" => state \in WorkStates
        BY <3>1, TargetType DEF TypeOK, MissionState, WorkStates, TERMINAL, GATE_VERDICTS
      <4> QED
        BY <4>1, <2>3 DEF Transition, ResumeAfter
    <3>3. verdict' \in Verdict \cup {None}
      BY <2>3 DEF TypeOK, Transition, Verdict, VerdictAfter
    <3>4. crossed' \subseteq HUMAN_GATED
      BY <2>3 DEF TypeOK, Transition
    <3> QED
      BY <2>3, <3>2, <3>3, <3>4 DEF TypeOK, Transition
  <2>4. CASE UNCHANGED vars
    BY <2>4 DEF TypeOK, vars
  <2> QED
    BY <2>1, <2>2, <2>3, <2>4 DEF Next
<1> QED
  BY <1>1, <1>2, PTL DEF Spec

(***************************************************************************)
(* The authority rules are inductive: every move keeps the reviews passed, *)
(* and the verdict standing.                                               *)
(***************************************************************************)
LEMMA TransitionKeepsAuthority ==
    ASSUME TypeOK, Authority,
           NEW target \in MissionState, NEW actor \in Actors,
           NEW approver \in Operators \cup Strangers \cup {None},
           Transition(target, actor, approver)
    PROVE  Authority'
<1> USE DEF TypeOK, Transition, MayTransition
<1>1. /\ state \in MissionState
      /\ state \notin TERMINAL
      /\ state = "BLOCKED_ON_HUMAN" => target = "ABANDONED" \/ target = resume
      /\ state # "BLOCKED_ON_HUMAN" =>
            <<state, target>> \in Edges \/ target \in {"ABANDONED", "BLOCKED_ON_HUMAN"}
  BY TargetType
<1>2. state = "BLOCKED_ON_HUMAN" => resume \in WorkStates
  BY DEF Authority
<1>3. ((state = "BLOCKED_ON_HUMAN") <=> (resume # None))'
  BY <1>1, <1>2, NoneIsNoString DEF Authority, ResumeAfter,
     MissionState, WorkStates, GATE_VERDICTS
<1>4. Standing' \in {Standing, target}
  BY <1>1 DEF Standing, ResumeAfter
<1>5. Standing' # Standing => <<state, target>> \in Edges \/ target = "ABANDONED"
  BY <1>1, <1>2 DEF Standing, ResumeAfter
<1>6. ReviewsPassed'
  <2>1. crossed \subseteq crossed'
    OBVIOUS
  <2>2. <<state, target>> \in HUMAN_GATED => <<state, target>> \in crossed'
    BY DEF is_human_gated
  <2>3. CASE Standing' = Standing
    BY <2>1, <2>3 DEF Authority, ReviewsPassed
  <2>4. CASE Standing' = target /\ target = "ABANDONED"
    BY <2>4 DEF ReviewsPassed, AfterBlueprintGate, AfterPlanGate, GATE_VERDICTS
  <2>5. CASE Standing' = target /\ <<state, target>> \in Edges
    <3>1. Standing = state
      BY <2>5 DEF Standing, Edges
    <3> QED
      BY <2>1, <2>2, <2>5, <3>1 DEF Authority, ReviewsPassed, AfterBlueprintGate,
         AfterPlanGate, GATE_VERDICTS, Edges, HUMAN_GATED
  <2> QED
    BY <1>4, <1>5, <2>3, <2>4, <2>5
<1>7. VerdictStands'
  <2> SUFFICES ASSUME Standing' \in GATE_VERDICTS PROVE VerdictStands'
    BY DEF VerdictStands
  <2>1. CASE Standing' = Standing
    <3>1. Standing \in GATE_VERDICTS /\ state # "VERIFYING" /\ target # "BUILDING"
      BY <1>1, <1>2, <2>1 DEF Standing, ResumeAfter, GATE_VERDICTS
    <3>2. verdict' = verdict
      BY <3>1 DEF VerdictAfter
    <3> QED
      BY <2>1, <3>1, <3>2 DEF VerdictStands, Authority
  <2>2. CASE Standing' # Standing
    <3>1. Standing' = target /\ state = "VERIFYING" /\ target \in GATE_VERDICTS
      BY <1>4, <1>5, <2>2 DEF GATE_VERDICTS, Edges
    <3>2. verdict' = [to |-> target, actor |-> actor] /\ actor = GateActor
      BY <3>1 DEF VerdictAfter, GATE_VERDICTS
    <3> QED
      BY <3>1, <3>2, NoneIsNoVerdict DEF VerdictStands, Verdict
  <2> QED
    BY <2>1, <2>2
<1>8. MergedOnVerdict'
  <2> SUFFICES ASSUME target = "MERGED" PROVE MergedOnVerdict'
    BY DEF MergedOnVerdict
  <2>1. state \in {"GATED_GREEN", "GATED_REVIEW"}
    BY <1>1, <1>2 DEF Edges, WorkStates, GATE_VERDICTS
  <2>2. Standing = state /\ verdict' = verdict
    BY <2>1 DEF Standing, GATE_VERDICTS, VerdictAfter
  <2>3. verdict # None /\ verdict.actor = GateActor /\ verdict.to = state
    BY <2>1, <2>2 DEF Authority, VerdictStands, GATE_VERDICTS
  <2>4. <<state, target>> \in crossed'
    BY <2>1 DEF HUMAN_GATED, is_human_gated
  <2> QED
    BY <2>1, <2>2, <2>3, <2>4 DEF MergedOnVerdict
<1> QED
  BY <1>3, <1>6, <1>7, <1>8 DEF Authority

(***************************************************************************)
(* Authority, the conjunction of the three rules, holds in every reachable *)
(* state.                                                                  *)
(***************************************************************************)
LEMMA AuthorityInvariant == Spec => []Authority
<1>1. Init => Authority
  BY NoneIsNoString DEF Init, Authority, ReviewsPassed, MergedOnVerdict, VerdictStands,
     Standing, AfterBlueprintGate, AfterPlanGate, GATE_VERDICTS
<1>2. TypeOK /\ Authority /\ [Next]_vars => Authority'
  <2> SUFFICES ASSUME TypeOK, Authority, [Next]_vars PROVE Authority'
    OBVIOUS
  <2> USE DEF Authority, ReviewsPassed, MergedOnVerdict, VerdictStands, Standing
  <2>1. CASE Create
    BY <2>1 DEF Create, AfterBlueprintGate, AfterPlanGate, GATE_VERDICTS
  <2>2. ASSUME NEW kind \in VersionKind, NEW body \in Bodies, AddVersion(kind, body)
        PROVE  Authority'
    BY <2>2 DEF AddVersion
  <2>3. ASSUME NEW target \in MissionState, NEW actor \in Actors,
               NEW approver \in Operators \cup Strangers \cup {None},
               Transition(target, actor, approver)
        PROVE  Authority'
    BY <2>3, TransitionKeepsAuthority
  <2>4. CASE UNCHANGED vars
    BY <2>4 DEF vars
  <2> QED
    BY <2>1, <2>2, <2>3, <2>4 DEF Next
<1> QED
  BY <1>1, <1>2, TypeCorrect, PTL DEF Spec

(***************************************************************************)
(* Whatever callers do, no mission stands beyond a review that a           *)
(* configured operator did not approve (HUMAN_GATED, transition()).        *)
(***************************************************************************)
THEOREM ReviewsHold == Spec => []ReviewsPassed
<1>1. Authority => ReviewsPassed
  BY DEF Authority
<1> QED
  BY <1>1, AuthorityInvariant, PTL

(***************************************************************************)
(* None is merged but on the gate's own standing verdict and with an       *)
(* operator's approval of that merge (GATE_ACTOR, HUMAN_GATED).            *)
(***************************************************************************)
THEOREM AuthorityHolds == Spec => []MergedOnVerdict
<1>1. Authority => MergedOnVerdict
  BY DEF Authority
<1> QED
  BY <1>1, AuthorityInvariant, PTL

(***************************************************************************)
(* And the GATED_ state a mission is in, or will resume in, is the verdict *)
(* the gate gave its present build out of VERIFYING, however often it was  *)
(* blocked, resumed and reworked (transition(), resume_state).             *)
(***************************************************************************)
THEOREM VerdictsHold == Spec => []VerdictStands
<1>1. Authority => VerdictStands
  BY DEF Authority
<1> QED
  BY <1>1, AuthorityInvariant, PTL

(***************************************************************************)
(* A merged or abandoned mission never changes again.                      *)
(***************************************************************************)
THEOREM TerminalFrozen == Spec => TerminalIsFinal
<1>1. TypeOK /\ [Next]_vars => [state \notin TERMINAL]_vars
  <2> SUFFICES ASSUME TypeOK, Next PROVE state \notin TERMINAL
    BY DEF vars
  <2>1. CASE Create
    BY <2>1 DEF Create, TERMINAL
  <2>2. ASSUME NEW kind \in VersionKind, NEW body \in Bodies, AddVersion(kind, body)
        PROVE  state \notin TERMINAL
    BY <2>2 DEF AddVersion, MayAddVersion
  <2>3. ASSUME NEW target \in MissionState, NEW actor \in Actors,
               NEW approver \in Operators \cup Strangers \cup {None},
               Transition(target, actor, approver)
        PROVE  state \notin TERMINAL
    BY <2>3, TargetType DEF TypeOK, Transition, MayTransition
  <2> QED
    BY <2>1, <2>2, <2>3 DEF Next
<1> QED
  BY <1>1, TypeCorrect, PTL DEF Spec, TerminalIsFinal

-----------------------------------------------------------------------------
(* The governance guard: the books of its budget ledger.                    *)

(***************************************************************************)
(* The books of a capped category.  `was` is what had been spent before    *)
(* each tick; it only grows, and is zero while the ledger has no row.      *)
(* With a row, its counter is what was spent since its window began,       *)
(* within the limit; once the window is over nothing more is spent on it;  *)
(* and what its predecessors let through, less than a window before it     *)
(* began, came from one window, so it is within the limit, too.            *)
(***************************************************************************)
Books(was, start, spent, limit, t) ==
    /\ \A i, j \in 0 .. t + 1 : i <= j => was[i] <= was[j]
    /\ start = -1 => was[t + 1] = 0
    /\ start # -1 =>
          /\ start \in 0 .. t
          /\ spent = was[t + 1] - was[start] /\ spent <= limit
          /\ \A i \in 0 .. t + 1 : start + Window <= i => was[i] = was[t + 1]
          /\ \A i \in 0 .. start : start - i < Window => was[start] - was[i] <= limit

BudgetInv ==
    \A cat \in Categories : Limit(cat) >= 0 =>
        Books(spentBefore[cat], row[cat].start, row[cat].spent, Limit(cat), now)

GuardInv == GuardTypeOK /\ ApprovedOnly /\ BudgetInv

-----------------------------------------------------------------------------
(* Types.                                                                   *)

\* A configured cap is a number.
LEMMA LimitIs == ASSUME NEW cat PROVE Limit(cat) \in Int
<1>1. CASE \E l \in Limits : l[1] = cat
  <2>1. (CHOOSE l \in Limits : l[1] = cat) \in Limits
    BY <1>1
  <2> QED BY <1>1, <2>1, LimitsAssumption DEF Limit
<1> QED BY <1>1 DEF Limit

LEMMA IdleIs == Idle \in CallRecord /\ Idle.pc = "idle"
<1>1. (CHOOSE i \in Items : TRUE) \in Items
  BY ItemsAssumption
<1>2. [cat \in Categories |-> 0] \in [Categories -> 0 .. MaxUnits]
  BY GuardBounds
<1> QED BY <1>1, <1>2 DEF Idle, CallRecord

\* The row a spend leaves is a row, whichever window it falls in.
LEMMA SpendRowIs ==
    ASSUME GuardTypeOK, NEW cat \in Categories, NEW amount \in 0 .. MaxUnits
    PROVE  /\ SpendRow(cat, amount) \in [start : -1 .. MaxTime, spent : Nat]
           /\ Expired(cat) => SpendRow(cat, amount).start = now
                              /\ SpendRow(cat, amount).spent = amount
           /\ ~Expired(cat) => /\ SpendRow(cat, amount).start = row[cat].start
                               /\ SpendRow(cat, amount).spent = row[cat].spent + amount
<1>1. /\ row[cat] \in [start : -1 .. MaxTime, spent : Nat]
      /\ now \in -1 .. MaxTime /\ amount \in Nat /\ row[cat].spent + amount \in Nat
  BY GuardBounds DEF GuardTypeOK
<1> QED BY <1>1 DEF SpendRow

\* What a spend does: refuse and end the call, or charge it.
Refuses(c) == call' = [call EXCEPT ![c] = Idle] /\ UNCHANGED <<row, spentBefore>>

Charges(c, cat, amount) ==
    /\ MaySpend(cat, amount)
    /\ call' = [call EXCEPT ![c] = [call[c] EXCEPT !.todo = [call[c].todo EXCEPT ![cat] = 0]]]
    /\ row' = [row EXCEPT ![cat] = IF Limit(cat) < 0 THEN row[cat] ELSE SpendRow(cat, amount)]
    /\ spentBefore' = [spentBefore EXCEPT ![cat] = [spentBefore[cat] EXCEPT ![now + 1] =
           IF Limit(cat) < 0 THEN spentBefore[cat][now + 1]
                             ELSE spentBefore[cat][now + 1] + amount]]

LEMMA SpendIs ==
    ASSUME GuardTypeOK, NEW c \in Callers, NEW cat \in Categories, Spend(c, cat)
    PROVE  /\ call[c].pc = "budget" /\ UNCHANGED <<armed, item, now, uses>>
           /\ \E amount \in 1 .. MaxUnits : Refuses(c) \/ Charges(c, cat, amount)
<1> DEFINE amount == call[c].todo[cat]
<1>1. amount \in 1 .. MaxUnits
  <2>1. amount \in 0 .. MaxUnits
    BY DEF GuardTypeOK, CallRecord
  <2> QED BY <2>1, GuardBounds DEF Spend
<1>2. Refuses(c) \/ Charges(c, cat, amount)
  BY DEF Spend, Refuses, Charges
<1> QED BY <1>1, <1>2 DEF Spend

LEMMA GuardTypeStep == GuardTypeOK /\ [GuardNext]_guardVars => GuardTypeOK'
<1> SUFFICES ASSUME GuardTypeOK, [GuardNext]_guardVars PROVE GuardTypeOK'
  OBVIOUS
<1> USE DEF GuardTypeOK
<1>1. CASE Arm(TRUE) \/ Arm(FALSE)
  BY <1>1 DEF Arm
<1>2. ASSUME NEW i \in Items, NEW kind \in Kinds, submit(i, kind) PROVE GuardTypeOK'
  BY <1>2 DEF submit, STATUSES
<1>3. ASSUME NEW i \in Items, NEW status \in STATUSES \ {"PENDING"}, _decide(i, status)
      PROVE  GuardTypeOK'
  BY <1>3 DEF _decide
<1>4. ASSUME NEW cat \in Categories, reset(cat) PROVE GuardTypeOK'
  <2>1. NoRow \in [start : -1 .. MaxTime, spent : Nat]
    BY GuardBounds DEF NoRow
  <2>2. [t \in 0 .. MaxTime + 1 |-> 0] \in [0 .. MaxTime + 1 -> Nat]
    OBVIOUS
  <2> QED BY <1>4, <2>1, <2>2 DEF reset
<1>5. CASE Tick
  <2>1. now' \in 0 .. MaxTime /\ now + 1 \in 0 .. MaxTime + 1 /\ now + 2 \in 0 .. MaxTime + 1
    BY <1>5, GuardBounds DEF Tick
  <2>2. ASSUME NEW cat \in Categories
        PROVE  [spentBefore[cat] EXCEPT ![now + 2] = spentBefore[cat][now + 1]]
                  \in [0 .. MaxTime + 1 -> Nat]
    BY <2>1
  <2> QED BY <1>5, <2>1, <2>2 DEF Tick
<1>6. ASSUME NEW c \in Callers, NEW kind \in Kinds \cup {Free}, NEW i \in Items,
             NEW units \in [Categories -> 0 .. MaxUnits], Ask(c, kind, i, units)
      PROVE  GuardTypeOK'
  BY <1>6 DEF Ask, CallRecord
<1>7. ASSUME NEW c \in Callers, Check(c) PROVE GuardTypeOK'
  <2>1. CASE CheckApproval(c)
    BY <2>1, IdleIs DEF CheckApproval, CallRecord
  <2>2. ASSUME NEW cat \in Categories, Spend(c, cat) PROVE GuardTypeOK'
    <3>1. PICK amount \in 1 .. MaxUnits : Refuses(c) \/ Charges(c, cat, amount)
      BY <2>2, SpendIs
    <3>2. CASE Refuses(c)
      BY <2>2, <3>2, SpendIs, IdleIs DEF Refuses
    <3>3. CASE Charges(c, cat, amount)
      <4>1. amount \in 0 .. MaxUnits /\ amount \in Nat
        BY GuardBounds
      <4>2. SpendRow(cat, amount) \in [start : -1 .. MaxTime, spent : Nat]
        BY <4>1, SpendRowIs
      <4>3. row' \in [Categories -> [start : -1 .. MaxTime, spent : Nat]]
        BY <3>3, <4>2 DEF Charges
      <4>4. now + 1 \in 0 .. MaxTime + 1 /\ spentBefore[cat][now + 1] \in Nat
        BY GuardBounds
      <4>5. spentBefore' \in [Categories -> [0 .. MaxTime + 1 -> Nat]]
        <5> DEFINE total == IF Limit(cat) < 0 THEN spentBefore[cat][now + 1]
                            ELSE spentBefore[cat][now + 1] + amount
        <5>1. total \in Nat
          BY <4>1, <4>4
        <5>2. spentBefore' = [spentBefore EXCEPT ![cat] = [spentBefore[cat] EXCEPT ![now + 1] = total]]
          BY <3>3 DEF Charges
        <5> HIDE DEF total
        <5>3. [spentBefore[cat] EXCEPT ![now + 1] = total] \in [0 .. MaxTime + 1 -> Nat]
          BY <5>1
        <5> QED BY <5>2, <5>3
      <4>6. [call[c].todo EXCEPT ![cat] = 0] \in [Categories -> 0 .. MaxUnits]
        BY GuardBounds DEF CallRecord
      <4>7. [call[c] EXCEPT !.todo = [call[c].todo EXCEPT ![cat] = 0]] \in CallRecord
        <5>1. call[c] \in CallRecord
          OBVIOUS
        <5> HIDE DEF GuardTypeOK
        <5> QED BY <4>6, <5>1 DEF CallRecord
      <4>8. call' \in [Callers -> CallRecord]
        BY <3>3, <4>7 DEF Charges
      <4> QED BY <2>2, <4>3, <4>5, <4>8, SpendIs
    <3> QED BY <3>1, <3>2, <3>3
  <2>3. CASE GovernorHalts(c)
    BY <2>3, IdleIs DEF GovernorHalts
  <2>4. CASE Permit(c)
    BY <2>4 DEF Permit, CallRecord
  <2>5. CASE Run(c)
    <3>1. call[c].item \in Items
      BY DEF CallRecord
    <3>2. uses' \in [Items -> 0 .. MaxUses]
      BY <2>5, <3>1, GuardBounds DEF Run
    <3> QED BY <2>5, <3>2, IdleIs DEF Run
  <2> QED BY <1>7, <2>1, <2>2, <2>3, <2>4, <2>5 DEF Check
<1>8. CASE UNCHANGED guardVars
  BY <1>8 DEF guardVars
<1> QED BY <1>1, <1>2, <1>3, <1>4, <1>5, <1>6, <1>7, <1>8 DEF GuardNext

-----------------------------------------------------------------------------
(* Approvals.                                                               *)

(***************************************************************************)
(* An approval that was read stays one: a decision needs a PENDING item    *)
(* (the WHERE clause in _decide()), a submission an id that is not taken.  *)
(***************************************************************************)
LEMMA ApprovedStep == GuardTypeOK /\ ApprovedOnly /\ [GuardNext]_guardVars => ApprovedOnly'
<1> SUFFICES ASSUME GuardTypeOK, ApprovedOnly, [GuardNext]_guardVars PROVE ApprovedOnly'
  OBVIOUS
<1>1. \A c \in Callers : call[c] \in CallRecord /\ call[c].item \in Items
  BY DEF GuardTypeOK, CallRecord
<1>2. ASSUME \A i \in Items : item[i].status = "APPROVED" => item'[i] = item[i],
             UNCHANGED <<call, uses>>
      PROVE  ApprovedOnly'
  BY <1>1, <1>2 DEF ApprovedOnly, Approved
<1>3. CASE Arm(TRUE) \/ Arm(FALSE)
  BY <1>2, <1>3 DEF Arm
<1>4. ASSUME NEW i \in Items, NEW kind \in Kinds, submit(i, kind) PROVE ApprovedOnly'
  <2>1. \A j \in Items : item[j].status = "APPROVED" => item'[j] = item[j]
    BY <1>4 DEF submit, GuardTypeOK
  <2> QED BY <1>2, <1>4, <2>1 DEF submit
<1>5. ASSUME NEW i \in Items, NEW status \in STATUSES \ {"PENDING"}, _decide(i, status)
      PROVE  ApprovedOnly'
  <2>1. \A j \in Items : item[j].status = "APPROVED" => item'[j] = item[j]
    BY <1>5 DEF _decide, GuardTypeOK
  <2> QED BY <1>2, <1>5, <2>1 DEF _decide
<1>6. ASSUME NEW cat \in Categories, reset(cat) PROVE ApprovedOnly'
  BY <1>2, <1>6 DEF reset
<1>7. CASE Tick
  BY <1>2, <1>7 DEF Tick
<1>8. ASSUME NEW c \in Callers, UNCHANGED <<item, uses>>,
             \A d \in Callers \ {c} : call'[d] = call[d],
             call'[c].pc \in {"budget", "run"} =>
                /\ Approved(c)
                /\ call'[c].kind = call[c].kind /\ call'[c].item = call[c].item
      PROVE  ApprovedOnly'
  BY <1>1, <1>8 DEF ApprovedOnly, Approved
<1>9. ASSUME NEW c \in Callers, NEW kind \in Kinds \cup {Free}, NEW i \in Items,
             NEW units \in [Categories -> 0 .. MaxUnits], Ask(c, kind, i, units)
      PROVE  ApprovedOnly'
  <2>1. call'[c].pc = "approval" /\ \A d \in Callers \ {c} : call'[d] = call[d]
    BY <1>9 DEF Ask, GuardTypeOK
  <2> QED BY <1>8, <1>9, <2>1 DEF Ask
<1>10. ASSUME NEW c \in Callers, Check(c) PROVE ApprovedOnly'
  <2>1. CASE CheckApproval(c)
    <3>1. \A d \in Callers \ {c} : call'[d] = call[d]
      BY <2>1 DEF CheckApproval, GuardTypeOK
    <3>2. call'[c].pc \in {"budget", "run"} =>
             Approved(c) /\ call'[c].kind = call[c].kind /\ call'[c].item = call[c].item
      BY <1>1, <2>1, IdleIs DEF CheckApproval, GuardTypeOK, CallRecord
    <3> QED BY <1>8, <2>1, <3>1, <3>2 DEF CheckApproval
  <2>2. ASSUME NEW cat \in Categories, Spend(c, cat) PROVE ApprovedOnly'
    <3>1. \E amount \in 1 .. MaxUnits : Refuses(c) \/ Charges(c, cat, amount)
      BY <2>2, SpendIs
    <3>2. /\ \A d \in Callers \ {c} : call'[d] = call[d]
          /\ \/ call'[c] = Idle
             \/ call'[c].pc = call[c].pc /\ call'[c].kind = call[c].kind /\ call'[c].item = call[c].item
      <4>1. CASE Refuses(c)
        BY <4>1 DEF Refuses, GuardTypeOK
      <4>2. ASSUME NEW amount, Charges(c, cat, amount)
            PROVE  /\ \A d \in Callers \ {c} : call'[d] = call[d]
                   /\ call'[c] = [call[c] EXCEPT !.todo = [call[c].todo EXCEPT ![cat] = 0]]
        BY <4>2 DEF Charges, GuardTypeOK
      <4> QED BY <1>1, <3>1, <4>1, <4>2 DEF CallRecord
    <3>3. Approved(c)
      BY <2>2 DEF Spend, ApprovedOnly
    <3> QED BY <1>8, <2>2, <3>2, <3>3, IdleIs DEF Spend
  <2>3. CASE GovernorHalts(c)
    <3>1. call'[c] = Idle /\ \A d \in Callers \ {c} : call'[d] = call[d]
      BY <2>3 DEF GovernorHalts, GuardTypeOK
    <3> QED BY <1>8, <2>3, <3>1, IdleIs DEF GovernorHalts
  <2>4. CASE Permit(c)
    <3>1. \A d \in Callers \ {c} : call'[d] = call[d]
      BY <2>4 DEF Permit, GuardTypeOK
    <3>2. Approved(c) /\ call'[c].kind = call[c].kind /\ call'[c].item = call[c].item
      BY <1>1, <2>4 DEF Permit, GuardTypeOK, ApprovedOnly, CallRecord
    <3> QED BY <1>8, <2>4, <3>1, <3>2 DEF Permit
  <2>5. CASE Run(c)
    <3>1. call'[c] = Idle /\ \A d \in Callers \ {c} : call'[d] = call[d]
      BY <2>5 DEF Run, GuardTypeOK
    <3>2. \A d \in Callers : call'[d].pc \in {"budget", "run"} => Approved(d)'
      BY <1>1, <2>5, <3>1, IdleIs DEF Run, ApprovedOnly, Approved
    <3>3. Approved(c)
      BY <2>5 DEF Run, ApprovedOnly
    <3>4. \A i \in Items : uses'[i] > 0 => item[i].status = "APPROVED"
      <4>1. ASSUME NEW i \in Items, uses'[i] # uses[i]
            PROVE  i = call[c].item /\ call[c].kind \in Kinds
        BY <2>5, <4>1 DEF Run, GuardTypeOK
      <4> QED BY <3>3, <4>1 DEF ApprovedOnly, Approved
    <3> QED BY <2>5, <3>2, <3>4 DEF Run, ApprovedOnly
  <2> QED BY <1>10, <2>1, <2>2, <2>3, <2>4, <2>5 DEF Check
<1>11. CASE UNCHANGED guardVars
  BY <1>2, <1>11 DEF guardVars
<1> QED BY <1>3, <1>4, <1>5, <1>6, <1>7, <1>9, <1>10, <1>11 DEF GuardNext

-----------------------------------------------------------------------------
(* Budgets.                                                                 *)

\* Nothing spent, no row.
LEMMA BooksEmpty ==
    ASSUME NEW t \in Nat, NEW was, \A i \in 0 .. t + 1 : was[i] = 0, NEW spent, NEW limit
    PROVE  Books(was, -1, spent, limit, t)
<1>1. t + 1 \in 0 .. t + 1
  OBVIOUS
<1> QED BY <1>1 DEF Books

\* A tick on which nothing has been spent yet.
LEMMA BooksTick ==
    ASSUME NEW t \in Nat, NEW was \in [0 .. MaxTime + 1 -> Nat], NEW new \in [0 .. MaxTime + 1 -> Nat],
           NEW start \in Int, NEW spent \in Nat, NEW limit \in Nat, t < MaxTime,
           Books(was, start, spent, limit, t), new = [was EXCEPT ![t + 2] = was[t + 1]]
    PROVE  Books(new, start, spent, limit, t + 1)
<1>1. new[t + 2] = was[t + 1] /\ \A i \in 0 .. t + 1 : new[i] = was[i] /\ was[i] \in Nat
  BY GuardBounds
<1>2. \A i \in 0 .. t + 2 : i \in 0 .. t + 1 \/ i = t + 2
  OBVIOUS
<1>3. \A i, j \in 0 .. t + 2 : i <= j => new[i] <= new[j]
  BY <1>1, <1>2 DEF Books
<1>4. start = -1 => new[t + 2] = 0
  BY <1>1 DEF Books
<1>5. ASSUME start # -1
      PROVE  /\ start \in 0 .. t + 1
             /\ spent = new[t + 2] - new[start] /\ spent <= limit
             /\ \A i \in 0 .. t + 2 : start + Window <= i => new[i] = new[t + 2]
             /\ \A i \in 0 .. start : start - i < Window => new[start] - new[i] <= limit
  BY <1>1, <1>2, <1>5, WindowAssumption DEF Books
<1> QED BY <1>3, <1>4, <1>5 DEF Books

(***************************************************************************)
(* A spend that MaySpend() admits keeps the books, in the window that is   *)
(* open or in the fresh one it opens (spend()).                            *)
(***************************************************************************)
LEMMA BooksSpend ==
    ASSUME NEW t \in 0 .. MaxTime, NEW was \in [0 .. MaxTime + 1 -> Nat],
           NEW new \in [0 .. MaxTime + 1 -> Nat], NEW amount \in Nat,
           NEW start \in Int, NEW spent \in Nat, NEW limit \in Nat, NEW start2 \in Int, NEW spent2 \in Nat,
           Books(was, start, spent, limit, t),
           new = [was EXCEPT ![t + 1] = was[t + 1] + amount], amount <= limit,
           \/ /\ start = -1 \/ t - start >= Window
              /\ start2 = t /\ spent2 = amount
           \/ /\ ~(start = -1 \/ t - start >= Window)
              /\ spent + amount <= limit
              /\ start2 = start /\ spent2 = spent + amount
    PROVE  Books(new, start2, spent2, limit, t)
<1>1. /\ new[t + 1] = was[t + 1] + amount
      /\ \A i \in 0 .. t + 1 : was[i] \in Nat
      /\ \A i \in 0 .. t : new[i] = was[i]
      /\ \A i \in 0 .. t + 1 : i \in 0 .. t \/ i = t + 1
  BY GuardBounds
<1>2. \A i, j \in 0 .. t + 1 : i <= j => new[i] <= new[j]
  BY <1>1 DEF Books
<1>3. CASE ~(start = -1 \/ t - start >= Window)
  <2>1. start2 = start /\ spent2 = spent + amount /\ start \in 0 .. t /\ spent2 <= limit
    BY <1>3 DEF Books
  <2>2. spent2 = new[t + 1] - new[start]
    <3>1. spent = was[t + 1] - was[start] /\ new[start] = was[start]
      BY <1>1, <1>3, <2>1 DEF Books
    <3> QED BY <1>1, <2>1, <3>1
  <2>3. \A i \in 0 .. t + 1 : start + Window <= i => i = t + 1
    BY <1>3, <2>1, WindowAssumption
  <2>4. \A i \in 0 .. start : start - i < Window => new[start] - new[i] <= limit
    BY <1>1, <1>3, <2>1 DEF Books
  <2> QED BY <1>2, <1>3, <2>1, <2>2, <2>3, <2>4 DEF Books
<1>4. CASE start = -1 \/ t - start >= Window
  <2>1. start2 = t /\ spent2 = amount
    BY <1>4
  <2>2. was[t] = was[t + 1]
    <3>1. CASE start = -1
      BY <1>1, <3>1 DEF Books
    <3>2. CASE start # -1
      BY <1>1, <1>4, <3>2, WindowAssumption DEF Books
    <3> QED BY <3>1, <3>2
  <2>3. spent2 = new[t + 1] - new[start2]
    BY <1>1, <2>1, <2>2
  <2>4. \A i \in 0 .. t + 1 : start2 + Window <= i => i = t + 1
    BY <2>1, WindowAssumption
  <2>5. ASSUME NEW i \in 0 .. t, t - i < Window PROVE new[t] - new[i] <= limit
    <3>1. CASE start = -1
      BY <1>1, <3>1 DEF Books
    <3>2. CASE start # -1
      <4>1. start \in 0 .. t /\ start <= i /\ was[t + 1] - was[start] <= limit
        BY <1>4, <2>5, <3>2, WindowAssumption DEF Books
      <4>2. was[start] <= was[i]
        BY <4>1 DEF Books
      <4> QED BY <1>1, <2>2, <4>1, <4>2
    <3> QED BY <3>1, <3>2
  <2> QED BY <1>1, <1>2, <2>1, <2>3, <2>4, <2>5 DEF Books
<1> QED BY <1>3, <1>4

(***************************************************************************)
(* The books of every capped category are kept by every step.              *)
(***************************************************************************)
LEMMA BudgetStep == GuardTypeOK /\ BudgetInv /\ [GuardNext]_guardVars => BudgetInv'
<1> SUFFICES ASSUME GuardTypeOK, BudgetInv, [GuardNext]_guardVars,
                    NEW cat \in Categories, Limit(cat) >= 0
             PROVE  Books(spentBefore[cat], row[cat].start, row[cat].spent, Limit(cat), now)'
  BY DEF BudgetInv, Limit
<1> DEFINE was == spentBefore[cat]
           new == spentBefore'[cat]
<1>1. /\ Limit(cat) \in Nat /\ now \in 0 .. MaxTime /\ now \in Nat
      /\ was \in [0 .. MaxTime + 1 -> Nat]
      /\ row[cat].start \in Int /\ row[cat].spent \in Nat
      /\ Books(was, row[cat].start, row[cat].spent, Limit(cat), now)
  BY LimitIs, GuardBounds DEF GuardTypeOK, BudgetInv
<1>2. GuardTypeOK'
  BY GuardTypeStep
<1>3. /\ now' \in 0 .. MaxTime /\ new \in [0 .. MaxTime + 1 -> Nat]
      /\ row'[cat].start \in Int /\ row'[cat].spent \in Nat
  BY <1>2, GuardBounds DEF GuardTypeOK
<1>4. Limit(cat)' = Limit(cat)
  BY DEF Limit
<1>5. ASSUME new = was, row'[cat] = row[cat], now' = now
      PROVE  Books(spentBefore[cat], row[cat].start, row[cat].spent, Limit(cat), now)'
  BY <1>1, <1>4, <1>5 DEF Books
<1>6. CASE UNCHANGED <<row, now, spentBefore>>
  BY <1>5, <1>6
<1>7. ASSUME NEW k \in Categories, reset(k)
      PROVE  Books(spentBefore[cat], row[cat].start, row[cat].spent, Limit(cat), now)'
  <2>1. CASE k # cat
    BY <1>5, <1>7, <2>1 DEF reset, GuardTypeOK
  <2>2. CASE k = cat
    <3>1. /\ new = [t \in 0 .. MaxTime + 1 |-> 0] /\ row'[cat].start = -1 /\ now' = now
      BY <1>7, <2>2 DEF reset, NoRow, GuardTypeOK
    <3>2. \A i \in 0 .. now + 1 : new[i] = 0
      BY <1>1, <3>1, GuardBounds
    <3>3. Books(new, row'[cat].start, row'[cat].spent, Limit(cat), now)
      BY <1>1, <3>1, <3>2, BooksEmpty
    <3> QED BY <1>4, <3>1, <3>3 DEF Books
  <2> QED BY <2>1, <2>2
<1>8. CASE Tick
  <2>1. /\ now < MaxTime /\ now' = now + 1 /\ row' = row
        /\ new = [was EXCEPT ![now + 2] = was[now + 1]]
    BY <1>8 DEF Tick
  <2>2. Books(new, row[cat].start, row[cat].spent, Limit(cat), now + 1)
    BY <1>1, <1>3, <2>1, BooksTick
  <2> QED BY <1>4, <2>1, <2>2 DEF Books
<1>9. ASSUME NEW c \in Callers, NEW k \in Categories, Spend(c, k)
      PROVE  Books(spentBefore[cat], row[cat].start, row[cat].spent, Limit(cat), now)'
  <2>1. PICK amount \in 1 .. MaxUnits : Refuses(c) \/ Charges(c, k, amount)
    BY <1>9, SpendIs
  <2>2. now' = now
    BY <1>9, SpendIs
  <2>3. CASE Refuses(c)
    BY <1>5, <2>2, <2>3 DEF Refuses
  <2>4. CASE Charges(c, k, amount) /\ k # cat
    <3>1. row'[cat] = row[cat] /\ new = was
      BY <2>4 DEF Charges, GuardTypeOK
    <3> QED BY <1>5, <2>2, <3>1
  <2>5. CASE Charges(c, k, amount) /\ k = cat
    <3>1. amount \in Nat /\ amount \in 0 .. MaxUnits
      BY GuardBounds
    <3>2. row'[cat] = SpendRow(cat, amount) /\ new = [was EXCEPT ![now + 1] = was[now + 1] + amount]
      <4>1. ~(Limit(cat) < 0)
        BY <1>1
      <4> QED BY <2>5, <4>1 DEF Charges, GuardTypeOK
    <3>3. /\ amount <= Limit(cat)
          /\ ~Expired(cat) => row[cat].spent + amount <= Limit(cat)
      BY <1>1, <2>5 DEF Charges, MaySpend
    <3>4. /\ Expired(cat) => row'[cat].start = now /\ row'[cat].spent = amount
          /\ ~Expired(cat) => /\ row'[cat].start = row[cat].start
                              /\ row'[cat].spent = row[cat].spent + amount
      BY <3>1, <3>2, SpendRowIs
    <3>5. Books(new, row'[cat].start, row'[cat].spent, Limit(cat), now)
      <4> DEFINE a == row[cat].start
                 b == row[cat].spent
                 a2 == row'[cat].start
                 b2 == row'[cat].spent
                 limit == Limit(cat)
      <4>1. /\ a \in Int /\ b \in Nat /\ a2 \in Int /\ b2 \in Nat /\ limit \in Nat
            /\ Books(was, a, b, limit, now)
        BY <1>1, <1>3
      <4>2. \/ /\ a = -1 \/ now - a >= Window
               /\ a2 = now /\ b2 = amount
            \/ /\ ~(a = -1 \/ now - a >= Window)
               /\ b + amount <= limit
               /\ a2 = a /\ b2 = b + amount
        BY <3>3, <3>4 DEF Expired
      <4>3. amount <= limit
        BY <3>3
      <4> HIDE DEF was, new, a, b, a2, b2, limit
      <4>4. Books(new, a2, b2, limit, now)
        BY <1>1, <1>3, <3>1, <3>2, <4>1, <4>2, <4>3, BooksSpend
      <4> QED BY <4>4 DEF a2, b2, limit
    <3> QED BY <1>4, <2>2, <3>5 DEF Books
  <2> QED BY <2>1, <2>3, <2>4, <2>5
<1> QED
  <2>1. ASSUME NEW c \in Callers, Check(c)
        PROVE  Books(spentBefore[cat], row[cat].start, row[cat].spent, Limit(cat), now)'
    BY <1>6, <1>9, <2>1 DEF Check, CheckApproval, GovernorHalts, Permit, Run
  <2> QED BY <1>6, <1>7, <1>8, <2>1
         DEF GuardNext, guardVars, Arm, submit, _decide, Ask

-----------------------------------------------------------------------------
(* The results.                                                             *)

\* The invariant holds in every reachable state.
LEMMA GuardInvariant == GuardSpec => []GuardInv
<1>1. GuardInit => GuardInv
  <2> SUFFICES ASSUME GuardInit PROVE GuardInv
    OBVIOUS
  <2>1. GuardTypeOK
    <3>1. /\ NoRow \in [start : -1 .. MaxTime, spent : Nat] /\ now \in 0 .. MaxTime
          /\ uses \in [Items -> 0 .. MaxUses]
      BY GuardBounds DEF NoRow, GuardInit
    <3>2. [t \in 0 .. MaxTime + 1 |-> 0] \in [0 .. MaxTime + 1 -> Nat]
      OBVIOUS
    <3> QED BY <3>1, <3>2, IdleIs DEF GuardInit, GuardTypeOK
  <2>2. ApprovedOnly
    BY IdleIs DEF GuardInit, ApprovedOnly
  <2>3. ASSUME NEW cat \in Categories
        PROVE  Books(spentBefore[cat], row[cat].start, row[cat].spent, Limit(cat), now)
    <3>1. now = 0 /\ row[cat].start = -1 /\ \A i \in 0 .. now + 1 : spentBefore[cat][i] = 0
      BY GuardBounds DEF GuardInit, NoRow
    <3>2. now \in Nat
      BY <3>1
    <3>3. Books(spentBefore[cat], -1, row[cat].spent, Limit(cat), now)
      BY <3>1, <3>2, BooksEmpty
    <3> QED BY <3>1, <3>3
  <2> QED BY <2>1, <2>2, <2>3 DEF GuardInv, BudgetInv
<1>2. GuardInv /\ [GuardNext]_guardVars => GuardInv'
  BY GuardTypeStep, ApprovedStep, BudgetStep DEF GuardInv
<1> QED BY <1>1, <1>2, PTL DEF GuardSpec

(***************************************************************************)
(* Nothing of a gated kind runs but on a standing approval of its kind,    *)
(* however calls, decisions and submissions interleave (check_run(),       *)
(* _decide()).                                                             *)
(***************************************************************************)
THEOREM ApprovalsHold == GuardSpec => []ApprovedOnly
<1>1. GuardInv => ApprovedOnly
  BY DEF GuardInv
<1> QED BY <1>1, GuardInvariant, PTL

(***************************************************************************)
(* For any callers, categories, caps and window, a capped category is      *)
(* never overspent in its window, and the ledger's counter is exact        *)
(* (spend()).                                                              *)
(***************************************************************************)
THEOREM CapsHold == GuardSpec => []CapHolds
<1>1. GuardInv => CapHolds
  <2> SUFFICES ASSUME GuardInv, NEW cat \in Categories, Limit(cat) >= 0
               PROVE  /\ row[cat].start = -1 => SpentSince(cat, 0) = 0
                      /\ row[cat].start # -1 =>
                            /\ row[cat].spent = SpentSince(cat, row[cat].start)
                            /\ row[cat].spent <= Limit(cat)
    BY DEF CapHolds
  <2>1. /\ Books(spentBefore[cat], row[cat].start, row[cat].spent, Limit(cat), now)
        /\ now \in Nat /\ 0 \in 0 .. now + 1 /\ now + 1 \in 0 .. now + 1
        /\ spentBefore[cat][0] \in Nat
    BY GuardBounds DEF GuardInv, GuardTypeOK, BudgetInv
  <2> QED BY <2>1 DEF Books, SpentSince
<1> QED BY <1>1, GuardInvariant, PTL

(***************************************************************************)
(* No stretch of a window's length sees more than twice the limit, since   *)
(* it meets two windows at most (spend() opens one only when the last is   *)
(* over).                                                                  *)
(***************************************************************************)
THEOREM RollingHolds == GuardSpec => []RollingTwice
<1>1. GuardInv => RollingTwice
  <2> SUFFICES ASSUME GuardInv, NEW cat \in Categories, NEW t \in 0 .. now,
                      Limit(cat) >= 0, now - t < Window
               PROVE  SpentSince(cat, t) <= 2 * Limit(cat)
    BY DEF RollingTwice
  <2> DEFINE was == spentBefore[cat]
             start == row[cat].start
  <2>1. /\ Books(was, start, row[cat].spent, Limit(cat), now)
        /\ now \in Nat /\ now + 1 \in 0 .. now + 1 /\ t \in 0 .. now + 1
        /\ \A i \in 0 .. now + 1 : was[i] \in Nat
        /\ start \in Int /\ Limit(cat) \in Int
    BY LimitIs, GuardBounds DEF GuardInv, GuardTypeOK, BudgetInv
  <2> HIDE DEF was, start
  <2>2. CASE start = -1
    <3>1. was[now + 1] = 0
      BY <2>1, <2>2 DEF Books
    <3> QED BY <2>1, <3>1 DEF SpentSince, was
  <2>3. CASE start # -1
    <3>1. start \in 0 .. now /\ was[now + 1] - was[start] <= Limit(cat)
      BY <2>1, <2>3 DEF Books
    <3>2. CASE t <= start
      <4>1. t \in 0 .. start /\ start - t < Window
        BY <2>1, <3>1, <3>2, WindowAssumption
      <4>2. was[start] - was[t] <= Limit(cat)
        BY <2>1, <2>3, <4>1 DEF Books
      <4> QED BY <2>1, <3>1, <4>2 DEF SpentSince, was
    <3>3. CASE ~(t <= start)
      <4>1. was[start] <= was[t]
        BY <2>1, <3>1, <3>3 DEF Books
      <4> QED BY <2>1, <3>1, <4>1 DEF SpentSince, was
    <3> QED BY <3>2, <3>3
  <2> QED BY <2>2, <2>3
<1> QED BY <1>1, GuardInvariant, PTL
=============================================================================
