------------------------- MODULE MissionStoreProofs -------------------------
(***************************************************************************)
(* The mission store, with its transactions and its two databases,         *)
(* implements the spine; and without an anchor the chain runs ahead of the *)
(* store only by failed commits.                                           *)
(***************************************************************************)
EXTENDS MissionStore, TLAPS

TxnType ==
    [phase : {"stepped", "chained"}, mission : Missions, row : Row, event : Event, at : Nat]

(***************************************************************************)
(* The row a call opens a transaction for is a row again (create,          *)
(* add_version, transition).                                               *)
(***************************************************************************)
LEMMA OpenedRow ==
    ASSUME NEW row \in Row
    PROVE  /\ [row EXCEPT !.state = "DRAFT"] \in Row
           /\ \A kind \in VersionKind, body \in Bodies :
                 MayAddVersion(row.state, row.latest, kind, body) =>
                   LET sha == version_sha256(kind, ParentSha(row.latest, kind), body)
                   IN  sha \in Sha /\ [row EXCEPT !.latest[kind] = sha] \in Row
           /\ \A target \in MissionState : \A actor, approver :
                 /\ row.state # "none"
                 /\ MayTransition(row.state, row.resume, row.latest, target, actor, approver)
                 => [row EXCEPT !.state = target,
                                !.resume = ResumeAfter(row.state, target)] \in Row
<1>1. [row EXCEPT !.state = "DRAFT"] \in Row
  BY DEF Row, MissionState, WorkStates
<1>2. ASSUME NEW kind \in VersionKind, NEW body \in Bodies,
             MayAddVersion(row.state, row.latest, kind, body)
      PROVE  LET sha == version_sha256(kind, ParentSha(row.latest, kind), body)
             IN  sha \in Sha /\ [row EXCEPT !.latest[kind] = sha] \in Row
  <2> DEFINE sha == version_sha256(kind, ParentSha(row.latest, kind), body)
             new == [row.latest EXCEPT ![kind] = sha]
  <2>1. row.latest \in Latest /\ HasParent(row.latest, kind)
    BY <1>2 DEF Row, MayAddVersion
  <2>2. CASE kind = "blueprint"
    <3>1. sha \in BlueprintSha
      BY <2>2 DEF ParentSha, ParentKind, VersionKind, version_sha256, BlueprintSha
    <3> QED BY <2>1, <2>2, <3>1 DEF Sha, Row, Latest, VersionKind
  <2>3. CASE kind = "plan"
    <3>1. sha \in PlanSha
      BY <2>1, <2>3, NoneIsNoString DEF HasParent, ParentSha, ParentKind, VersionKind,
         version_sha256, PlanSha, Latest
    <3> QED BY <2>1, <2>3, <3>1 DEF Sha, Row, Latest, VersionKind
  <2>4. CASE kind = "task_graph"
    <3>1. sha \in GraphSha
      BY <2>1, <2>4, NoneIsNoString DEF HasParent, ParentSha, ParentKind, VersionKind,
         version_sha256, GraphSha, Latest
    <3> QED BY <2>1, <2>4, <3>1 DEF Sha, Row, Latest, VersionKind
  <2> QED BY <2>2, <2>3, <2>4 DEF VersionKind
<1>3. ASSUME NEW target \in MissionState, NEW actor, NEW approver, row.state # "none",
             MayTransition(row.state, row.resume, row.latest, target, actor, approver)
      PROVE  [row EXCEPT !.state = target, !.resume = ResumeAfter(row.state, target)] \in Row
  <2>1. target = "BLOCKED_ON_HUMAN" => row.state \in WorkStates
    BY <1>3 DEF MayTransition, allowed_targets, Row, MissionState, WorkStates, TERMINAL,
       GATE_VERDICTS
  <2> QED BY <2>1 DEF Row, ResumeAfter
<1> QED BY <1>1, <1>2, <1>3

(***************************************************************************)
(* Types of the tables, the chain and the open transaction.                *)
(***************************************************************************)
LEMMA StoreTypeCorrect == Spec => []TypeOK
<1>1. Init => TypeOK
  BY DEF Init, TypeOK, NoRow, Row, Latest, VersionKind, Idle
<1>2. TypeOK /\ [Next]_vars => TypeOK'
  <2> SUFFICES ASSUME TypeOK, [Next]_vars PROVE TypeOK'
    OBVIOUS
  <2> USE DEF TypeOK, TxnType
  <2>1. ASSUME NEW m \in Missions, create(m) PROVE TypeOK'
    <3>1. [db[m] EXCEPT !.state = "DRAFT"] \in Row
      BY OpenedRow
    <3>2. Created(m) \in Event
      BY DEF Created, Event
    <3> QED BY <2>1, <3>1, <3>2 DEF create, Open
  <2>2. ASSUME NEW m \in Missions, NEW kind \in VersionKind, NEW body \in Bodies,
               add_version(m, kind, body)
        PROVE  TypeOK'
    <3> DEFINE sha == version_sha256(kind, ParentSha(db[m].latest, kind), body)
    <3>1. sha \in Sha /\ [db[m] EXCEPT !.latest[kind] = sha] \in Row
      BY <2>2, OpenedRow DEF add_version
    <3>2. Versioned(m, sha) \in Event
      BY <3>1 DEF Versioned, Event
    <3> QED BY <2>2, <3>1, <3>2 DEF add_version, Open
  <2>3. ASSUME NEW m \in Missions, NEW target \in MissionState, NEW actor \in Actors,
               NEW approver \in Approvers, transition(m, target, actor, approver)
        PROVE  TypeOK'
    <3> DEFINE row == [db[m] EXCEPT !.state = target,
                                    !.resume = ResumeAfter(db[m].state, target)]
    <3>1. row \in Row
      BY <2>3, OpenedRow DEF transition
    <3>2. db[m].state \in MissionState
      BY <2>3 DEF transition, Row
    <3>3. Moved(m, db[m].state, target, actor, approver) \in Event
      BY <3>2 DEF Moved, Event
    <3> QED BY <2>3, <3>1, <3>3 DEF transition, Open
  <2>4. CASE ChainAppend
    <3>1. txn \in TxnType
      BY <2>4 DEF ChainAppend, Idle
    <3>2. txn' \in TxnType
      <4>1. Len(chain) + 1 \in Nat
        OBVIOUS
      <4>2. txn' = [txn EXCEPT !.phase = "chained", !.at = Len(chain) + 1]
        BY <2>4 DEF ChainAppend
      <4> HIDE DEF TypeOK
      <4> QED BY <3>1, <4>1, <4>2
    <3>3. chain' \in Seq(Event)
      BY <2>4, <3>1 DEF ChainAppend
    <3> QED BY <2>4, <3>2, <3>3 DEF ChainAppend
  <2>5. CASE ChainRefuses
    BY <2>5 DEF ChainRefuses
  <2>6. CASE AnchorFails
    <3>1. txn \in TxnType
      BY <2>6 DEF AnchorFails, Idle
    <3> QED BY <2>6, <3>1 DEF AnchorFails
  <2>7. CASE Commit
    <3>1. txn \in TxnType
      BY <2>7 DEF Commit, Idle
    <3> QED BY <2>7, <3>1 DEF Commit
  <2>8. CASE Abort
    BY <2>8 DEF Abort
  <2>9. CASE UNCHANGED vars
    BY <2>9 DEF vars
  <2> QED BY <2>1, <2>2, <2>3, <2>4, <2>5, <2>6, <2>7, <2>8, <2>9 DEF Next
<1> QED BY <1>1, <1>2, PTL DEF Spec

(***************************************************************************)
(* With a plain (unanchored) chain the only events the chain holds and the *)
(* store does not are those of failed commits, as store.py says.           *)
(***************************************************************************)
THEOREM PlainChainOneGap == ASSUME ~Anchored PROVE Spec => []OneGapOnly
<1>1. Init => OneGapOnly
  BY DEF Init, OneGapOnly, Idle
<1>2. TypeOK /\ OneGapOnly /\ [Next]_vars => OneGapOnly'
  <2> SUFFICES ASSUME TypeOK, OneGapOnly, [Next]_vars PROVE OneGapOnly'
    OBVIOUS
  <2> USE DEF TypeOK, OneGapOnly, Idle
  <2>1. ASSUME NEW m, NEW row, NEW e, Open(m, row, e) PROVE OneGapOnly'
    BY <2>1 DEF Open
  <2>2. (\E m \in Missions : create(m)) => OneGapOnly'
    BY <2>1 DEF create
  <2>3. (\E m \in Missions, kind \in VersionKind, body \in Bodies : add_version(m, kind, body))
            => OneGapOnly'
    BY <2>1 DEF add_version
  <2>4. (\E m \in Missions, target \in MissionState, actor \in Actors, approver \in Approvers :
            transition(m, target, actor, approver)) => OneGapOnly'
    BY <2>1 DEF transition
  <2>5. ChainAppend => OneGapOnly'
    BY DEF ChainAppend
  <2>6. ChainRefuses => OneGapOnly'
    BY DEF ChainRefuses
  <2>7. AnchorFails => OneGapOnly'
    BY DEF AnchorFails
  <2>8. Commit => OneGapOnly'
    BY DEF Commit
  <2>9. Abort => OneGapOnly'
    BY DEF Abort
  <2>10. UNCHANGED vars => OneGapOnly'
    BY DEF vars
  <2> QED BY <2>2, <2>3, <2>4, <2>5, <2>6, <2>7, <2>8, <2>9, <2>10 DEF Next
<1> QED BY <1>1, <1>2, StoreTypeCorrect, PTL DEF Spec

(***************************************************************************)
(* Whatever fails, every committed row is evidenced on the chain, in order *)
(* (_atomic appends before it commits).                                    *)
(***************************************************************************)
THEOREM EvidenceHolds == Spec => []StoreEvidenced
<1> DEFINE Pending ==
        txn.phase = "chained" =>
            /\ txn.at \in DOMAIN chain
            /\ chain[txn.at] = txn.event
            /\ \A i \in DOMAIN log : log[i].at < txn.at
           Inv == StoreEvidenced /\ Pending
<1>1. Init => Inv
  BY DEF Init, StoreEvidenced, Idle
<1>2. TypeOK /\ Inv /\ [Next]_vars => Inv'
  <2> SUFFICES ASSUME TypeOK, Inv, [Next]_vars PROVE Inv'
    OBVIOUS
  <2> USE DEF TypeOK, StoreEvidenced, Idle
  <2>1. ASSUME NEW m, NEW row, NEW e, Open(m, row, e) PROVE Inv'
    BY <2>1 DEF Open
  <2>2. (\E m \in Missions : create(m)) => Inv'
    BY <2>1 DEF create
  <2>3. (\E m \in Missions, kind \in VersionKind, body \in Bodies : add_version(m, kind, body))
            => Inv'
    BY <2>1 DEF add_version
  <2>4. (\E m \in Missions, target \in MissionState, actor \in Actors, approver \in Approvers :
            transition(m, target, actor, approver)) => Inv'
    BY <2>1 DEF transition
  <2>5. CASE ChainAppend
    <3>1. /\ Len(chain') = Len(chain) + 1
          /\ chain'[Len(chain) + 1] = txn.event
          /\ \A i \in DOMAIN chain : chain'[i] = chain[i]
      BY <2>5 DEF ChainAppend
    <3>2. txn'.at = Len(chain) + 1 /\ txn'.event = txn.event
      BY <2>5 DEF ChainAppend, TxnType
    <3> QED BY <2>5, <3>1, <3>2 DEF ChainAppend
  <2>6. CASE ChainRefuses
    BY <2>6 DEF ChainRefuses
  <2>7. CASE AnchorFails
    <3>1. /\ Len(chain') = Len(chain) + 1
          /\ \A i \in DOMAIN chain : chain'[i] = chain[i]
      BY <2>7 DEF AnchorFails
    <3> QED BY <2>7, <3>1 DEF AnchorFails
  <2>8. CASE Commit
    <3> DEFINE r == [event |-> txn.event, at |-> txn.at]
    <3>1. /\ Len(log') = Len(log) + 1
          /\ log'[Len(log) + 1] = r
          /\ \A i \in DOMAIN log : log'[i] = log[i]
          /\ DOMAIN log' = DOMAIN log \cup {Len(log) + 1}
      BY <2>8 DEF Commit
    <3>2. chain' = chain /\ txn.phase = "chained" /\ txn'.phase # "chained"
      BY <2>8 DEF Commit
    <3>3. \A i \in DOMAIN log' : log'[i].at \in DOMAIN chain' /\ chain'[log'[i].at] = log'[i].event
      BY <3>1, <3>2
    <3>4. \A i, j \in DOMAIN log' : i < j => log'[i].at < log'[j].at
      BY <3>1, <3>2
    <3> QED BY <3>2, <3>3, <3>4
  <2>9. CASE Abort
    BY <2>9 DEF Abort
  <2>10. CASE UNCHANGED vars
    BY <2>10 DEF vars
  <2> QED BY <2>2, <2>3, <2>4, <2>5, <2>6, <2>7, <2>8, <2>9, <2>10 DEF Next
<1>3. Inv => StoreEvidenced
  OBVIOUS
<1> HIDE DEF Inv
<1> QED BY <1>1, <1>2, <1>3, StoreTypeCorrect, PTL DEF Spec

(***************************************************************************)
(* The open transaction's step stays valid until it commits: nothing else  *)
(* writes the tables while it holds the lock.                              *)
(***************************************************************************)
LEMMA StepStaysValid == Spec => []StepStillValid
<1>1. Init => StepStillValid
  BY DEF Init, StepStillValid
<1>2. TypeOK /\ StepStillValid /\ [Next]_vars => StepStillValid'
  <2> SUFFICES ASSUME TypeOK, StepStillValid, [Next]_vars PROVE StepStillValid'
    OBVIOUS
  <2>1. ASSUME NEW m \in Missions, create(m) PROVE StepStillValid'
    BY <2>1 DEF create, Open, StepStillValid, Image, Created
  <2>2. ASSUME NEW m \in Missions, NEW kind \in VersionKind, NEW body \in Bodies,
               add_version(m, kind, body)
        PROVE  StepStillValid'
    <3> DEFINE sha == version_sha256(kind, ParentSha(db[m].latest, kind), body)
               e == Versioned(m, sha)
    <3>1. /\ e.sha = sha /\ e.mission = m /\ e.type = "mission.version"
          /\ sha.kind = kind /\ sha.body = body
          /\ sha.parent = ParentSha(db[m].latest, kind)
      BY DEF Versioned, version_sha256
    <3>2. /\ txn'.mission = m /\ txn'.event = e /\ db' = db
          /\ txn'.row = [db[m] EXCEPT !.latest[kind] = sha]
      BY <2>2 DEF add_version, Open
    <3>3. Image(db[m], e) = [db[m] EXCEPT !.latest[kind] = sha]
      BY <3>1 DEF Image
    <3> QED BY <2>2, <3>1, <3>2, <3>3 DEF add_version, StepStillValid
  <2>3. ASSUME NEW m \in Missions, NEW target \in MissionState, NEW actor \in Actors,
               NEW approver \in Approvers, transition(m, target, actor, approver)
        PROVE  StepStillValid'
    BY <2>3 DEF transition, Open, StepStillValid, Image, Moved
  <2>4. CASE ChainAppend
    <3>1. txn \in TxnType
      BY <2>4 DEF ChainAppend, Idle, TypeOK, TxnType
    <3>2. txn'.mission = txn.mission /\ txn'.event = txn.event /\ txn'.row = txn.row
      BY <2>4, <3>1 DEF ChainAppend, TxnType
    <3>3. txn # Idle /\ db' = db
      BY <2>4 DEF ChainAppend, Idle
    <3> QED BY <3>2, <3>3 DEF StepStillValid
  <2>5. CASE ChainRefuses \/ AnchorFails \/ Commit \/ Abort
    BY <2>5 DEF ChainRefuses, AnchorFails, Commit, Abort, StepStillValid
  <2>6. CASE UNCHANGED vars
    BY <2>6 DEF vars, StepStillValid
  <2> QED BY <2>1, <2>2, <2>3, <2>4, <2>5, <2>6 DEF Next
<1> QED BY <1>1, <1>2, StoreTypeCorrect, PTL DEF Spec

(***************************************************************************)
(* What one more committed row does to the history variables of a mission. *)
(***************************************************************************)
LEMMA Projections ==
    ASSUME TypeOK, NEW m \in Missions, NEW r \in [event : Event, at : Nat],
           log' = Append(log, r)
    PROVE  LET mine == r.event.type = "mission.transition" /\ r.event.mission = m
           IN  /\ ~mine => /\ VerdictOf(m)' = VerdictOf(m)
                           /\ CrossedBy(m)' = CrossedBy(m)
               /\ mine =>
                    /\ VerdictOf(m)' = VerdictAfter(r.event.from, r.event.to, r.event.actor,
                                                    VerdictOf(m))
                    /\ CrossedBy(m)' =
                         IF /\ r.event.approver \in Operators
                            /\ <<r.event.from, r.event.to>> \in HUMAN_GATED
                         THEN CrossedBy(m) \cup {<<r.event.from, r.event.to>>}
                         ELSE CrossedBy(m)
<1> DEFINE n == Len(log) + 1
           mine == r.event.type = "mission.transition" /\ r.event.mission = m
<1>1. /\ n \in Nat /\ DOMAIN log = 1 .. n - 1 /\ DOMAIN log' = 1 .. n
      /\ log'[n] = r /\ \A i \in DOMAIN log : log'[i] = log[i]
  BY DEF TypeOK
<1>2. Moves(m)' = IF mine THEN Moves(m) \cup {n} ELSE Moves(m)
  BY <1>1 DEF Moves
<1>3. Moves(m) \subseteq DOMAIN log /\ n \notin Moves(m)
  BY <1>1 DEF Moves
<1>4. CrossedBy(m)' =
         IF mine /\ r.event.approver \in Operators
                 /\ <<r.event.from, r.event.to>> \in HUMAN_GATED
         THEN CrossedBy(m) \cup {<<r.event.from, r.event.to>>} ELSE CrossedBy(m)
  BY <1>1, <1>2, <1>3 DEF CrossedBy
<1>5. JudgingRows(m)' =
         IF mine /\ Judging(r.event) THEN JudgingRows(m) \cup {n} ELSE JudgingRows(m)
  BY <1>1, <1>2, <1>3 DEF JudgingRows
<1>6. JudgingRows(m) \subseteq 1 .. n - 1
  BY <1>1, <1>3 DEF JudgingRows
<1>7. ASSUME mine, Judging(r.event)
      PROVE  VerdictOf(m)' = VerdictAfter(r.event.from, r.event.to, r.event.actor, VerdictOf(m))
  <2> DEFINE v == [to |-> r.event.to, actor |-> r.event.actor]
  <2>1. \A i \in JudgingRows(m)' : (\A j \in JudgingRows(m)' : j <= i) <=> i = n
    BY <1>1, <1>5, <1>6, <1>7
  <2>2. n \in JudgingRows(m)'
    BY <1>5, <1>7
  <2>3. LatestVerdicts(m)' = {w \in Verdict : w = v}
    BY <1>1, <2>1, <2>2 DEF LatestVerdicts
  <2>4. CASE r.event.to = "BUILDING"
    <3>1. v \notin Verdict
      BY <2>4 DEF Verdict, GATE_VERDICTS
    <3>2. VerdictOf(m)' = None
      BY <2>3, <3>1 DEF VerdictOf
    <3> QED BY <2>4, <3>2 DEF VerdictAfter, GATE_VERDICTS
  <2>5. CASE r.event.from = "VERIFYING" /\ r.event.to \in GATE_VERDICTS
    <3>1. v \in Verdict
      BY <1>7, <2>5 DEF Event, Verdict
    <3>2. VerdictOf(m)' = v
      BY <2>3, <3>1 DEF VerdictOf
    <3> QED BY <2>5, <3>2 DEF VerdictAfter, GATE_VERDICTS
  <2> QED BY <1>7, <2>4, <2>5 DEF Judging
<1>8. ASSUME ~(mine /\ Judging(r.event))
      PROVE  VerdictOf(m)' = VerdictOf(m)
  <2>1. JudgingRows(m)' = JudgingRows(m)
    BY <1>5, <1>8
  <2>2. \A i \in JudgingRows(m) : log'[i] = log[i]
    BY <1>1, <1>6
  <2>3. LatestVerdicts(m)' = LatestVerdicts(m)
    BY <2>1, <2>2 DEF LatestVerdicts
  <2> QED BY <2>3 DEF VerdictOf
<1>9. ~Judging(r.event) =>
         VerdictAfter(r.event.from, r.event.to, r.event.actor, VerdictOf(m)) = VerdictOf(m)
  BY DEF Judging, VerdictAfter
<1> QED BY <1>4, <1>7, <1>8, <1>9

(***************************************************************************)
(* The store implements the spine: a commit is one step of the mission it  *)
(* was opened for and no step of any other, and nothing else is visible.   *)
(***************************************************************************)
THEOREM Refinement == Spec => (\A m \in Missions : Spine(m)!Init) /\ SpineSteps
<1>1. Init => \A m \in Missions : Spine(m)!Init
  BY DEF Init, Spine!Init, NoRow, VerdictOf, LatestVerdicts, JudgingRows, CrossedBy, Moves,
     Spine!VersionKind, VersionKind
<1>2. TypeOK /\ StepStillValid /\ [Next]_vars => [\A m \in Missions : SpineStep(m)]_vars
  <2> SUFFICES ASSUME TypeOK, StepStillValid, Next, NEW m \in Missions PROVE SpineStep(m)
    OBVIOUS
  <2>1. CASE db' = db /\ log' = log
    <3>1. VerdictOf(m)' = VerdictOf(m) /\ CrossedBy(m)' = CrossedBy(m)
      BY <2>1 DEF VerdictOf, LatestVerdicts, JudgingRows, CrossedBy, Moves
    <3> QED BY <2>1, <3>1 DEF SpineStep, Spine!vars
  <2>2. CASE Commit
    <3> DEFINE e == txn.event
               r == [event |-> e, at |-> txn.at]
               row == db[txn.mission]
    <3>1. txn \in TxnType /\ txn # Idle
      BY <2>2 DEF Commit, Idle, TypeOK, TxnType
    <3>2. r \in [event : Event, at : Nat] /\ log' = Append(log, r)
      BY <2>2, <3>1 DEF Commit, TxnType
    <3>3. e \in Event /\ e.mission = txn.mission /\ db' = [db EXCEPT ![txn.mission] = txn.row]
      BY <2>2, <3>1 DEF Commit, TxnType, StepStillValid
    <3>4. CASE m # txn.mission
      <4>1. VerdictOf(m)' = VerdictOf(m) /\ CrossedBy(m)' = CrossedBy(m)
        BY <3>2, <3>3, <3>4, Projections
      <4>2. db'[m] = db[m]
        BY <3>3, <3>4 DEF TypeOK
      <4> QED BY <4>1, <4>2 DEF SpineStep, Spine!vars
    <3>5. CASE m = txn.mission
      <4>1. db'[m] = Image(db[m], e) /\ db[m] \in Row
        BY <3>1, <3>3, <3>5 DEF TypeOK, StepStillValid
      <4>2. CASE e.type = "mission.created"
        <5>1. VerdictOf(m)' = VerdictOf(m) /\ CrossedBy(m)' = CrossedBy(m)
          BY <3>2, <4>2, Projections
        <5>2. Spine(m)!Create
          BY <3>1, <3>5, <4>1, <4>2, <5>1 DEF Spine!Create, StepStillValid, Image, Row
        <5> QED BY <5>2 DEF SpineStep, Spine!Next
      <4>3. CASE e.type = "mission.version"
        <5>1. VerdictOf(m)' = VerdictOf(m) /\ CrossedBy(m)' = CrossedBy(m)
          BY <3>2, <4>3, Projections
        <5>2. /\ e.sha \in Sha /\ e.sha.kind \in VersionKind /\ e.sha.body \in Bodies
              /\ e.sha = version_sha256(e.sha.kind, e.sha.parent, e.sha.body)
          BY <3>3, <4>3 DEF Event, Sha, BlueprintSha, PlanSha, GraphSha, VersionKind,
             version_sha256
        <5>3. /\ MayAddVersion(db[m].state, db[m].latest, e.sha.kind, e.sha.body)
              /\ e.sha.parent = ParentSha(db[m].latest, e.sha.kind)
              /\ db[m].state # "none"
          BY <3>1, <3>5, <4>3 DEF StepStillValid
        <5>4. /\ db'[m].state = db[m].state /\ db'[m].resume = db[m].resume
              /\ db'[m].latest = [db[m].latest EXCEPT ![e.sha.kind] = e.sha]
          BY <4>1, <4>3 DEF Image, Row
        <5>5. Spine(m)!AddVersion(e.sha.kind, e.sha.body)
          BY <5>1, <5>2, <5>3, <5>4 DEF Spine!AddVersion, Spine!MayAddVersion, MayAddVersion,
             Spine!ParentSha, ParentSha, Spine!ParentKind, ParentKind, Spine!HasParent, HasParent,
             Spine!VersionKind, VersionKind, Spine!version_sha256, version_sha256,
             Spine!TERMINAL, TERMINAL
        <5> QED BY <5>2, <5>5 DEF SpineStep, Spine!Next, Spine!VersionKind, VersionKind
      <4>4. CASE e.type = "mission.transition"
        <5>1. /\ e.from = db[m].state /\ db[m].state # "none"
              /\ MayTransition(db[m].state, db[m].resume, db[m].latest, e.to, e.actor, e.approver)
          BY <3>1, <3>5, <4>4 DEF StepStillValid
        <5>2. e.to \in MissionState /\ e.actor \in Actors /\ e.approver \in Approvers
          BY <3>3, <4>4 DEF Event
        <5>3. /\ db'[m].state = e.to /\ db'[m].resume = ResumeAfter(db[m].state, e.to)
              /\ db'[m].latest = db[m].latest
          BY <4>1, <4>4 DEF Image, Row
        <5>4. /\ VerdictOf(m)' = VerdictAfter(e.from, e.to, e.actor, VerdictOf(m))
              /\ CrossedBy(m)' = IF e.approver \in Operators /\ <<e.from, e.to>> \in HUMAN_GATED
                                 THEN CrossedBy(m) \cup {<<e.from, e.to>>} ELSE CrossedBy(m)
          BY <3>2, <3>3, <3>5, <4>4, Projections
        <5>5. Spine(m)!MayTransition(db[m].state, db[m].resume, db[m].latest,
                                     e.to, e.actor, e.approver)
          BY <5>1 DEF Spine!MayTransition, MayTransition, Spine!allowed_targets, allowed_targets,
             Spine!is_human_gated, is_human_gated, Spine!ArtifactsReady, ArtifactsReady,
             Spine!PlanStale, PlanStale, Spine!HUMAN_GATED, HUMAN_GATED, Spine!Edges, Edges,
             Spine!GATE_VERDICTS, GATE_VERDICTS, Spine!TERMINAL, TERMINAL,
             Spine!MissionState, MissionState, Spine!WorkStates, WorkStates
        <5>6. Spine(m)!Transition(e.to, e.actor, e.approver)
          BY <5>1, <5>3, <5>4, <5>5 DEF Spine!Transition, Spine!ResumeAfter, ResumeAfter,
             Spine!VerdictAfter, VerdictAfter,
             Spine!GATE_VERDICTS, GATE_VERDICTS, Spine!HUMAN_GATED, HUMAN_GATED
        <5> QED BY <5>2, <5>6 DEF SpineStep, Spine!Next, Approvers, Spine!MissionState,
                MissionState, Spine!WorkStates, WorkStates, Spine!TERMINAL, TERMINAL,
                Spine!GATE_VERDICTS, GATE_VERDICTS
      <4> QED BY <3>3, <4>2, <4>3, <4>4 DEF Event
    <3> QED BY <3>4, <3>5
  <2> QED BY <2>1, <2>2 DEF Next, create, add_version, transition, Open, ChainAppend,
          ChainRefuses, AnchorFails, Abort
<1> QED BY <1>1, <1>2, StoreTypeCorrect, StepStaysValid, PTL DEF Spec, SpineSteps
=============================================================================
