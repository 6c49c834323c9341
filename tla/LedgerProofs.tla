---------------------------- MODULE LedgerProofs ----------------------------
(***************************************************************************)
(* The audit chain never forks, for any number of writers and records,     *)
(* also while it is migrated; the two ledgers are never open together; and *)
(* the v2 segment is linked into the v1 history.                           *)
(*                                                                         *)
(* A chain that is damaged is never repaired silently and loses no content,*)
(* and a rewrite heals it, provided that no call rewrites from a stale scan.*)
(***************************************************************************)
EXTENDS MigrationBarrier, AuditRepair, FiniteSetTheorems, NaturalsInduction, WellFoundedInduction, TLAPS

-----------------------------------------------------------------------------
(* The audit chain by itself.                                               *)

(* The chain is a sequence, whatever its hashes are.                        *)
IsSequence(rs) == \E S : rs \in Seq(S)

IInv ==
    /\ IsSequence(rows)
    /\ ChainTypeOK
    /\ ChainIntact
    /\ LockHolderIsCurrent

(***************************************************************************)
(* Appending a record that names the tail's hash and carries its own keeps *)
(* verify_chain() green.                                                   *)
(***************************************************************************)
LEMMA AppendKeepsIntact ==
    ASSUME NEW S, NEW rs \in Seq(S), verify_chain(rs), NEW r \in S,
           r.prev = _last_hash(rs), r.hash = _compute_hash(r.prev, r.body)
    PROVE  verify_chain(Append(rs, r))
<1> DEFINE new == Append(rs, r)
<1>1. /\ Len(new) = Len(rs) + 1 /\ new[Len(rs) + 1] = r
      /\ \A i \in 1 .. Len(rs) : new[i] = rs[i]
  OBVIOUS
<1>2. ASSUME NEW i \in 1 .. Len(rs) PROVE Intact(new, i)
  BY <1>1, <1>2 DEF verify_chain, Intact, ExpectedPrev
<1>3. Intact(new, Len(rs) + 1)
  BY <1>1 DEF Intact, ExpectedPrev, _last_hash
<1> QED BY <1>1, <1>2, <1>3 DEF verify_chain

(***************************************************************************)
(* Every step of an append or of the migration switch keeps the invariant: *)
(* the tail a writer read stays the tail until it inserts, because no      *)
(* other writer is inside the lock.                                        *)
(***************************************************************************)
LEMMA Inductive == IInv /\ [ChainNext]_chainVars => IInv'
<1> SUFFICES ASSUME IInv, [ChainNext]_chainVars PROVE IInv'
  OBVIOUS
<1> USE DEF IInv, ChainTypeOK
<1>1. ASSUME NEW w \in Writers, NEW b \in Bodies, Admit(w, b) PROVE IInv'
  BY <1>1 DEF Admit, ChainIntact, LockHolderIsCurrent
<1>2. ASSUME NEW w \in Writers, Lock(w) PROVE IInv'
  BY <1>2, NoOneAssumption DEF Lock, ChainIntact, LockHolderIsCurrent
<1>3. ASSUME NEW w \in Writers, Insert(w) PROVE IInv'
  <2> DEFINE r == [body |-> body[w], prev |-> read[w], hash |-> _compute_hash(read[w], body[w])]
  <2>1. rows' = Append(rows, r)
    BY <1>3 DEF Insert
  <2>2. PICK S : rows \in Seq(S)
    BY DEF IsSequence
  <2>3. rows \in Seq(S \cup {r}) /\ rows' \in Seq(S \cup {r})
    BY <2>1, <2>2
  <2>4. read[w] = _last_hash(rows) /\ lock = w
    BY <1>3 DEF Insert, LockHolderIsCurrent
  <2>5. ChainIntact'
    BY <2>1, <2>3, <2>4, AppendKeepsIntact DEF ChainIntact
  <2>6. /\ Len(rows') = Len(rows) + 1 /\ rows'[Len(rows) + 1] = r
        /\ \A i \in 1 .. Len(rows) : rows'[i] = rows[i]
    BY <2>1, <2>2
  <2>7. LockHolderIsCurrent'
    BY <1>3, <2>4 DEF Insert, LockHolderIsCurrent
  <2>8. IsSequence(rows)'
    BY <2>3 DEF IsSequence
  <2>9. ChainTypeOK'
    BY <1>3, <2>3, <2>6 DEF Insert
  <2> QED BY <2>5, <2>7, <2>8, <2>9
<1>4. ASSUME NEW w \in Writers, Fail(w) PROVE IInv'
  BY <1>4, NoOneAssumption DEF Fail, ChainIntact, LockHolderIsCurrent
<1>5. ASSUME NEW to \in MigStates, SetMigration(to) PROVE IInv'
  BY <1>5 DEF SetMigration, ChainIntact, LockHolderIsCurrent
<1>6. CASE begin_migration \/ complete_migration \/ abort_migration \/ block_migration
  BY <1>5, <1>6 DEF begin_migration, complete_migration, abort_migration, block_migration,
     MigStates
<1>7. CASE UNCHANGED chainVars
  BY <1>7 DEF chainVars, ChainIntact, LockHolderIsCurrent
<1> QED BY <1>1, <1>2, <1>3, <1>4, <1>6, <1>7 DEF ChainNext, AppendStep

\* The invariant holds in every reachable state of the chain.
LEMMA ChainInvariant == ChainSpec => []IInv
<1>1. ChainInit => IInv
  <2> SUFFICES ASSUME ChainInit PROVE IInv
    OBVIOUS
  <2>1. rows \in Seq({}) /\ rows = <<>>
    BY DEF ChainInit
  <2>2. body \in [Writers -> Bodies]
    BY BodiesAssumption DEF ChainInit
  <2> QED BY <2>1, <2>2 DEF ChainInit, IInv, ChainTypeOK, IsSequence, ChainIntact, verify_chain,
          LockHolderIsCurrent, MigStates
<1> QED BY <1>1, Inductive, PTL DEF ChainSpec

(***************************************************************************)
(* The chain never forks: verify_chain() is green in every reachable       *)
(* state, for any number of writers.                                       *)
(***************************************************************************)
THEOREM NeverForks == ChainSpec => []ChainIntact
<1>1. IInv => ChainIntact
  BY DEF IInv
<1> QED BY <1>1, ChainInvariant, PTL

-----------------------------------------------------------------------------
(* The migration beside the writers.                                        *)

(***************************************************************************)
(* run() adds nothing to what the chain may do: every step of the          *)
(* composition is a step of AuditChain or leaves the chain alone.          *)
(***************************************************************************)
THEOREM BarrierImplementsChain == Spec => ChainSpec
<1>1. Init => ChainInit
  BY DEF Init
<1>2. [Next]_vars => [ChainNext]_chainVars
  BY DEF Next, vars, ChainNext, ReadHead, Begin, WriteManifest, Export, VerifyHead, StartV2,
     AppendV2, Complete, Stamp, SetDetail, RecordActive, GiveUp, RecordBlocked, Die
<1> QED BY <1>1, <1>2, PTL DEF Spec, ChainSpec

(***************************************************************************)
(* verify_chain() stays green through every migration, failed, repeated or *)
(* completed.                                                              *)
(***************************************************************************)
THEOREM MigrationKeepsChain == Spec => []ChainIntact
  BY BarrierImplementsChain, NeverForks, PTL

Before == {"begin", "manifest", "export", "verify", "v2", "append"}
Began == {"manifest", "export", "verify", "v2", "append", "complete", "stamp"}

(***************************************************************************)
(* Why it holds: a run() that gets past its checks found no v2 record, so  *)
(* none exists until it writes one itself; it writes one only between its  *)
(* own begin_migration() and complete_migration(); and from StartV2 on its *)
(* handler blocks instead of aborting.                                     *)
(***************************************************************************)
BarrierInv ==
    /\ run.pc \in Before => v2 = <<>>
    /\ run.began => run.pc \in Began /\ mig \in {"MIGRATING", "V2_ACTIVE"}
    /\ run.pc \in Began => run.began
    /\ run.pc \in {"append", "complete", "stamp"} => run.v2_started
    /\ NeverBothOpen

RunShape ==
    /\ run = [pc |-> run.pc, head |-> run.head, began |-> run.began,
              v2_started |-> run.v2_started]
    /\ run.began \in BOOLEAN /\ run.v2_started \in BOOLEAN

\* No run() is under way at first, and the v2 segment is empty.
LEMMA BarrierInit == Init => RunShape /\ BarrierInv
  BY DEF Init, ChainInit, Idle, RunShape, BarrierInv, NeverBothOpen, Before, Began

\* The writers of the chain do not touch the switch.
LEMMA AppendsKeepSwitch == AppendStep => mig' = mig
  BY DEF AppendStep, Admit, Lock, Insert, Fail

\* One case per step of a writer or of run(); only GiveUp needs an argument.
LEMMA BarrierStep == RunShape /\ BarrierInv /\ [Next]_vars => RunShape' /\ BarrierInv'
<1> SUFFICES ASSUME RunShape, BarrierInv, [Next]_vars PROVE RunShape' /\ BarrierInv'
  OBVIOUS
<1> USE DEF RunShape, BarrierInv, NeverBothOpen, Before, Began
<1>1. CASE AppendStep /\ UNCHANGED <<run, v2, manifest>>
  BY <1>1, AppendsKeepSwitch
<1>2. CASE ReadHead
  BY <1>2 DEF ReadHead, Idle, chainVars
<1>3. CASE Begin
  BY <1>3 DEF Begin, begin_migration, SetMigration
<1>4. CASE WriteManifest
  BY <1>4 DEF WriteManifest, At, chainVars
<1>5. CASE Export
  BY <1>5 DEF Export, At, chainVars
<1>6. CASE VerifyHead
  BY <1>6 DEF VerifyHead, At, chainVars
<1>7. CASE StartV2
  BY <1>7 DEF StartV2, chainVars
<1>8. CASE AppendV2
  BY <1>8 DEF AppendV2, At, chainVars
<1>9. CASE Complete
  BY <1>9 DEF Complete, At, complete_migration, SetMigration
<1>10. CASE RecordActive
  BY <1>10 DEF RecordActive, Idle, chainVars
<1>11. CASE GiveUp
  <2>1. CASE run.began /\ run.v2_started
    BY <1>11, <2>1 DEF GiveUp, Idle, block_migration, SetMigration
  <2>2. CASE run.began /\ ~run.v2_started
    \* Nothing was written yet: a run with a v2 record of its own has started v2.
    <3>1. v2 = <<>>
      BY <2>2
    <3> QED
      BY <1>11, <2>2, <3>1 DEF GiveUp, Idle, abort_migration, SetMigration
  <2>3. CASE ~run.began
    BY <1>11, <2>3 DEF GiveUp, Idle, chainVars
  <2> QED
    BY <2>1, <2>2, <2>3
<1>12. CASE RecordBlocked
  BY <1>12 DEF RecordBlocked, Idle, chainVars
<1>13. CASE Die
  BY <1>13 DEF Die, Idle, chainVars
<1>14. CASE Stamp
  BY <1>14 DEF Stamp, SetDetail, chainVars
<1>15. CASE UNCHANGED vars
  BY <1>15 DEF vars, chainVars
<1> QED
  BY <1>1, <1>2, <1>3, <1>4, <1>5, <1>6, <1>7, <1>8, <1>9, <1>10, <1>11, <1>12,
     <1>13, <1>14, <1>15 DEF Next

(***************************************************************************)
(* Once the v2 segment has a record, no failure, death or repeated run()   *)
(* reopens the v1 chain, whatever the writers do.                          *)
(***************************************************************************)
THEOREM OneLedgerOpen == Spec => []NeverBothOpen
<1>1. BarrierInv => NeverBothOpen
  BY DEF BarrierInv
<1> QED
  BY <1>1, BarrierInit, BarrierStep, PTL DEF Spec

-----------------------------------------------------------------------------
(* The link between the two ledgers.                                        *)

\* A record of the chain has this hash, and behind it stand no more records
\* than there are writers outside append().
Linked(h) ==
    \E i \in DOMAIN rows : rows[i].hash = h /\ Len(rows) - i <= Cardinality(Outside)

(***************************************************************************)
(* run() gets past its checks only on a chain with a record.  From the     *)
(* export on, the head that it carries to the v2 record is linked, and so  *)
(* is the prev_hash of that record.                                        *)
(***************************************************************************)
LinkInv ==
    /\ run.pc \in Before => rows # <<>>
    /\ run.pc \in {"verify", "v2", "append"} => Linked(run.head)
    /\ v2 # <<>> => Linked(v2[1])

(***************************************************************************)
(* While the switch keeps new appends out, a hash that is linked stays so: *)
(* a record more is a writer more outside append().                        *)
(***************************************************************************)
LEMMA LinkStays ==
    ASSUME IInv, [ChainNext]_chainVars, mig # "V1_ACTIVE", NEW h, Linked(h)
    PROVE  Linked(h)'
<1>1. IsFiniteSet(Outside) /\ Cardinality(Outside) \in Nat
  BY WritersAssumption, FS_Subset, FS_CardinalityType DEF Outside
<1>2. PICK i \in DOMAIN rows : rows[i].hash = h /\ Len(rows) - i <= Cardinality(Outside)
  BY DEF Linked
<1>3. i \in Nat /\ Len(rows) \in Nat /\ DOMAIN rows = 1 .. Len(rows)
  BY DEF IInv, ChainTypeOK
<1>4. CASE \E w \in Writers : Insert(w)
  <2>1. PICK w \in Writers : Insert(w)
    BY <1>4
  <2>2. PICK S : rows \in Seq(S)
    BY DEF IInv, IsSequence
  <2> DEFINE r == [body |-> body[w], prev |-> read[w], hash |-> _compute_hash(read[w], body[w])]
  <2>3. rows' = Append(rows, r)
    BY <2>1 DEF Insert
  <2>4. rows \in Seq(S \cup {r}) /\ r \in S \cup {r}
    BY <2>2
  <2> HIDE DEF r
  <2>5. i \in DOMAIN rows' /\ rows'[i] = rows[i] /\ Len(rows') = Len(rows) + 1
    BY <2>3, <2>4, <1>3
  <2>6. w \notin Outside /\ Outside' = Outside \cup {w}
    BY <2>1 DEF Insert, Outside, IInv, ChainTypeOK
  <2>7. Cardinality(Outside') = Cardinality(Outside) + 1
    BY <1>1, <2>6, FS_AddElement
  <2>8. Len(rows') - i <= Cardinality(Outside')
    BY <1>1, <1>2, <1>3, <2>5, <2>7
  <2> QED BY <1>2, <2>5, <2>8 DEF Linked
<1>5. CASE ~ \E w \in Writers : Insert(w)
  <2>1. rows' = rows
    BY <1>5 DEF ChainNext, AppendStep, Admit, Lock, Fail, begin_migration,
       complete_migration, abort_migration, block_migration, SetMigration, chainVars
  <2>2. Outside \subseteq Outside'
    BY <1>5 DEF ChainNext, AppendStep, Admit, Lock, Fail, begin_migration, IInv, ChainTypeOK,
       complete_migration, abort_migration, block_migration, SetMigration, chainVars, Outside
  <2>3. IsFiniteSet(Outside')
    BY WritersAssumption, FS_Subset DEF Outside
  <2>4. Cardinality(Outside) <= Cardinality(Outside') /\ Cardinality(Outside') \in Nat
    BY <2>2, <2>3, FS_Subset, FS_CardinalityType
  <2>5. Len(rows) - i <= Cardinality(Outside')
    BY <1>1, <1>2, <1>3, <2>4
  <2> QED BY <1>2, <2>1, <2>5 DEF Linked
<1> QED BY <1>4, <1>5

(***************************************************************************)
(* Every step keeps the link: Export finds the head to be the last record, *)
(* AppendV2 writes the head it carries, and the others leave both alone.   *)
(***************************************************************************)
LEMMA LinkStep == IInv /\ RunShape /\ BarrierInv /\ LinkInv /\ [Next]_vars => LinkInv'
<1> SUFFICES ASSUME IInv, RunShape, BarrierInv, LinkInv, [Next]_vars PROVE LinkInv'
  OBVIOUS
<1> DEFINE Carries == {"verify", "v2", "append"}
<1>1. [ChainNext]_chainVars
  BY DEF Next, vars, ChainNext, ReadHead, Begin, WriteManifest, Export, VerifyHead, StartV2,
     AppendV2, Complete, Stamp, SetDetail, RecordActive, GiveUp, RecordBlocked, Die
<1>2. mig # "V1_ACTIVE" => \A h : Linked(h) => Linked(h)'
  BY <1>1, LinkStays
<1>3. (run.pc \in Carries \/ v2 # <<>>) => mig # "V1_ACTIVE"
  BY DEF BarrierInv, Began, NeverBothOpen
<1>4. rows # <<>> => rows' # <<>>
  <2>1. PICK S : rows \in Seq(S)
    BY DEF IInv, IsSequence
  <2>2. rows' = rows \/ \E r : rows' = Append(rows, r)
    BY <1>1 DEF ChainNext, AppendStep, Admit, Lock, Insert, Fail, begin_migration,
       complete_migration, abort_migration, block_migration, SetMigration, chainVars
  <2>3. ASSUME NEW r, rows' = Append(rows, r) PROVE rows' # <<>>
    <3>1. rows \in Seq(S \cup {r}) /\ r \in S \cup {r}
      BY <2>1
    <3> QED BY <2>3, <3>1
  <2> QED BY <2>2, <2>3
<1>5. CASE ReadHead
  <2>1. run'.pc = "begin" /\ v2' = <<>> /\ rows # <<>>
    BY <1>5 DEF ReadHead, Idle
  <2> QED BY <1>4, <2>1 DEF LinkInv
<1>6. CASE Export
  <2>1. PICK S : rows \in Seq(S)
    BY DEF IInv, IsSequence
  <2>2. /\ run'.head = run.head /\ run'.pc = "verify" /\ v2' = v2 /\ v2 = <<>>
        /\ rows' = rows /\ Outside' = Outside /\ rows # <<>>
    BY <1>6 DEF Export, At, RunShape, BarrierInv, LinkInv, Before, chainVars, Outside
  <2>3. /\ Len(rows) \in DOMAIN rows /\ rows[Len(rows)].hash = run.head
        /\ Len(rows) - Len(rows) = 0
    BY <1>6, <2>1, <2>2 DEF Export, _last_hash
  <2>4. Cardinality(Outside) \in Nat
    BY WritersAssumption, FS_Subset, FS_CardinalityType DEF Outside
  <2>5. Linked(run.head)
    BY <2>3, <2>4 DEF Linked
  <2> QED BY <2>2, <2>5 DEF LinkInv, Linked
<1>7. CASE AppendV2
  <2>1. v2 = <<>> /\ Linked(run.head) /\ run.pc \in Carries
    BY <1>7 DEF AppendV2, At, BarrierInv, LinkInv, Before
  <2>2. v2'[1] = run.head
    BY <1>7, <2>1 DEF AppendV2
  <2>3. run'.pc = "complete"
    BY <1>7 DEF AppendV2, At, RunShape
  <2>4. Linked(run.head)'
    <3>1. rows' = rows /\ Outside' = Outside /\ run'.head = run.head
      BY <1>7 DEF AppendV2, At, RunShape, chainVars, Outside
    <3> QED BY <2>1, <3>1 DEF Linked
  <2>5. run'.head = run.head
    BY <1>7 DEF AppendV2, At, RunShape
  <2> QED BY <2>2, <2>3, <2>4, <2>5 DEF LinkInv, Before
<1>8. CASE ~ReadHead /\ ~Export /\ ~AppendV2
  <2>1. v2' = v2
    BY <1>8 DEF Next, vars, Begin, WriteManifest, VerifyHead, StartV2, Complete, Stamp,
       RecordActive, GiveUp, RecordBlocked, Die
  <2>2. /\ run'.pc \in Before => run.pc \in Before
        /\ run'.pc \in Carries => run.pc \in Carries /\ run'.head = run.head
    <3>1. CASE run' = run
      BY <3>1
    <3>2. CASE Begin \/ WriteManifest \/ VerifyHead \/ StartV2
      BY <3>2 DEF Begin, At, WriteManifest, VerifyHead, StartV2, Before, RunShape
    <3>3. CASE Complete \/ Stamp \/ RecordActive \/ GiveUp \/ RecordBlocked \/ Die
      <4>1. Complete => run'.pc = "stamp"
        BY DEF Complete, At, RunShape
      <4>2. Stamp => run'.pc = "record"
        BY DEF Stamp, RunShape
      <4>3. GiveUp => run'.pc = "blocked"
        BY DEF GiveUp, Idle
      <4>4. RecordActive \/ RecordBlocked \/ Die => run'.pc = "idle"
        BY DEF RecordActive, RecordBlocked, Die, Idle
      <4> QED BY <3>3, <4>1, <4>2, <4>3, <4>4 DEF Before
    <3> QED BY <1>8, <3>1, <3>2, <3>3 DEF Next, vars
  <2>3. (run.pc \in Carries => Linked(run.head))'
    <3> SUFFICES ASSUME run'.pc \in Carries PROVE Linked(run.head)'
      OBVIOUS
    <3>1. Linked(run.head) /\ mig # "V1_ACTIVE" /\ run'.head = run.head
      BY <1>3, <2>2 DEF LinkInv
    <3>2. PICK i \in DOMAIN rows' :
             rows'[i].hash = run.head /\ Len(rows') - i <= Cardinality(Outside')
      BY <1>2, <3>1 DEF Linked
    <3> QED BY <3>1, <3>2 DEF Linked
  <2>4. (v2 # <<>> => Linked(v2[1]))'
    <3> SUFFICES ASSUME v2' # <<>> PROVE Linked(v2[1])'
      OBVIOUS
    <3>1. Linked(v2[1]) /\ mig # "V1_ACTIVE"
      BY <1>3, <2>1 DEF LinkInv
    <3>2. PICK i \in DOMAIN rows' :
             rows'[i].hash = v2[1] /\ Len(rows') - i <= Cardinality(Outside')
      BY <1>2, <3>1 DEF Linked
    <3> QED BY <2>1, <3>2 DEF Linked
  <2> QED BY <1>4, <2>2, <2>3, <2>4 DEF LinkInv
<1> QED BY <1>5, <1>6, <1>7, <1>8

(***************************************************************************)
(* The first v2 record names a record of the v1 chain, the chain verifies  *)
(* up to it, and for any number of writers there are behind it no more     *)
(* records than writers that are done: the switch lets no append in.       *)
(***************************************************************************)
THEOREM V2IsLinked == Spec => []V2LinksIntoV1
<1>1. Init => LinkInv
  BY DEF Init, Idle, LinkInv, Before
<1>2. IInv /\ LinkInv => V2LinksIntoV1
  BY DEF IInv, LinkInv, V2LinksIntoV1, Linked, ChainIntact, verify_chain, ChainTypeOK
<1>3. Spec => []IInv
  BY BarrierImplementsChain, ChainInvariant, PTL
<1> QED
  BY <1>1, <1>2, <1>3, LinkStep, BarrierInit, BarrierStep, PTL DEF Spec

-----------------------------------------------------------------------------
(* Damage and repair: the inductive invariant.                              *)

Row(rs, i) == rs[i] = [body |-> rs[i].body, prev |-> rs[i].prev, hash |-> rs[i].hash]

WritersShape ==
    /\ lock \in Writers \cup {NoOne}
    /\ pc \in [Writers -> {"idle", "admitted", "locked"}]
    /\ read = [w \in Writers |-> read[w]]

(***************************************************************************)
(* A reported record's hash is still the one of what was reported, or no   *)
(* hash at all, or a later record documents a repair that reached back.    *)
(***************************************************************************)
Documented ==
    \A a \in acked :
        /\ a[1] \in DOMAIN rows
        /\ \/ rows[a[1]].hash = Garbage \/ rows[a[1]].hash.body = a[2]
           \/ \E i \in DOMAIN rows : i > a[1] /\ \E k \in 1 .. a[1] : rows[i].body = Repaired(k)

RepairInv ==
    /\ IsSequence(rows)
    /\ \A i \in DOMAIN rows : Row(rows, i)
    /\ WritersShape
    /\ LockHolderIsCurrent
    /\ RepairTypeOK
    /\ Documented

-----------------------------------------------------------------------------
(* Chains as sequences.                                                     *)

\* A chain has a length, and its records are numbered from 1.
LEMMA SequenceIs ==
    ASSUME NEW rs, IsSequence(rs)
    PROVE  Len(rs) \in Nat /\ DOMAIN rs = 1 .. Len(rs) /\ rs = [i \in 1 .. Len(rs) |-> rs[i]]
<1>1. PICK S : rs \in Seq(S)
  BY DEF IsSequence
<1> QED BY <1>1

\* A function over 1 .. n is a chain of n records.
LEMMA SequenceOf ==
    ASSUME NEW n \in Nat, NEW f, f = [i \in 1 .. n |-> f[i]]
    PROVE  IsSequence(f) /\ Len(f) = n /\ DOMAIN f = 1 .. n
<1> DEFINE S == {f[i] : i \in 1 .. n}
<1>1. \A i \in 1 .. n : f[i] \in S
  OBVIOUS
<1> HIDE DEF S
<1>2. f \in [1 .. n -> S]
  BY <1>1
<1>3. f \in Seq(S)
  BY <1>2
<1> QED BY <1>2, <1>3 DEF IsSequence

\* One record more, the others as they were.
LEMMA AppendIs ==
    ASSUME NEW rs, IsSequence(rs), NEW r
    PROVE  /\ IsSequence(Append(rs, r)) /\ Len(Append(rs, r)) = Len(rs) + 1
           /\ DOMAIN Append(rs, r) = 1 .. Len(rs) + 1
           /\ Append(rs, r)[Len(rs) + 1] = r
           /\ \A i \in 1 .. Len(rs) : Append(rs, r)[i] = rs[i]
<1>1. PICK S : rs \in Seq(S)
  BY DEF IsSequence
<1>2. rs \in Seq(S \cup {r}) /\ r \in S \cup {r}
  BY <1>1
<1>3. Append(rs, r) \in Seq(S \cup {r}) /\ Len(Append(rs, r)) = Len(rs) + 1
  BY <1>2
<1>4. DOMAIN Append(rs, r) = 1 .. Len(rs) + 1
  BY <1>3
<1> QED BY <1>2, <1>3, <1>4 DEF IsSequence

-----------------------------------------------------------------------------
(* The rewrite.                                                             *)

\* A set of numbers that is not empty has a least one.
LEMMA Least ==
    ASSUME NEW T \in SUBSET Nat, T # {}
    PROVE  \E x \in T : \A y \in T : x <= y
<1> DEFINE R == {ss \in Nat \X Nat : ss[1] < ss[2]}
<1>1. IsWellFoundedOn(R, Nat)
  BY NatLessThanWellFounded DEF OpToRel
<1>2. \A x, y \in Nat : y < x => <<y, x>> \in R
  OBVIOUS
<1> HIDE DEF R
<1>3. PICK x \in T : \A y \in T : ~ (<<y, x>> \in R)
  BY <1>1, WFMin
<1>4. ASSUME NEW y \in T PROVE x <= y
  <2>1. x \in Nat /\ y \in Nat
    OBVIOUS
  <2>2. ~(y < x)
    BY <1>2, <1>3, <2>1
  <2> QED BY <2>1, <2>2
<1> QED BY <1>4

\* The scan finds the first break, if there is one.
LEMMA ScanFinds ==
    ASSUME NEW rs, IsSequence(rs)
    PROVE  /\ FirstBroken(rs) \in 0 .. Len(rs)
           /\ FirstBroken(rs) = 0 => verify_chain(rs)
           /\ FirstBroken(rs) # 0 => /\ ~Intact(rs, FirstBroken(rs))
                                     /\ \A i \in 1 .. FirstBroken(rs) - 1 : Intact(rs, i)
<1>1. Len(rs) \in Nat /\ DOMAIN rs = 1 .. Len(rs)
  BY SequenceIs
<1>2. CASE Broken(rs) = {}
  BY <1>1, <1>2 DEF FirstBroken, Broken, verify_chain
<1>3. CASE Broken(rs) # {}
  <2>1. Broken(rs) \in SUBSET Nat
    BY <1>1 DEF Broken
  <2>2. \E x \in Broken(rs) : \A y \in Broken(rs) : x <= y
    BY <1>3, <2>1, Least
  <2>3. FirstBroken(rs) = CHOOSE i \in Broken(rs) : \A j \in Broken(rs) : i <= j
    BY <1>3 DEF FirstBroken
  <2>4. FirstBroken(rs) \in Broken(rs) /\ \A j \in Broken(rs) : FirstBroken(rs) <= j
    BY <2>2, <2>3
  <2>5. FirstBroken(rs) \in 1 .. Len(rs) /\ ~Intact(rs, FirstBroken(rs))
    BY <1>1, <2>4 DEF Broken
  <2>6. ASSUME NEW i \in 1 .. FirstBroken(rs) - 1 PROVE Intact(rs, i)
    <3>1. i \in 1 .. Len(rs) /\ ~(FirstBroken(rs) <= i)
      BY <1>1, <2>5
    <3>2. i \notin Broken(rs)
      BY <2>4, <3>1
    <3> QED BY <1>1, <3>1, <3>2 DEF Broken
  <2> QED BY <2>5, <2>6
<1> QED BY <1>2, <1>3

\* The hashes of the tail, by the equation of the recursive function.
HashesOf(f, rs, k, e, n) ==
    f = [i \in (k - 1) .. n |-> IF i = k - 1 THEN e ELSE _compute_hash(f[i - 1], rs[i].body)]

\* One more hash.
LEMMA OneMoreHash ==
    ASSUME NEW k \in Nat, NEW n \in Int, k - 1 <= n, NEW rs, NEW e, NEW f, HashesOf(f, rs, k, e, n)
    PROVE  \E g : HashesOf(g, rs, k, e, n + 1)
<1> DEFINE D == (k - 1) .. n + 1
           g == [i \in D |-> IF i = n + 1 THEN _compute_hash(f[n], rs[n + 1].body) ELSE f[i]]
           x(i) == IF i = k - 1 THEN e ELSE _compute_hash(g[i - 1], rs[i].body)
<1>1. ASSUME NEW i \in D PROVE g[i] = x(i)
  <2>1. CASE i = n + 1
    <3>1. g[i] = _compute_hash(f[n], rs[n + 1].body)
      BY <2>1
    <3>2. n \in D /\ n # n + 1 /\ i - 1 = n /\ i # k - 1
      BY <2>1
    <3>3. g[n] = f[n]
      BY <3>2
    <3> HIDE DEF g
    <3> QED BY <2>1, <3>1, <3>2, <3>3
  <2>2. CASE i # n + 1
    <3>1. i \in (k - 1) .. n
      BY <2>2
    <3>2. g[i] = f[i]
      BY <2>2
    <3>3. f[i] = IF i = k - 1 THEN e ELSE _compute_hash(f[i - 1], rs[i].body)
      BY <3>1 DEF HashesOf
    <3>4. i # k - 1 => i - 1 \in D /\ i - 1 # n + 1
      BY <3>1
    <3>5. i # k - 1 => g[i - 1] = f[i - 1]
      BY <3>4
    <3> HIDE DEF g
    <3> QED BY <3>2, <3>3, <3>5
  <2> QED BY <2>1, <2>2
<1>2. g = [i \in D |-> g[i]]
  OBVIOUS
<1> HIDE DEF g
<1>3. g = [i \in D |-> x(i)]
  BY <1>1, <1>2
<1> QED BY <1>3 DEF HashesOf

\* They exist for a tail of any length.
LEMMA HashesExist ==
    ASSUME NEW k \in Nat, NEW n \in Nat, k - 1 <= n, NEW rs, NEW e
    PROVE  \E f : HashesOf(f, rs, k, e, n)
<1> DEFINE Bad == {m \in Nat : ~\E f : HashesOf(f, rs, k, e, k - 1 + m)}
<1>1. SUFFICES Bad = {}
  <2>1. n - (k - 1) \in Nat /\ k - 1 + (n - (k - 1)) = n
    OBVIOUS
  <2>2. n - (k - 1) \notin Bad
    BY <1>1
  <2> QED BY <2>1, <2>2
<1>2. SUFFICES ASSUME Bad # {} PROVE FALSE
  OBVIOUS
<1>3. PICK m \in Bad : \A y \in Bad : m <= y
  BY <1>2, Least
<1>4. CASE m = 0
  <2> DEFINE f == [i \in (k - 1) .. (k - 1) |-> e]
  <2>1. HashesOf(f, rs, k, e, k - 1)
    <3>1. \A i \in (k - 1) .. (k - 1) : i = k - 1
      OBVIOUS
    <3> QED BY <3>1 DEF HashesOf
  <2>2. k - 1 + m = k - 1
    BY <1>4
  <2> QED BY <1>3, <2>1, <2>2
<1>5. CASE m # 0
  <2>1. m - 1 \in Nat /\ ~(m <= m - 1)
    BY <1>5
  <2>2. PICK f : HashesOf(f, rs, k, e, k - 1 + (m - 1))
    BY <1>3, <2>1
  <2>3. \E g : HashesOf(g, rs, k, e, (k - 1 + (m - 1)) + 1)
    BY <2>1, <2>2, OneMoreHash
  <2>4. (k - 1 + (m - 1)) + 1 = k - 1 + m
    OBVIOUS
  <2> QED BY <1>3, <2>3, <2>4
<1> QED BY <1>4, <1>5

\* The hashes h link the records of the tail, starting at e.
Links(h, rs, k, e) ==
    /\ h[k - 1] = e
    /\ \A i \in k .. Len(rs) : h[i] = _compute_hash(h[i - 1], rs[i].body)

Relinked(h, rs, k) ==
    [i \in DOMAIN rs |-> IF i < k THEN rs[i]
                         ELSE [body |-> rs[i].body, prev |-> h[i - 1], hash |-> h[i]]]

\* So the rewritten tail is a chain that starts at `expected`.
LEMMA RehashedIs ==
    ASSUME NEW rs, IsSequence(rs), NEW k \in 1 .. Len(rs), NEW e
    PROVE  \E h : Links(h, rs, k, e) /\ Rehashed(rs, k, e) = Relinked(h, rs, k)
<1> DEFINE h == CHOOSE f : HashesOf(f, rs, k, e, Len(rs))
<1>1. Len(rs) \in Nat /\ k \in Nat /\ k - 1 <= Len(rs)
  BY SequenceIs
<1>2. \E f : HashesOf(f, rs, k, e, Len(rs))
  BY <1>1, HashesExist
<1>3. HashesOf(h, rs, k, e, Len(rs))
  BY <1>2
<1>4. Rehashed(rs, k, e) = Relinked(h, rs, k)
  BY DEF Rehashed, HashesOf, Relinked
<1> HIDE DEF h
<1>5. h[k - 1] = e
  BY <1>1, <1>3 DEF HashesOf
<1>6. ASSUME NEW i \in k .. Len(rs) PROVE h[i] = _compute_hash(h[i - 1], rs[i].body)
  <2>1. i \in (k - 1) .. Len(rs) /\ i # k - 1
    BY <1>1
  <2> QED BY <1>3, <2>1 DEF HashesOf
<1> QED BY <1>4, <1>5, <1>6 DEF Links

\* What the rewrite leaves alone, and the event it adds.
LEMMA RewriteIs ==
    ASSUME NEW rs, IsSequence(rs), NEW k \in 1 .. Len(rs), NEW e, \A i \in DOMAIN rs : Row(rs, i)
    PROVE  /\ IsSequence(Rewrite(rs, k, e)) /\ Len(Rewrite(rs, k, e)) = Len(rs) + 1
           /\ DOMAIN Rewrite(rs, k, e) = 1 .. Len(rs) + 1
           /\ \A i \in 1 .. k - 1 : Rewrite(rs, k, e)[i] = rs[i]
           /\ \A i \in 1 .. Len(rs) : Rewrite(rs, k, e)[i].body = rs[i].body
           /\ Rewrite(rs, k, e)[Len(rs) + 1].body = Repaired(k)
           /\ \A i \in 1 .. Len(rs) + 1 : Row(Rewrite(rs, k, e), i)
<1>1. PICK h : Rehashed(rs, k, e) = Relinked(h, rs, k)
  BY RehashedIs
<1> DEFINE mid == Rehashed(rs, k, e)
           event == [body |-> Repaired(k), prev |-> _last_hash(mid),
                     hash |-> _compute_hash(_last_hash(mid), Repaired(k))]
           new == Rewrite(rs, k, e)
<1>2. Len(rs) \in Nat /\ DOMAIN rs = 1 .. Len(rs)
  BY SequenceIs
<1>3. new = Append(mid, event)
  BY DEF Rewrite, WithEvent
<1>4. mid = [i \in 1 .. Len(rs) |-> mid[i]]
  BY <1>1, <1>2 DEF Relinked
<1>5. \A i \in 1 .. k - 1 : mid[i] = rs[i]
  BY <1>1, <1>2 DEF Relinked
<1>6. ASSUME NEW i \in 1 .. Len(rs) PROVE mid[i].body = rs[i].body /\ Row(mid, i)
  <2>1. CASE i < k
    <3>1. mid[i] = rs[i]
      BY <1>1, <1>2, <2>1 DEF Relinked
    <3> HIDE DEF mid
    <3> QED BY <1>2, <3>1 DEF Row
  <2>2. CASE ~(i < k)
    <3>1. mid[i] = [body |-> rs[i].body, prev |-> h[i - 1], hash |-> h[i]]
      BY <1>1, <1>2, <2>2 DEF Relinked
    <3> HIDE DEF mid
    <3> QED BY <3>1 DEF Row
  <2> QED BY <2>1, <2>2
<1>7. event.body = Repaired(k)
      /\ event = [body |-> event.body, prev |-> event.prev, hash |-> event.hash]
  OBVIOUS
<1> HIDE DEF mid, event, new
<1>8. IsSequence(mid) /\ Len(mid) = Len(rs)
  BY <1>2, <1>4, SequenceOf
<1>9. /\ IsSequence(new) /\ Len(new) = Len(rs) + 1 /\ DOMAIN new = 1 .. Len(rs) + 1
      /\ new[Len(rs) + 1] = event /\ \A i \in 1 .. Len(rs) : new[i] = mid[i]
  BY <1>3, <1>8, AppendIs
<1>10. \A i \in 1 .. Len(rs) + 1 : i \in 1 .. Len(rs) \/ i = Len(rs) + 1
  BY <1>2
<1>11. \A i \in 1 .. Len(rs) + 1 : Row(new, i)
  BY <1>6, <1>7, <1>9, <1>10 DEF Row
<1>12. \A i \in 1 .. k - 1 : i \in 1 .. Len(rs)
  BY <1>2
<1> QED BY <1>5, <1>6, <1>7, <1>9, <1>11, <1>12 DEF new

(***************************************************************************)
(* A chain that is intact up to the break verifies once it is rewritten    *)
(* from there, onto the hash before the break.                             *)
(***************************************************************************)
LEMMA RewriteHeals ==
    ASSUME NEW rs, IsSequence(rs), NEW k \in 1 .. Len(rs), \A i \in 1 .. k - 1 : Intact(rs, i)
    PROVE  verify_chain(Rewrite(rs, k, ExpectedPrev(rs, k)))
<1> DEFINE e == ExpectedPrev(rs, k)
           mid == Rehashed(rs, k, e)
           event == [body |-> Repaired(k), prev |-> _last_hash(mid),
                     hash |-> _compute_hash(_last_hash(mid), Repaired(k))]
<1>1. PICK h : Links(h, rs, k, e) /\ mid = Relinked(h, rs, k)
  BY RehashedIs
<1>2. Len(rs) \in Nat /\ DOMAIN rs = 1 .. Len(rs)
  BY SequenceIs
<1>3. /\ \A i \in 1 .. k - 1 : mid[i] = rs[i]
      /\ \A i \in k .. Len(rs) : mid[i] = [body |-> rs[i].body, prev |-> h[i - 1], hash |-> h[i]]
      /\ mid = [i \in 1 .. Len(rs) |-> mid[i]]
  <2> HIDE DEF mid, e
  <2>1. \A i \in 1 .. k - 1 : mid[i] = rs[i]
    BY <1>1, <1>2 DEF Relinked
  <2>2. \A i \in k .. Len(rs) : mid[i] = [body |-> rs[i].body, prev |-> h[i - 1], hash |-> h[i]]
    <3>1. \A i \in k .. Len(rs) : i \in DOMAIN rs /\ ~(i < k)
      BY <1>2
    <3> QED BY <1>1, <3>1 DEF Relinked
  <2> QED BY <1>1, <1>2, <2>1, <2>2 DEF Relinked
<1>4. Rewrite(rs, k, e) = Append(mid, event)
  BY DEF Rewrite, WithEvent
<1>5. event.prev = _last_hash(mid) /\ event.hash = _compute_hash(event.prev, event.body)
  OBVIOUS
<1> HIDE DEF mid, event
<1>6. ASSUME NEW i \in 1 .. Len(rs) PROVE Intact(mid, i)
  <2>1. CASE i < k
    <3>1. i \in 1 .. k - 1 /\ (i # 1 => i - 1 \in 1 .. k - 1)
      BY <1>2, <2>1
    <3>2. mid[i] = rs[i] /\ (i # 1 => mid[i - 1] = rs[i - 1])
      BY <1>3, <3>1
    <3>3. Intact(rs, i)
      BY <3>1
    <3> QED BY <3>2, <3>3 DEF Intact, ExpectedPrev
  <2>2. CASE i = k
    <3>1. k \in k .. Len(rs) /\ (k # 1 => k - 1 \in 1 .. k - 1)
      BY <1>2
    <3>2. mid[k] = [body |-> rs[k].body, prev |-> h[k - 1], hash |-> h[k]]
          /\ h[k] = _compute_hash(h[k - 1], rs[k].body) /\ h[k - 1] = e
      BY <1>1, <1>3, <3>1 DEF Links
    <3>3. k # 1 => mid[k - 1] = rs[k - 1]
      BY <1>3, <3>1
    <3>4. ExpectedPrev(mid, k) = e
      BY <3>3 DEF ExpectedPrev
    <3> HIDE DEF e
    <3> QED BY <2>2, <3>2, <3>4 DEF Intact
  <2>3. CASE i > k
    <3>1. i \in k .. Len(rs) /\ i - 1 \in k .. Len(rs) /\ i # 1
      BY <1>2, <2>3
    <3>2. mid[i] = [body |-> rs[i].body, prev |-> h[i - 1], hash |-> h[i]]
      BY <1>3, <3>1
    <3>3. mid[i - 1] = [body |-> rs[i - 1].body, prev |-> h[i - 1 - 1], hash |-> h[i - 1]]
      BY <1>3, <3>1
    <3>4. h[i] = _compute_hash(h[i - 1], rs[i].body)
      BY <1>1, <3>1 DEF Links
    <3>5. ExpectedPrev(mid, i) = h[i - 1]
      BY <3>1, <3>3 DEF ExpectedPrev
    <3> QED BY <3>2, <3>4, <3>5 DEF Intact
  <2> QED BY <1>2, <2>1, <2>2, <2>3
<1>7. IsSequence(mid) /\ DOMAIN mid = 1 .. Len(rs)
  BY <1>2, <1>3, SequenceOf
<1>8. verify_chain(mid)
  BY <1>6, <1>7 DEF verify_chain
<1>9. PICK S : mid \in Seq(S)
  BY <1>7 DEF IsSequence
<1>10. mid \in Seq(S \cup {event}) /\ event \in S \cup {event}
  BY <1>9
<1> QED BY <1>4, <1>5, <1>8, <1>10, AppendKeepsIntact

-----------------------------------------------------------------------------
(* What may happen to the records.                                          *)

\* Every step leaves them alone, or appends one, changes one or rewrites them.
LEMMA StepKinds ==
    ASSUME [RepairNext]_ledgerVars
    PROVE  \/ rows' = rows
           \/ \E w \in Writers : Insert(w) /\ UNCHANGED repairVars
           \/ \E i \in DOMAIN rows : Damage(i)
           \/ \E o \in Operations : RepairRewrite(o)
  BY DEF RepairNext, ledgerVars, chainVars, AppendStep, Admit, Lock, Fail, QuarantineVerify,
     QuarantineMark, QuarantineSeq, RepairScan, RepairNothing, RepairMark, RepairSeq, OperationDies

-----------------------------------------------------------------------------
(* The calls.                                                               *)

\* What each phase of a call carries.
LEMMA CallIs ==
    ASSUME NEW c, NEW n \in Nat, NEW d \in Nat, IsCall(c, n, d)
    PROVE  /\ c.phase \in {"free", "verdict", "marking", "scanned", "rewritten", "clearing"}
           /\ c.phase \in {"verdict", "marking"} =>
                 c = [phase |-> c.phase, broken |-> c.broken] /\ c.broken \in 0 .. n
           /\ c.phase \in {"scanned", "rewritten", "clearing"} =>
                 /\ c = [phase |-> c.phase, broken |-> c.broken, expected |-> c.expected,
                         seen |-> c.seen]
                 /\ c.broken \in 1 .. n /\ c.seen \in 0 .. d
<1>1. CASE c = Free
  BY <1>1 DEF Free
<1>2. ASSUME NEW p \in {"verdict", "marking"}, NEW k \in 0 .. n, c = [phase |-> p, broken |-> k]
      PROVE  /\ c.phase \in {"verdict", "marking"} /\ c.broken \in 0 .. n
             /\ c = [phase |-> c.phase, broken |-> c.broken]
  BY <1>2
<1>3. ASSUME NEW p \in {"scanned", "rewritten", "clearing"}, NEW k \in 1 .. n, NEW seen \in 0 .. d,
             c = [phase |-> p, broken |-> k, expected |-> c.expected, seen |-> seen]
      PROVE  /\ c.phase \in {"scanned", "rewritten", "clearing"}
             /\ c.broken \in 1 .. n /\ c.seen \in 0 .. d
             /\ c = [phase |-> c.phase, broken |-> c.broken, expected |-> c.expected,
                     seen |-> c.seen]
  BY <1>3
<1>4. CASE \E p \in {"verdict", "marking"}, k \in 0 .. n : c = [phase |-> p, broken |-> k]
  BY <1>2, <1>4
<1>5. CASE \E p \in {"scanned", "rewritten", "clearing"}, k \in 1 .. n, seen \in 0 .. d :
              c = [phase |-> p, broken |-> k, expected |-> c.expected, seen |-> seen]
  BY <1>3, <1>5
<1> QED BY <1>1, <1>4, <1>5 DEF IsCall

\* A longer chain or another damage makes no call wrong.
LEMMA CallStays ==
    ASSUME NEW c, NEW n \in Nat, NEW d \in Nat, IsCall(c, n, d),
           NEW n2 \in Nat, n <= n2, NEW d2 \in Nat, d <= d2
    PROVE  IsCall(c, n2, d2)
<1>1. 0 .. n \subseteq 0 .. n2 /\ 1 .. n \subseteq 1 .. n2 /\ 0 .. d \subseteq 0 .. d2
  OBVIOUS
<1> QED BY <1>1 DEF IsCall

\* A call goes on to its next phase.
LEMMA CallGoesOn ==
    ASSUME NEW c, NEW n \in Nat, NEW d \in Nat, IsCall(c, n, d), NEW p,
           \/ c.phase = "verdict" /\ p = "marking"
           \/ c.phase \in {"scanned", "rewritten"} /\ p \in {"rewritten", "clearing"}
    PROVE  /\ IsCall([c EXCEPT !.phase = p], n, d) /\ [c EXCEPT !.phase = p].phase = p
           /\ c.phase \in {"scanned", "rewritten"} => [c EXCEPT !.phase = p].seen = c.seen
<1> DEFINE to == [c EXCEPT !.phase = p]
<1>1. CASE c.phase = "verdict" /\ p = "marking"
  <2>1. c = [phase |-> c.phase, broken |-> c.broken] /\ c.broken \in 0 .. n
    BY <1>1, CallIs
  <2>2. to = [phase |-> "marking", broken |-> c.broken]
    BY <1>1, <2>1
  <2> QED BY <1>1, <2>1, <2>2 DEF IsCall
<1>2. CASE c.phase \in {"scanned", "rewritten"} /\ p \in {"rewritten", "clearing"}
  <2>1. /\ c = [phase |-> c.phase, broken |-> c.broken, expected |-> c.expected, seen |-> c.seen]
        /\ c.broken \in 1 .. n /\ c.seen \in 0 .. d
    BY <1>2, CallIs
  <2>2. to = [phase |-> p, broken |-> c.broken, expected |-> c.expected, seen |-> c.seen]
    BY <2>1
  <2>3. /\ to = [phase |-> p, broken |-> c.broken, expected |-> to.expected, seen |-> c.seen]
        /\ to.phase = p /\ to.seen = c.seen
    BY <2>2
  <2> HIDE DEF to
  <2>4. \E q \in {"scanned", "rewritten", "clearing"}, k \in 1 .. n, seen \in 0 .. d :
            to = [phase |-> q, broken |-> k, expected |-> to.expected, seen |-> seen]
    BY <1>2, <2>1, <2>3
  <2>5. IsCall(to, n, d)
    BY <2>4 DEF IsCall
  <2> QED BY <2>3, <2>5 DEF to
<1> QED BY <1>1, <1>2

-----------------------------------------------------------------------------
(* The invariant of repair, step by step.                                   *)

\* The size of the chain and the number of damages are numbers.
LEMMA Numbers ==
    ASSUME RepairInv
    PROVE  /\ Len(rows) \in Nat /\ DOMAIN rows = 1 .. Len(rows) /\ damage \in Nat
           /\ \A o \in Operations : IsCall(op[o], Len(rows), damage)
  BY SequenceIs, DamageAssumption DEF RepairInv, RepairTypeOK

\* A step of one call that leaves the chain alone.
LEMMA CallOnly ==
    ASSUME RepairInv, NEW o \in Operations, NEW c, IsCall(c, Len(rows), damage),
           op' = [op EXCEPT ![o] = c], UNCHANGED <<chainVars, damage>>,
           state' \in {"active", "quarantined"}, mark' \in 0 .. Len(rows)
    PROVE  RepairInv'
<1>1. op' = [q \in Operations |-> op'[q]] /\ \A q \in Operations : op'[q] = c \/ op'[q] = op[q]
  BY DEF RepairInv, RepairTypeOK
<1>2. \A q \in Operations : IsCall(op'[q], Len(rows), damage)
  BY <1>1 DEF RepairInv, RepairTypeOK
<1>3. RepairTypeOK'
  <2>1. rows' = rows /\ damage' = damage
    BY DEF chainVars
  <2> QED BY <1>1, <1>2, <2>1 DEF RepairInv, RepairTypeOK
<1> QED BY <1>3 DEF RepairInv, chainVars, WritersShape, LockHolderIsCurrent, Documented

\* quarantine() and the steps of repair() outside its transaction.
LEMMA CallStep ==
    ASSUME RepairInv, NEW o \in Operations,
           \/ QuarantineVerify(o) \/ QuarantineMark(o) \/ QuarantineSeq(o)
           \/ RepairScan(o) \/ RepairNothing(o) \/ RepairMark(o) \/ RepairSeq(o)
           \/ OperationDies(o)
    PROVE  RepairInv'
<1>1. /\ Len(rows) \in Nat /\ damage \in Nat /\ IsCall(op[o], Len(rows), damage)
      /\ mark \in 0 .. Len(rows) /\ state \in {"active", "quarantined"}
  BY Numbers DEF RepairInv, RepairTypeOK
<1>2. IsCall(Free, Len(rows), damage)
  BY DEF IsCall
<1>3. FirstBroken(rows) \in 0 .. Len(rows)
  BY ScanFinds DEF RepairInv
<1>4. op = [op EXCEPT ![o] = op[o]]
  BY DEF RepairInv, RepairTypeOK
<1>5. CASE QuarantineVerify(o)
  <2> DEFINE c == [phase |-> "verdict", broken |-> FirstBroken(rows)]
  <2>1. IsCall(c, Len(rows), damage)
    BY <1>3 DEF IsCall
  <2> HIDE DEF c
  <2>2. op' = [op EXCEPT ![o] = c] /\ UNCHANGED <<chainVars, damage, state, mark>>
    BY <1>5 DEF QuarantineVerify, c
  <2> QED BY <1>1, <2>1, <2>2, CallOnly
<1>6. CASE QuarantineMark(o)
  <2> DEFINE c == [op[o] EXCEPT !.phase = "marking"]
  <2>1. IsCall(c, Len(rows), damage)
    BY <1>1, <1>6, CallGoesOn DEF QuarantineMark
  <2> HIDE DEF c
  <2>2. op' = [op EXCEPT ![o] = c] /\ UNCHANGED <<chainVars, damage, mark>>
        /\ state' \in {"active", "quarantined"}
    BY <1>6 DEF QuarantineMark, c
  <2> QED BY <1>1, <2>1, <2>2, CallOnly
<1>7. CASE QuarantineSeq(o)
  <2>1. op[o].broken \in 0 .. Len(rows)
    BY <1>1, <1>7, CallIs DEF QuarantineSeq
  <2> QED BY <1>1, <1>2, <1>7, <2>1, CallOnly DEF QuarantineSeq
<1>8. CASE RepairScan(o)
  <2> DEFINE c == [phase |-> "scanned", broken |-> FirstBroken(rows),
                   expected |-> ExpectedPrev(rows, FirstBroken(rows)), seen |-> damage]
  <2>1. FirstBroken(rows) \in 1 .. Len(rows) /\ damage \in 0 .. damage
    BY <1>1, <1>3, <1>8 DEF RepairScan
  <2>2. c = [phase |-> "scanned", broken |-> FirstBroken(rows), expected |-> c.expected,
             seen |-> damage]
    OBVIOUS
  <2>3. op' = [op EXCEPT ![o] = c] /\ UNCHANGED <<chainVars, damage, state, mark>>
    BY <1>8 DEF RepairScan
  <2> HIDE DEF c
  <2>4. IsCall(c, Len(rows), damage)
    BY <2>1, <2>2 DEF IsCall
  <2> QED BY <1>1, <2>3, <2>4, CallOnly
<1>9. CASE RepairNothing(o)
  BY <1>1, <1>4, <1>9, CallOnly DEF RepairNothing
<1>10. CASE RepairMark(o)
  <2> DEFINE c == [op[o] EXCEPT !.phase = "clearing"]
  <2>1. IsCall(c, Len(rows), damage)
    BY <1>1, <1>10, CallGoesOn DEF RepairMark
  <2> HIDE DEF c
  <2>2. op' = [op EXCEPT ![o] = c] /\ UNCHANGED <<chainVars, damage, mark>> /\ state' = "active"
    BY <1>10 DEF RepairMark, c
  <2> QED BY <1>1, <2>1, <2>2, CallOnly
<1>11. CASE RepairSeq(o)
  <2>1. 0 \in 0 .. Len(rows)
    BY <1>1
  <2> QED BY <1>1, <1>2, <1>11, <2>1, CallOnly DEF RepairSeq
<1>12. CASE OperationDies(o)
  BY <1>1, <1>2, <1>12, CallOnly DEF OperationDies
<1> QED BY <1>5, <1>6, <1>7, <1>8, <1>9, <1>10, <1>11, <1>12

(***************************************************************************)
(* A longer chain that keeps the events and the hashes it has, but for     *)
(* those that are no hashes and those a new event reaches back to, stays   *)
(* documented.                                                             *)
(***************************************************************************)
LEMMA StaysDocumented ==
    ASSUME NEW a, NEW rs, NEW new, IsSequence(rs), IsSequence(new), Len(rs) <= Len(new),
           a[1] \in DOMAIN rs,
           \/ rs[a[1]].hash = Garbage \/ rs[a[1]].hash.body = a[2]
           \/ \E i \in DOMAIN rs : i > a[1] /\ \E k \in 1 .. a[1] : rs[i].body = Repaired(k),
           \A i \in DOMAIN rs : \A k \in Nat : rs[i].body = Repaired(k) => new[i].body = Repaired(k),
           \/ new[a[1]].hash = Garbage \/ new[a[1]].hash = rs[a[1]].hash
           \/ \E i \in DOMAIN new : i > a[1] /\ \E k \in 1 .. a[1] : new[i].body = Repaired(k)
    PROVE  /\ a[1] \in DOMAIN new
           /\ \/ new[a[1]].hash = Garbage \/ new[a[1]].hash.body = a[2]
              \/ \E i \in DOMAIN new : i > a[1] /\ \E k \in 1 .. a[1] : new[i].body = Repaired(k)
<1>1. /\ Len(rs) \in Nat /\ DOMAIN rs = 1 .. Len(rs)
      /\ Len(new) \in Nat /\ DOMAIN new = 1 .. Len(new)
  BY SequenceIs
<1>2. a[1] \in Nat /\ \A i \in DOMAIN rs : i \in DOMAIN new
  BY <1>1
<1>3. CASE \E i \in DOMAIN new : i > a[1] /\ \E k \in 1 .. a[1] : new[i].body = Repaired(k)
  BY <1>2, <1>3
<1>4. CASE new[a[1]].hash = rs[a[1]].hash
  <2>1. CASE rs[a[1]].hash = Garbage \/ rs[a[1]].hash.body = a[2]
    BY <1>2, <1>4, <2>1
  <2>2. CASE \E i \in DOMAIN rs : i > a[1] /\ \E k \in 1 .. a[1] : rs[i].body = Repaired(k)
    <3>1. PICK i \in DOMAIN rs, k \in 1 .. a[1] : i > a[1] /\ rs[i].body = Repaired(k)
      BY <2>2
    <3>2. k \in Nat
      BY <1>2
    <3> QED BY <1>2, <3>1, <3>2
  <2> QED BY <2>1, <2>2
<1>5. CASE new[a[1]].hash = Garbage
  BY <1>2, <1>5
<1> QED BY <1>3, <1>4, <1>5

\* An append that is not an insert.
LEMMA WriterStep ==
    ASSUME RepairInv, NEW w \in Writers, (\E b \in Bodies : Admit(w, b)) \/ Lock(w) \/ Fail(w),
           UNCHANGED repairVars
    PROVE  RepairInv'
<1>1. UNCHANGED <<rows, acked, op, state, mark, damage>>
  BY DEF Admit, Lock, Fail, repairVars
<1>2. WritersShape' /\ LockHolderIsCurrent'
  BY NoOneAssumption DEF RepairInv, WritersShape, LockHolderIsCurrent, Admit, Lock, Fail
<1>3. RepairTypeOK'
  BY <1>1 DEF RepairInv, RepairTypeOK
<1> QED BY <1>1, <1>2, <1>3 DEF RepairInv, Documented

\* An insert: the record's hash is that of what is reported.
LEMMA InsertStep ==
    ASSUME RepairInv, NEW w \in Writers, Insert(w), UNCHANGED repairVars
    PROVE  RepairInv'
<1> DEFINE r == [body |-> body[w], prev |-> read[w], hash |-> _compute_hash(read[w], body[w])]
<1>1. rows' = Append(rows, r)
  BY DEF Insert
<1>2. r = [body |-> r.body, prev |-> r.prev, hash |-> r.hash] /\ r.hash.body = body[w]
  BY DEF _compute_hash
<1> HIDE DEF r
<1>3. Len(rows) \in Nat /\ DOMAIN rows = 1 .. Len(rows) /\ damage \in Nat
  BY Numbers
<1>4. /\ IsSequence(rows') /\ Len(rows') = Len(rows) + 1 /\ DOMAIN rows' = 1 .. Len(rows) + 1
      /\ rows'[Len(rows) + 1] = r /\ \A i \in 1 .. Len(rows) : rows'[i] = rows[i]
  BY <1>1, AppendIs DEF RepairInv
<1>5. \A i \in 1 .. Len(rows) + 1 : i \in 1 .. Len(rows) \/ i = Len(rows) + 1
  BY <1>3
<1>6. \A i \in DOMAIN rows' : Row(rows', i)
  BY <1>2, <1>3, <1>4, <1>5 DEF RepairInv, Row
<1>7. WritersShape' /\ LockHolderIsCurrent'
  BY NoOneAssumption DEF RepairInv, WritersShape, LockHolderIsCurrent, Insert
<1>8. RepairTypeOK'
  <2>1. UNCHANGED <<op, state, mark, damage>>
    BY DEF repairVars
  <2>2. \A o \in Operations : IsCall(op[o], Len(rows'), damage)
    BY <1>3, <1>4, Numbers, CallStays
  <2>3. mark \in 0 .. Len(rows')
    BY <1>3, <1>4 DEF RepairInv, RepairTypeOK
  <2> QED BY <2>1, <2>2, <2>3 DEF RepairInv, RepairTypeOK
<1>9. Documented'
  <2> SUFFICES ASSUME NEW a \in acked'
               PROVE  /\ a[1] \in DOMAIN rows'
                      /\ \/ rows'[a[1]].hash = Garbage \/ rows'[a[1]].hash.body = a[2]
                         \/ \E i \in DOMAIN rows' :
                               i > a[1] /\ \E k \in 1 .. a[1] : rows'[i].body = Repaired(k)
    BY DEF Documented
  <2>1. CASE a = <<Len(rows) + 1, body[w]>>
    <3>1. a[1] = Len(rows) + 1 /\ a[2] = body[w] /\ Len(rows) + 1 \in 1 .. Len(rows) + 1
      BY <1>3, <2>1
    <3> QED BY <1>2, <1>4, <3>1
  <2>2. CASE a \in acked
    <3>1. /\ a[1] \in DOMAIN rows
          /\ \/ rows[a[1]].hash = Garbage \/ rows[a[1]].hash.body = a[2]
             \/ \E i \in DOMAIN rows : i > a[1] /\ \E k \in 1 .. a[1] : rows[i].body = Repaired(k)
      BY <2>2 DEF RepairInv, Documented
    <3>2. \A i \in DOMAIN rows : rows'[i] = rows[i]
      BY <1>3, <1>4
    <3>3. Len(rows) <= Len(rows')
      BY <1>3, <1>4
    <3>4. IsSequence(rows)
      BY DEF RepairInv
    <3> QED BY <1>4, <3>1, <3>2, <3>3, <3>4, StaysDocumented
  <2> QED BY <2>1, <2>2 DEF Insert
<1> QED BY <1>4, <1>6, <1>7, <1>8, <1>9 DEF RepairInv

\* A changed record: events say what they said, and a hash stays or is none.
LEMMA DamageStep ==
    ASSUME RepairInv, NEW i \in DOMAIN rows, Damage(i)
    PROVE  RepairInv'
<1>1. Len(rows) \in Nat /\ DOMAIN rows = 1 .. Len(rows) /\ damage \in Nat
  BY Numbers
<1>2. /\ UNCHANGED <<lock, pc, read, acked, op, state, mark>> /\ damage' = damage + 1
      /\ lock = NoOne /\ damage < MaxDamage
  BY DEF Damage
<1>3. Row(rows, i)
  BY DEF RepairInv
<1>4. PICK r : /\ rows' = [rows EXCEPT ![i] = r]
               /\ r = [body |-> r.body, prev |-> r.prev, hash |-> r.hash]
               /\ r.body = rows[i].body \/ rows[i].body \in Bodies
               /\ r.hash = rows[i].hash \/ r.hash = Garbage
  <2>1. PICK r \in Damaged(rows[i]) : rows' = [rows EXCEPT ![i] = r]
    BY DEF Damage
  <2>2. /\ r = [body |-> r.body, prev |-> r.prev, hash |-> r.hash]
        /\ r.body = rows[i].body \/ rows[i].body \in Bodies
        /\ r.hash = rows[i].hash \/ r.hash = Garbage
    BY <1>3 DEF Damaged, Row
  <2> QED BY <2>1, <2>2
<1>5. rows = [j \in 1 .. Len(rows) |-> rows[j]]
  BY SequenceIs DEF RepairInv
<1>6. /\ rows' = [j \in 1 .. Len(rows) |-> rows'[j]]
      /\ rows'[i] = r
      /\ \A j \in DOMAIN rows : j # i => rows'[j] = rows[j]
  BY <1>1, <1>2, <1>4, <1>5
<1>7. IsSequence(rows') /\ Len(rows') = Len(rows) /\ DOMAIN rows' = DOMAIN rows
  BY <1>1, <1>6, SequenceOf
<1>8. \A j \in DOMAIN rows' : Row(rows', j)
  BY <1>4, <1>6, <1>7 DEF RepairInv, Row
<1>9. WritersShape' /\ LockHolderIsCurrent'
  BY <1>2, NoOneAssumption DEF RepairInv, WritersShape, LockHolderIsCurrent
<1>10. RepairTypeOK'
  <2>1. \A o \in Operations : IsCall(op[o], Len(rows'), damage')
    BY <1>1, <1>2, <1>7, Numbers, CallStays
  <2>2. damage' \in 0 .. MaxDamage
    BY <1>1, <1>2, DamageAssumption
  <2> QED BY <1>2, <1>7, <2>1, <2>2 DEF RepairInv, RepairTypeOK
<1>11. Documented'
  <2> SUFFICES ASSUME NEW a \in acked
               PROVE  /\ a[1] \in DOMAIN rows'
                      /\ \/ rows'[a[1]].hash = Garbage \/ rows'[a[1]].hash.body = a[2]
                         \/ \E j \in DOMAIN rows' :
                               j > a[1] /\ \E k \in 1 .. a[1] : rows'[j].body = Repaired(k)
    BY <1>2 DEF Documented
  <2>1. /\ a[1] \in DOMAIN rows
        /\ \/ rows[a[1]].hash = Garbage \/ rows[a[1]].hash.body = a[2]
           \/ \E j \in DOMAIN rows : j > a[1] /\ \E k \in 1 .. a[1] : rows[j].body = Repaired(k)
    BY DEF RepairInv, Documented
  <2>2. ASSUME NEW j \in DOMAIN rows, NEW k \in Nat, rows[j].body = Repaired(k)
        PROVE  rows'[j].body = Repaired(k)
    <3>1. Repaired(k) \in [repaired : Nat]
      BY DEF Repaired
    <3>2. CASE j # i
      BY <1>6, <2>2, <3>2
    <3>3. CASE j = i
      <4>1. rows[i].body \notin Bodies
        BY <2>2, <3>1, <3>3, EventAssumption
      <4> QED BY <1>4, <1>6, <2>2, <3>3, <4>1
    <3> QED BY <3>2, <3>3
  <2>3. rows'[a[1]].hash = Garbage \/ rows'[a[1]].hash = rows[a[1]].hash
    BY <1>4, <1>6, <2>1
  <2>4. IsSequence(rows) /\ Len(rows) <= Len(rows')
    BY <1>1, <1>7 DEF RepairInv
  <2> QED BY <1>7, <2>1, <2>2, <2>3, <2>4, StaysDocumented
<1> QED BY <1>7, <1>8, <1>9, <1>10, <1>11 DEF RepairInv

\* The transaction: what it re-hashes, its own event reaches back to.
LEMMA RewriteStep ==
    ASSUME RepairInv, NEW o \in Operations, RepairRewrite(o)
    PROVE  RepairInv'
<1> DEFINE k == op[o].broken
           e == op[o].expected
           n == Len(rows)
<1>1. n \in Nat /\ DOMAIN rows = 1 .. n /\ damage \in Nat /\ IsCall(op[o], n, damage)
  BY Numbers
<1>2. /\ UNCHANGED <<lock, pc, read, acked, state, mark, damage>> /\ lock = NoOne
      /\ op[o].phase = "scanned" /\ rows' = Rewrite(rows, k, e)
      /\ op' = [op EXCEPT ![o] = [op[o] EXCEPT !.phase = "rewritten"]]
  BY DEF RepairRewrite
<1>3. k \in 1 .. n
  BY <1>1, <1>2, CallIs
<1> HIDE DEF k, e
<1>4. /\ IsSequence(rows') /\ Len(rows') = n + 1 /\ DOMAIN rows' = 1 .. n + 1
      /\ \A i \in 1 .. k - 1 : rows'[i] = rows[i]
      /\ \A i \in 1 .. n : rows'[i].body = rows[i].body
      /\ rows'[n + 1].body = Repaired(k)
      /\ \A i \in 1 .. n + 1 : Row(rows', i)
  BY <1>2, <1>3, RewriteIs DEF RepairInv
<1> HIDE DEF n
<1>5. WritersShape' /\ LockHolderIsCurrent'
  BY <1>2, NoOneAssumption DEF RepairInv, WritersShape, LockHolderIsCurrent
<1>6. RepairTypeOK'
  <2> DEFINE c == [op[o] EXCEPT !.phase = "rewritten"]
  <2>1. IsCall(c, n, damage)
    BY <1>1, <1>2, CallGoesOn
  <2> HIDE DEF c
  <2>2. op' = [q \in Operations |-> op'[q]] /\ \A q \in Operations : op'[q] = c \/ op'[q] = op[q]
    BY <1>2 DEF RepairInv, RepairTypeOK, c
  <2>3. \A q \in Operations : IsCall(op'[q], n, damage)
    BY <2>1, <2>2, Numbers DEF n
  <2>4. \A q \in Operations : IsCall(op'[q], n + 1, damage)
    BY <1>1, <2>3, CallStays
  <2>5. mark \in 0 .. n + 1
    BY <1>1 DEF RepairInv, RepairTypeOK, n
  <2> QED BY <1>2, <1>4, <2>2, <2>4, <2>5 DEF RepairInv, RepairTypeOK
<1>7. Documented'
  <2> SUFFICES ASSUME NEW a \in acked
               PROVE  /\ a[1] \in DOMAIN rows'
                      /\ \/ rows'[a[1]].hash = Garbage \/ rows'[a[1]].hash.body = a[2]
                         \/ \E i \in DOMAIN rows' :
                               i > a[1] /\ \E j \in 1 .. a[1] : rows'[i].body = Repaired(j)
    BY <1>2 DEF Documented
  <2>1. /\ a[1] \in DOMAIN rows
        /\ \/ rows[a[1]].hash = Garbage \/ rows[a[1]].hash.body = a[2]
           \/ \E i \in DOMAIN rows : i > a[1] /\ \E j \in 1 .. a[1] : rows[i].body = Repaired(j)
    BY DEF RepairInv, Documented
  <2>2. \A i \in DOMAIN rows : \A j \in Nat : rows[i].body = Repaired(j) => rows'[i].body = Repaired(j)
    BY <1>1, <1>4
  <2>3. \/ rows'[a[1]].hash = rows[a[1]].hash
        \/ \E i \in DOMAIN rows' : i > a[1] /\ \E j \in 1 .. a[1] : rows'[i].body = Repaired(j)
    <3>1. CASE a[1] < k
      <4>1. a[1] \in 1 .. k - 1
        BY <1>1, <1>3, <2>1, <3>1
      <4> QED BY <1>4, <4>1
    <3>2. CASE ~(a[1] < k)
      <4>1. k \in 1 .. a[1] /\ n + 1 \in 1 .. n + 1 /\ n + 1 > a[1]
        BY <1>1, <1>3, <2>1, <3>2
      <4> QED BY <1>4, <4>1
    <3> QED BY <3>1, <3>2
  <2>4. IsSequence(rows) /\ Len(rows) <= Len(rows')
    BY <1>1, <1>4 DEF RepairInv, n
  <2> QED BY <1>4, <2>1, <2>2, <2>3, <2>4, StaysDocumented
<1> QED BY <1>4, <1>5, <1>6, <1>7 DEF RepairInv

\* Every step of writers, calls and damage keeps the invariant.
LEMMA RepairInductive ==
    ASSUME RepairInv, [RepairNext]_ledgerVars PROVE RepairInv'
<1>1. CASE UNCHANGED ledgerVars
  BY <1>1 DEF ledgerVars, chainVars, repairVars, RepairInv, WritersShape, LockHolderIsCurrent,
     RepairTypeOK, Documented
<1>2. CASE AppendStep /\ UNCHANGED repairVars
  BY <1>2, WriterStep, InsertStep DEF AppendStep
<1>3. ASSUME NEW i \in DOMAIN rows, Damage(i) PROVE RepairInv'
  BY <1>3, DamageStep
<1>4. ASSUME NEW o \in Operations,
             \/ QuarantineVerify(o) \/ QuarantineMark(o) \/ QuarantineSeq(o)
             \/ RepairScan(o) \/ RepairNothing(o) \/ RepairRewrite(o)
             \/ RepairMark(o) \/ RepairSeq(o)
             \/ OperationDies(o)
      PROVE  RepairInv'
  BY <1>4, CallStep, RewriteStep
<1> QED BY <1>1, <1>2, <1>3, <1>4 DEF RepairNext

\* The invariant holds in every state of a chain that is damaged and repaired.
LEMMA RepairInvariant == RepairSpec => []RepairInv
<1>1. RepairInit => RepairInv
  <2> SUFFICES ASSUME RepairInit PROVE RepairInv
    OBVIOUS
  <2>1. rows \in Seq({}) /\ rows = <<>>
    BY DEF RepairInit, ChainInit
  <2>2. IsSequence(rows) /\ Len(rows) = 0 /\ DOMAIN rows = {}
    BY <2>1 DEF IsSequence
  <2>3. WritersShape /\ LockHolderIsCurrent /\ Documented
    BY DEF RepairInit, ChainInit, WritersShape, LockHolderIsCurrent, Documented
  <2>4. RepairTypeOK
    BY <2>2, DamageAssumption DEF RepairInit, RepairTypeOK, IsCall
  <2> QED BY <2>2, <2>3, <2>4 DEF RepairInv
<1> QED BY <1>1, RepairInductive, PTL DEF RepairSpec

(***************************************************************************)
(* Recovery is never silent, whatever the writers, repairs, quarantines,   *)
(* damages and deaths, and in whichever order: a reported record that says *)
(* something else breaks verify_chain(), or a repair event behind it       *)
(* reaches back to it.                                                     *)
(***************************************************************************)
THEOREM RecoveryIsDocumented == RepairSpec => []NeverSilent
<1>1. RepairInv => NeverSilent
  <2> SUFFICES ASSUME RepairInv, NEW a \in acked, rows[a[1]].body # a[2], verify_chain(rows)
               PROVE  \E i \in a[1] + 1 .. Len(rows) :
                         \E k \in 1 .. a[1] : rows[i].body = Repaired(k)
    BY DEF NeverSilent
  <2>1. /\ a[1] \in DOMAIN rows
        /\ \/ rows[a[1]].hash = Garbage \/ rows[a[1]].hash.body = a[2]
           \/ \E i \in DOMAIN rows : i > a[1] /\ \E k \in 1 .. a[1] : rows[i].body = Repaired(k)
    BY DEF RepairInv, Documented
  <2>2. rows[a[1]].hash.body = rows[a[1]].body /\ rows[a[1]].hash # Garbage
    <3>1. Intact(rows, a[1])
      BY <2>1 DEF verify_chain
    <3>2. \A p, b : [prev |-> p, body |-> b] # [garbage |-> TRUE]
      <4>1. \A p, b : DOMAIN [prev |-> p, body |-> b] = {"prev", "body"}
        OBVIOUS
      <4>2. DOMAIN [garbage |-> TRUE] = {"garbage"}
        OBVIOUS
      <4> QED BY <4>1, <4>2
    <3> QED BY <3>1, <3>2 DEF Intact, _compute_hash, Garbage
  <2>3. PICK i \in DOMAIN rows : i > a[1] /\ \E k \in 1 .. a[1] : rows[i].body = Repaired(k)
    BY <2>1, <2>2
  <2>4. i \in a[1] + 1 .. Len(rows)
    BY <2>1, <2>3, Numbers
  <2> QED BY <2>3, <2>4
<1> QED BY <1>1, RepairInvariant, PTL

(***************************************************************************)
(* ContentKept for every chain: no append, quarantine or repair removes a  *)
(* record or changes what it says.                                         *)
(***************************************************************************)
THEOREM RepairKeepsContent == RepairSpec => ContentKept
<1> DEFINE Kept == damage' = damage =>
                     \A i \in DOMAIN rows : i \in DOMAIN rows' /\ rows'[i].body = rows[i].body
<1>1. RepairInv /\ [RepairNext]_ledgerVars => [Kept]_ledgerVars
  <2> SUFFICES ASSUME RepairInv, [RepairNext]_ledgerVars PROVE Kept
    OBVIOUS
  <2>1. Len(rows) \in Nat /\ DOMAIN rows = 1 .. Len(rows) /\ damage \in Nat
    BY Numbers
  <2>2. CASE rows' = rows
    BY <2>2
  <2>3. ASSUME NEW w \in Writers, Insert(w) PROVE Kept
    <3>1. \E r : rows' = Append(rows, r)
      BY <2>3 DEF Insert
    <3>2. \A i \in 1 .. Len(rows) : i \in 1 .. Len(rows) + 1
      BY <2>1
    <3> QED BY <2>1, <3>1, <3>2, AppendIs DEF RepairInv
  <2>4. ASSUME NEW i \in DOMAIN rows, Damage(i) PROVE Kept
    BY <2>1, <2>4 DEF Damage
  <2>5. ASSUME NEW o \in Operations, RepairRewrite(o) PROVE Kept
    <3>1. op[o].broken \in 1 .. Len(rows)
      BY <2>1, <2>5, Numbers, CallIs DEF RepairRewrite
    <3>2. rows' = Rewrite(rows, op[o].broken, op[o].expected)
      BY <2>5 DEF RepairRewrite
    <3>3. /\ DOMAIN rows' = 1 .. Len(rows) + 1
          /\ \A i \in 1 .. Len(rows) : rows'[i].body = rows[i].body
      BY <3>1, <3>2, RewriteIs DEF RepairInv
    <3> QED BY <2>1, <3>3
  <2> QED BY <2>2, <2>3, <2>4, <2>5, StepKinds
<1> QED BY <1>1, RepairInvariant, PTL DEF RepairSpec, ContentKept

-----------------------------------------------------------------------------
(* A repair heals.                                                          *)

\* The call has scanned, and no record changed since.
FreshScan(c, d) == c.phase = "scanned" /\ c.seen = d

(***************************************************************************)
(* What a call that scanned knows of the chain: while no record changes,   *)
(* the hash to start from is still the one before the break, all is well   *)
(* before it, and the break is there until somebody heals it.              *)
(***************************************************************************)
KnowsBreak(c, rs, d) ==
    /\ c.phase \in {"scanned", "rewritten"} => c.seen >= 1
    /\ c.phase = "rewritten" /\ c.seen = d => verify_chain(rs)
    /\ FreshScan(c, d) => /\ c.expected = ExpectedPrev(rs, c.broken)
                          /\ \A i \in 1 .. c.broken - 1 : Intact(rs, i)
                          /\ Intact(rs, c.broken) => verify_chain(rs)

HealInv ==
    /\ damage = 0 => verify_chain(rows)
    /\ \A o \in Operations : KnowsBreak(op[o], rows, damage)
    /\ \A o, p \in Operations :
          FreshScan(op[o], damage) /\ FreshScan(op[p], damage) => op[o].broken = op[p].broken

(***************************************************************************)
(* One maintenance call at a time, or one damage: otherwise a call may     *)
(* rewrite the chain from an old scan after another one has healed it.     *)
(***************************************************************************)
NoStaleRewrite == (\A a, b \in Operations : a = b) \/ MaxDamage <= 1

\* What is said of a record depends on it and the one before.
LEMMA SamePrefix ==
    ASSUME NEW rs, NEW new, NEW k \in Int, \A i \in 1 .. k : new[i] = rs[i]
    PROVE  /\ \A i \in 1 .. k + 1 : ExpectedPrev(new, i) = ExpectedPrev(rs, i)
           /\ \A i \in 1 .. k : Intact(new, i) <=> Intact(rs, i)
<1>1. ASSUME NEW i \in 1 .. k + 1 PROVE ExpectedPrev(new, i) = ExpectedPrev(rs, i)
  <2>1. i # 1 => i - 1 \in 1 .. k
    OBVIOUS
  <2> QED BY <2>1 DEF ExpectedPrev
<1>2. ASSUME NEW i \in 1 .. k PROVE Intact(new, i) <=> Intact(rs, i)
  <2>1. i \in 1 .. k + 1
    OBVIOUS
  <2> QED BY <1>1, <2>1 DEF Intact
<1> QED BY <1>1, <1>2

\* What a call knows stays true of a chain that is the same up to the break.
LEMMA StillKnows ==
    ASSUME NEW c, NEW n \in Nat, NEW d \in Nat, IsCall(c, n, d), NEW rs, NEW new,
           KnowsBreak(c, rs, d), verify_chain(rs) => verify_chain(new),
           FreshScan(c, d) => /\ \A i \in 1 .. c.broken - 1 : new[i] = rs[i]
                              /\ verify_chain(new) \/ new[c.broken] = rs[c.broken]
    PROVE  KnowsBreak(c, new, d)
<1>1. SUFFICES ASSUME FreshScan(c, d)
               PROVE  /\ c.expected = ExpectedPrev(new, c.broken)
                      /\ \A i \in 1 .. c.broken - 1 : Intact(new, i)
                      /\ Intact(new, c.broken) => verify_chain(new)
  BY DEF KnowsBreak
<1> DEFINE k == c.broken
<1>2. k \in 1 .. n
  BY <1>1, CallIs DEF FreshScan
<1>3. /\ c.expected = ExpectedPrev(rs, k) /\ \A i \in 1 .. k - 1 : Intact(rs, i)
      /\ Intact(rs, k) => verify_chain(rs)
      /\ \A i \in 1 .. k - 1 : new[i] = rs[i]
      /\ verify_chain(new) \/ new[k] = rs[k]
  BY <1>1 DEF KnowsBreak
<1> HIDE DEF k
<1>4. k - 1 \in Int /\ k \in 1 .. (k - 1) + 1
  BY <1>2
<1>5. /\ ExpectedPrev(new, k) = ExpectedPrev(rs, k)
      /\ \A i \in 1 .. k - 1 : Intact(new, i) <=> Intact(rs, i)
  BY <1>3, <1>4, SamePrefix
<1>6. new[k] = rs[k] => (Intact(new, k) <=> Intact(rs, k))
  BY <1>5 DEF Intact
<1> QED BY <1>3, <1>5, <1>6 DEF k

\* A step of one call that leaves the chain alone.
LEMMA HealCallOnly ==
    ASSUME RepairInv, HealInv, NEW o \in Operations, NEW c, op' = [op EXCEPT ![o] = c],
           UNCHANGED <<rows, damage>>, KnowsBreak(c, rows, damage),
           FreshScan(c, damage) =>
              \A p \in Operations : FreshScan(op[p], damage) => op[p].broken = c.broken
    PROVE  HealInv'
<1>1. /\ op'[o] = c /\ \A q \in Operations : q # o => op'[q] = op[q]
  BY DEF RepairInv, RepairTypeOK
<1> QED BY <1>1 DEF HealInv

\* quarantine() and the steps of repair() outside its transaction.
LEMMA HealCallStep ==
    ASSUME RepairInv, HealInv, NEW o \in Operations,
           \/ QuarantineVerify(o) \/ QuarantineMark(o) \/ QuarantineSeq(o)
           \/ RepairScan(o) \/ RepairNothing(o) \/ RepairMark(o) \/ RepairSeq(o)
           \/ OperationDies(o)
    PROVE  HealInv'
<1>1. /\ Len(rows) \in Nat /\ damage \in Nat /\ IsCall(op[o], Len(rows), damage)
      /\ \A p \in Operations : IsCall(op[p], Len(rows), damage)
  BY Numbers
<1>2. UNCHANGED <<rows, damage>>
  BY DEF QuarantineVerify, QuarantineMark, QuarantineSeq, RepairScan, RepairNothing, RepairMark,
     RepairSeq, OperationDies, chainVars
<1>3. ASSUME NEW c, op' = [op EXCEPT ![o] = c], c.phase \in {"free", "verdict", "marking", "clearing"}
      PROVE  HealInv'
  <2>1. KnowsBreak(c, rows, damage) /\ ~FreshScan(c, damage)
    BY <1>3 DEF KnowsBreak, FreshScan
  <2> QED BY <1>2, <1>3, <2>1, HealCallOnly
<1>4. CASE QuarantineVerify(o) \/ QuarantineSeq(o) \/ RepairSeq(o) \/ OperationDies(o)
  <2>1. PICK c : op' = [op EXCEPT ![o] = c] /\ c.phase \in {"free", "verdict"}
    <3>1. Free.phase = "free"
      BY DEF Free
    <3> QED BY <1>4, <3>1 DEF QuarantineVerify, QuarantineSeq, RepairSeq, OperationDies
  <2> QED BY <1>3, <2>1
<1>5. CASE QuarantineMark(o) \/ RepairMark(o)
  <2>1. CASE QuarantineMark(o)
    <3>1. [op[o] EXCEPT !.phase = "marking"].phase = "marking"
      BY <1>1, <2>1, CallGoesOn DEF QuarantineMark
    <3> QED BY <1>3, <2>1, <3>1 DEF QuarantineMark
  <2>2. CASE RepairMark(o)
    <3>1. [op[o] EXCEPT !.phase = "clearing"].phase = "clearing"
      BY <1>1, <2>2, CallGoesOn DEF RepairMark
    <3> QED BY <1>3, <2>2, <3>1 DEF RepairMark
  <2> QED BY <1>5, <2>1, <2>2
<1>6. CASE RepairNothing(o)
  BY <1>2, <1>6 DEF RepairNothing, HealInv
<1>7. CASE RepairScan(o)
  <2> DEFINE k == FirstBroken(rows)
             c == [phase |-> "scanned", broken |-> k, expected |-> ExpectedPrev(rows, k),
                   seen |-> damage]
  <2>1. /\ k \in 1 .. Len(rows) /\ ~Intact(rows, k) /\ \A i \in 1 .. k - 1 : Intact(rows, i)
    BY <1>1, <1>7, ScanFinds DEF RepairScan, RepairInv
  <2>2. op' = [op EXCEPT ![o] = c]
    BY <1>7 DEF RepairScan
  <2>3. /\ c.phase = "scanned" /\ c.broken = k /\ c.expected = ExpectedPrev(rows, k)
        /\ c.seen = damage
    OBVIOUS
  <2> HIDE DEF c, k
  <2>4. ~verify_chain(rows)
    BY <2>1, Numbers DEF verify_chain
  <2>5. damage >= 1
    BY <1>1, <2>4 DEF HealInv
  <2>6. KnowsBreak(c, rows, damage)
    BY <2>1, <2>3, <2>5 DEF KnowsBreak
  <2>7. ASSUME NEW p \in Operations, FreshScan(op[p], damage) PROVE op[p].broken = k
    <3>1. op[p].broken \in 1 .. Len(rows)
      BY <1>1, <2>7, CallIs DEF FreshScan
    <3>2. ~Intact(rows, op[p].broken) /\ \A i \in 1 .. op[p].broken - 1 : Intact(rows, i)
      BY <2>4, <2>7 DEF HealInv, KnowsBreak
    <3>3. ~(k < op[p].broken)
      <4>1. k < op[p].broken => k \in 1 .. op[p].broken - 1
        BY <2>1, <3>1
      <4> QED BY <2>1, <3>2, <4>1
    <3>4. ~(op[p].broken < k)
      <4>1. op[p].broken < k => op[p].broken \in 1 .. k - 1
        BY <2>1, <3>1
      <4> QED BY <2>1, <3>2, <4>1
    <3> QED BY <2>1, <3>1, <3>3, <3>4
  <2> QED BY <1>2, <2>2, <2>3, <2>6, <2>7, HealCallOnly
<1> QED BY <1>4, <1>5, <1>6, <1>7

\* A writer's record, appended to the tail it read, breaks nothing.
LEMMA HealInsertStep ==
    ASSUME RepairInv, HealInv, NEW w \in Writers, Insert(w), UNCHANGED repairVars
    PROVE  HealInv'
<1> DEFINE r == [body |-> body[w], prev |-> read[w], hash |-> _compute_hash(read[w], body[w])]
<1>1. rows' = Append(rows, r) /\ UNCHANGED <<op, damage>>
  BY DEF Insert, repairVars
<1>2. r.prev = _last_hash(rows) /\ r.hash = _compute_hash(r.prev, r.body)
  BY DEF RepairInv, LockHolderIsCurrent, Insert
<1> HIDE DEF r
<1>3. PICK S : rows \in Seq(S)
  BY DEF RepairInv, IsSequence
<1>4. rows \in Seq(S \cup {r}) /\ r \in S \cup {r}
  BY <1>3
<1>5. verify_chain(rows) => verify_chain(rows')
  BY <1>1, <1>2, <1>4, AppendKeepsIntact
<1>6. \A i \in 1 .. Len(rows) : rows'[i] = rows[i]
  BY <1>1, <1>4
<1>7. ASSUME NEW o \in Operations PROVE KnowsBreak(op[o], rows', damage)
  <2>1. Len(rows) \in Nat /\ damage \in Nat /\ IsCall(op[o], Len(rows), damage)
    BY Numbers
  <2>2. FreshScan(op[o], damage) => op[o].broken \in 1 .. Len(rows)
    BY <2>1, CallIs DEF FreshScan
  <2>3. FreshScan(op[o], damage) => /\ \A i \in 1 .. op[o].broken - 1 : rows'[i] = rows[i]
                                    /\ rows'[op[o].broken] = rows[op[o].broken]
    <3>1. SUFFICES ASSUME op[o].broken \in 1 .. Len(rows)
                   PROVE  /\ \A i \in 1 .. op[o].broken - 1 : rows'[i] = rows[i]
                          /\ rows'[op[o].broken] = rows[op[o].broken]
      BY <2>2
    <3>2. \A i \in 1 .. op[o].broken - 1 : i \in 1 .. Len(rows)
      BY <2>1, <3>1
    <3> QED BY <1>6, <3>1, <3>2
  <2> QED BY <1>5, <2>1, <2>3, StillKnows DEF HealInv
<1> QED BY <1>1, <1>5, <1>7 DEF HealInv

\* After a damage no scan is fresh.
LEMMA HealDamageStep ==
    ASSUME RepairInv, HealInv, NEW i \in DOMAIN rows, Damage(i)
    PROVE  HealInv'
<1>1. damage \in Nat /\ damage' = damage + 1 /\ op' = op
  BY Numbers DEF Damage
<1>2. ASSUME NEW o \in Operations
      PROVE  KnowsBreak(op[o], rows', damage') /\ ~FreshScan(op[o], damage')
  <2>1. Len(rows) \in Nat /\ damage \in Nat /\ IsCall(op[o], Len(rows), damage)
    BY Numbers
  <2>2. op[o].phase \in {"scanned", "rewritten"} => op[o].seen \in 0 .. damage
    BY <2>1, CallIs
  <2>3. op[o].phase \in {"scanned", "rewritten"} => op[o].seen # damage'
    BY <1>1, <2>2
  <2>4. op[o].phase \in {"scanned", "rewritten"} => op[o].seen >= 1
    BY DEF HealInv, KnowsBreak
  <2> QED BY <2>3, <2>4 DEF KnowsBreak, FreshScan
<1>3. damage' # 0
  BY <1>1
<1> QED BY <1>1, <1>2, <1>3 DEF HealInv

(***************************************************************************)
(* The rewrite of a fresh scan heals the chain, and the other fresh scans  *)
(* found the same break; a stale one is that of the only call there is.    *)
(***************************************************************************)
LEMMA HealRewriteStep ==
    ASSUME RepairInv, HealInv, NoStaleRewrite, NEW o \in Operations, RepairRewrite(o)
    PROVE  HealInv'
<1> DEFINE k == op[o].broken
           c == [op[o] EXCEPT !.phase = "rewritten"]
<1>1. /\ Len(rows) \in Nat /\ damage \in Nat
      /\ \A p \in Operations : IsCall(op[p], Len(rows), damage)
  BY Numbers
<1>2. /\ op[o].phase = "scanned" /\ rows' = Rewrite(rows, k, op[o].expected)
      /\ op' = [op EXCEPT ![o] = c] /\ damage' = damage
  BY DEF RepairRewrite
<1>3. k \in 1 .. Len(rows) /\ op[o].seen \in 0 .. damage
  BY <1>1, <1>2, CallIs
<1>4. c.phase = "rewritten" /\ c.seen = op[o].seen
  BY <1>1, <1>2, CallGoesOn
<1>5. op[o].seen >= 1
  BY <1>2 DEF HealInv, KnowsBreak
<1>6. damage # 0
  BY <1>1, <1>3, <1>5
<1> HIDE DEF c
<1>7. op'[o] = c /\ \A q \in Operations : q # o => op'[q] = op[q]
  BY <1>2 DEF RepairInv, RepairTypeOK
<1>8. CASE op[o].seen = damage
  <2>1. /\ FreshScan(op[o], damage)
        /\ op[o].expected = ExpectedPrev(rows, k) /\ \A i \in 1 .. k - 1 : Intact(rows, i)
    BY <1>2, <1>8 DEF HealInv, KnowsBreak, FreshScan
  <2>2. verify_chain(rows')
    BY <1>2, <1>3, <2>1, RewriteHeals DEF RepairInv
  <2>3. \A i \in 1 .. k - 1 : rows'[i] = rows[i]
    BY <1>2, <1>3, RewriteIs DEF RepairInv
  <2>4. KnowsBreak(c, rows', damage) /\ ~FreshScan(c, damage)
    BY <1>4, <1>5, <2>2 DEF KnowsBreak, FreshScan
  <2>5. ASSUME NEW q \in Operations PROVE KnowsBreak(op[q], rows', damage)
    <3>1. FreshScan(op[q], damage) => op[q].broken = k
      BY <2>1 DEF HealInv
    <3> QED BY <1>1, <2>2, <2>3, <3>1, StillKnows DEF HealInv
  <2> QED BY <1>2, <1>6, <1>7, <2>4, <2>5 DEF HealInv
<1>9. CASE op[o].seen # damage
  <2>1. ~(MaxDamage <= 1)
    <3>1. damage <= MaxDamage
      BY DamageAssumption DEF RepairInv, RepairTypeOK
    <3> QED BY <1>1, <1>3, <1>5, <1>9, <3>1, DamageAssumption
  <2>2. \A q \in Operations : q = o
    BY <2>1 DEF NoStaleRewrite
  <2>3. KnowsBreak(c, rows', damage) /\ ~FreshScan(c, damage)
    BY <1>4, <1>5, <1>9 DEF KnowsBreak, FreshScan
  <2> QED BY <1>2, <1>6, <1>7, <2>2, <2>3 DEF HealInv
<1> QED BY <1>8, <1>9

(***************************************************************************)
(* A rewrite heals the chain, with the records writers added since the     *)
(* scan, for any chain and any number of writers, provided that            *)
(* maintenance calls do not overlap or that a record changed only once.    *)
(***************************************************************************)
THEOREM RepairHealsChain ==
    ASSUME NoStaleRewrite PROVE RepairSpec => []RepairHeals
<1>1. RepairInit => HealInv
  <2> SUFFICES ASSUME RepairInit PROVE HealInv
    OBVIOUS
  <2>1. verify_chain(rows)
    BY DEF RepairInit, ChainInit, verify_chain
  <2>2. \A o \in Operations : op[o].phase = "free"
    BY DEF RepairInit, Free
  <2> QED BY <2>1, <2>2 DEF HealInv, KnowsBreak, FreshScan
<1>2. RepairInv /\ HealInv /\ [RepairNext]_ledgerVars => HealInv'
  <2> SUFFICES ASSUME RepairInv, HealInv, [RepairNext]_ledgerVars PROVE HealInv'
    OBVIOUS
  <2>1. CASE UNCHANGED <<rows, op, damage>>
    BY <2>1 DEF HealInv
  <2>2. ASSUME NEW w \in Writers, Insert(w), UNCHANGED repairVars PROVE HealInv'
    BY <2>2, HealInsertStep
  <2>3. ASSUME NEW i \in DOMAIN rows, Damage(i) PROVE HealInv'
    BY <2>3, HealDamageStep
  <2>4. ASSUME NEW o \in Operations,
               \/ QuarantineVerify(o) \/ QuarantineMark(o) \/ QuarantineSeq(o)
               \/ RepairScan(o) \/ RepairNothing(o) \/ RepairRewrite(o)
               \/ RepairMark(o) \/ RepairSeq(o)
               \/ OperationDies(o)
        PROVE  HealInv'
    BY <2>4, HealCallStep, HealRewriteStep
  <2> QED
    BY <2>1, <2>2, <2>3, <2>4 DEF RepairNext, AppendStep, Admit, Lock, Fail, ledgerVars, chainVars,
       repairVars
<1>3. HealInv => RepairHeals
  BY DEF HealInv, KnowsBreak, RepairHeals
<1> QED BY <1>1, <1>2, <1>3, RepairInvariant, PTL DEF RepairSpec
=============================================================================
