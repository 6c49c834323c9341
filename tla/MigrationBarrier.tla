-------------------------- MODULE MigrationBarrier --------------------------
(***************************************************************************)
(* The v1-to-v2 migration (msb_ledger/migration.py MigrationBarrier.run()) *)
(* running beside the writers of AuditChain: read the v1 head, switch the  *)
(* chain to MIGRATING, export, have the head verified externally, write    *)
(* the first v2 record linked to that head, switch to V2_ACTIVE.  Every    *)
(* step may fail, which aborts or blocks the migration, and the process    *)
(* may die between any two; then run() is called again.                    *)
(*                                                                         *)
(* A file lock serialises run(), so one is under way at a time.  The v2    *)
(* segment is the sequence of its records, each its prev_hash; the only    *)
(* one run() writes is the first.                                          *)
(***************************************************************************)
EXTENDS AuditChain, FiniteSets

ASSUME WritersAssumption == IsFiniteSet(Writers)

VARIABLES
    run,       \* where run() stands: [pc, head, began, v2_started]
    v2,        \* the v2 segment file
    manifest   \* migration-manifest.json: [state, head]

vars == <<chainVars, run, v2, manifest>>

NoHead == [none |-> TRUE]

Idle == [pc |-> "idle", head |-> NoHead, began |-> FALSE, v2_started |-> FALSE]

Init ==
    /\ ChainInit
    /\ run = Idle
    /\ v2 = <<>>
    /\ manifest = [state |-> "none", head |-> NoHead]

-----------------------------------------------------------------------------
(* run(), step by step.                                                     *)

At(from, to) == run.pc = from /\ run' = [run EXCEPT !.pc = to]

\* The checks and the read of the v1 head.  A chain that is empty or broken, or
\* a v2 segment that is not empty, does not get past here: run() returns
\* already_active, which changes nothing, or gives up.
ReadHead ==
    /\ run.pc = "idle"
    /\ v2 = <<>>
    /\ rows # <<>>
    /\ verify_chain(rows)
    /\ run' = [Idle EXCEPT !.pc = "begin", !.head = _last_hash(rows)]
    /\ UNCHANGED <<chainVars, v2, manifest>>

Begin ==
    /\ run.pc = "begin"
    /\ begin_migration
    /\ run' = [run EXCEPT !.pc = "manifest", !.began = TRUE]
    /\ UNCHANGED <<v2, manifest>>

WriteManifest ==
    /\ At("manifest", "export")
    /\ manifest' = [state |-> "MIGRATING", head |-> run.head]
    /\ UNCHANGED <<chainVars, v2>>

\* export_v1 verifies the rows once more; the exported head must be the head.
Export ==
    /\ At("export", "verify")
    /\ verify_chain(rows)
    /\ _last_hash(rows) = run.head
    /\ UNCHANGED <<chainVars, v2, manifest>>

\* The external verifier vouches for the chain.  It may name the head it saw,
\* which must then be the one that was read; it need not name any.
VerifyHead ==
    /\ At("verify", "v2")
    /\ \E reported \in {NoHead, _last_hash(rows)} : reported # NoHead => reported = run.head
    /\ UNCHANGED <<chainVars, v2, manifest>>

StartV2 ==
    /\ run.pc = "v2"
    /\ run' = [run EXCEPT !.pc = "append", !.v2_started = TRUE]
    /\ UNCHANGED <<chainVars, v2, manifest>>

\* V2Segment.append under its own file lock.
AppendV2 ==
    /\ At("append", "complete")
    /\ v2' = Append(v2, run.head)
    /\ UNCHANGED <<chainVars, manifest>>

\* complete_migration(): the state first ...
Complete ==
    /\ At("complete", "stamp")
    /\ complete_migration
    /\ UNCHANGED <<v2, manifest>>

\* ... then the time, and only when that is in, too, does run() take the
\* migration for ended: if it fails, v2 is active and gets blocked.
Stamp ==
    /\ run.pc = "stamp"
    /\ SetDetail
    /\ run' = [run EXCEPT !.pc = "record", !.began = FALSE]
    /\ UNCHANGED <<v2, manifest>>

RecordActive ==
    /\ run.pc = "record"
    /\ run' = Idle
    /\ manifest' = [state |-> "V2_ACTIVE", head |-> run.head]
    /\ UNCHANGED <<chainVars, v2>>

\* Slip: a failure always hands the chain back to v1.
GiveUpAbort ==
    /\ run.pc # "blocked"
    /\ IF run.began THEN abort_migration ELSE UNCHANGED chainVars
    /\ run' = [Idle EXCEPT !.pc = "blocked"]
    /\ UNCHANGED <<v2, manifest>>

\* A check or a step raised: the handler ends the migration it began.  Where an
\* upsert of the handler itself fails, run() ends there, as if it had died ...
GiveUp ==
    /\ run.pc # "blocked"
    /\ \/ run.began /\ run.v2_started /\ block_migration
       \/ run.began /\ ~run.v2_started /\ abort_migration
       \/ ~run.began /\ UNCHANGED chainVars
    /\ run' = [Idle EXCEPT !.pc = "blocked"]
    /\ UNCHANGED <<v2, manifest>>

\* ... and records that it was blocked.
RecordBlocked ==
    /\ run.pc = "blocked"
    /\ run' = Idle
    /\ manifest' = [state |-> "MIGRATION_BLOCKED", head |-> NoHead]
    /\ UNCHANGED <<chainVars, v2>>

\* The process running run() dies; the file lock goes with it.
Die ==
    /\ run.pc # "idle"
    /\ run' = Idle
    /\ UNCHANGED <<chainVars, v2, manifest>>

Next ==
    \/ AppendStep /\ UNCHANGED <<run, v2, manifest>>
    \/ ReadHead \/ Begin \/ WriteManifest \/ Export \/ VerifyHead
    \/ StartV2 \/ AppendV2 \/ Complete \/ Stamp \/ RecordActive
    \/ GiveUp \/ RecordBlocked \/ Die

Spec == Init /\ [][Next]_vars

-----------------------------------------------------------------------------
TypeOK ==
    /\ ChainTypeOK
    /\ run.pc \in {"idle", "begin", "manifest", "export", "verify", "v2", "append",
                   "complete", "stamp", "record", "blocked"}
    /\ run.began => mig = IF run.pc = "stamp" THEN "V2_ACTIVE" ELSE "MIGRATING"
    /\ Len(v2) <= 1
    /\ manifest.state \in MigStates \cup {"none"}

(***************************************************************************)
(* The two ledgers are never open together: once the v2 segment has its    *)
(* first record, no failure, death or repeated run() hands the chain back  *)
(* to v1 (the abort and block branches of run(), block_migration()).       *)
(***************************************************************************)
NeverBothOpen == v2 # <<>> => mig # "V1_ACTIVE"

\* The writers that are not inside append().
Outside == {w \in Writers : pc[w] = "idle"}

(***************************************************************************)
(* The barrier stops v1 but for the appends that were under way: the first *)
(* prev_hash of v2 is the hash of a v1 record up to which the chain        *)
(* verifies, and behind that record stand no more records than there are   *)
(* writers outside append(), since each can have finished only the one     *)
(* that had passed its checks before the switch (_refuse_migration_append, *)
(* begin_migration(), the head check of run()).                            *)
(***************************************************************************)
V2LinksIntoV1 ==
    v2 # <<>> =>
        \E i \in DOMAIN rows :
            /\ rows[i].hash = v2[1]
            /\ \A j \in 1 .. i : Intact(rows, j)
            /\ Len(rows) - i <= Cardinality(Outside)

(***************************************************************************)
(* The barrier "stops new v1 writes" and v2 "starts one linked segment"    *)
(* (module docstring): once v2 is active, the v1 record it links to is the *)
(* last one.                                                               *)
(***************************************************************************)
V2LinksToHead == mig = "V2_ACTIVE" => v2[1] = _last_hash(rows)
=============================================================================
