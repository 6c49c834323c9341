----------------------------- MODULE AuditChain -----------------------------
(***************************************************************************)
(* The hash-chained audit ledger (msb_ledger/audit_chain.py): concurrent   *)
(* append() calls of several processes over one SQLite file, together with *)
(* the migration switch that begin_migration() and its siblings flip.      *)
(*                                                                         *)
(* append() runs its admission checks first (_refuse_keyless_append,       *)
(* _refuse_migration_append, assert_write_allowed), each on a connection   *)
(* of its own, and only then takes the write lock, reads the tail hash and *)
(* inserts.  Each of these is a step; a writer may die between any two.    *)
(***************************************************************************)
EXTENDS Integers, Sequences

CONSTANTS
    Writers,   \* processes and threads that append
    Bodies,    \* component, event type, payload and timestamp of a record
    Genesis,   \* the hash before the first record
    NoOne,     \* no writer
    MaxRows    \* bound: records in the chain

ASSUME NoOneAssumption == NoOne \notin Writers
ASSUME MaxRowsAssumption == MaxRows \in Nat
ASSUME BodiesAssumption == Bodies # {}

VARIABLES
    rows,      \* audit_records: [body, prev, hash] by seq
    lock,      \* the writer inside BEGIN IMMEDIATE, or NoOne
    pc,        \* writer -> where its append() stands
    body,      \* writer -> the record it appends
    read,      \* writer -> the tail hash it read under the lock
    acked,     \* <<seq, body>> of each record an append() reported inserted
    mig        \* chain_meta.migration_state

chainVars == <<rows, lock, pc, body, read, acked, mig>>

MigStates == {"V1_ACTIVE", "MIGRATING", "V2_ACTIVE", "MIGRATION_BLOCKED"}

\* _compute_hash: collision-free, so the preimage itself.
_compute_hash(prev, b) == [prev |-> prev, body |-> b]

\* _last_hash: the hash of the newest record of `rs`.
_last_hash(rs) == IF rs = <<>> THEN Genesis ELSE rs[Len(rs)].hash

\* What the record at seq i must carry as prev_hash.
ExpectedPrev(rs, i) == IF i = 1 THEN Genesis ELSE rs[i - 1].hash

Intact(rs, i) ==
    /\ rs[i].prev = ExpectedPrev(rs, i)
    /\ rs[i].hash = _compute_hash(rs[i].prev, rs[i].body)

\* verify_chain()'s verdict.
verify_chain(rs) == \A i \in DOMAIN rs : Intact(rs, i)

ChainInit ==
    /\ rows = <<>>
    /\ lock = NoOne
    /\ pc = [w \in Writers |-> "idle"]
    /\ body = [w \in Writers |-> CHOOSE b \in Bodies : TRUE]
    /\ read = [w \in Writers |-> Genesis]
    /\ acked = {}
    /\ mig = "V1_ACTIVE"

-----------------------------------------------------------------------------
(* append(), step by step.                                                  *)

\* Slip: the migration state is never looked at.
AdmitUnchecked(w, b) ==
    /\ pc[w] = "idle"
    /\ Len(rows) < MaxRows
    /\ pc' = [pc EXCEPT ![w] = "admitted"]
    /\ body' = [body EXCEPT ![w] = b]
    /\ UNCHANGED <<rows, lock, read, acked, mig>>

\* The admission checks pass; any of them may instead refuse, which changes
\* nothing.  The migration state is read on its own connection, no lock held.
Admit(w, b) ==
    /\ pc[w] = "idle"
    /\ mig = "V1_ACTIVE"
    /\ Len(rows) < MaxRows
    /\ pc' = [pc EXCEPT ![w] = "admitted"]
    /\ body' = [body EXCEPT ![w] = b]
    /\ UNCHANGED <<rows, lock, read, acked, mig>>

\* Slip: a deferred BEGIN, so the tail is read without the write lock.
LockDeferred(w) ==
    /\ pc[w] = "admitted"
    /\ read' = [read EXCEPT ![w] = _last_hash(rows)]
    /\ pc' = [pc EXCEPT ![w] = "locked"]
    /\ UNCHANGED <<rows, lock, body, acked, mig>>

\* BEGIN IMMEDIATE takes the write lock, then the tail hash is read.
Lock(w) ==
    /\ pc[w] = "admitted"
    /\ lock = NoOne
    /\ lock' = w
    /\ read' = [read EXCEPT ![w] = _last_hash(rows)]
    /\ pc' = [pc EXCEPT ![w] = "locked"]
    /\ UNCHANGED <<rows, body, acked, mig>>

\* Insert and commit, which releases the lock; lastrowid is the record's seq.
Insert(w) ==
    /\ pc[w] = "locked"
    /\ rows' = Append(rows, [body |-> body[w], prev |-> read[w],
                             hash |-> _compute_hash(read[w], body[w])])
    /\ lock' = NoOne
    /\ pc' = [pc EXCEPT ![w] = "idle"]
    /\ read' = [read EXCEPT ![w] = Genesis]
    /\ acked' = acked \cup {<<Len(rows) + 1, body[w]>>}
    /\ UNCHANGED <<body, mig>>

\* The insert fails (disk full, busy timeout) or the process dies: SQLite
\* rolls the transaction back and the lock is free again.
Fail(w) ==
    /\ pc[w] \in {"admitted", "locked"}
    /\ lock' = IF lock = w THEN NoOne ELSE lock
    /\ pc' = [pc EXCEPT ![w] = "idle"]
    /\ read' = [read EXCEPT ![w] = Genesis]
    /\ UNCHANGED <<rows, body, acked, mig>>

AppendStep ==
    \E w \in Writers :
        \/ \E b \in Bodies : Admit(w, b)
        \/ Lock(w)
        \/ Insert(w)
        \/ Fail(w)

-----------------------------------------------------------------------------
(* The migration switch.  Nobody looks at the state it replaces.            *)
(* begin_migration() is one transaction; its siblings first upsert the      *)
(* state, which is what the definitions below stand for, and then, each in  *)
(* a transaction of its own, times and reasons that nothing reads.          *)
SetMigration(to) ==
    /\ lock = NoOne
    /\ mig' = to
    /\ UNCHANGED <<rows, lock, pc, body, read, acked>>

begin_migration == SetMigration("MIGRATING")
complete_migration == SetMigration("V2_ACTIVE")
abort_migration == SetMigration("V1_ACTIVE")
block_migration == SetMigration("MIGRATION_BLOCKED")

\* One of the upserts that follow: the chain's state is what it was.
SetDetail == lock = NoOne /\ UNCHANGED chainVars

ChainNext ==
    \/ AppendStep
    \/ begin_migration
    \/ complete_migration
    \/ abort_migration
    \/ block_migration

ChainSpec == ChainInit /\ [][ChainNext]_chainVars

-----------------------------------------------------------------------------
ChainTypeOK ==
    /\ DOMAIN rows = 1 .. Len(rows) /\ Len(rows) \in Nat
    /\ \A i \in DOMAIN rows : rows[i].body \in Bodies
    /\ lock \in Writers \cup {NoOne}
    /\ pc \in [Writers -> {"idle", "admitted", "locked"}]
    /\ body \in [Writers -> Bodies]
    /\ DOMAIN read = Writers
    /\ mig \in MigStates

(***************************************************************************)
(* "Two threads cannot both read the same tail and fork the chain"         *)
(* (audit_chain.py 415-417): however appends of all processes interleave,  *)
(* verify_chain() accepts the chain in every state.                        *)
(***************************************************************************)
ChainIntact == verify_chain(rows)

(* The tail a lock holder read is still the tail, and only it is inside.    *)
LockHolderIsCurrent ==
    \A w \in Writers : pc[w] = "locked" => lock = w /\ read[w] = _last_hash(rows)
=============================================================================
