---------------------------- MODULE AuditRepair ----------------------------
(***************************************************************************)
(* Damage to the audit chain and its handling (msb_ledger/audit_chain.py): *)
(* a column of a record is changed in the file, quarantine() marks the     *)
(* chain as compromised, repair() recomputes the hashes from the first     *)
(* break and documents that in the chain, while writers keep appending.    *)
(*                                                                         *)
(* Rows are not removed, a repair's own event keeps its words, and nobody  *)
(* puts a matching hash beside a changed record: that verify_chain() could *)
(* not see, and it is what the anchor and the notary are for.              *)
(*                                                                         *)
(* Both operations verify on one connection and write on another, so they  *)
(* act on a verdict that may be old.  The rewrite and its event share one  *)
(* transaction; the chain_meta marks do not.  repair() is modelled as its  *)
(* one caller runs it, with an operator token and without the optional     *)
(* anchor and notary log (scripts/hygiene/h07_auto_healing_runner.py).     *)
(***************************************************************************)
EXTENDS AuditChain, FiniteSets

CONSTANTS
    Operations,   \* concurrent quarantine() or repair() calls
    MaxDamage     \* bound: how often a record is changed

ASSUME DamageAssumption == MaxDamage \in Nat

\* No writer but repair() itself appends an event of repair()'s type.
ASSUME EventAssumption == \A b \in Bodies : b \notin [repaired : Nat]

VARIABLES
    op,       \* operation -> [phase, broken, expected, seen]
    state,    \* chain_meta.state
    mark,     \* chain_meta.broken_at_seq, 0 for ""
    damage    \* number of changes so far (auxiliary)

repairVars == <<op, state, mark, damage>>
ledgerVars == <<chainVars, repairVars>>

Free == [phase |-> "free"]

\* What a damaged hash column holds: the hash of no record.
Garbage == [garbage |-> TRUE]

\* The event repair() appends: which seq it started from.
Repaired(k) == [repaired |-> k]

Broken(rs) == {i \in DOMAIN rs : ~Intact(rs, i)}

\* The scan: seq of the first break, 0 if there is none.
FirstBroken(rs) ==
    IF Broken(rs) = {} THEN 0 ELSE CHOOSE i \in Broken(rs) : \A j \in Broken(rs) : i <= j

RepairInit == ChainInit /\ op = [o \in Operations |-> Free] /\ state = "active" /\ mark = 0 /\ damage = 0

\* What a record may be found changed into: an ordinary one says something else,
\* and either hash column of any record, an event's too, holds what is no hash.
Damaged(r) ==
    ({[r EXCEPT !.body = b] : b \in {c \in Bodies : r.body \in Bodies}}
        \cup {[r EXCEPT !.prev = Garbage], [r EXCEPT !.hash = Garbage]}) \ {r}

\* A column of a record changes in the file.
Damage(i) ==
    /\ damage < MaxDamage
    /\ lock = NoOne
    /\ \E r \in Damaged(rows[i]) : rows' = [rows EXCEPT ![i] = r]
    /\ damage' = damage + 1
    /\ UNCHANGED <<lock, pc, body, read, acked, mig, op, state, mark>>

-----------------------------------------------------------------------------
(* quarantine()                                                             *)

QuarantineVerify(o) ==
    /\ op[o].phase = "free"
    /\ op' = [op EXCEPT ![o] = [phase |-> "verdict", broken |-> FirstBroken(rows)]]
    /\ UNCHANGED <<chainVars, state, mark, damage>>

QuarantineMark(o) ==
    /\ op[o].phase = "verdict"
    /\ state' = IF op[o].broken = 0 THEN "active" ELSE "quarantined"
    /\ op' = [op EXCEPT ![o].phase = "marking"]
    /\ UNCHANGED <<chainVars, mark, damage>>

QuarantineSeq(o) ==
    /\ op[o].phase = "marking"
    /\ mark' = op[o].broken
    /\ op' = [op EXCEPT ![o] = Free]
    /\ UNCHANGED <<chainVars, state, damage>>

-----------------------------------------------------------------------------
(* repair(), for an authorised operator                                     *)

RepairScan(o) ==
    LET k == FirstBroken(rows)
    IN  /\ op[o].phase = "free"
        /\ k # 0
        /\ op' = [op EXCEPT ![o] = [phase |-> "scanned", broken |-> k,
                                    expected |-> ExpectedPrev(rows, k), seen |-> damage]]
        /\ UNCHANGED <<chainVars, state, mark, damage>>

\* A valid chain is only marked active; broken_at_seq keeps its value.
RepairNothing(o) ==
    /\ op[o].phase = "free"
    /\ FirstBroken(rows) = 0
    /\ state' = "active"
    /\ UNCHANGED <<chainVars, op, mark, damage>>

\* The tail from seq k, re-hashed onto `expected`.
Rehashed(rs, k, expected) ==
    LET h[i \in (k - 1) .. Len(rs)] ==
            IF i = k - 1 THEN expected ELSE _compute_hash(h[i - 1], rs[i].body)
    IN  [i \in DOMAIN rs |-> IF i < k THEN rs[i]
                             ELSE [body |-> rs[i].body, prev |-> h[i - 1], hash |-> h[i]]]

WithEvent(rs, k) ==
    Append(rs, [body |-> Repaired(k), prev |-> _last_hash(rs),
                hash |-> _compute_hash(_last_hash(rs), Repaired(k))])

\* Slip: only the broken record is re-hashed, not the tail behind it.
RewriteOne(rs, k, expected) ==
    WithEvent([rs EXCEPT ![k] = [body |-> rs[k].body, prev |-> expected,
                                 hash |-> _compute_hash(expected, rs[k].body)]], k)

\* Slip: the tail is cut off at the break instead of being re-hashed.
RewriteCut(rs, k, expected) == WithEvent(SubSeq(rs, 1, k - 1), k)

\* Slip: the event is left to a later append().
RewriteSilent(rs, k, expected) == Rehashed(rs, k, expected)

Rewrite(rs, k, expected) == WithEvent(Rehashed(rs, k, expected), k)

\* One write transaction: tail re-read, re-hashed, event appended.
RepairRewrite(o) ==
    /\ op[o].phase = "scanned"
    /\ lock = NoOne
    /\ rows' = Rewrite(rows, op[o].broken, op[o].expected)
    /\ op' = [op EXCEPT ![o].phase = "rewritten"]
    /\ UNCHANGED <<lock, pc, body, read, acked, mig, state, mark, damage>>

RepairMark(o) ==
    /\ op[o].phase = "rewritten"
    /\ state' = "active"
    /\ op' = [op EXCEPT ![o].phase = "clearing"]
    /\ UNCHANGED <<chainVars, mark, damage>>

RepairSeq(o) ==
    /\ op[o].phase = "clearing"
    /\ mark' = 0
    /\ op' = [op EXCEPT ![o] = Free]
    /\ UNCHANGED <<chainVars, state, damage>>

\* The calling process dies between two of its steps.
OperationDies(o) ==
    /\ op[o] # Free
    /\ op' = [op EXCEPT ![o] = Free]
    /\ UNCHANGED <<chainVars, state, mark, damage>>

RepairNext ==
    \/ AppendStep /\ UNCHANGED repairVars
    \/ \E i \in DOMAIN rows : Damage(i)
    \/ \E o \in Operations :
          \/ QuarantineVerify(o) \/ QuarantineMark(o) \/ QuarantineSeq(o)
          \/ RepairScan(o) \/ RepairNothing(o) \/ RepairRewrite(o)
          \/ RepairMark(o) \/ RepairSeq(o)
          \/ OperationDies(o)

RepairSpec == RepairInit /\ [][RepairNext]_ledgerVars

-----------------------------------------------------------------------------
\* A call that is free, that quarantines, or that repairs one of n records.
IsCall(c, n, d) ==
    \/ c = Free
    \/ \E p \in {"verdict", "marking"}, k \in 0 .. n : c = [phase |-> p, broken |-> k]
    \/ \E p \in {"scanned", "rewritten", "clearing"}, k \in 1 .. n, seen \in 0 .. d :
          c = [phase |-> p, broken |-> k, expected |-> c.expected, seen |-> seen]

RepairTypeOK ==
    /\ state \in {"active", "quarantined"}
    /\ mark \in 0 .. Len(rows)
    /\ damage \in 0 .. MaxDamage
    /\ op = [o \in Operations |-> op[o]]
    /\ \A o \in Operations : IsCall(op[o], Len(rows), damage)

(***************************************************************************)
(* "Recovery never happens silently" (repair() docstring): if the content  *)
(* of a record that append() reported has changed, then either             *)
(* verify_chain() still says so or a later record documents a repair that  *)
(* reached back to it, even when appends, other repairs and deaths of the  *)
(* caller interleave.                                                      *)
(***************************************************************************)
NeverSilent ==
    \A a \in acked :
        rows[a[1]].body # a[2] =>
            \/ ~verify_chain(rows)
            \/ \E i \in a[1] + 1 .. Len(rows) :
                  \E k \in 1 .. a[1] : rows[i].body = Repaired(k)

(***************************************************************************)
(* A rewrite heals the chain: unless a record changed again after the      *)
(* scan, the chain verifies once the transaction is done, including the    *)
(* records other writers added between the scan and the rewrite.           *)
(***************************************************************************)
RepairHeals ==
    \A o \in Operations :
        op[o].phase = "rewritten" /\ op[o].seen = damage => verify_chain(rows)

(***************************************************************************)
(* Repair recomputes hashes only: no step but the damage itself removes a  *)
(* record or changes what it says.                                         *)
(***************************************************************************)
ContentKept ==
    [][damage' = damage =>
         \A i \in DOMAIN rows : i \in DOMAIN rows' /\ rows'[i].body = rows[i].body]_ledgerVars
=============================================================================
