----------------------------- MODULE AnchorKeys -----------------------------
(***************************************************************************)
(* Who may sign the chain anchor (msb_ledger/chain_anchor.py KeyRegistry   *)
(* and the ceremonies of ChainAnchor): rotate(), register_recovery(),      *)
(* recover() and revoke() load the registry file, change it in memory and  *)
(* save it, without a lock, after they saved one with their own key if     *)
(* they found none; rotate() and recover() then re-anchor.                 *)
(* Meanwhile running processes keep the key they were started with and     *)
(* re-anchor with it on every append.                                      *)
(*                                                                         *)
(* An anchor is the key that signed it; what it covers is in ChainAnchor.  *)
(* All keys use one algorithm.                                             *)
(***************************************************************************)
EXTENDS Integers, FiniteSets

CONSTANTS
    Keys,         \* public keys; holding one means holding its private half
    NoKey,        \* b"" or None
    Procs,        \* processes holding an AnchoredAuditChain
    Operations,   \* ceremonies that may run at the same time
    MaxRotations  \* bound: distinct rotations recorded

ASSUME NoKeyAssumption == NoKey \notin Keys
ASSUME RotationsAssumption == MaxRotations \in Nat

VARIABLES
    reg,      \* chain_key_registry.json
    anchor,   \* the key that signed the anchor file, or NoKey
    proc,     \* process -> [pc, key]
    op,       \* ceremony -> [phase, read, reg, sign, may]
    roots,    \* the keys a registry was bootstrapped with (auxiliary)
    ever,     \* every key that was the registry's current key (auxiliary)
    overwrote \* a save replaced what its ceremony had not read (auxiliary)

aux == <<roots, ever, overwrote>>
vars == <<reg, anchor, proc, op, aux>>

Registry == [current : Keys \cup {NoKey}, recovery : Keys \cup {NoKey},
             rotations : SUBSET (Keys \X Keys), revoked : SUBSET Keys]

is_current(r, k) == r.current # NoKey /\ k = r.current
is_recovery(r, k) == r.recovery # NoKey /\ k = r.recovery
is_revoked(r, k) == k \in r.revoked

\* Slip: only the successors of recorded rotations count.
IsRegisteredSuccessor(r, k) ==
    is_current(r, k) \/ is_recovery(r, k) \/ \E x \in r.rotations : x[2] = k

is_registered(r, k) ==
    is_current(r, k) \/ is_recovery(r, k) \/ \E x \in r.rotations : k \in {x[1], x[2]}

\* Without a registry file a process takes its own key for the current one.
Believed(k) == IF reg.current = NoKey THEN [reg EXCEPT !.current = k] ELSE reg

HasRoom == Cardinality(reg.rotations) < MaxRotations

NoOp == [phase |-> "free"]

Init ==
    /\ reg = [current |-> NoKey, recovery |-> NoKey, rotations |-> {}, revoked |-> {}]
    /\ anchor = NoKey
    /\ proc = [p \in Procs |-> [pc |-> "down", key |-> NoKey]]
    /\ op = [o \in Operations |-> NoOp]
    /\ roots = {} /\ ever = {} /\ overwrote = FALSE

-----------------------------------------------------------------------------
(* AnchoredAuditChain                                                       *)

\* The constructor looks at the key of the existing anchor, not at its own.
Start(p, k) ==
    /\ proc[p].pc = "down"
    /\ anchor # NoKey => anchor = k \/ is_recovery(reg, anchor) \/ is_current(reg, anchor)
    /\ proc' = [proc EXCEPT ![p] = [pc |-> IF anchor = NoKey THEN "first" ELSE "up", key |-> k]]
    /\ UNCHANGED <<reg, anchor, op, aux>>

\* The constructor's first anchor, or the one after an append().
Reanchor(p) ==
    /\ proc[p].pc # "down"
    /\ anchor' = proc[p].key
    /\ proc' = [proc EXCEPT ![p].pc = "up"]
    /\ UNCHANGED <<reg, op, aux>>

Stop(p) ==
    /\ proc[p].pc # "down"
    /\ proc' = [proc EXCEPT ![p] = [pc |-> "down", key |-> NoKey]]
    /\ UNCHANGED <<reg, anchor, op, aux>>

-----------------------------------------------------------------------------
(* The ceremonies.  Each reads the registry; if it had no current key,      *)
(* _registry(bootstrap) gives it `self` and saves it.  Only then does the   *)
(* ceremony check whether it may, change what it read and save that.        *)

\* The read.  `read` is the registry as the ceremony then has it in memory, and
\* `changed` what it makes of it, unless its checks raise, once it is set up.
Load(o, self, changed, may, sign) ==
    /\ op[o].phase = "free"
    /\ op' = IF reg.current = NoKey \/ may
             THEN [op EXCEPT ![o] = [phase |-> IF reg.current = NoKey THEN "first" ELSE "loaded",
                                     read |-> Believed(self), reg |-> changed,
                                     sign |-> sign, may |-> may]]
             ELSE op
    /\ UNCHANGED <<reg, anchor, proc, aux>>

\* save(): os.replace() of the whole file, without a look at what is there.
\* `stale` tells whether that is something else than the ceremony had read.
save(r, stale) ==
    /\ reg' = r
    /\ ever' = ever \cup {r.current}
    /\ overwrote' = (overwrote \/ stale)

\* The first save of a ceremony that found no registry.
Bootstrap(o) ==
    /\ op[o].phase = "first"
    /\ save(op[o].read, reg.current # NoKey)
    /\ roots' = roots \cup {op[o].read.current}
    /\ op' = [op EXCEPT ![o] = IF op[o].may THEN [op[o] EXCEPT !.phase = "loaded"] ELSE NoOp]
    /\ UNCHANGED <<anchor, proc>>

\* KeyRegistry.rotate(): the new key is current, and who endorsed it is on record.
Endorse(r, old, new) ==
    [r EXCEPT !.current = new, !.rotations = r.rotations \cup {<<old, new>>}]

\* Slip: the signer is not compared with the current key.
RotateByAnyone(o, self, new) ==
    LET r == Believed(self)
    IN  HasRoom /\ Load(o, self, Endorse(r, self, new), TRUE, new)

rotate(o, self, new) ==
    LET r == Believed(self)
    IN  HasRoom /\ Load(o, self, Endorse(r, self, new), is_current(r, self), new)

register_recovery(o, self, k) ==
    Load(o, self, [Believed(self) EXCEPT !.recovery = k], TRUE, NoKey)

\* The recovery key endorses itself: the old key is gone.
recover(o, self, k) ==
    LET r == Believed(self)
    IN  HasRoom /\ Load(o, self, Endorse(r, k, k), is_recovery(r, k) /\ ~is_revoked(r, k), k)

\* The signer is not compared with anything.
revoke(o, self, k) ==
    LET r == Believed(self)
    IN  Load(o, self, [r EXCEPT !.revoked = r.revoked \cup {k}], is_registered(r, k), NoKey)

\* The save of what the ceremony is for.
Save(o) ==
    /\ op[o].phase = "loaded"
    /\ save(op[o].reg, reg # op[o].read)
    /\ op' = [op EXCEPT ![o] = IF op[o].sign = NoKey THEN NoOp
                               ELSE [op[o] EXCEPT !.phase = "saved"]]
    /\ UNCHANGED <<anchor, proc, roots>>

\* rotate() and recover() re-anchor with the new key.
Sign(o) ==
    /\ op[o].phase = "saved"
    /\ anchor' = op[o].sign
    /\ op' = [op EXCEPT ![o] = NoOp]
    /\ UNCHANGED <<reg, proc, aux>>

\* The ceremony's process dies between two of its steps.
CeremonyDies(o) ==
    /\ op[o].phase # "free"
    /\ op' = [op EXCEPT ![o] = NoOp]
    /\ UNCHANGED <<reg, anchor, proc, aux>>

Next ==
    \/ \E p \in Procs : (\E k \in Keys : Start(p, k)) \/ Reanchor(p) \/ Stop(p)
    \/ \E o \in Operations :
          \/ \E self, k \in Keys :
                rotate(o, self, k) \/ register_recovery(o, self, k)
                  \/ recover(o, self, k) \/ revoke(o, self, k)
          \/ Bootstrap(o) \/ Save(o) \/ Sign(o) \/ CeremonyDies(o)

Spec == Init /\ [][Next]_vars

-----------------------------------------------------------------------------
ProcRecord == [pc : {"first", "up"}, key : Keys] \cup [pc : {"down"}, key : {NoKey}]
Loaded == [phase : {"first", "loaded", "saved"}, read : Registry, reg : Registry,
           sign : Keys \cup {NoKey}, may : BOOLEAN]

TypeOK ==
    /\ reg \in Registry
    /\ anchor \in Keys \cup {NoKey}
    /\ proc \in [Procs -> ProcRecord]
    /\ op \in [Operations -> Loaded \cup {NoOp}]
    /\ roots \subseteq Keys /\ ever \subseteq Keys /\ overwrote \in BOOLEAN

Endorsed(r, first) == {first} \cup {x[2] : x \in r.rotations}

\* The endorsements of `r` lead from `first` to its current key.
Rooted(r, first) ==
    r.current \in Endorsed(r, first) /\ \A x \in r.rotations : x[1] \in Endorsed(r, first)

(***************************************************************************)
(* The chain of custody is one chain, without a foreign link: a registry   *)
(* goes back to one key that it was bootstrapped with, the current key is  *)
(* that one or was endorsed by a recorded rotation, and so is every        *)
(* endorsing key, unless it came in through a recovery.  Ceremonies that   *)
(* overlap may undo each other, and bootstrap the registry more than once, *)
(* but they never mix two lineages (rotate()'s is_current check,           *)
(* _registry(bootstrap), KeyRegistry docstring).                           *)
(***************************************************************************)
RootedCustody == reg.current # NoKey => \E first \in roots : Rooted(reg, first)

(***************************************************************************)
(* "Any key ever authorized" stays registered, so that "PRE-rotation       *)
(* history stays verifiable" (is_registered docstring): a notary entry     *)
(* signed while its key was current is accepted for good, through any      *)
(* number of rotations, revocations and new recovery keys, as long as no   *)
(* ceremony has overwritten another one's save and no recovery took place  *)
(* (EveryKeyStays says what the docstring says).                           *)
(***************************************************************************)
HistoryVerifiable ==
    ~overwrote /\ (\A x \in reg.rotations : x[1] # x[2]) => \A k \in ever : is_registered(reg, k)

(***************************************************************************)
(* "Any key ever authorized" is registered, "the old key's entries remain  *)
(* valid even after it is rotated out or revoked" (is_registered           *)
(* docstring): also after a recovery, which records only the recovery key. *)
(***************************************************************************)
EveryKeyStays == ~overwrote => \A k \in ever : is_registered(reg, k)

\* verify()'s view of the key of an anchor.
Authorized(r, k) == (is_current(r, k) \/ is_recovery(r, k)) /\ ~is_revoked(r, k)

(***************************************************************************)
(* "A revoked key is not accepted for NEW anchors" (KeyRegistry            *)
(* docstring): once revoked, a key is never again one that verify()        *)
(* accepts, whatever ceremonies ran at the same time.                      *)
(***************************************************************************)
RevocationSticks ==
    [][\A k \in Keys : is_revoked(reg, k) => ~Authorized(reg', k)]_vars

(***************************************************************************)
(* The constructor's comment: "NEVER clobber an existing anchor signed by  *)
(* an UNAUTHORIZED key (found live: a test process re-anchored the         *)
(* production chain with a random key, silently rotating the anchor)":     *)
(* once a registry exists, no anchor is replaced by one of a key it does   *)
(* not know.                                                               *)
(***************************************************************************)
NoStrayAnchor ==
    [][reg.current # NoKey /\ anchor # NoKey /\ anchor' # anchor
         => is_registered(reg, anchor')]_vars
=============================================================================
