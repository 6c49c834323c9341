--------------------------- MODULE CustodyProofs ----------------------------
(***************************************************************************)
(* The custody of the anchor key: for any keys, processes and ceremonies,  *)
(* interleaved in any way, the endorsements of a registry lead back to one *)
(* key it was bootstrapped with, and as long as no ceremony overwrote what *)
(* it had not read, no key that was ever current is forgotten.             *)
(*                                                                         *)
(* And the off-box notary: with one run at a time, as launchd starts them, *)
(* HEALTHY means that every entry is held off-box and that no entry the    *)
(* remote holds was taken out of the log.                                  *)
(***************************************************************************)
EXTENDS AnchorKeys, Notary, NaturalsInduction, WellFoundedInduction, TLAPS

-----------------------------------------------------------------------------
(* Anchor keys: the inductive invariants.                                   *)

\* What a ceremony is about to save goes back to one root as well: to the key it
\* sets the registry up with, or to one that was.
Lineage(o) ==
    /\ op[o].read.current # NoKey /\ op[o].reg.current # NoKey
    /\ op[o].phase = "first" =>
          /\ Rooted(op[o].read, op[o].read.current)
          /\ op[o].may => Rooted(op[o].reg, op[o].read.current)
    /\ op[o].phase # "first" => \E first \in roots : Rooted(op[o].reg, first)

IInv ==
    /\ TypeOK
    /\ RootedCustody
    /\ reg.current = NoKey => reg.rotations = {} /\ ever = {}
    /\ \A o \in Operations : op[o] # NoOp => Lineage(o)

\* A key is in the record for good, unless a recovery replaced one.
Recorded(r, keys) ==
    (\A x \in r.rotations : x[1] # x[2]) =>
        \A k \in keys : k = r.current \/ \E x \in r.rotations : k \in {x[1], x[2]}

\* `c` keeps what is recorded in `r`, and its current key, or records a recovery.
Extends(r, c) ==
    /\ r.rotations \subseteq c.rotations
    /\ \/ c.current = r.current
       \/ <<r.current, c.current>> \in c.rotations
       \/ <<c.current, c.current>> \in c.rotations

\* What a ceremony under way will save keeps what it read.
Keeps(o) ==
    /\ op[o].phase = "loaded" => op[o].may
    /\ op[o].may => Extends(op[o].read, op[o].reg)

HInv ==
    /\ ~overwrote => Recorded(reg, ever)
    /\ \A o \in Operations : op[o] # NoOp => Keeps(o)

-----------------------------------------------------------------------------
(* Steps.                                                                   *)

LEMMA RegistryFields ==
    ASSUME NEW r \in Registry
    PROVE  /\ r.current \in Keys \cup {NoKey} /\ r.recovery \in Keys \cup {NoKey}
           /\ r.rotations \in SUBSET (Keys \X Keys) /\ r.revoked \in SUBSET Keys
  BY DEF Registry

\* What the ceremonies make of the registry they loaded.
LEMMA EndorseIs ==
    ASSUME NEW r \in Registry, NEW old \in Keys, NEW new \in Keys
    PROVE  /\ Endorse(r, old, new) \in Registry
           /\ Endorse(r, old, new).current = new
           /\ Endorse(r, old, new).revoked = r.revoked
           /\ Endorse(r, old, new).rotations = r.rotations \cup {<<old, new>>}
<1>1. r.rotations \cup {<<old, new>>} \in SUBSET (Keys \X Keys)
  BY RegistryFields
<1> QED BY <1>1 DEF Registry, Endorse

LEMMA RecoveryIs ==
    ASSUME NEW r \in Registry, NEW k \in Keys
    PROVE  LET c == [r EXCEPT !.recovery = k]
           IN  /\ c \in Registry /\ c.current = r.current /\ c.revoked = r.revoked
               /\ c.rotations = r.rotations
  BY DEF Registry

LEMMA RevokedIs ==
    ASSUME NEW r \in Registry, NEW k \in Keys
    PROVE  LET c == [r EXCEPT !.revoked = r.revoked \cup {k}]
           IN  /\ c \in Registry /\ c.current = r.current /\ r.revoked \subseteq c.revoked
               /\ c.rotations = r.rotations
<1>1. r.revoked \cup {k} \in SUBSET Keys
  BY RegistryFields
<1> QED BY <1>1 DEF Registry

\* Who is endorsed afterwards, and by whom.
LEMMA EndorseKeepsRooted ==
    ASSUME NEW r \in Registry, NEW old \in Keys, NEW new \in Keys, NEW first, Rooted(r, first),
           old \in Endorsed(r, first) \/ old = new
    PROVE  Rooted(Endorse(r, old, new), first)
<1> DEFINE c == Endorse(r, old, new)
<1>1. c.current = new /\ c.rotations = r.rotations \cup {<<old, new>>}
  BY EndorseIs
<1> HIDE DEF c
<1>2. Endorsed(c, first) = Endorsed(r, first) \cup {new}
  <2>1. {x[2] : x \in r.rotations \cup {<<old, new>>}} = {x[2] : x \in r.rotations} \cup {new}
    <3>1. <<old, new>>[2] = new
      OBVIOUS
    <3> QED BY <3>1, Zenon
  <2> QED BY <1>1, <2>1 DEF Endorsed
<1>3. ASSUME NEW x \in c.rotations PROVE x[1] \in Endorsed(c, first)
  <2>1. CASE x \in r.rotations
    BY <1>2, <2>1 DEF Rooted
  <2>2. CASE x = <<old, new>>
    BY <1>2, <2>2
  <2> QED BY <1>1, <2>1, <2>2
<1> QED BY <1>1, <1>2, <1>3 DEF Rooted, c

\* Reading: the ceremony's own key is taken for the current one if there was none.
LEMMA BelievedIs ==
    ASSUME IInv, NEW self \in Keys
    PROVE  LET r == Believed(self)
           IN  /\ r \in Registry /\ r.current \in Keys
               /\ reg.current = NoKey => r.current = self /\ Rooted(r, self)
               /\ reg.current # NoKey => \E first \in roots : Rooted(r, first)
<1>1. reg \in Registry
  BY DEF IInv, TypeOK
<1>2. CASE reg.current # NoKey
  BY <1>1, <1>2, RegistryFields DEF Believed, IInv, RootedCustody
<1>3. CASE reg.current = NoKey
  <2>1. Believed(self) = [reg EXCEPT !.current = self] /\ reg.rotations = {}
    BY <1>3 DEF Believed, IInv
  <2>2. /\ Believed(self) \in Registry /\ Believed(self).current = self
        /\ Believed(self).rotations = {}
    BY <1>1, <2>1 DEF Registry
  <2>3. Rooted(Believed(self), self)
    BY <2>2 DEF Rooted, Endorsed
  <2> QED BY <1>3, <2>2, <2>3
<1> QED BY <1>2, <1>3

\* If it may, a ceremony makes of what it read a registry with the same root, that
\* records the key it replaces, or its own twice.
LEMMA CeremonyIs ==
    ASSUME IInv, NEW o \in Operations, NEW self \in Keys, NEW k \in Keys,
           \/ rotate(o, self, k) \/ register_recovery(o, self, k) \/ recover(o, self, k)
           \/ revoke(o, self, k)
    PROVE  \E changed \in Registry, may \in BOOLEAN, sign \in Keys \cup {NoKey} :
              /\ Load(o, self, changed, may, sign)
              /\ changed.current \in Keys
              /\ may => Extends(Believed(self), changed)
              /\ may => \A first : Rooted(Believed(self), first) => Rooted(changed, first)
<1> DEFINE r == Believed(self)
<1>1. r \in Registry /\ r.current \in Keys
  BY BelievedIs
<1>2. CASE rotate(o, self, k)
  <2> DEFINE c == Endorse(r, self, k)
             may == is_current(r, self)
  <2>1. Load(o, self, c, may, k)
    BY <1>2 DEF rotate
  <2>2. may \in BOOLEAN /\ (may => self = r.current)
    BY DEF is_current
  <2> HIDE DEF r
  <2>0. r \in Registry
    BY <1>1
  <2>3. c \in Registry /\ c.current = k
    BY <2>0, EndorseIs
  <2>4. c.rotations = r.rotations \cup {<<self, k>>}
    BY <2>0, EndorseIs
  <2>5. may => Extends(r, c)
    BY <2>2, <2>3, <2>4 DEF Extends
  <2>6. ASSUME may, NEW first, Rooted(r, first) PROVE Rooted(c, first)
    <3>1. self \in Endorsed(r, first)
      BY <2>2, <2>6 DEF Rooted
    <3> QED BY <1>1, <2>6, <3>1, EndorseKeepsRooted
  <2> HIDE DEF c, may
  <2> QED BY <2>1, <2>2, <2>3, <2>5, <2>6 DEF r
<1>3. CASE register_recovery(o, self, k)
  <2> DEFINE c == [r EXCEPT !.recovery = k]
  <2>1. Load(o, self, c, TRUE, NoKey)
    BY <1>3 DEF register_recovery
  <2> HIDE DEF r
  <2>2. c \in Registry /\ c.current = r.current /\ c.rotations = r.rotations
    BY <1>1, RecoveryIs
  <2> HIDE DEF c
  <2>3. Extends(r, c) /\ \A first : Rooted(r, first) => Rooted(c, first)
    BY <2>2 DEF Extends, Rooted, Endorsed
  <2> QED BY <1>1, <2>1, <2>2, <2>3 DEF r
<1>4. CASE recover(o, self, k)
  <2> DEFINE c == Endorse(r, k, k)
             may == is_recovery(r, k) /\ ~is_revoked(r, k)
  <2>1. Load(o, self, c, may, k)
    BY <1>4 DEF recover
  <2>2. may \in BOOLEAN
    OBVIOUS
  <2> HIDE DEF r, may
  <2>0. r \in Registry
    BY <1>1
  <2>3. c \in Registry /\ c.current = k
    BY <2>0, EndorseIs
  <2>4. c.rotations = r.rotations \cup {<<k, k>>}
    BY <2>0, EndorseIs
  <2>5. Extends(r, c)
    BY <2>3, <2>4 DEF Extends
  <2>6. ASSUME NEW first, Rooted(r, first) PROVE Rooted(c, first)
    BY <1>1, <2>6, EndorseKeepsRooted
  <2> HIDE DEF c
  <2> QED BY <2>1, <2>2, <2>3, <2>5, <2>6 DEF r
<1>5. CASE revoke(o, self, k)
  <2> DEFINE c == [r EXCEPT !.revoked = r.revoked \cup {k}]
             may == is_registered(r, k)
  <2>1. Load(o, self, c, may, NoKey)
    BY <1>5 DEF revoke
  <2>2. may \in BOOLEAN
    BY DEF is_registered
  <2> HIDE DEF r, may
  <2>3. c \in Registry /\ c.current = r.current /\ c.rotations = r.rotations
    BY <1>1, RevokedIs
  <2> HIDE DEF c
  <2>4. Extends(r, c) /\ \A first : Rooted(r, first) => Rooted(c, first)
    BY <2>3 DEF Extends, Rooted, Endorsed
  <2> QED BY <1>1, <2>1, <2>2, <2>3, <2>4 DEF r
<1> QED BY <1>2, <1>3, <1>4, <1>5

LEMMA LoadedFields ==
    ASSUME TypeOK, NEW o \in Operations, op[o].phase # "free"
    PROVE  /\ op[o] \in Loaded /\ op[o].reg \in Registry /\ op[o].read \in Registry
           /\ op[o].may \in BOOLEAN /\ op[o].sign \in Keys \cup {NoKey} /\ op[o] # NoOp
<1>1. op[o] # NoOp
  BY DEF NoOp
<1>2. op[o] \in Loaded
  BY <1>1 DEF TypeOK
<1> QED BY <1>1, <1>2 DEF Loaded

\* What a ceremony holds once it has read the registry.
Opened(o, self, changed, may, sign) ==
    [phase |-> IF reg.current = NoKey THEN "first" ELSE "loaded",
     read |-> Believed(self), reg |-> changed, sign |-> sign, may |-> may]

LEMMA OpenedIs ==
    ASSUME IInv, NEW o \in Operations, NEW self \in Keys,
           NEW changed \in Registry, NEW may \in BOOLEAN, NEW sign \in Keys \cup {NoKey},
           Load(o, self, changed, may, sign)
    PROVE  /\ UNCHANGED <<reg, anchor, proc, aux>>
           /\ Opened(o, self, changed, may, sign) \in Loaded
           /\ \/ op' = op
              \/ /\ reg.current = NoKey \/ may
                 /\ op' = [op EXCEPT ![o] = Opened(o, self, changed, may, sign)]
<1>1. Believed(self) \in Registry
  BY BelievedIs
<1>2. Opened(o, self, changed, may, sign) \in Loaded
  BY <1>1 DEF Opened, Loaded
<1> QED BY <1>2 DEF Load, Opened

\* The save that sets a registry up, and what becomes of its ceremony.
LEMMA BootstrapIs ==
    ASSUME TypeOK, NEW o \in Operations, Bootstrap(o)
    PROVE  /\ reg' = op[o].read /\ ever' = ever \cup {op[o].read.current}
           /\ roots' = roots \cup {op[o].read.current}
           /\ overwrote' = (overwrote \/ reg.current # NoKey)
           /\ UNCHANGED <<anchor, proc>> /\ op[o].phase = "first"
           /\ \/ op' = [op EXCEPT ![o] = NoOp]
              \/ op[o].may /\ op' = [op EXCEPT ![o] = [op[o] EXCEPT !.phase = "loaded"]]
  BY DEF Bootstrap, save

LEMMA SaveIs ==
    ASSUME TypeOK, NEW o \in Operations, Save(o)
    PROVE  /\ reg' = op[o].reg /\ ever' = ever \cup {op[o].reg.current}
           /\ overwrote' = (overwrote \/ reg # op[o].read)
           /\ UNCHANGED <<anchor, proc, roots>> /\ op[o].phase = "loaded"
           /\ \/ op' = [op EXCEPT ![o] = NoOp]
              \/ op' = [op EXCEPT ![o] = [op[o] EXCEPT !.phase = "saved"]]
  BY DEF Save, save

\* The phase of a ceremony says nothing about what it holds.
LEMMA PhaseOnly ==
    ASSUME TypeOK, NEW o \in Operations, op[o].phase # "free", NEW ph \in {"loaded", "saved"}
    PROVE  LET new == [op[o] EXCEPT !.phase = ph]
           IN  /\ new \in Loaded /\ new.phase = ph /\ new.reg = op[o].reg
               /\ new.read = op[o].read /\ new.may = op[o].may
<1>1. op[o] \in Loaded
  BY LoadedFields
<1> QED BY <1>1 DEF Loaded

\* A ceremony that goes on as it was, with more roots known, keeps its lineage.
LEMMA LineageStays ==
    ASSUME NEW q \in Operations, Lineage(q), op'[q] = op[q], roots \subseteq roots'
    PROVE  Lineage(q)'
  BY DEF Lineage

\* Processes touch no registry, and neither does the end of a ceremony.
LEMMA CustodyStep == ASSUME IInv, [Next]_vars PROVE IInv'
<1>0. /\ TypeOK /\ reg \in Registry /\ op \in [Operations -> Loaded \cup {NoOp}]
      /\ roots \subseteq Keys /\ ever \subseteq Keys /\ overwrote \in BOOLEAN
  BY DEF IInv, TypeOK
<1>1. ASSUME NEW p \in Procs, (\E k \in Keys : Start(p, k)) \/ Reanchor(p) \/ Stop(p)
      PROVE  IInv'
  <2>1. UNCHANGED <<reg, op, aux>>
    BY <1>1 DEF Start, Reanchor, Stop
  <2>2. proc[p] \in ProcRecord /\ proc \in [Procs -> ProcRecord]
    BY <1>0 DEF TypeOK
  <2>3. proc' \in [Procs -> ProcRecord]
    <3>1. CASE \E k \in Keys : Start(p, k)
      <4>1. PICK k \in Keys, c \in {"first", "up"} : proc' = [proc EXCEPT ![p] = [pc |-> c, key |-> k]]
        BY <3>1 DEF Start
      <4>2. [pc |-> c, key |-> k] \in ProcRecord
        BY DEF ProcRecord
      <4> QED BY <2>2, <4>1, <4>2
    <3>2. CASE Reanchor(p)
      <4>1. proc[p].pc # "down" /\ proc' = [proc EXCEPT ![p].pc = "up"]
        BY <3>2 DEF Reanchor
      <4>2. proc[p] \in [pc : {"first", "up"}, key : Keys]
        BY <2>2, <4>1 DEF ProcRecord
      <4>3. [proc[p] EXCEPT !.pc = "up"] \in ProcRecord
        BY <4>2 DEF ProcRecord
      <4> QED BY <2>2, <4>1, <4>3
    <3>3. CASE Stop(p)
      <4>1. [pc |-> "down", key |-> NoKey] \in ProcRecord
        BY DEF ProcRecord
      <4> QED BY <2>2, <3>3, <4>1 DEF Stop
    <3> QED BY <1>1, <3>1, <3>2, <3>3
  <2>4. anchor' \in Keys \cup {NoKey}
    <3>1. proc[p].key \in Keys \cup {NoKey}
      BY <2>2 DEF ProcRecord
    <3> QED BY <1>0, <1>1, <3>1 DEF Start, Reanchor, Stop, TypeOK
  <2>5. TypeOK'
    BY <1>0, <2>1, <2>3, <2>4 DEF TypeOK, aux
  <2> QED BY <2>1, <2>5 DEF IInv, RootedCustody, Lineage, aux
<1>2. ASSUME NEW o \in Operations, NEW self \in Keys, NEW k \in Keys,
             \/ rotate(o, self, k) \/ register_recovery(o, self, k) \/ recover(o, self, k)
             \/ revoke(o, self, k)
      PROVE  IInv'
  <2>1. PICK changed \in Registry, may \in BOOLEAN, sign \in Keys \cup {NoKey} :
           /\ Load(o, self, changed, may, sign)
           /\ changed.current \in Keys
           /\ may => \A first : Rooted(Believed(self), first) => Rooted(changed, first)
    BY <1>2, CeremonyIs
  <2> DEFINE new == Opened(o, self, changed, may, sign)
  <2>2. /\ UNCHANGED <<reg, anchor, proc, aux>> /\ new \in Loaded
        /\ op' = op \/ ((reg.current = NoKey \/ may) /\ op' = [op EXCEPT ![o] = new])
    BY <2>1, OpenedIs
  <2>3. TypeOK' /\ RootedCustody' /\ (reg.current = NoKey => reg.rotations = {} /\ ever = {})'
    BY <1>0, <2>2 DEF TypeOK, IInv, RootedCustody, aux
  <2>4. ASSUME NEW q \in Operations, op'[q] # NoOp PROVE Lineage(q)'
    <3>1. CASE op'[q] = op[q]
      BY <2>2, <2>4, <3>1, LineageStays DEF IInv, aux
    <3>2. CASE op'[q] = new /\ (reg.current = NoKey \/ may)
      <4>1. /\ new.read = Believed(self) /\ new.reg = changed /\ new.may = may
            /\ new.phase = IF reg.current = NoKey THEN "first" ELSE "loaded"
        BY DEF Opened
      <4>2. /\ new.read.current \in Keys
            /\ reg.current = NoKey => Rooted(new.read, new.read.current)
            /\ reg.current # NoKey => \E first \in roots : Rooted(new.read, first)
        BY <4>1, BelievedIs
      <4> HIDE DEF new
      <4>3. /\ reg.current = NoKey /\ may => Rooted(changed, new.read.current)
            /\ reg.current # NoKey => \E first \in roots : Rooted(changed, first)
        BY <2>1, <3>2, <4>1, <4>2
      <4> QED BY <2>1, <2>2, <3>2, <4>1, <4>2, <4>3, NoKeyAssumption DEF Lineage, aux
    <3> QED BY <1>0, <2>2, <3>1, <3>2
  <2> QED BY <2>3, <2>4 DEF IInv
<1>3. ASSUME NEW o \in Operations, Bootstrap(o) PROVE IInv'
  <2>1. /\ reg' = op[o].read /\ ever' = ever \cup {op[o].read.current}
        /\ roots' = roots \cup {op[o].read.current}
        /\ overwrote' = (overwrote \/ reg.current # NoKey)
        /\ UNCHANGED <<anchor, proc>> /\ op[o].phase = "first"
        /\ \/ op' = [op EXCEPT ![o] = NoOp]
           \/ op[o].may /\ op' = [op EXCEPT ![o] = [op[o] EXCEPT !.phase = "loaded"]]
    BY <1>0, <1>3, BootstrapIs
  <2>2. op[o].read \in Registry /\ op[o] # NoOp
    BY <1>0, <2>1, LoadedFields
  <2>3. /\ op[o].read.current \in Keys /\ op[o].reg.current # NoKey
        /\ Rooted(op[o].read, op[o].read.current)
        /\ op[o].may => Rooted(op[o].reg, op[o].read.current)
    BY <2>1, <2>2, RegistryFields DEF IInv, Lineage
  <2> DEFINE new == [op[o] EXCEPT !.phase = "loaded"]
  <2>4. new \in Loaded /\ new.phase = "loaded" /\ new.reg = op[o].reg /\ new.read = op[o].read
    BY <1>0, <2>1, PhaseOnly
  <2>5. op' = [op EXCEPT ![o] = NoOp] \/ (op[o].may /\ op' = [op EXCEPT ![o] = new])
    BY <2>1
  <2> HIDE DEF new
  <2>6. op' \in [Operations -> Loaded \cup {NoOp}]
    BY <1>0, <2>4, <2>5
  <2>7. TypeOK'
    BY <1>0, <2>1, <2>2, <2>3, <2>6 DEF TypeOK
  <2>8. RootedCustody' /\ (reg.current = NoKey => reg.rotations = {} /\ ever = {})'
    BY <2>1, <2>3, NoKeyAssumption DEF RootedCustody
  <2>9. ASSUME NEW q \in Operations, op'[q] # NoOp PROVE Lineage(q)'
    <3>1. CASE op'[q] = op[q]
      BY <2>1, <2>9, <3>1, LineageStays DEF IInv
    <3>2. CASE op[o].may /\ op'[q] = new
      BY <2>1, <2>3, <2>4, <3>2, NoKeyAssumption DEF Lineage
    <3> QED BY <1>0, <2>5, <2>9, <3>1, <3>2
  <2> QED BY <2>7, <2>8, <2>9 DEF IInv
<1>4. ASSUME NEW o \in Operations, Save(o) PROVE IInv'
  <2>1. /\ reg' = op[o].reg /\ ever' = ever \cup {op[o].reg.current}
        /\ overwrote' = (overwrote \/ reg # op[o].read)
        /\ UNCHANGED <<anchor, proc, roots>> /\ op[o].phase = "loaded"
        /\ \/ op' = [op EXCEPT ![o] = NoOp]
           \/ op' = [op EXCEPT ![o] = [op[o] EXCEPT !.phase = "saved"]]
    BY <1>0, <1>4, SaveIs
  <2>2. op[o].reg \in Registry /\ op[o] # NoOp
    BY <1>0, <2>1, LoadedFields
  <2>3. /\ op[o].reg.current \in Keys /\ op[o].read.current # NoKey
        /\ \E first \in roots : Rooted(op[o].reg, first)
    BY <2>1, <2>2, RegistryFields DEF IInv, Lineage
  <2> DEFINE new == [op[o] EXCEPT !.phase = "saved"]
  <2>4. new \in Loaded /\ new.phase = "saved" /\ new.reg = op[o].reg /\ new.read = op[o].read
    BY <1>0, <2>1, PhaseOnly
  <2>5. op' = [op EXCEPT ![o] = NoOp] \/ op' = [op EXCEPT ![o] = new]
    BY <2>1
  <2> HIDE DEF new
  <2>6. op' \in [Operations -> Loaded \cup {NoOp}]
    BY <1>0, <2>4, <2>5
  <2>7. TypeOK'
    BY <1>0, <2>1, <2>2, <2>3, <2>6 DEF TypeOK
  <2>8. RootedCustody' /\ (reg.current = NoKey => reg.rotations = {} /\ ever = {})'
    BY <2>1, <2>3, NoKeyAssumption DEF RootedCustody
  <2>9. ASSUME NEW q \in Operations, op'[q] # NoOp PROVE Lineage(q)'
    <3>1. CASE op'[q] = op[q]
      BY <2>1, <2>9, <3>1, LineageStays DEF IInv
    <3>2. CASE op'[q] = new
      BY <2>1, <2>3, <2>4, <3>2, NoKeyAssumption DEF Lineage
    <3> QED BY <1>0, <2>5, <2>9, <3>1, <3>2
  <2> QED BY <2>7, <2>8, <2>9 DEF IInv
<1>5. ASSUME NEW o \in Operations, Sign(o) \/ CeremonyDies(o) PROVE IInv'
  <2>1. UNCHANGED <<reg, proc, aux>> /\ op' = [op EXCEPT ![o] = NoOp]
    BY <1>5 DEF Sign, CeremonyDies
  <2>2. anchor' \in Keys \cup {NoKey}
    <3>1. CASE Sign(o)
      BY <1>0, <3>1, LoadedFields DEF Sign
    <3>2. CASE CeremonyDies(o)
      BY <1>0, <3>2 DEF CeremonyDies, TypeOK
    <3> QED BY <1>5, <3>1, <3>2
  <2>3. TypeOK' /\ RootedCustody' /\ (reg.current = NoKey => reg.rotations = {} /\ ever = {})'
    BY <1>0, <2>1, <2>2 DEF TypeOK, IInv, RootedCustody, aux
  <2>4. ASSUME NEW q \in Operations, op'[q] # NoOp PROVE Lineage(q)'
    <3>1. op'[q] = op[q]
      BY <1>0, <2>1, <2>4
    <3> QED BY <2>1, <2>4, <3>1, LineageStays DEF IInv, aux
  <2> QED BY <2>3, <2>4 DEF IInv
<1>6. CASE UNCHANGED vars
  BY <1>6 DEF vars, aux, IInv, TypeOK, RootedCustody, Lineage
<1> QED BY <1>1, <1>2, <1>3, <1>4, <1>5, <1>6 DEF Next

-----------------------------------------------------------------------------
(* What is recorded.                                                        *)

\* Endorsements only grow, so what was recorded stays.
LEMMA RecordedGrows ==
    ASSUME NEW r, NEW c, NEW keys, Recorded(r, keys), Extends(r, c)
    PROVE  Recorded(c, keys)
<1> SUFFICES ASSUME \A x \in c.rotations : x[1] # x[2], NEW k \in keys
             PROVE  k = c.current \/ \E x \in c.rotations : k \in {x[1], x[2]}
  BY DEF Recorded
<1>1. k = r.current \/ \E x \in r.rotations : k \in {x[1], x[2]}
  BY DEF Recorded, Extends
<1>2. <<c.current, c.current>> \notin c.rotations
  OBVIOUS
<1>4. /\ r.rotations \subseteq c.rotations
      /\ c.current = r.current \/ <<r.current, c.current>> \in c.rotations
  BY <1>2 DEF Extends
<1>3. CASE k = r.current
  <2>1. CASE <<r.current, c.current>> \in c.rotations
    <3>1. k \in {<<r.current, c.current>>[1], <<r.current, c.current>>[2]}
      BY <1>3
    <3> QED BY <2>1, <3>1
  <2> QED BY <1>3, <1>4, <2>1
<1> QED BY <1>1, <1>3, <1>4

\* A save that overwrites nothing unread keeps what is recorded; the rest keeps what
\* the ceremonies under way hold.
LEMMA HistoryStep == ASSUME IInv, HInv, [Next]_vars PROVE HInv'
<1>0. TypeOK /\ op \in [Operations -> Loaded \cup {NoOp}] /\ overwrote \in BOOLEAN
  BY DEF IInv, TypeOK
<1>1. ASSUME UNCHANGED <<reg, ever, overwrote>>, \A q \in Operations : op'[q] \in {op[q], NoOp}
      PROVE  HInv'
  BY <1>1 DEF HInv, Keeps
<1>2. ASSUME NEW o \in Operations, NEW self \in Keys, NEW k \in Keys,
             \/ rotate(o, self, k) \/ register_recovery(o, self, k) \/ recover(o, self, k)
             \/ revoke(o, self, k)
      PROVE  HInv'
  <2>1. PICK changed \in Registry, may \in BOOLEAN, sign \in Keys \cup {NoKey} :
           /\ Load(o, self, changed, may, sign)
           /\ may => Extends(Believed(self), changed)
    BY <1>2, CeremonyIs
  <2> DEFINE new == Opened(o, self, changed, may, sign)
  <2>2. /\ UNCHANGED <<reg, anchor, proc, aux>>
        /\ op' = op \/ ((reg.current = NoKey \/ may) /\ op' = [op EXCEPT ![o] = new])
    BY <2>1, OpenedIs
  <2>3. /\ new.read = Believed(self) /\ new.reg = changed /\ new.may = may
        /\ new.phase = IF reg.current = NoKey THEN "first" ELSE "loaded"
    BY DEF Opened
  <2> HIDE DEF new
  <2>4. ASSUME NEW q \in Operations, op'[q] # NoOp PROVE Keeps(q)'
    <3>1. CASE op'[q] = op[q]
      BY <2>4, <3>1 DEF HInv, Keeps
    <3>2. CASE op'[q] = new /\ (reg.current = NoKey \/ may)
      BY <2>1, <2>3, <3>2 DEF Keeps
    <3> QED BY <1>0, <2>2, <3>1, <3>2
  <2> QED BY <2>2, <2>4 DEF HInv, aux
<1>3. ASSUME NEW o \in Operations, Bootstrap(o) PROVE HInv'
  <2>1. /\ reg' = op[o].read /\ ever' = ever \cup {op[o].read.current}
        /\ overwrote' = (overwrote \/ reg.current # NoKey)
        /\ op[o].phase = "first"
        /\ \/ op' = [op EXCEPT ![o] = NoOp]
           \/ op[o].may /\ op' = [op EXCEPT ![o] = [op[o] EXCEPT !.phase = "loaded"]]
    BY <1>0, <1>3, BootstrapIs
  <2>2. ~overwrote' => Recorded(reg', ever')
    BY <1>0, <2>1 DEF Recorded, IInv
  <2> DEFINE new == [op[o] EXCEPT !.phase = "loaded"]
  <2>3. /\ new.phase = "loaded" /\ new.reg = op[o].reg /\ new.read = op[o].read
        /\ new.may = op[o].may /\ op[o] # NoOp
    BY <1>0, <2>1, PhaseOnly, LoadedFields
  <2>4. op' = [op EXCEPT ![o] = NoOp] \/ (op[o].may /\ op' = [op EXCEPT ![o] = new])
    BY <2>1
  <2> HIDE DEF new
  <2>5. ASSUME NEW q \in Operations, op'[q] # NoOp PROVE Keeps(q)'
    <3>1. CASE op'[q] = op[q]
      BY <2>5, <3>1 DEF HInv, Keeps
    <3>2. CASE op[o].may /\ op'[q] = new
      BY <2>3, <3>2 DEF HInv, Keeps
    <3> QED BY <1>0, <2>4, <2>5, <3>1, <3>2
  <2> QED BY <2>2, <2>5 DEF HInv
<1>4. ASSUME NEW o \in Operations, Save(o) PROVE HInv'
  <2>1. /\ reg' = op[o].reg /\ ever' = ever \cup {op[o].reg.current}
        /\ overwrote' = (overwrote \/ reg # op[o].read)
        /\ op[o].phase = "loaded"
        /\ \/ op' = [op EXCEPT ![o] = NoOp]
           \/ op' = [op EXCEPT ![o] = [op[o] EXCEPT !.phase = "saved"]]
    BY <1>0, <1>4, SaveIs
  <2> DEFINE new == [op[o] EXCEPT !.phase = "saved"]
  <2>2. /\ new.phase = "saved" /\ new.reg = op[o].reg /\ new.read = op[o].read
        /\ new.may = op[o].may /\ op[o] # NoOp
    BY <1>0, <2>1, PhaseOnly, LoadedFields
  <2>3. op' = [op EXCEPT ![o] = NoOp] \/ op' = [op EXCEPT ![o] = new]
    BY <2>1
  <2> HIDE DEF new
  <2>4. Extends(op[o].read, op[o].reg)
    BY <2>1, <2>2 DEF HInv, Keeps
  <2>5. ASSUME ~overwrote' PROVE Recorded(reg', ever')
    <3>1. ~overwrote /\ reg = op[o].read
      BY <1>0, <2>1, <2>5
    <3>2. Recorded(op[o].reg, ever)
      BY <2>4, <3>1, RecordedGrows DEF HInv
    <3> QED BY <2>1, <3>2 DEF Recorded
  <2>6. ASSUME NEW q \in Operations, op'[q] # NoOp PROVE Keeps(q)'
    <3>1. CASE op'[q] = op[q]
      BY <2>6, <3>1 DEF HInv, Keeps
    <3>2. CASE op'[q] = new
      BY <2>2, <3>2 DEF HInv, Keeps
    <3> QED BY <1>0, <2>3, <2>6, <3>1, <3>2
  <2> QED BY <2>5, <2>6 DEF HInv
<1>5. ASSUME NEW o \in Operations, Sign(o) \/ CeremonyDies(o) PROVE HInv'
  <2>1. UNCHANGED <<reg, ever, overwrote>> /\ op' = [op EXCEPT ![o] = NoOp]
    BY <1>5 DEF Sign, CeremonyDies, aux
  <2>2. \A q \in Operations : op'[q] \in {op[q], NoOp}
    BY <1>0, <2>1
  <2> QED BY <1>1, <2>1, <2>2
<1>6. ASSUME UNCHANGED vars \/ \E p \in Procs : (\E k \in Keys : Start(p, k)) \/ Reanchor(p) \/ Stop(p)
      PROVE  HInv'
  <2>1. UNCHANGED <<reg, op, ever, overwrote>>
    BY <1>6 DEF Start, Reanchor, Stop, vars, aux
  <2> QED BY <1>1, <2>1
<1> QED BY <1>2, <1>3, <1>4, <1>5, <1>6 DEF Next

LEMMA InitHolds == Init => IInv /\ HInv
<1> SUFFICES ASSUME Init PROVE IInv /\ HInv
  OBVIOUS
<1>1. /\ reg = [current |-> NoKey, recovery |-> NoKey, rotations |-> {}, revoked |-> {}]
      /\ roots = {} /\ ever = {} /\ \A o \in Operations : op[o] = NoOp
  BY DEF Init
<1>2. TypeOK
  <2>1. reg \in Registry
    BY <1>1 DEF Registry
  <2>2. [pc |-> "down", key |-> NoKey] \in ProcRecord
    BY DEF ProcRecord
  <2> QED BY <2>1, <2>2 DEF Init, TypeOK
<1>3. Recorded(reg, ever) /\ RootedCustody
  BY <1>1 DEF Recorded, RootedCustody
<1> QED BY <1>1, <1>2, <1>3 DEF IInv, HInv

-----------------------------------------------------------------------------
(* The theorems.                                                            *)

\* The invariant holds of every reachable state of the key registry.
THEOREM CustodyInvariant == Spec => []IInv
<1>1. IInv /\ [Next]_vars => IInv'
  BY CustodyStep
<1> QED BY <1>1, InitHolds, PTL DEF Spec

\* A registry goes back to one key it was bootstrapped with, and no foreign link is
\* in it, however many ceremonies find no registry, read it and overwrite it at the
\* same time (_registry(bootstrap), save(), rotate(), recover()).
THEOREM CustodyHolds == Spec => []RootedCustody
<1>1. IInv => RootedCustody
  BY DEF IInv
<1> QED BY <1>1, CustodyInvariant, PTL

\* As long as every save replaced what its ceremony had read and no recovery took
\* place, every key that was ever current is known to is_registered().
THEOREM HistoryHolds == Spec => []HistoryVerifiable
<1>1. IInv /\ HInv /\ [Next]_vars => IInv' /\ HInv'
  BY CustodyStep, HistoryStep
<1>2. HInv /\ IInv => HistoryVerifiable
  <2> SUFFICES ASSUME HInv, IInv, ~overwrote, \A x \in reg.rotations : x[1] # x[2], NEW k \in ever
               PROVE  is_registered(reg, k)
    BY DEF HistoryVerifiable
  <2>1. k # NoKey
    BY NoKeyAssumption DEF IInv, TypeOK
  <2>2. k = reg.current \/ \E x \in reg.rotations : k \in {x[1], x[2]}
    BY DEF HInv, Recorded
  <2> QED BY <2>1, <2>2 DEF is_registered, is_current
<1> QED BY <1>1, <1>2, InitHolds, PTL DEF Spec

-----------------------------------------------------------------------------
(* The notary: the inductive invariant.                                     *)

\* The log's entries are made one after the other, and none of them is lost.
LogInv ==
    /\ \A i \in DOMAIN local : local[i] <= made /\ local[i] \notin lost
    /\ \A i, j \in DOMAIN local : i < j => local[i] < local[j]

(***************************************************************************)
(* An object at a seq of the log is that entry of the log.  While a run    *)
(* holds the log it read, that is the log, or all of it but the entry the  *)
(* run appended; and when it is about to append, no object is ahead.       *)
(***************************************************************************)
CopyInv ==
    ~blind =>
        /\ \A o \in remote : o[1] \in DOMAIN local => o[2] = local[o[1]]
        /\ \A r \in Runs : run[r].pc = "append" => \A o \in remote : o[1] <= Len(local)

HoldsLog(r) ==
    /\ run[r].pc \in {"list", "append"} => run[r].entries = local
    /\ run[r].pc \in {"push", "backfill"} =>
          /\ Len(local) = Len(run[r].entries) + 1
          /\ \A i \in DOMAIN run[r].entries : run[r].entries[i] = local[i]
    /\ run[r].pc = "push" => run[r].entry = local[Len(local)]
    /\ run[r].pc = "backfill" => run[r].todo # {} /\ run[r].todo \subseteq DOMAIN run[r].entries

NotaryInv == NotaryTypeOK /\ LogInv /\ CopyInv /\ \A r \in Runs : HoldsLog(r)

\* launchd runs one job of a label at a time.
OneRun == \A a, b \in Runs : a = b

-----------------------------------------------------------------------------
(* Sets of seqs, and runs.                                                  *)

\* A set of numbers that is not empty has a least one.
LEMMA LeastSeq ==
    ASSUME NEW T \in SUBSET Nat, T # {}
    PROVE  Min(T) \in T
<1> DEFINE R == {ss \in Nat \X Nat : ss[1] < ss[2]}
<1>1. IsWellFoundedOn(R, Nat)
  BY NatLessThanWellFounded DEF OpToRel
<1>2. \A x, y \in Nat : y < x => <<y, x>> \in R
  OBVIOUS
<1> HIDE DEF R
<1>3. PICK x \in T : \A y \in T : ~ (<<y, x>> \in R)
  BY <1>1, WFMin
<1>4. \A y \in T : x <= y
  <2>1. \A y \in T : y \in Nat /\ x \in Nat /\ ~(y < x)
    BY <1>2, <1>3
  <2> QED BY <2>1
<1> QED BY <1>4 DEF Min

\* A run that has not begun has the type of a run.
LEMMA IdleRun == Idle \in RunRecord /\ Idle.pc = "idle"
<1>1. <<>> \in Seq(1 .. MaxEntries) /\ 0 \in 0 .. MaxEntries
  BY NotaryAssumption
<1> QED BY <1>1 DEF Idle, RunRecord

\* What is left to backfill, or nothing.
LEMMA AfterPushIs ==
    ASSUME NotaryTypeOK, NEW r \in Runs, NEW todo \in SUBSET Nat
    PROVE  /\ AfterPush(r, todo) \in RunRecord
           /\ todo = {} => AfterPush(r, todo).pc = "idle"
           /\ todo # {} => /\ AfterPush(r, todo).pc = "backfill"
                           /\ AfterPush(r, todo).todo = todo
                           /\ AfterPush(r, todo).entries = run[r].entries
<1>1. run[r] \in RunRecord
  BY DEF NotaryTypeOK
<1>2. CASE todo = {}
  BY <1>2, IdleRun DEF AfterPush
<1>3. CASE todo # {}
  BY <1>1, <1>3 DEF AfterPush, RunRecord
<1> QED BY <1>2, <1>3

\* The fields of a run that is there.
LEMMA RunFields ==
    ASSUME NotaryTypeOK, NEW r \in Runs
    PROVE  /\ run[r] \in RunRecord
           /\ run[r].entries \in Seq(1 .. MaxEntries) /\ run[r].entry \in 0 .. MaxEntries
           /\ run[r].todo \in SUBSET Nat /\ run[r].seqs \in SUBSET Nat
           /\ Len(run[r].entries) \in Nat
           /\ DOMAIN run[r].entries = 1 .. Len(run[r].entries)
           /\ Older(r) \in SUBSET Nat /\ Older(r) \subseteq DOMAIN run[r].entries
<1>1. run[r] \in RunRecord
  BY DEF NotaryTypeOK
<1>2. run[r].entries \in Seq(1 .. MaxEntries)
  BY <1>1 DEF RunRecord
<1> QED BY <1>1, <1>2 DEF RunRecord, Older

\* The log is a sequence of entries.
LEMMA LogFields ==
    ASSUME NotaryTypeOK
    PROVE  /\ local \in Seq(1 .. MaxEntries) /\ Len(local) \in Nat
           /\ DOMAIN local = 1 .. Len(local)
           /\ \A i \in DOMAIN local : i \in Nat /\ local[i] \in 1 .. MaxEntries /\ local[i] \in Nat
<1>1. local \in Seq(1 .. MaxEntries)
  BY DEF NotaryTypeOK
<1>2. Len(local) \in Nat /\ DOMAIN local = 1 .. Len(local)
  BY <1>1
<1>3. \A i \in 1 .. Len(local) : local[i] \in 1 .. MaxEntries
  <2>1. \A S : \A q \in Seq(S) : \A i \in 1 .. Len(q) : q[i] \in S
    OBVIOUS
  <2> QED BY <1>1, <2>1
<1>4. \A x \in 1 .. MaxEntries : x \in Nat
  BY NotaryAssumption
<1> QED BY <1>1, <1>2, <1>3, <1>4

-----------------------------------------------------------------------------
(* The steps, with one run at a time.                                       *)

(***************************************************************************)
(* A step of the one run that changes neither log nor objects: it takes    *)
(* over the log, or goes on with what it has.                              *)
(***************************************************************************)
LEMMA RunOnly ==
    ASSUME OneRun, NotaryInv, NEW r \in Runs, NEW to \in RunRecord,
           run' = [run EXCEPT ![r] = to],
           UNCHANGED <<local, remote, made, lost, orphaned, lossy>>,
           blind' \in BOOLEAN, blind => blind',
           ~blind' => (to.pc = "append" => \A o \in remote : o[1] <= Len(local)),
           HoldsLog(r)'
    PROVE  NotaryInv'
<1>1. run' \in [Runs -> RunRecord] /\ run'[r] = to /\ \A q \in Runs : q = r
  BY DEF NotaryInv, NotaryTypeOK, OneRun
<1>2. NotaryTypeOK'
  BY <1>1 DEF NotaryInv, NotaryTypeOK
<1>3. LogInv'
  BY DEF NotaryInv, LogInv
<1>4. CopyInv'
  BY <1>1 DEF NotaryInv, CopyInv
<1>5. \A q \in Runs : HoldsLog(q)'
  BY <1>1
<1> QED BY <1>2, <1>3, <1>4, <1>5 DEF NotaryInv

\* A run that begins holds the log.
LEMMA ReadStep ==
    ASSUME OneRun, NotaryInv, NEW r \in Runs, ReadLocal(r) PROVE NotaryInv'
<1> DEFINE to == [Idle EXCEPT !.pc = "list", !.entries = local]
<1>1. to \in RunRecord /\ to.pc = "list" /\ to.entries = local
  BY IdleRun DEF NotaryInv, NotaryTypeOK, RunRecord
<1>2. run' = [run EXCEPT ![r] = to]
  BY DEF ReadLocal
<1>3. run'[r] = to
  BY <1>2 DEF NotaryInv, NotaryTypeOK
<1> HIDE DEF to
<1>4. UNCHANGED <<local, remote, made, lost, orphaned, lossy, blind>> /\ blind' \in BOOLEAN
  BY DEF NotaryInv, NotaryTypeOK, ReadLocal, ghosts
<1>5. HoldsLog(r)'
  BY <1>1, <1>3, <1>4 DEF HoldsLog
<1> QED BY <1>1, <1>2, <1>4, <1>5, RunOnly

(***************************************************************************)
(* The rollback guard: with a listing, nothing is ahead of the log; a      *)
(* failed listing that hides something is what `blind` stands for.         *)
(***************************************************************************)
LEMMA ListStep ==
    ASSUME OneRun, NotaryInv, NEW r \in Runs, ListOk(r) \/ ListFails(r) PROVE NotaryInv'
<1>1. PICK seqs \in SUBSET Nat :
          /\ ListRemote(r, seqs)
          /\ blind' \in BOOLEAN /\ (blind => blind')
          /\ ~blind' /\ (\A s \in seqs : ~(s > Len(run[r].entries)))
                => \A s \in Seqs(remote) : ~(s > Len(run[r].entries))
  <2>1. Seqs(remote) \in SUBSET Nat
    BY DEF Seqs, NotaryInv, NotaryTypeOK
  <2>2. CASE ListOk(r)
    BY <2>1, <2>2 DEF ListOk, NotaryInv, NotaryTypeOK
  <2>3. CASE ListFails(r)
    <3>1. {} \in SUBSET Nat
      OBVIOUS
    <3>2. blind' \in BOOLEAN /\ (blind => blind')
          /\ (~blind' => \A s \in Seqs(remote) : ~(s > Len(run[r].entries)))
      BY <2>3, Zenon DEF ListFails, NotaryInv, NotaryTypeOK
    <3> QED BY <2>3, <3>1, <3>2 DEF ListFails
  <2> QED BY <2>2, <2>3
<1>2. run[r].pc = "list" /\ run[r].entries = local
  BY <1>1 DEF ListRemote, NotaryInv, HoldsLog
<1>3. CASE \E s \in seqs : s > Len(run[r].entries)
  <2>1. run' = [run EXCEPT ![r] = Idle]
    BY <1>1, <1>3 DEF ListRemote
  <2>2. HoldsLog(r)'
    BY <2>1, IdleRun DEF HoldsLog, NotaryInv, NotaryTypeOK
  <2> QED BY <1>1, <2>1, <2>2, IdleRun, RunOnly DEF ListRemote
<1>4. CASE ~\E s \in seqs : s > Len(run[r].entries)
  <2> DEFINE to == [run[r] EXCEPT !.pc = "append", !.seqs = seqs]
  <2>1. run' = [run EXCEPT ![r] = to]
    BY <1>1, <1>4 DEF ListRemote
  <2>2. to \in RunRecord /\ to.pc = "append" /\ to.entries = local
    BY <1>2, RunFields DEF NotaryInv, RunRecord
  <2>3. local' = local /\ run'[r] = to
    BY <1>1, <2>1 DEF ListRemote, NotaryInv, NotaryTypeOK
  <2> HIDE DEF to
  <2>4. HoldsLog(r)'
    BY <2>2, <2>3 DEF HoldsLog
  <2>5. ~blind' => \A o \in remote : o[1] <= Len(local)
    <3>1. ASSUME ~blind', NEW o \in remote PROVE o[1] <= Len(local)
      <4>1. o[1] \in Seqs(remote) /\ o[1] \in Nat /\ Len(local) \in Nat
        BY DEF Seqs, NotaryInv, NotaryTypeOK
      <4>2. ~(o[1] > Len(local))
        BY <1>1, <1>2, <1>4, <3>1, <4>1
      <4> QED BY <4>1, <4>2
    <3> QED BY <3>1
  <2> QED BY <1>1, <2>1, <2>2, <2>4, <2>5, RunOnly DEF ListRemote
<1> QED BY <1>3, <1>4

\* The appended entry is newer than all others, at a seq no object has.
LEMMA AppendStep ==
    ASSUME OneRun, NotaryInv, NEW r \in Runs, AppendLocal(r) PROVE NotaryInv'
<1> DEFINE to == [run[r] EXCEPT !.pc = "push", !.entry = made + 1]
<1>1. /\ run[r].pc = "append" /\ run[r].entries = local /\ made + 1 \in 1 .. MaxEntries
      /\ made \in Nat /\ made' = made + 1 /\ local' = Append(local, made + 1)
      /\ UNCHANGED <<remote, lost, orphaned, lossy, blind>>
  BY NotaryAssumption DEF AppendLocal, NotaryInv, NotaryTypeOK, HoldsLog, ghosts
<1>2. run' = [run EXCEPT ![r] = to]
  BY DEF AppendLocal, NotaryInv, NotaryTypeOK
<1>3. /\ to \in RunRecord /\ to.pc = "push" /\ to.entry = made + 1 /\ to.entries = local
  <2>1. run[r] \in RunRecord
    BY RunFields DEF NotaryInv
  <2>2. made + 1 \in 0 .. MaxEntries
    BY <1>1, NotaryAssumption
  <2> QED BY <1>1, <2>1, <2>2 DEF RunRecord
<1> HIDE DEF to
<1>4. run' \in [Runs -> RunRecord] /\ run'[r] = to /\ \A q \in Runs : q = r
  BY <1>2, <1>3 DEF NotaryInv, NotaryTypeOK, OneRun
<1>5. /\ local \in Seq(1 .. MaxEntries) /\ local' \in Seq(1 .. MaxEntries)
      /\ Len(local) \in Nat /\ Len(local') = Len(local) + 1
      /\ DOMAIN local = 1 .. Len(local) /\ DOMAIN local' = 1 .. Len(local) + 1
      /\ \A i \in DOMAIN local : local'[i] = local[i] /\ local[i] \in Nat
      /\ local'[Len(local) + 1] = made + 1
  <2>1. /\ local \in Seq(1 .. MaxEntries) /\ Len(local) \in Nat /\ DOMAIN local = 1 .. Len(local)
        /\ \A i \in DOMAIN local : local[i] \in Nat
    BY LogFields DEF NotaryInv
  <2>2. local' \in Seq(1 .. MaxEntries) /\ Len(local') = Len(local) + 1
    BY <1>1, <2>1
  <2>3. DOMAIN local' = 1 .. Len(local) + 1
    BY <2>2
  <2>4. /\ \A i \in 1 .. Len(local) : local'[i] = local[i]
        /\ local'[Len(local) + 1] = made + 1
    BY <1>1, <2>1
  <2> QED BY <2>1, <2>2, <2>3, <2>4
<1>6. NotaryTypeOK'
  <2>1. (lost \cup orphaned)' \subseteq 1 .. made'
    BY <1>1 DEF NotaryInv, NotaryTypeOK
  <2> QED BY <1>1, <1>4, <1>5, <2>1 DEF NotaryInv, NotaryTypeOK
<1>7. LogInv'
  <2>1. made + 1 \notin lost
    BY <1>1 DEF NotaryInv, NotaryTypeOK
  <2>2. \A i \in DOMAIN local : local[i] <= made /\ local[i] \notin lost
    BY DEF NotaryInv, LogInv
  <2>3. \A i, j \in DOMAIN local : i < j => local[i] < local[j]
    BY DEF NotaryInv, LogInv
  <2>4. \A i \in DOMAIN local' : i \in DOMAIN local \/ i = Len(local) + 1
    BY <1>5
  <2>5. \A i \in DOMAIN local' : local'[i] <= made' /\ local'[i] \notin lost'
    BY <1>1, <1>5, <2>1, <2>2, <2>4
  <2>6. ASSUME NEW i \in DOMAIN local', NEW j \in DOMAIN local', i < j
        PROVE  local'[i] < local'[j]
    <3>1. i \in DOMAIN local
      BY <1>5, <2>6
    <3>2. CASE j \in DOMAIN local
      BY <1>5, <2>3, <2>6, <3>1, <3>2
    <3>3. CASE j = Len(local) + 1
      BY <1>1, <1>5, <2>2, <3>1, <3>3
    <3> QED BY <2>4, <3>2, <3>3
  <2> QED BY <2>5, <2>6 DEF LogInv
<1>8. CopyInv'
  <2>1. SUFFICES ASSUME ~blind PROVE \A o \in remote : o[1] \in DOMAIN local' => o[2] = local'[o[1]]
    BY <1>1, <1>3, <1>4 DEF CopyInv
  <2>2. \A o \in remote : o[1] \in Nat /\ o[1] <= Len(local)
                         /\ (o[1] \in DOMAIN local => o[2] = local[o[1]])
    BY <1>1, <2>1 DEF NotaryInv, NotaryTypeOK, CopyInv
  <2> QED BY <1>5, <2>2
<1>9. HoldsLog(r)'
  BY <1>3, <1>4, <1>5 DEF HoldsLog
<1> QED BY <1>4, <1>6, <1>7, <1>8, <1>9 DEF NotaryInv

(***************************************************************************)
(* A push or a backfill: the object is the entry of the log at its seq.    *)
(***************************************************************************)
LEMMA PushStep ==
    ASSUME OneRun, NotaryInv, NEW r \in Runs, run[r].pc \in {"push", "backfill"},
           NEW todo \in SUBSET Nat, todo \subseteq DOMAIN run[r].entries,
           run' = [run EXCEPT ![r] = AfterPush(r, todo)],
           UNCHANGED <<local, made, lost, orphaned, lossy, blind>>,
           NEW s \in DOMAIN local, remote' = remote \/ remote' = remote \cup {<<s, local[s]>>}
    PROVE  NotaryInv'
<1> DEFINE to == AfterPush(r, todo)
<1>1. /\ to \in RunRecord /\ to.pc \in {"idle", "backfill"}
      /\ to.pc = "backfill" => to.todo = todo /\ todo # {} /\ to.entries = run[r].entries
  BY AfterPushIs DEF NotaryInv
<1>2. run' = [run EXCEPT ![r] = to]
  OBVIOUS
<1> HIDE DEF to
<1>3. run' \in [Runs -> RunRecord] /\ run'[r] = to /\ \A q \in Runs : q = r
  BY <1>1, <1>2 DEF NotaryInv, NotaryTypeOK, OneRun
<1>4. s \in Nat /\ local[s] \in 1 .. MaxEntries
  BY LogFields DEF NotaryInv
<1>5. NotaryTypeOK'
  BY <1>3, <1>4 DEF NotaryInv, NotaryTypeOK
<1>6. LogInv'
  BY DEF NotaryInv, LogInv
<1>7. CopyInv'
  <2>1. SUFFICES ASSUME ~blind PROVE \A o \in remote' : o[1] \in DOMAIN local => o[2] = local[o[1]]
    BY <1>1, <1>3 DEF CopyInv
  <2> QED BY <2>1 DEF NotaryInv, CopyInv
<1>8. HoldsLog(r)'
  BY <1>1, <1>3 DEF HoldsLog, NotaryInv
<1> QED BY <1>3, <1>5, <1>6, <1>7, <1>8 DEF NotaryInv

\* What a run that pushes or backfills still has to do, and with what.
LEMMA PushSteps ==
    ASSUME OneRun, NotaryInv, NEW r \in Runs,
           Push(r) \/ PushFails(r) \/ Backfill(r) \/ BackfillFails(r)
    PROVE  NotaryInv'
<1>1. /\ run[r].pc \in {"push", "backfill"} /\ Len(local) = Len(run[r].entries) + 1
      /\ \A i \in DOMAIN run[r].entries : run[r].entries[i] = local[i]
      /\ UNCHANGED <<local, made, lost, orphaned, lossy, blind>>
  BY DEF Push, PushFails, Backfill, BackfillFails, NotaryInv, HoldsLog, ghosts
<1>2. /\ run[r].todo \in SUBSET Nat /\ Older(r) \in SUBSET Nat
      /\ Older(r) \subseteq DOMAIN run[r].entries
      /\ DOMAIN run[r].entries = 1 .. Len(run[r].entries) /\ Len(run[r].entries) \in Nat
  BY RunFields DEF NotaryInv
<1>3. DOMAIN local = 1 .. Len(local) /\ Len(local) \in DOMAIN local
  BY <1>1, <1>2 DEF NotaryInv, NotaryTypeOK
<1>4. CASE Push(r) \/ PushFails(r)
  <2>1. run[r].entry = local[Len(local)] /\ run' = [run EXCEPT ![r] = AfterPush(r, Older(r))]
    BY <1>4 DEF Push, PushFails, NotaryInv, HoldsLog
  <2>2. remote' = remote \/ remote' = remote \cup {<<Len(local), local[Len(local)]>>}
    BY <1>1, <1>4, <2>1 DEF Push, PushFails
  <2> QED BY <1>1, <1>2, <1>3, <2>1, <2>2, PushStep
<1>5. CASE Backfill(r) \/ BackfillFails(r)
  <2> DEFINE s == Min(run[r].todo)
             todo == run[r].todo \ {s}
  <2>1. run[r].todo # {} /\ run[r].todo \subseteq DOMAIN run[r].entries
    BY <1>5 DEF Backfill, BackfillFails, NotaryInv, HoldsLog
  <2>2. s \in run[r].todo
    BY <1>2, <2>1, LeastSeq
  <2>3. s \in DOMAIN local /\ run[r].entries[s] = local[s]
    BY <1>1, <1>2, <1>3, <2>1, <2>2
  <2>4. run' = [run EXCEPT ![r] = AfterPush(r, todo)]
    BY <1>5 DEF Backfill, BackfillFails
  <2>5. remote' = remote \/ remote' = remote \cup {<<s, local[s]>>}
    BY <1>5, <2>3 DEF Backfill, BackfillFails
  <2>6. todo \in SUBSET Nat /\ todo \subseteq DOMAIN run[r].entries
    BY <1>2, <2>1
  <2> HIDE DEF s, todo
  <2> QED BY <1>1, <2>3, <2>4, <2>5, <2>6, PushStep
<1> QED BY <1>4, <1>5 

\* A run that dies leaves what it wrote.
LEMMA DieStep ==
    ASSUME OneRun, NotaryInv, NEW r \in Runs, Die(r) PROVE NotaryInv'
<1>1. /\ run' = [run EXCEPT ![r] = Idle] /\ blind' \in BOOLEAN
      /\ UNCHANGED <<local, remote, made, lost, orphaned, lossy, blind>>
  BY DEF Die, ghosts, NotaryInv, NotaryTypeOK
<1>2. HoldsLog(r)'
  BY <1>1, IdleRun DEF HoldsLog, NotaryInv, NotaryTypeOK
<1> QED BY <1>1, <1>2, IdleRun, RunOnly

\* An object that is gone, or a chain that was rewritten, disturbs nothing.
LEMMA LossStep ==
    ASSUME NotaryInv, LoseObject \/ ChainRewritten PROVE NotaryInv'
<1>1. /\ UNCHANGED <<local, run, made, lost, blind>> /\ remote' \subseteq remote
      /\ lossy' \in BOOLEAN
  BY DEF LoseObject, ChainRewritten
<1>2. (lost \cup orphaned)' \subseteq 1 .. made'
  BY <1>1 DEF LoseObject, ChainRewritten, NotaryInv, NotaryTypeOK
<1>3. NotaryTypeOK'
  BY <1>1, <1>2 DEF NotaryInv, NotaryTypeOK
<1>4. LogInv' /\ CopyInv' /\ \A r \in Runs : HoldsLog(r)'
  BY <1>1 DEF NotaryInv, LogInv, CopyInv, HoldsLog
<1> QED BY <1>3, <1>4 DEF NotaryInv

\* What is left of the log is a prefix; what went is not in it.
LEMMA RollBackStep ==
    ASSUME NotaryInv, RollBackLocal PROVE NotaryInv'
<1>1. PICK n \in 0 .. Len(local) - 1 :
          /\ local' = SubSeq(local, 1, n)
          /\ lost' = lost \cup {local[i] : i \in n + 1 .. Len(local)}
  BY DEF RollBackLocal
<1>2. /\ UNCHANGED <<remote, run, made, orphaned, blind>> /\ lossy' \in BOOLEAN
      /\ \A r \in Runs : run[r].pc = "idle"
  BY IdleRun DEF RollBackLocal
<1>3. /\ local \in Seq(1 .. MaxEntries) /\ Len(local) \in Nat /\ DOMAIN local = 1 .. Len(local)
      /\ \A i \in DOMAIN local : local[i] \in 1 .. MaxEntries
  BY LogFields DEF NotaryInv
<1>4. /\ local' \in Seq(1 .. MaxEntries) /\ DOMAIN local' = 1 .. n /\ n <= Len(local)
      /\ \A i \in 1 .. n : local'[i] = local[i]
  BY <1>1, <1>3
<1>5. /\ \A i \in DOMAIN local : local[i] <= made /\ local[i] \notin lost
      /\ \A i, j \in DOMAIN local : i < j => local[i] < local[j]
  BY DEF NotaryInv, LogInv
<1>6. (lost \cup orphaned)' \subseteq 1 .. made'
  <2>1. \A i \in n + 1 .. Len(local) : local[i] \in 1 .. made
    <3>1. made \in Nat
      BY DEF NotaryInv, NotaryTypeOK
    <3>2. \A i \in n + 1 .. Len(local) : i \in DOMAIN local
      BY <1>3
    <3> QED BY <1>3, <1>5, <3>1, <3>2
  <2>2. lost \cup orphaned \subseteq 1 .. made
    BY DEF NotaryInv, NotaryTypeOK
  <2> QED BY <1>1, <1>2, <2>1, <2>2
<1>7. NotaryTypeOK'
  BY <1>2, <1>4, <1>6 DEF NotaryInv, NotaryTypeOK
<1>8. LogInv'
  <2>1. \A i \in 1 .. n : i \in DOMAIN local
    BY <1>3, <1>4
  <2>2. ASSUME NEW i \in 1 .. n PROVE local'[i] <= made' /\ local'[i] \notin lost'
    <3>1. \A j \in n + 1 .. Len(local) : local[i] # local[j]
      <4>1. \A j \in n + 1 .. Len(local) : j \in DOMAIN local /\ i < j
        BY <1>3
      <4>2. \A j \in n + 1 .. Len(local) : local[i] < local[j]
        BY <1>5, <2>1, <4>1
      <4> QED BY <1>3, <2>1, <4>1, <4>2
    <3>2. local[i] <= made /\ local[i] \notin lost
      BY <1>5, <2>1
    <3> QED BY <1>1, <1>2, <1>4, <3>1, <3>2
  <2>3. \A i, j \in 1 .. n : i < j => local'[i] < local'[j]
    BY <1>4, <1>5, <2>1
  <2> QED BY <1>4, <2>2, <2>3 DEF LogInv
<1>9. CopyInv'
  <2>1. SUFFICES ASSUME ~blind PROVE \A o \in remote : o[1] \in 1 .. n => o[2] = local'[o[1]]
    BY <1>2, <1>4 DEF CopyInv
  <2>2. \A o \in remote : o[1] \in DOMAIN local => o[2] = local[o[1]]
    BY <2>1 DEF NotaryInv, CopyInv
  <2> QED BY <1>3, <1>4, <2>2
<1>10. \A r \in Runs : HoldsLog(r)'
  BY <1>2 DEF HoldsLog
<1> QED BY <1>7, <1>8, <1>9, <1>10 DEF NotaryInv

(***************************************************************************)
(* With one run at a time, NotaryInv holds in every state of the notary.   *)
(***************************************************************************)
LEMMA NotaryInvariant ==
    ASSUME OneRun PROVE NotarySpec => []NotaryInv
<1>1. NotaryInit => NotaryInv
  <2> SUFFICES ASSUME NotaryInit PROVE NotaryInv
    OBVIOUS
  <2>1. \A r \in Runs : run[r] \in RunRecord /\ run[r].pc = "idle"
    BY IdleRun DEF NotaryInit
  <2>2. <<>> \in Seq(1 .. MaxEntries) /\ 0 \in 0 .. MaxEntries
    BY NotaryAssumption
  <2>3. NotaryTypeOK
    BY <2>1, <2>2 DEF NotaryInit, NotaryTypeOK
  <2>4. LogInv /\ CopyInv /\ \A r \in Runs : HoldsLog(r)
    BY <2>1 DEF NotaryInit, LogInv, CopyInv, HoldsLog
  <2> QED BY <2>3, <2>4 DEF NotaryInv
<1>2. NotaryInv /\ [NotaryNext]_notaryVars => NotaryInv'
  <2> SUFFICES ASSUME NotaryInv, [NotaryNext]_notaryVars PROVE NotaryInv'
    OBVIOUS
  <2>1. CASE UNCHANGED notaryVars
    BY <2>1 DEF notaryVars, ghosts, NotaryInv, NotaryTypeOK, LogInv, CopyInv, HoldsLog
  <2>2. ASSUME NEW r \in Runs, Steps(r) \/ Die(r) PROVE NotaryInv'
    BY <2>2, ReadStep, ListStep, AppendStep, PushSteps, DieStep DEF Steps
  <2>3. CASE LoseObject \/ RollBackLocal \/ ChainRewritten
    BY <2>3, LossStep, RollBackStep
  <2> QED BY <2>1, <2>2, <2>3 DEF NotaryNext
<1> QED BY <1>1, <1>2, PTL DEF NotarySpec

\* What HEALTHY says of the seqs.
LEMMA HealthySeqs ==
    ASSUME verify = "HEALTHY" PROVE Seqs(remote) = DOMAIN local
<1>1. ~(local = <<>> \/ Last(local) \in orphaned)
  BY DEF verify
<1> QED BY <1>1 DEF verify

(***************************************************************************)
(* HealthyMeansHeld in every state of the notary: when verify() says       *)
(* HEALTHY, every entry of the log is off-box -- with one run at a time,   *)
(* as launchd starts them, and unless a failed listing hid a rollback.     *)
(***************************************************************************)
THEOREM HealthyHolds ==
    ASSUME OneRun PROVE NotarySpec => []HealthyMeansHeld
<1>1. NotaryInv => HealthyMeansHeld
  <2> SUFFICES ASSUME NotaryInv, verify = "HEALTHY", ~blind, NEW i \in DOMAIN local
               PROVE  \E o \in remote : o[2] = local[i]
    BY DEF HealthyMeansHeld
  <2>1. PICK o \in remote : o[1] = i
    BY HealthySeqs DEF Seqs
  <2> QED BY <2>1 DEF NotaryInv, CopyInv
<1> QED BY <1>1, NotaryInvariant, PTL

(***************************************************************************)
(* RollbackDetected in every state of the notary: while the remote holds   *)
(* an entry that was removed from the log, verify() does not say HEALTHY,  *)
(* with the same two provisos.                                             *)
(***************************************************************************)
THEOREM RollbackShows ==
    ASSUME OneRun PROVE NotarySpec => []RollbackDetected
<1>1. NotaryInv => RollbackDetected
  <2> SUFFICES ASSUME NotaryInv, NEW o \in remote, o[2] \in lost, ~blind, verify = "HEALTHY"
               PROVE  FALSE
    BY DEF RollbackDetected
  <2>1. o[1] \in DOMAIN local
    BY HealthySeqs DEF Seqs
  <2>2. o[2] = local[o[1]] /\ local[o[1]] \notin lost
    BY <2>1 DEF NotaryInv, CopyInv, LogInv
  <2> QED BY <2>2
<1> QED BY <1>1, NotaryInvariant, PTL
=============================================================================
