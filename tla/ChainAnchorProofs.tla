------------------------- MODULE ChainAnchorProofs -------------------------
(***************************************************************************)
(* The anchor never covers a history that did not happen, and verify()     *)
(* neither vouches for a lost record nor cries wolf: for any number of     *)
(* processes and records, in every order of their steps and crashes.       *)
(***************************************************************************)
EXTENDS ChainAnchor, SequenceTheorems, TLAPS

-----------------------------------------------------------------------------
(* The inductive invariant.                                                 *)

\* The records of a chain are distinct and among those ever made.
Distinct(c, n) ==
    /\ \A i \in 1 .. Len(c) : c[i] <= n
    /\ \A i, j \in 1 .. Len(c) : c[i] = c[j] => i = j

(***************************************************************************)
(* A record determines its past: where a covered history and the chain     *)
(* have a record in common, they agree up to it.  This survives a restored *)
(* older copy, where being a prefix does not, and is what makes the tip    *)
(* hash evidence of all that came before.                                  *)
(***************************************************************************)
Agrees(s, c, n) ==
    /\ \A i \in 1 .. Len(s) : s[i] <= n
    /\ \A i \in 1 .. Len(s), j \in 1 .. Len(c) :
          s[i] = c[j] => i = j /\ \A m \in 1 .. i : s[m] = c[m]

Fits(s, c, n, restored) ==
    /\ Agrees(s, c, n)
    /\ ~restored => s = NoAnchor \/ IsPrefix(s, c)

IInv ==
    /\ TypeOK
    /\ Distinct(chain, fresh)
    /\ Fits(anchor, chain, fresh, rolledBack)
    /\ Fits(daemon.snap, chain, fresh, rolledBack)
    /\ daemon.pc = "write" => daemon.snap # NoAnchor
    /\ \A p \in Procs : Fits(proc[p].snap, chain, fresh, rolledBack)
    /\ NoFalseAlarm

-----------------------------------------------------------------------------
(* Chains and what they cover.                                              *)

LEMMA CoveredTypes ==
    /\ Covered \subseteq Seq(Nat) /\ NoAnchor \in Seq(Nat) /\ <<>> \in Covered
    /\ NoAnchor \notin Covered
<1>1. 1 .. MaxRecords \subseteq Nat
  BY BoundAssumption
<1>2. Covered \subseteq Seq(Nat)
  BY <1>1, SeqMonotonic DEF Covered
<1>3. NoAnchor \in Seq(Nat) /\ <<>> \in Covered
  BY DEF NoAnchor, Covered
<1>4. NoAnchor \notin Covered
  <2>1. Len(NoAnchor) = 1 /\ NoAnchor[1] = 0
    BY DEF NoAnchor
  <2>2. ASSUME NEW s \in Seq(1 .. MaxRecords), Len(s) = 1 PROVE s[1] \in 1 .. MaxRecords
    <3>1. 1 \in 1 .. Len(s)
      BY <2>2
    <3> QED BY <3>1, ElementOfSeq
  <2>3. 0 \notin 1 .. MaxRecords
    BY BoundAssumption
  <2> QED BY <2>1, <2>2, <2>3 DEF Covered
<1> QED BY <1>2, <1>3, <1>4

LEMMA PrefixIs ==
    ASSUME NEW s \in Seq(Nat), NEW t \in Seq(Nat)
    PROVE  IsPrefix(s, t) <=> Len(s) <= Len(t) /\ \A i \in 1 .. Len(s) : s[i] = t[i]
<1>1. Len(s) \in Nat /\ Len(t) \in Nat
  OBVIOUS
<1>2. ASSUME Len(s) <= Len(t)
      PROVE  /\ SubSeq(s, 1, Len(s)) = [i \in 1 .. Len(s) |-> s[i]]
             /\ SubSeq(t, 1, Len(s)) = [i \in 1 .. Len(s) |-> t[i]]
  BY <1>1, <1>2
<1>3. ([i \in 1 .. Len(s) |-> s[i]] = [i \in 1 .. Len(s) |-> t[i]])
        <=> \A i \in 1 .. Len(s) : s[i] = t[i]
  OBVIOUS
<1> QED BY <1>2, <1>3 DEF IsPrefix

LEMMA GrownIs ==
    ASSUME NEW c \in Seq(Nat), NEW n \in Nat
    PROVE  /\ Append(c, n) \in Seq(Nat) /\ Len(Append(c, n)) = Len(c) + 1 /\ Len(c) \in Nat
           /\ \A i \in 1 .. Len(c) : Append(c, n)[i] = c[i]
           /\ Append(c, n)[Len(c) + 1] = n
  OBVIOUS

LEMMA GrowKeepsDistinct ==
    ASSUME NEW c \in Seq(Nat), NEW n \in Nat, Distinct(c, n)
    PROVE  Distinct(Append(c, n + 1), n + 1)
<1> DEFINE d == Append(c, n + 1)
<1>1. /\ Len(d) = Len(c) + 1 /\ Len(c) \in Nat
      /\ \A i \in 1 .. Len(c) : d[i] = c[i] /\ c[i] \in Nat /\ c[i] <= n
      /\ d[Len(c) + 1] = n + 1
  BY GrownIs DEF Distinct
<1> HIDE DEF d
<1>2. ASSUME NEW i \in 1 .. Len(d) PROVE i \in 1 .. Len(c) \/ i = Len(c) + 1
  BY <1>1
<1>3. \A i \in 1 .. Len(d) : d[i] <= n + 1
  BY <1>1, <1>2
<1>4. ASSUME NEW i \in 1 .. Len(d), NEW j \in 1 .. Len(d), d[i] = d[j] PROVE i = j
  <2>1. CASE i \in 1 .. Len(c) /\ j \in 1 .. Len(c)
    BY <1>1, <1>4, <2>1 DEF Distinct
  <2>2. CASE i = Len(c) + 1 /\ j \in 1 .. Len(c)
    BY <1>1, <1>4, <2>2
  <2>3. CASE j = Len(c) + 1 /\ i \in 1 .. Len(c)
    BY <1>1, <1>4, <2>3
  <2> QED BY <1>2, <2>1, <2>2, <2>3
<1> QED BY <1>3, <1>4 DEF Distinct, d

\* A new record is in no history that was covered before it was made.
LEMMA GrowKeepsFits ==
    ASSUME NEW c \in Seq(Nat), NEW n \in Nat, NEW s \in Seq(Nat), NEW restored \in BOOLEAN,
           Fits(s, c, n, restored)
    PROVE  Fits(s, Append(c, n + 1), n + 1, restored)
<1> DEFINE d == Append(c, n + 1)
<1>1. /\ d \in Seq(Nat) /\ Len(d) = Len(c) + 1 /\ Len(c) \in Nat /\ Len(s) \in Nat
      /\ \A i \in 1 .. Len(c) : d[i] = c[i]
      /\ d[Len(c) + 1] = n + 1
      /\ \A i \in 1 .. Len(s) : s[i] \in Nat /\ s[i] <= n
  BY GrownIs DEF Fits, Agrees
<1> HIDE DEF d
<1>2. ASSUME NEW i \in 1 .. Len(s), NEW j \in 1 .. Len(d), s[i] = d[j]
      PROVE  i = j /\ \A m \in 1 .. i : s[m] = d[m]
  <2>1. j # Len(c) + 1
    BY <1>1, <1>2
  <2>2. j \in 1 .. Len(c)
    BY <1>1, <2>1
  <2>3. i = j /\ \A m \in 1 .. i : s[m] = c[m]
    BY <1>1, <1>2, <2>2 DEF Fits, Agrees
  <2>4. \A m \in 1 .. i : m \in 1 .. Len(c)
    BY <1>1, <2>2, <2>3
  <2> QED BY <1>1, <2>3, <2>4
<1>3. Agrees(s, d, n + 1)
  BY <1>1, <1>2 DEF Agrees
<1>4. IsPrefix(s, c) => IsPrefix(s, d)
  <2> SUFFICES ASSUME IsPrefix(s, c) PROVE IsPrefix(s, d)
    OBVIOUS
  <2>1. Len(s) <= Len(c) /\ \A i \in 1 .. Len(s) : s[i] = c[i]
    BY PrefixIs
  <2>2. Len(s) <= Len(d) /\ \A i \in 1 .. Len(s) : s[i] = d[i]
    BY <1>1, <2>1
  <2> QED BY <1>1, <2>2, PrefixIs
<1> QED BY <1>3, <1>4 DEF Fits, d

LEMMA CutIs ==
    ASSUME NEW c \in Covered, NEW k \in 0 .. Len(c) - 1
    PROVE  /\ SubSeq(c, 1, k) \in Covered /\ Len(SubSeq(c, 1, k)) = k /\ k \in Nat
           /\ \A i \in 1 .. k : SubSeq(c, 1, k)[i] = c[i] /\ i \in 1 .. Len(c)
<1>1. Len(c) \in Nat /\ c \in Seq(1 .. MaxRecords)
  BY DEF Covered
<1>2. k \in Nat /\ \A i \in 1 .. k : i \in 1 .. Len(c)
  BY <1>1
<1>3. \A i \in 1 .. k : c[i] \in 1 .. MaxRecords
  BY <1>1, <1>2, ElementOfSeq
<1>4. /\ SubSeq(c, 1, k) \in Seq(1 .. MaxRecords)
      /\ Len(SubSeq(c, 1, k)) = IF 1 <= k THEN k - 1 + 1 ELSE 0
      /\ \A i \in 1 .. k - 1 + 1 : SubSeq(c, 1, k)[i] = c[1 + i - 1]
  BY <1>2, <1>3, SubSeqProperties
<1>5. Len(SubSeq(c, 1, k)) = k /\ \A i \in 1 .. k : SubSeq(c, 1, k)[i] = c[i]
  BY <1>2, <1>4
<1> QED BY <1>2, <1>4, <1>5 DEF Covered

\* An older copy agrees with every history the live chain agreed with.
LEMMA CutKeeps ==
    ASSUME NEW c \in Covered, NEW k \in 0 .. Len(c) - 1, NEW n \in Nat
    PROVE  /\ Distinct(c, n) => Distinct(SubSeq(c, 1, k), n)
           /\ \A s \in Seq(Nat), restored \in BOOLEAN :
                Fits(s, c, n, restored) => Fits(s, SubSeq(c, 1, k), n, TRUE)
<1> DEFINE d == SubSeq(c, 1, k)
<1>1. /\ Len(d) = k /\ k \in Nat
      /\ \A i \in 1 .. k : d[i] = c[i] /\ i \in 1 .. Len(c)
  BY CutIs
<1> HIDE DEF d
<1>2. Distinct(c, n) => Distinct(d, n)
  BY <1>1 DEF Distinct
<1>3. ASSUME NEW s \in Seq(Nat), Agrees(s, c, n) PROVE Agrees(s, d, n)
  <2>1. ASSUME NEW i \in 1 .. Len(s), NEW j \in 1 .. Len(d), s[i] = d[j]
        PROVE  i = j /\ \A m \in 1 .. i : s[m] = d[m]
    <3>1. i = j /\ \A m \in 1 .. i : s[m] = c[m]
      BY <1>1, <1>3, <2>1 DEF Agrees
    <3>2. \A m \in 1 .. i : m \in 1 .. k
      BY <1>1, <3>1
    <3> QED BY <1>1, <3>1, <3>2
  <2> QED BY <1>3, <2>1 DEF Agrees
<1> QED BY <1>2, <1>3 DEF Fits, d

LEMMA FitsItself ==
    ASSUME NEW c \in Seq(Nat), NEW n \in Nat, NEW restored \in BOOLEAN, Distinct(c, n)
    PROVE  Fits(c, c, n, restored) /\ Fits(<<>>, c, n, restored)
<1>1. Agrees(c, c, n)
  BY DEF Distinct, Agrees
<1>2. Len(<<>>) = 0 /\ <<>> \in Seq(Nat) /\ Len(c) \in Nat
  OBVIOUS
<1>3. Agrees(<<>>, c, n)
  BY <1>2 DEF Agrees
<1>4. IsPrefix(c, c) /\ IsPrefix(<<>>, c)
  <2>1. IsPrefix(c, c)
    BY <1>2, PrefixIs
  <2>2. Len(<<>>) <= Len(c) /\ \A i \in 1 .. Len(<<>>) : <<>>[i] = c[i]
    BY <1>2
  <2> QED BY <1>2, <2>1, <2>2, PrefixIs
<1> QED BY <1>1, <1>3, <1>4 DEF Fits

-----------------------------------------------------------------------------
(* Steps.                                                                   *)

\* No step of the chain makes a covered history disagree with it.
LEMMA ChainStep ==
    ASSUME IInv, [Next]_vars
    PROVE  /\ chain' \in Covered /\ fresh' \in 0 .. MaxRecords /\ rolledBack' \in BOOLEAN
           /\ Distinct(chain', fresh')
           /\ rolledBack => rolledBack'
           /\ \A s \in Seq(Nat) : Fits(s, chain, fresh, rolledBack)
                                    => Fits(s, chain', fresh', rolledBack')
<1>0. /\ chain \in Covered /\ chain \in Seq(Nat) /\ fresh \in 0 .. MaxRecords /\ fresh \in Nat
      /\ rolledBack \in BOOLEAN /\ Distinct(chain, fresh)
  BY CoveredTypes, BoundAssumption DEF IInv, TypeOK
<1>1. CASE UNCHANGED <<chain, fresh, rolledBack>>
  BY <1>0, <1>1
<1>2. CASE Grow /\ UNCHANGED rolledBack
  <2>1. /\ fresh' = fresh + 1 /\ fresh' \in 1 .. MaxRecords /\ fresh' \in 0 .. MaxRecords
        /\ chain' = Append(chain, fresh + 1)
    BY <1>0, <1>2, BoundAssumption DEF Grow
  <2>2. chain' \in Covered
    BY <1>0, <2>1, AppendProperties DEF Covered
  <2>3. Distinct(chain', fresh')
    BY <1>0, <2>1, GrowKeepsDistinct
  <2>4. \A s \in Seq(Nat) : Fits(s, chain, fresh, rolledBack)
                              => Fits(s, chain', fresh', rolledBack')
    BY <1>0, <1>2, <2>1, GrowKeepsFits
  <2> QED BY <1>0, <1>2, <2>1, <2>2, <2>3, <2>4
<1>3. CASE RollBack
  <2>1. PICK k \in 0 .. Len(chain) - 1 : chain' = SubSeq(chain, 1, k)
    BY <1>3 DEF RollBack
  <2>2. rolledBack' = TRUE /\ fresh' = fresh
    BY <1>3 DEF RollBack
  <2>3. chain' \in Covered
    BY <1>0, <2>1, CutIs
  <2> QED BY <1>0, <2>1, <2>2, <2>3, CutKeeps
<1> QED BY <1>1, <1>2, <1>3 DEF Next, Start, AppendRecord, Signing, Snapshot, Replace, Crash,
          KeylessAppend, Daemon, DaemonRead, DaemonJudge, DaemonSnapshot, DaemonReplace, vars

\* As long as no copy was restored, verify() calls an anchor valid, stale or
\* missing, unless it was signed over the empty chain.
LEMMA NoWolf ==
    ASSUME NEW c \in Seq(Nat), NEW s \in Seq(Nat), IsPrefix(s, c), s # <<>>
    PROVE  verify(c, s) # "replaced"
<1>1. Len(s) \in Nat /\ Len(c) \in Nat /\ Len(s) >= 1
  BY EmptySeq
<1>2. Len(s) <= Len(c) /\ \A i \in 1 .. Len(s) : s[i] = c[i]
  BY PrefixIs
<1>3. Contains(c, Last(s))
  <2>1. Len(s) \in 1 .. Len(c) /\ c[Len(s)] = Last(s)
    BY <1>1, <1>2 DEF Last
  <2> QED BY <2>1 DEF Contains
<1>4. c = s \/ Len(c) > Len(s)
  BY <1>1, <1>2, SeqEqual
<1> QED BY <1>3, <1>4 DEF verify

\* What verify() trusts is there.
LEMMA Trusted ==
    ASSUME NEW c \in Seq(Nat), NEW s \in Seq(Nat), NEW n, Agrees(s, c, n),
           verify(c, s) \in {"valid", "stale"}
    PROVE  IsPrefix(s, c)
<1>0. Len(s) \in Nat /\ Len(c) \in Nat
  OBVIOUS
<1>1. CASE c = s
  BY <1>0, <1>1, PrefixIs
<1>2. CASE s # <<>> /\ Contains(c, Last(s)) /\ Len(c) > Len(s)
  <2>1. Len(s) \in 1 .. Len(s)
    BY <1>0, <1>2, EmptySeq
  <2>2. PICK j \in 1 .. Len(c) : c[j] = s[Len(s)]
    BY <1>2 DEF Contains, Last
  <2>3. \A m \in 1 .. Len(s) : s[m] = c[m]
    BY <2>1, <2>2 DEF Agrees
  <2> QED BY <1>0, <1>2, <2>3, PrefixIs
<1> QED BY <1>1, <1>2 DEF verify

LEMMA TypeStep == ASSUME IInv, [Next]_vars PROVE TypeOK'
<1>0. /\ chain \in Covered /\ <<>> \in Covered /\ anchor \in Covered \cup {NoAnchor}
      /\ \A p \in Procs : proc[p] \in ProcRecord /\ proc[p].snap \in Covered
      /\ daemon \in DaemonRecord /\ daemon.snap \in Covered \cup {NoAnchor}
      /\ daemon.pc = "write" => daemon.snap \in Covered
      /\ proc \in [Procs -> ProcRecord] /\ report \in ReportRecord
  BY CoveredTypes DEF IInv, TypeOK, ProcRecord, DaemonRecord
<1>1. chain' \in Covered /\ fresh' \in 0 .. MaxRecords /\ rolledBack' \in BOOLEAN
  BY ChainStep
<1>2. anchor' \in Covered \cup {NoAnchor}
  BY <1>0 DEF Next, Start, AppendRecord, Signing, Snapshot, Replace, Crash, KeylessAppend, RollBack,
              Daemon, DaemonRead, DaemonJudge, DaemonSnapshot, DaemonReplace, vars
<1>3. proc' \in [Procs -> ProcRecord]
  <2>1. ASSUME NEW p \in Procs, NEW c \in {"down", "up", "sign", "write"}, NEW s \in Covered
        PROVE  [proc EXCEPT ![p] = [pc |-> c, snap |-> s]] \in [Procs -> ProcRecord]
    <3>1. [pc |-> c, snap |-> s] \in ProcRecord
      BY DEF ProcRecord
    <3> QED BY <1>0, <3>1
  <2>2. ASSUME NEW p \in Procs
        PROVE  [proc EXCEPT ![p].pc = "sign"]
                 = [proc EXCEPT ![p] = [pc |-> "sign", snap |-> proc[p].snap]]
    <3>1. [proc[p] EXCEPT !.pc = "sign"] = [pc |-> "sign", snap |-> proc[p].snap]
      BY <1>0 DEF ProcRecord
    <3> QED BY <3>1
  <2>3. ASSUME NEW p \in Procs, Start(p) \/ AppendRecord(p) \/ Signing(p) \/ Crash(p)
        PROVE  \E c \in {"down", "up", "sign", "write"}, s \in Covered :
                  proc' = [proc EXCEPT ![p] = [pc |-> c, snap |-> s]]
    BY <1>0, <2>2, <2>3 DEF Start, AppendRecord, Signing, Snapshot, Replace, Crash, Idle
  <2>4. proc' = proc \/ \E p \in Procs : Start(p) \/ AppendRecord(p) \/ Signing(p) \/ Crash(p)
    BY DEF Next, KeylessAppend, RollBack, Daemon, DaemonRead, DaemonJudge, DaemonSnapshot,
           DaemonReplace, vars
  <2> QED BY <1>0, <2>1, <2>3, <2>4
<1>4. daemon' \in DaemonRecord
  <2>1. ASSUME NEW c \in {"idle", "judge", "sign", "write", "signed", "rejudge"},
               NEW s \in Covered \cup {NoAnchor}
        PROVE  [pc |-> c, snap |-> s] \in DaemonRecord
    BY DEF DaemonRecord
  <2>2. CASE Daemon
    BY <1>0, <2>1, <2>2 DEF Daemon, DaemonRead, DaemonJudge, DaemonSnapshot, DaemonReplace, Idle
  <2>3. CASE daemon' = daemon
    BY <1>0, <2>3
  <2> QED BY <2>2, <2>3 DEF Next, Start, AppendRecord, Signing, Snapshot, Replace, Crash,
            KeylessAppend, RollBack, vars
<1>5. report' \in ReportRecord
  <2>1. Verdict \in ReportRecord
    <3>1. verify(chain, daemon.snap) \in {"missing", "valid", "stale", "replaced"}
      BY DEF verify
    <3> QED BY <1>0, <3>1 DEF Verdict, ReportRecord
  <2>2. report' = report \/ report' = Verdict
    BY DEF Next, Start, AppendRecord, Signing, Snapshot, Replace, Crash, KeylessAppend, RollBack,
           Daemon, DaemonRead, DaemonJudge, DaemonSnapshot, DaemonReplace, vars
  <2> QED BY <1>0, <2>1, <2>2
<1> QED BY <1>1, <1>2, <1>3, <1>4, <1>5 DEF TypeOK

LEMMA InvStep == ASSUME IInv, [Next]_vars PROVE IInv'
<1>0. /\ TypeOK' /\ Distinct(chain', fresh') /\ fresh' \in Nat /\ rolledBack' \in BOOLEAN
      /\ rolledBack => rolledBack'
      /\ chain \in Covered /\ chain' \in Covered /\ chain' \in Seq(Nat) /\ chain \in Seq(Nat)
      /\ anchor \in Seq(Nat) /\ daemon.snap \in Seq(Nat) /\ proc \in [Procs -> ProcRecord]
      /\ \A p \in Procs : proc[p] \in ProcRecord /\ proc[p].snap \in Seq(Nat)
  <2>1. TypeOK' /\ Distinct(chain', fresh') /\ (rolledBack => rolledBack')
    BY ChainStep, TypeStep
  <2>2. fresh' \in Nat /\ rolledBack' \in BOOLEAN /\ chain' \in Covered
    BY <2>1, BoundAssumption DEF TypeOK
  <2>3. /\ chain \in Covered /\ anchor \in Covered \cup {NoAnchor}
        /\ daemon.snap \in Covered \cup {NoAnchor} /\ proc \in [Procs -> ProcRecord]
        /\ \A p \in Procs : proc[p] \in ProcRecord /\ proc[p].snap \in Covered
    BY DEF IInv, TypeOK, ProcRecord, DaemonRecord
  <2> QED BY <2>1, <2>2, <2>3, CoveredTypes
<1> DEFINE F(s) == Fits(s, chain', fresh', rolledBack')
<1>1. \A s \in Seq(Nat) : Fits(s, chain, fresh, rolledBack) => F(s)
  BY ChainStep
<1>2. F(anchor) /\ F(daemon.snap) /\ (\A p \in Procs : F(proc[p].snap)) /\ F(<<>>)
  BY <1>0, <1>1, FitsItself DEF IInv
<1>3. chain' = chain => F(chain)
  BY <1>0, FitsItself
<1> HIDE DEF F
<1>4. F(anchor')
  <2>1. anchor' = anchor \/ anchor' = daemon.snap \/ \E p \in Procs : anchor' = proc[p].snap
    BY DEF Next, Start, AppendRecord, Signing, Snapshot, Replace, Crash, KeylessAppend, RollBack,
           Daemon, DaemonRead, DaemonJudge, DaemonSnapshot, DaemonReplace, vars
  <2> QED BY <1>2, <2>1
<1>5. F(daemon'.snap) /\ (daemon'.pc = "write" => daemon'.snap # NoAnchor)
  <2>1. CASE daemon' = daemon
    BY <1>2, <2>1 DEF IInv
  <2>2. CASE DaemonRead
    BY <1>2, <2>2 DEF DaemonRead
  <2>3. CASE DaemonJudge \/ DaemonReplace
    BY <1>2, <2>3 DEF DaemonJudge, DaemonReplace, Idle
  <2>4. CASE DaemonSnapshot
    <3>1. daemon' = [pc |-> "write", snap |-> chain] /\ chain' = chain
      BY <2>4 DEF DaemonSnapshot
    <3> QED BY <1>0, <1>3, <3>1, CoveredTypes
  <2> QED BY <2>1, <2>2, <2>3, <2>4 DEF Next, Start, AppendRecord, Signing, Snapshot, Replace,
            Crash, KeylessAppend, RollBack, Daemon, vars
<1>6. ASSUME NEW p \in Procs PROVE F(proc'[p].snap)
  <2>1. \/ proc'[p] = proc[p] \/ proc'[p].snap = proc[p].snap \/ proc'[p].snap = <<>>
        \/ proc'[p].snap = chain /\ chain' = chain
    <3>1. CASE proc' = proc
      BY <3>1
    <3>2. ASSUME NEW q \in Procs, Start(q) \/ Replace(q) \/ Crash(q)
          PROVE  proc'[p] = proc[p] \/ proc'[p].snap = <<>>
      BY <1>0, <3>2 DEF Start, Replace, Crash, Idle
    <3>3. ASSUME NEW q \in Procs, Snapshot(q)
          PROVE  proc'[p] = proc[p] \/ (proc'[p].snap = chain /\ chain' = chain)
      BY <1>0, <3>3 DEF Snapshot
    <3>4. ASSUME NEW q \in Procs, AppendRecord(q)
          PROVE  proc'[p] = proc[p] \/ proc'[p].snap = proc[p].snap
      <4>1. proc' = [proc EXCEPT ![q].pc = "sign"]
        BY <3>4 DEF AppendRecord
      <4> QED BY <1>0, <4>1 DEF ProcRecord
    <3> QED BY <3>1, <3>2, <3>3, <3>4 DEF Next, Signing, KeylessAppend, RollBack, Daemon,
              DaemonRead, DaemonJudge, DaemonSnapshot, DaemonReplace, vars
  <2> QED BY <1>2, <1>3, <2>1
<1>7. NoFalseAlarm'
  <2>1. CASE report' = report
    BY <1>0, <2>1 DEF IInv, NoFalseAlarm
  <2>2. CASE report' = Verdict /\ UNCHANGED <<chain, rolledBack>>
    <3> SUFFICES ASSUME ~rolledBack, verify(chain, daemon.snap) = "replaced"
                 PROVE  daemon.snap = <<>>
      BY <2>2 DEF NoFalseAlarm, Verdict
    <3>1. daemon.snap # NoAnchor
      BY DEF verify
    <3>2. IsPrefix(daemon.snap, chain)
      BY <3>1 DEF IInv, Fits
    <3> QED BY <1>0, <3>2, NoWolf
  <2> QED BY <2>1, <2>2 DEF Next, Start, AppendRecord, Signing, Snapshot, Replace, Crash,
            KeylessAppend, RollBack, Daemon, DaemonRead, DaemonJudge, DaemonSnapshot,
            DaemonReplace, vars
<1> QED BY <1>0, <1>4, <1>5, <1>6, <1>7 DEF IInv, F

LEMMA InitHolds == Init => IInv
<1> SUFFICES ASSUME Init PROVE IInv
  OBVIOUS
<1>1. TypeOK
  <2>1. \A c \in {"down", "up", "sign", "write"} : [pc |-> c, snap |-> <<>>] \in ProcRecord
    BY CoveredTypes DEF ProcRecord
  <2>2. /\ [pc |-> "idle", snap |-> <<>>] \in DaemonRecord
        /\ [verdict |-> "none", anchor |-> NoAnchor] \in ReportRecord
    BY CoveredTypes DEF DaemonRecord, ReportRecord
  <2>3. 0 \in 0 .. MaxRecords
    BY BoundAssumption
  <2> QED BY <2>1, <2>2, <2>3, CoveredTypes DEF Init, TypeOK, Idle
<1>2. Len(chain) = 0 /\ chain = <<>> /\ fresh = 0 /\ chain \in Seq(Nat)
  BY DEF Init
<1>3. Distinct(chain, fresh)
  BY <1>2 DEF Distinct
<1>4. Fits(<<>>, chain, fresh, rolledBack)
  BY <1>1, <1>2, <1>3, FitsItself DEF TypeOK
<1>5. Fits(NoAnchor, chain, fresh, rolledBack)
  <2>1. Len(NoAnchor) = 1 /\ NoAnchor[1] = 0
    BY DEF NoAnchor
  <2> QED BY <1>2, <2>1 DEF Fits, Agrees
<1>6. NoFalseAlarm
  BY DEF Init, NoFalseAlarm
<1> QED BY <1>1, <1>3, <1>4, <1>5, <1>6 DEF Init, IInv, Idle

-----------------------------------------------------------------------------
(* The theorems.                                                            *)

\* The invariant holds of every reachable state of the anchored chain.
THEOREM AnchorInvariant == Spec => []IInv
<1>1. IInv /\ [Next]_vars => IInv'
  BY InvStep
<1> QED BY <1>1, InitHolds, PTL DEF Spec

\* Every anchor, and every signed snapshot on its way to the file, covers a
\* prefix of the chain (_snapshot(), _sign() and os.replace() of ChainAnchor).
THEOREM AnchorsHold == Spec => []AnchorsAPrefix
<1>1. IInv => AnchorsAPrefix
  <2> SUFFICES ASSUME IInv, ~rolledBack, NEW s \in Snaps \cup ({anchor} \ {NoAnchor})
               PROVE  IsPrefix(s, chain)
    BY DEF AnchorsAPrefix
  <2>1. CASE s = anchor /\ s # NoAnchor
    BY <2>1 DEF IInv, Fits
  <2>2. CASE s = daemon.snap /\ daemon.pc = "write"
    BY <2>2 DEF IInv, Fits
  <2>3. ASSUME NEW p \in Procs, s = proc[p].snap PROVE IsPrefix(s, chain)
    <3>1. proc[p].snap \in Covered
      BY DEF IInv, TypeOK, ProcRecord
    <3> QED BY <2>3, <3>1, CoveredTypes DEF IInv, Fits
  <2> QED BY <2>1, <2>2, <2>3 DEF Snaps
<1> QED BY <1>1, AnchorInvariant, PTL

\* verify() never vouches for a chain that lost an anchored record, even after
\* an older copy was put in place and new records were appended to it.
THEOREM TrustHolds == Spec => []NoFalseTrust
<1>1. IInv => NoFalseTrust
  <2> SUFFICES ASSUME IInv, verify(chain, anchor) \in {"valid", "stale"}
               PROVE  IsPrefix(anchor, chain)
    BY DEF NoFalseTrust
  <2>1. chain \in Seq(Nat) /\ anchor \in Seq(Nat)
    BY CoveredTypes DEF IInv, TypeOK
  <2>2. Agrees(anchor, chain, fresh)
    BY DEF IInv, Fits
  <2> QED BY <2>1, <2>2, Trusted
<1> QED BY <1>1, AnchorInvariant, PTL

\* The daemon reports a replacement only after one (_verify_daemon, verify()).
THEOREM AlarmHolds == Spec => []NoFalseAlarm
<1>1. IInv => NoFalseAlarm
  BY DEF IInv
<1> QED BY <1>1, AnchorInvariant, PTL

=============================================================================
