---------------------------- MODULE ChainAnchor ----------------------------
(***************************************************************************)
(* The external anchor of the audit chain (msb_ledger/chain_anchor.py):    *)
(* several processes append through AnchoredAuditChain, which commits the  *)
(* record and then, in further steps, takes a snapshot of the chain, signs *)
(* it and replaces the anchor file.  A daemon verifies the anchor and may  *)
(* re-sign a stale one.  Processes die between any two steps, and an older *)
(* copy of the database may be put in place of the live one.               *)
(*                                                                         *)
(* A record is its hash, a fresh number; the chain is the sequence of its  *)
(* hashes.  AuditChain shows that appends are atomic and never fork, so an *)
(* append is one step here.  A snapshot is the sequence it covers: seq,    *)
(* tip hash, fingerprint and Merkle root are functions of it.  Signatures  *)
(* and keys are in AnchorKeys.                                             *)
(***************************************************************************)
EXTENDS Integers, Sequences, SequencesExt

CONSTANTS
    Procs,         \* processes holding an AnchoredAuditChain
    Escape,        \* TRUE when a bare AuditChain() has MSB_ALLOW_KEYLESS_APPENDS=1
    MaxRecords     \* bound: records ever appended

ASSUME BoundAssumption == MaxRecords \in Nat
ASSUME FlagAssumption == Escape \in BOOLEAN

VARIABLES
    chain,       \* hashes of the live chain
    fresh,       \* hashes used so far
    anchor,      \* the anchor file: the covered chain, or NoAnchor
    proc,        \* process -> [pc, snap]
    daemon,      \* the verify daemon: [pc, snap]
    report,      \* what the daemon last reported: [verdict, anchor]
    rolledBack   \* an older copy was put in place (auxiliary)

vars == <<chain, fresh, anchor, proc, daemon, report, rolledBack>>

NoAnchor == <<0>>     \* no record has hash 0

Idle(p) == [pc |-> p, snap |-> <<>>]

\* Slip: a longer chain is taken for a grown one.
VerifyByLength(live, anchored) ==
    CASE anchored = NoAnchor -> "missing"
      [] live = anchored -> "valid"
      [] OTHER -> IF Len(live) > Len(anchored) THEN "stale" ELSE "replaced"

\* Slip: a stale anchor is not told apart from a replaced database.
VerifyNoStale(live, anchored) ==
    CASE anchored = NoAnchor -> "missing"
      [] live = anchored -> "valid"
      [] OTHER -> "replaced"

\* verify(): the verdict on a live chain against an anchor, once the key and
\* the signature are accepted.
verify(live, anchored) ==
    CASE anchored = NoAnchor -> "missing"
      [] live = anchored -> "valid"
      [] OTHER ->
           IF anchored # <<>> /\ Contains(live, Last(anchored)) /\ Len(live) > Len(anchored)
           THEN "stale" ELSE "replaced"

Init ==
    /\ chain = <<>>
    /\ fresh = 0
    /\ anchor = NoAnchor
    /\ proc = [p \in Procs |-> Idle("down")]
    /\ daemon = Idle("idle")
    /\ report = [verdict |-> "none", anchor |-> NoAnchor]
    /\ rolledBack = FALSE

Grow ==
    /\ fresh < MaxRecords
    /\ fresh' = fresh + 1
    /\ chain' = Append(chain, fresh + 1)

-----------------------------------------------------------------------------
(* AnchoredAuditChain.  pc: "up" is ready, "sign" must re-anchor, "write"   *)
(* holds a signed snapshot to be written.                                   *)

\* The constructor signs a first anchor only if there is none.
Start(p) ==
    /\ proc[p].pc = "down"
    /\ proc' = [proc EXCEPT ![p] = Idle(IF anchor = NoAnchor THEN "sign" ELSE "up")]
    /\ UNCHANGED <<chain, fresh, anchor, daemon, report, rolledBack>>

\* Slip: the record is anchored before it is committed, and the commit fails.
AppendAnchorsFirst(p) ==
    /\ proc[p].pc = "up"
    /\ fresh < MaxRecords
    /\ fresh' = fresh + 1
    /\ proc' = [proc EXCEPT ![p] = [pc |-> "write", snap |-> Append(chain, fresh + 1)]]
    /\ UNCHANGED <<chain, anchor, daemon, report, rolledBack>>

\* append(): the inner chain commits the record ...
AppendRecord(p) ==
    /\ proc[p].pc = "up"
    /\ Grow
    /\ proc' = [proc EXCEPT ![p].pc = "sign"]
    /\ UNCHANGED <<anchor, daemon, report, rolledBack>>

\* ... then _snapshot() reads the whole chain once and _sign() signs it ...
Snapshot(p) ==
    /\ proc[p].pc = "sign"
    /\ proc' = [proc EXCEPT ![p] = [pc |-> "write", snap |-> chain]]
    /\ UNCHANGED <<chain, fresh, anchor, daemon, report, rolledBack>>

\* ... and os.replace() puts the file in place, whatever it held.
Replace(p) ==
    /\ proc[p].pc = "write"
    /\ anchor' = proc[p].snap
    /\ proc' = [proc EXCEPT ![p] = Idle("up")]
    /\ UNCHANGED <<chain, fresh, daemon, report, rolledBack>>

Crash(p) ==
    /\ proc[p].pc # "down"
    /\ proc' = [proc EXCEPT ![p] = Idle("down")]
    /\ UNCHANGED <<chain, fresh, anchor, daemon, report, rolledBack>>

\* A bare AuditChain() appends: refused once an anchor covers the chain,
\* except through the escape hatch.
KeylessAppend ==
    /\ anchor = NoAnchor \/ Escape
    /\ Grow
    /\ UNCHANGED <<anchor, proc, daemon, report, rolledBack>>

\* The database file is replaced by an older copy of itself.
RollBack ==
    /\ ~rolledBack
    /\ \E n \in 0 .. Len(chain) - 1 : chain' = SubSeq(chain, 1, n)
    /\ rolledBack' = TRUE
    /\ UNCHANGED <<fresh, anchor, proc, daemon, report>>

-----------------------------------------------------------------------------
(* _verify_daemon --auto-anchor, one launchd run at a time: verify(), which *)
(* reads the anchor file and then the chain, and for a stale anchor a       *)
(* re-sign and a second verify().                                           *)

DaemonRead ==
    /\ daemon.pc \in {"idle", "signed"}
    /\ daemon' = [pc |-> IF daemon.pc = "idle" THEN "judge" ELSE "rejudge", snap |-> anchor]
    /\ UNCHANGED <<chain, fresh, anchor, proc, report, rolledBack>>

Verdict == [verdict |-> verify(chain, daemon.snap), anchor |-> daemon.snap]

\* Slip: without --auto-anchor a stale anchor is only reported.
DaemonOnlyReports ==
    /\ daemon.pc \in {"judge", "rejudge"}
    /\ daemon' = Idle("idle")
    /\ report' = Verdict
    /\ UNCHANGED <<chain, fresh, anchor, proc, rolledBack>>

\* Only a stale anchor is re-signed, and once a run; every other verdict, and
\* every second one, is reported.
DaemonJudge ==
    /\ daemon.pc \in {"judge", "rejudge"}
    /\ IF Verdict.verdict = "stale" /\ daemon.pc = "judge"
       THEN daemon' = Idle("sign") /\ UNCHANGED report
       ELSE daemon' = Idle("idle") /\ report' = Verdict
    /\ UNCHANGED <<chain, fresh, anchor, proc, rolledBack>>

DaemonSnapshot ==
    /\ daemon.pc = "sign"
    /\ daemon' = [pc |-> "write", snap |-> chain]
    /\ UNCHANGED <<chain, fresh, anchor, proc, report, rolledBack>>

DaemonReplace ==
    /\ daemon.pc = "write"
    /\ anchor' = daemon.snap
    /\ daemon' = Idle("signed")
    /\ UNCHANGED <<chain, fresh, proc, report, rolledBack>>

Signing(p) == Snapshot(p) \/ Replace(p)
Daemon == DaemonRead \/ DaemonJudge \/ DaemonSnapshot \/ DaemonReplace

Next ==
    \/ \E p \in Procs : Start(p) \/ AppendRecord(p) \/ Signing(p) \/ Crash(p)
    \/ KeylessAppend
    \/ RollBack
    \/ Daemon

Spec == Init /\ [][Next]_vars

\* A live process finishes the append it began, and launchd keeps running the
\* daemon; nothing makes anyone append, start, crash or restore.
FairSpec == Spec /\ WF_vars(Daemon) /\ \A p \in Procs : WF_vars(Signing(p))

-----------------------------------------------------------------------------
Covered == Seq(1 .. MaxRecords)      \* what a signed snapshot may cover

ProcRecord == [pc : {"down", "up", "sign", "write"}, snap : Covered]
DaemonRecord == [pc : {"idle", "judge", "sign", "write", "signed", "rejudge"},
                 snap : Covered \cup {NoAnchor}]
ReportRecord == [verdict : {"none", "missing", "valid", "stale", "replaced"},
                 anchor : Covered \cup {NoAnchor}]

TypeOK ==
    /\ chain \in Covered
    /\ fresh \in 0 .. MaxRecords
    /\ anchor \in Covered \cup {NoAnchor}
    /\ proc \in [Procs -> ProcRecord]
    /\ daemon \in DaemonRecord
    /\ report \in ReportRecord
    /\ rolledBack \in BOOLEAN

Snaps == {proc[p].snap : p \in {q \in Procs : proc[q].pc = "write"}}
           \cup (IF daemon.pc = "write" THEN {daemon.snap} ELSE {})

(***************************************************************************)
(* As long as no older copy was put in place, every anchor and every       *)
(* signed snapshot about to become one covers a prefix of the live chain,  *)
(* however late it is written: no interleaving of appenders and daemon     *)
(* anchors a history that did not happen.                                  *)
(***************************************************************************)
AnchorsAPrefix ==
    ~rolledBack => \A s \in Snaps \cup ({anchor} \ {NoAnchor}) : IsPrefix(s, chain)

(***************************************************************************)
(* verify() never vouches for a chain that lost an anchored record: a      *)
(* verdict of valid, or of a benign stale anchor that the daemon would     *)
(* re-sign, implies the anchored history is still there in place.          *)
(***************************************************************************)
NoFalseTrust ==
    verify(chain, anchor) \in {"valid", "stale"} => IsPrefix(anchor, chain)

(***************************************************************************)
(* The daemon does not cry wolf: it reports "whole-DB replacement or       *)
(* rollback detected" only if an older copy was put in place               *)
(* (chain_anchor.py 628-632: STALE and REPLACEMENT are told apart), or if  *)
(* the anchor was signed over an empty chain: its tip of 64 zeros is in no *)
(* chain, so the first record looks like a replacement.                    *)
(***************************************************************************)
NoFalseAlarm ==
    report.verdict = "replaced" => rolledBack \/ report.anchor = <<>>

(***************************************************************************)
(* With the daemon running, an anchor left behind by a crash or by a late  *)
(* writer is re-signed: once appends stop, the anchor covers the chain for *)
(* good.  Only a restored older copy, and an anchor signed over an empty   *)
(* chain, are left for the operator.                                       *)
(***************************************************************************)
EventuallyAnchored ==
    <>[](\/ verify(chain, anchor) \in {"valid", "missing"}
         \/ rolledBack
         \/ anchor = <<>>)
=============================================================================
