------------------------------- MODULE Notary -------------------------------
(***************************************************************************)
(* The off-box notary (msb_ledger/notary.py): each notarize() run reads    *)
(* the local log, lists the remote objects, appends one signed entry to    *)
(* the log, pushes it as an object of its own and backfills the older      *)
(* entries the remote lacked when it was listed.  Pushes fail, listings    *)
(* fail, runs die and overlap, the remote loses objects, the local log is  *)
(* put back to an older copy, and a repair of the audit chain removes the  *)
(* tips that older entries cover.                                          *)
(*                                                                         *)
(* An entry is a fresh number, standing for its notarized_at and its       *)
(* signed anchor.  An object is named by its seq and its entry's time, so  *)
(* it is the pair of the two.                                              *)
(***************************************************************************)
EXTENDS Integers, Sequences, FiniteSets, FiniteSetsExt, SequencesExt

CONSTANTS
    Runs,           \* notarize() calls that may overlap
    MaxEntries      \* bound: entries ever made

ASSUME NotaryAssumption == MaxEntries \in Nat

VARIABLES
    local,      \* the local JSONL: entries in order
    remote,     \* objects on the remote: <<seq, entry>>
    run,        \* run -> [pc, entries, seqs, entry, todo]
    made,       \* entries made so far
    lost,       \* entries a rollback removed from the local log (auxiliary)
    orphaned,   \* entries whose tip is no longer in the live chain
    lossy,      \* an object, a log entry or a chain tip was lost (auxiliary)
    blind       \* a failed listing hid a remote ahead of the log (auxiliary)

ghosts == <<lossy, blind>>
notaryVars == <<local, remote, run, made, lost, orphaned, ghosts>>

Seqs(objects) == {o[1] : o \in objects}

\* verify() reads, of several objects with one seq, the one named last.
EntryAt(s) == Max({o[2] : o \in {x \in remote : x[1] = s}})

\* Slip: entries the remote knows and the log lacks are not looked at.
VerifyNoExtra ==
    CASE local = <<>> \/ Last(local) \in orphaned -> "LOCAL_INVALID"
      [] remote = {} -> "REMOTE_UNREACHABLE"
      [] \E s \in Seqs(remote) : EntryAt(s) \in orphaned -> "REMOTE_INVALID"
      [] ~(DOMAIN local \subseteq Seqs(remote)) -> "REMOTE_BEHIND"
      [] OTHER -> "HEALTHY"

\* Slip: only the newest remote entry is compared.
VerifyHeadOnly ==
    CASE local = <<>> \/ Last(local) \in orphaned -> "LOCAL_INVALID"
      [] remote = {} -> "REMOTE_UNREACHABLE"
      [] \E s \in Seqs(remote) : EntryAt(s) \in orphaned -> "REMOTE_INVALID"
      [] Max(Seqs(remote)) > Len(local) -> "DIVERGED"
      [] Max(Seqs(remote)) < Len(local) -> "REMOTE_BEHIND"
      [] OTHER -> "HEALTHY"

verify ==
    CASE local = <<>> \/ Last(local) \in orphaned -> "LOCAL_INVALID"
      [] remote = {} -> "REMOTE_UNREACHABLE"
      [] \E s \in Seqs(remote) : EntryAt(s) \in orphaned -> "REMOTE_INVALID"
      [] ~(Seqs(remote) \subseteq DOMAIN local) -> "DIVERGED"
      [] ~(DOMAIN local \subseteq Seqs(remote)) -> "REMOTE_BEHIND"
      [] OTHER -> "HEALTHY"

Idle == [pc |-> "idle", entries |-> <<>>, seqs |-> {}, entry |-> 0, todo |-> {}]

NotaryInit ==
    /\ local = <<>>
    /\ remote = {}
    /\ run = [r \in Runs |-> Idle]
    /\ made = 0
    /\ lost = {}
    /\ orphaned = {}
    /\ lossy = FALSE
    /\ blind = FALSE

-----------------------------------------------------------------------------
(* notarize()                                                               *)

ReadLocal(r) ==
    /\ run[r].pc = "idle"
    /\ made < MaxEntries
    /\ run' = [run EXCEPT ![r] = [Idle EXCEPT !.pc = "list", !.entries = local]]
    /\ UNCHANGED <<local, remote, made, lost, orphaned, ghosts>>

\* The rollback guard: a remote ahead of the log raises NotaryDiverged.
ListRemote(r, seqs) ==
    /\ run[r].pc = "list"
    /\ run' = [run EXCEPT ![r] = IF \E s \in seqs : s > Len(run[r].entries) THEN Idle
                                 ELSE [run[r] EXCEPT !.pc = "append", !.seqs = seqs]]
    /\ UNCHANGED <<local, remote, made, lost, orphaned, lossy>>

ListOk(r) == ListRemote(r, Seqs(remote)) /\ UNCHANGED blind

\* A failed rclone lsf reads as an empty remote.
ListFails(r) ==
    /\ ListRemote(r, {})
    /\ blind' = (blind \/ \E s \in Seqs(remote) : s > Len(run[r].entries))

\* The entry is stamped and appended; this must succeed.
AppendLocal(r) ==
    /\ run[r].pc = "append"
    /\ made < MaxEntries
    /\ made' = made + 1
    /\ local' = Append(local, made + 1)
    /\ run' = [run EXCEPT ![r].pc = "push", ![r].entry = made + 1]
    /\ UNCHANGED <<remote, lost, orphaned, ghosts>>

Older(r) == (1 .. Len(run[r].entries)) \ run[r].seqs

AfterPush(r, todo) == IF todo = {} THEN Idle ELSE [run[r] EXCEPT !.pc = "backfill", !.todo = todo]

\* Pushed as seq len(entries) + 1, of the entries read at the start.
Push(r) ==
    /\ run[r].pc = "push"
    /\ remote' = remote \cup {<<Len(run[r].entries) + 1, run[r].entry>>}
    /\ run' = [run EXCEPT ![r] = AfterPush(r, Older(r))]
    /\ UNCHANGED <<local, made, lost, orphaned, ghosts>>

\* Slip: the entries of failed pushes are not caught up.
BackfillNothing(r) ==
    /\ run[r].pc = "backfill"
    /\ run' = [run EXCEPT ![r] = Idle]
    /\ UNCHANGED <<local, remote, made, lost, orphaned, ghosts>>

Backfill(r) ==
    LET s == Min(run[r].todo)
    IN  /\ run[r].pc = "backfill"
        /\ remote' = remote \cup {<<s, run[r].entries[s]>>}
        /\ run' = [run EXCEPT ![r] = AfterPush(r, run[r].todo \ {s})]
        /\ UNCHANGED <<local, made, lost, orphaned, ghosts>>

(* What goes wrong.  The bound on entries is also where failures end, so    *)
(* that the last run is one that succeeds.                                  *)
Room == made < MaxEntries

PushFails(r) ==
    /\ Room
    /\ run[r].pc = "push"
    /\ run' = [run EXCEPT ![r] = AfterPush(r, Older(r))]
    /\ UNCHANGED <<local, remote, made, lost, orphaned, ghosts>>

BackfillFails(r) ==
    /\ Room
    /\ run[r].pc = "backfill"
    /\ run' = [run EXCEPT ![r] = AfterPush(r, run[r].todo \ {Min(run[r].todo)})]
    /\ UNCHANGED <<local, remote, made, lost, orphaned, ghosts>>

\* The run dies, or raises (unreachable remote, no timestamp).
Die(r) ==
    /\ Room
    /\ run[r].pc # "idle"
    /\ run' = [run EXCEPT ![r] = Idle]
    /\ UNCHANGED <<local, remote, made, lost, orphaned, ghosts>>

\* The remote loses an object.
LoseObject ==
    /\ \E o \in remote : remote' = remote \ {o}
    /\ lossy' = TRUE
    /\ UNCHANGED <<local, run, made, lost, orphaned, blind>>

\* Between two runs the log is put back to an older copy.
RollBackLocal ==
    /\ \A r \in Runs : run[r] = Idle
    /\ \E n \in 0 .. Len(local) - 1 :
          /\ local' = SubSeq(local, 1, n)
          /\ lost' = lost \cup {local[i] : i \in n + 1 .. Len(local)}
    /\ lossy' = TRUE
    /\ UNCHANGED <<remote, run, made, orphaned, blind>>

\* AuditChain.repair() re-hashes the chain from some record on.
ChainRewritten ==
    /\ \E n \in 1 .. made : orphaned' = orphaned \cup (n .. made)
    /\ lossy' = TRUE
    /\ UNCHANGED <<local, remote, run, made, lost, blind>>

Steps(r) ==
    \/ ReadLocal(r) \/ ListOk(r) \/ ListFails(r) \/ AppendLocal(r)
    \/ Push(r) \/ PushFails(r) \/ Backfill(r) \/ BackfillFails(r)

NotaryNext ==
    \/ \E r \in Runs : Steps(r) \/ Die(r)
    \/ LoseObject
    \/ RollBackLocal
    \/ ChainRewritten

NotarySpec == NotaryInit /\ [][NotaryNext]_notaryVars

\* launchd starts the notary job again and again, a run that does not die comes
\* to its end, and not every run dies before it has written its entry.
NotaryFairSpec ==
    /\ NotarySpec
    /\ \A r \in Runs : WF_notaryVars(Steps(r)) /\ SF_notaryVars(ListOk(r)) /\ SF_notaryVars(AppendLocal(r))

-----------------------------------------------------------------------------
RunRecord == [pc : {"idle", "list", "append", "push", "backfill"},
              entries : Seq(1 .. MaxEntries), seqs : SUBSET Nat, entry : 0 .. MaxEntries,
              todo : SUBSET Nat]

NotaryTypeOK ==
    /\ local \in Seq(1 .. MaxEntries)
    /\ remote \in SUBSET (Nat \X (1 .. MaxEntries))
    /\ run \in [Runs -> RunRecord]
    /\ made \in 0 .. MaxEntries
    /\ lost \cup orphaned \subseteq 1 .. made
    /\ lossy \in BOOLEAN /\ blind \in BOOLEAN

(***************************************************************************)
(* "Local and remote notary histories agree" (the HEALTHY detail): when    *)
(* verify() says HEALTHY every entry of the local log is held off-box,     *)
(* whichever pushes failed and whatever was backfilled or lost -- unless   *)
(* a run once took a failed listing for an empty remote while the remote   *)
(* was ahead of a log that had been put back, and wrote over its seqs.     *)
(***************************************************************************)
HealthyMeansHeld ==
    verify = "HEALTHY" /\ ~blind => \A i \in DOMAIN local : \E o \in remote : o[2] = local[i]

(***************************************************************************)
(* "Rollback of the local log is detectable (the remote knows entries the  *)
(* local no longer has)" (module docstring): as long as the remote holds   *)
(* an entry that was removed from the log, verify() does not say HEALTHY,  *)
(* with the same exception: notarize()'s rollback guard needs the listing. *)
(***************************************************************************)
RollbackDetected == (\E o \in remote : o[2] \in lost) /\ ~blind => verify # "HEALTHY"

(***************************************************************************)
(* "A previously failed push converges on the next run" (notarize()        *)
(* docstring): once failures stop, the notary becomes and stays healthy,   *)
(* if nothing was lost for good.                                           *)
(***************************************************************************)
Converges == <>[](verify = "HEALTHY" \/ lossy)
=============================================================================
