------------------------------- MODULE Vesta -------------------------------
(***************************************************************************)
(* Vesta's services: approved file writes (vesta/write.py), approved shell *)
(* commands (vesta/shell.py) and reads (vesta/read.py), over one task      *)
(* store, two approval stores, the writer of node/filesystem.py, the kill  *)
(* switch and the approval watchdog.                                       *)
(*                                                                         *)
(* Each store commits on its own; the endpoints run in a thread pool, the  *)
(* watchdog is a process of its own, and an error the services do not      *)
(* catch (a refused audit append, a database error) or the death of the    *)
(* process ends a call between any two commits.  A request is identified   *)
(* with its task, its approval and, for a write, the content it writes.    *)
(***************************************************************************)
EXTENDS Integers, VestaTasks

CONSTANTS
    Requests,   \* requests submitted to the services
    Paths,      \* target paths of the writes
    Original,   \* the content of a file before any request
    Absent      \* no file, and no precondition hash

ASSUME VestaAssumption ==
    /\ Original \notin Requests /\ Absent \notin Requests /\ Original # Absent
    /\ Paths # {}

VARIABLES
    req,       \* the contract of a request: [kind, path, expected]
    task,      \* vesta_tasks.state, "none" before the row exists
    approval,  \* (shell_)approvals.status, "none" before the row exists
    file,      \* path -> content
    armed,     \* the kill switch
    sub,       \* submit() in progress: its place
    op,        \* the call deciding and executing: [pc, before, receipt, good]
    wd,        \* the watchdog: [rows, dangling, voided], sets of requests
    logged,    \* events on the audit chain from a request's decision on
    effect,    \* times the write or command took effect (auxiliary)
    undone,    \* the write was rolled back (auxiliary)
    voidBy     \* who voided the approval (auxiliary)

vars == <<req, task, approval, file, armed, sub, op, wd, logged, effect, undone, voidBy>>

Kinds == {"write", "shell", "read"}

Contents == Requests \cup {Original, Absent}

NoCall == [pc |-> "idle", before |-> Absent, receipt |-> FALSE, good |-> FALSE]

Init ==
    /\ req = [r \in Requests |-> [kind |-> "read", path |-> CHOOSE p \in Paths : TRUE,
                                  expected |-> Absent]]
    /\ task = [r \in Requests |-> "none"]
    /\ approval = [r \in Requests |-> "none"]
    /\ file \in [Paths -> {Original, Absent}]
    /\ armed = FALSE
    /\ sub = [r \in Requests |-> "none"]
    /\ op = [r \in Requests |-> NoCall]
    /\ wd = [rows |-> {}, dangling |-> {}, voided |-> {}]
    /\ logged = [r \in Requests |-> {}]
    /\ effect = [r \in Requests |-> 0]
    /\ undone = [r \in Requests |-> FALSE]
    /\ voidBy = [r \in Requests |-> "nobody"]

Live(r) == op[r].pc \notin {"idle", "done", "gone"}

\* A call that ends loses what it held; the verification result is in the
\* task's metadata.
Goto(r, pc) ==
    op' = [op EXCEPT ![r] = IF pc \in {"done", "gone"}
                            THEN [NoCall EXCEPT !.pc = pc, !.good = op[r].good]
                            ELSE [@ EXCEPT !.pc = pc]]

Move(r, to) == task' = [task EXCEPT ![r] = to]

\* Slip: the services catch the errors of the audit chain like their own.
LogCaught(r, event, pc) ==
    \/ logged' = [logged EXCEPT ![r] = @ \cup {event}] /\ Goto(r, pc)
    \/ Goto(r, "recovering") /\ UNCHANGED logged

\* audit.append(): an append that raises is caught nowhere and ends the call.
LogAndGoto(r, event, pc) ==
    \/ logged' = [logged EXCEPT ![r] = @ \cup {event}] /\ Goto(r, pc)
    \/ Goto(r, "gone") /\ UNCHANGED logged

-----------------------------------------------------------------------------
(* submit(), and the part of the read service before its authorization.     *)

\* Evidence, the task row and its first two moves: nobody else acts on the
\* task before its approval exists.  A call that dies leaves it on the way.
submit(r, kind, path, expected) ==
    /\ sub[r] = "none"
    /\ req' = [req EXCEPT ![r] = [kind |-> kind, path |-> path, expected |-> expected]]
    /\ \E state \in {"RECEIVED", "AUTHENTICATED", "PLANNED"} :
        /\ Move(r, state)
        /\ sub' = [sub EXCEPT ![r] = IF state = "PLANNED" THEN "planned" ELSE "gone"]
    /\ UNCHANGED <<approval, file, armed, op, wd, logged, effect, undone, voidBy>>

\* The policy denies; a write is never denied, it always needs approval.
Deny(r) ==
    /\ sub[r] = "planned" /\ req[r].kind # "write"
    /\ Move(r, "DENIED")
    /\ sub' = [sub EXCEPT ![r] = "returned"]
    /\ UNCHANGED <<req, approval, file, armed, op, wd, logged, effect, undone, voidBy>>

\* approvals.submit(): the PENDING row is visible from here on.
SubmitApproval(r) ==
    /\ sub[r] = "planned" /\ req[r].kind # "read"
    /\ approval' = [approval EXCEPT ![r] = "PENDING"]
    /\ sub' = [sub EXCEPT ![r] = "waiting"]
    /\ UNCHANGED <<req, task, file, armed, op, wd, logged, effect, undone, voidBy>>

\* The owner may already have decided: then the move may be refused.
SubmitWait(r) ==
    /\ sub[r] = "waiting"
    /\ \/ /\ CanMove(task[r], "WAITING_APPROVAL")
          /\ Move(r, "WAITING_APPROVAL")
       \/ /\ ~CanMove(task[r], "WAITING_APPROVAL")
          /\ UNCHANGED task
    /\ sub' = [sub EXCEPT ![r] = "returned"]
    /\ UNCHANGED <<req, approval, file, armed, op, wd, logged, effect, undone, voidBy>>

\* A read needs no approval: the same call goes on to execute.
Authorize(r) ==
    /\ sub[r] = "planned" /\ req[r].kind = "read"
    /\ sub' = [sub EXCEPT ![r] = "returned"]
    /\ Goto(r, "toAuthorized")
    /\ UNCHANGED <<req, task, approval, file, armed, wd, logged, effect, undone, voidBy>>

SubmitDies(r) ==
    /\ sub[r] \in {"planned", "waiting"}
    /\ sub' = [sub EXCEPT ![r] = "gone"]
    /\ UNCHANGED <<req, task, approval, file, armed, op, wd, logged, effect, undone, voidBy>>

-----------------------------------------------------------------------------
(* The owner's decision.                                                    *)

\* approvals.approve(), in an immediate transaction.
approve(r) ==
    /\ approval[r] = "PENDING"
    /\ approval' = [approval EXCEPT ![r] = "APPROVED"]
    /\ Goto(r, "decided")
    /\ UNCHANGED <<req, task, file, armed, sub, wd, logged, effect, undone, voidBy>>

\* The same call after expires_at.  The task keeps its state.
approve_expired(r) ==
    /\ approval[r] = "PENDING"
    /\ approval' = [approval EXCEPT ![r] = "EXPIRED"]
    /\ UNCHANGED <<req, task, file, armed, sub, op, wd, logged, effect, undone, voidBy>>

reject(r) ==
    /\ approval[r] = "PENDING"
    /\ approval' = [approval EXCEPT ![r] = "REJECTED"]
    /\ Goto(r, "denying")
    /\ UNCHANGED <<req, task, file, armed, sub, wd, logged, effect, undone, voidBy>>

-----------------------------------------------------------------------------
(* approve_and_execute().                                                   *)

\* Slip: the event is best effort, and a failed append does not end the call.
DecidedBestEffort(r) ==
    /\ op[r].pc = "decided"
    /\ Goto(r, "toApproved")
    /\ logged' \in {logged, [logged EXCEPT ![r] = @ \cup {"approval.decided"}]}
    /\ UNCHANGED <<req, task, approval, file, armed, sub, wd, effect, undone, voidBy>>

\* approval.decided, outside the try.  The shell service then checks the
\* command again, which may fail.
Decided(r) ==
    /\ op[r].pc = "decided"
    /\ \/ LogAndGoto(r, "approval.decided", "toApproved")
       \/ req[r].kind = "shell" /\ LogAndGoto(r, "approval.decided", "recovering")
    /\ UNCHANGED <<req, task, approval, file, armed, sub, wd, effect, undone, voidBy>>

\* The moves the services make through _transition(): target and next place.
Steps ==
    [toAuthorized |-> [to |-> "AUTHORIZED",  next |-> "toExecuting"],
     toApproved   |-> [to |-> "APPROVED",    next |-> "toExecuting"],
     toExecuting  |-> [to |-> "EXECUTING",   next |-> "kill"],
     killed       |-> [to |-> "QUARANTINED", next |-> "void"],
     toVerifying  |-> [to |-> "VERIFYING",   next |-> "verified"],
     toCompleted  |-> [to |-> "COMPLETED",   next |-> "done"],
     denying      |-> [to |-> "DENIED",      next |-> "done"]]

\* Where a refused move leads: reject() and the read service catch nothing
\* before the read itself.
OnRefusal(r) ==
    IF \/ op[r].pc = "denying"
       \/ req[r].kind = "read" /\ op[r].pc \notin {"toVerifying", "toCompleted"}
    THEN "gone"
    ELSE IF op[r].receipt THEN "rollback" ELSE "recovering"

\* The store commits the move or refuses it; then the event is appended.
_transition(r) ==
    /\ op[r].pc \in DOMAIN Steps
    /\ LET step == Steps[op[r].pc] IN
        \/ /\ CanMove(task[r], step.to)
           /\ Move(r, step.to)
           /\ LogAndGoto(r, step.to, step.next)
        \/ /\ ~CanMove(task[r], step.to)
           /\ Goto(r, OnRefusal(r))
           /\ UNCHANGED <<task, logged>>
    /\ UNCHANGED <<req, approval, file, armed, sub, wd, effect, undone, voidBy>>

KillCheck(r) ==
    /\ op[r].pc = "kill"
    /\ Goto(r, IF armed THEN "killed" ELSE "act")
    /\ UNCHANGED <<req, task, approval, file, armed, sub, wd, logged, effect, undone, voidBy>>

\* The approved payload is read back and hashed, then FileWriter.write() reads
\* the target and compares the precondition hash.  The first alternative is a
\* damaged payload or a target outside the root.
WritePrecondition(r) ==
    /\ op[r].pc = "act" /\ req[r].kind = "write"
    /\ \/ Goto(r, "recovering")
       \/ LET before == file[req[r].path] IN
          IF req[r].expected \in {Absent, before}
          THEN op' = [op EXCEPT ![r].pc = "replace", ![r].before = before]
          ELSE Goto(r, "recovering")
    /\ UNCHANGED <<req, task, approval, file, armed, sub, wd, logged, effect, undone, voidBy>>

\* os.replace() of the temporary file.
WriteReplace(r) ==
    /\ op[r].pc = "replace"
    /\ file' = [file EXCEPT ![req[r].path] = r]
    /\ effect' = [effect EXCEPT ![r] = @ + 1]
    /\ Goto(r, "reread")
    /\ UNCHANGED <<req, task, approval, armed, sub, wd, logged, undone, voidBy>>

\* The postcondition: without a receipt there will be no rollback.
WritePostcondition(r) ==
    /\ op[r].pc = "reread"
    /\ op' = [op EXCEPT ![r].receipt = file[req[r].path] = r,
                        ![r].pc = IF file[req[r].path] = r THEN "receipt" ELSE "recovering"]
    /\ UNCHANGED <<req, task, approval, file, armed, sub, wd, logged, effect, undone, voidBy>>

\* executor.run(): a command that cannot start has no effect; one that fails,
\* times out or prints something else has.
ShellRun(r) ==
    /\ op[r].pc = "act" /\ req[r].kind = "shell"
    /\ \/ Goto(r, "recovering") /\ UNCHANGED effect
       \/ /\ \E good \in BOOLEAN :
                op' = [op EXCEPT ![r].pc = "receipt", ![r].good = good]
          /\ effect' = [effect EXCEPT ![r] = @ + 1]
    /\ UNCHANGED <<req, task, approval, file, armed, sub, wd, logged, undone, voidBy>>

FileRead(r) ==
    /\ op[r].pc = "act" /\ req[r].kind = "read"
    /\ \E pc \in {"receipt", "recovering"} : Goto(r, pc)
    /\ UNCHANGED <<req, task, approval, file, armed, sub, wd, logged, effect, undone, voidBy>>

\* The evidence of the outcome is stored, or storing it raises EvidenceError.
RecordReceipt(r) ==
    /\ op[r].pc = "receipt"
    /\ \/ Goto(r, "toVerifying")
       \/ Goto(r, IF op[r].receipt THEN "rollback" ELSE "recovering")
    /\ UNCHANGED <<req, task, approval, file, armed, sub, wd, logged, effect, undone, voidBy>>

\* Slip: the shell's verification result is not looked at.
VerifiedUnseen(r) ==
    /\ op[r].pc = "verified"
    /\ Goto(r, "toCompleted")
    /\ UNCHANGED <<req, task, approval, file, armed, sub, wd, logged, effect, undone, voidBy>>

\* execution.verified, unless the command's outcome was not the expected one.
Verified(r) ==
    /\ op[r].pc = "verified"
    /\ \/ /\ req[r].kind = "shell" /\ ~op[r].good
          /\ Goto(r, "recovering")
          /\ UNCHANGED logged
       \/ /\ req[r].kind = "shell" => op[r].good
          /\ LogAndGoto(r, "execution.verified", "toCompleted")
    /\ UNCHANGED <<req, task, approval, file, armed, sub, wd, effect, undone, voidBy>>

-----------------------------------------------------------------------------
(* The failure path of the services.                                        *)

\* Slip: the failure path leaves the written file in place.
NoRollback(r) ==
    /\ op[r].pc = "rollback"
    /\ Goto(r, "recovering")
    /\ UNCHANGED <<req, task, approval, file, armed, sub, wd, logged, effect, undone, voidBy>>

\* writer.rollback(): the file of before, whatever the path holds now.  Its own
\* postcondition raises out of the failure path: the call dies after it.
rollback(r) ==
    /\ op[r].pc = "rollback"
    /\ file' = [file EXCEPT ![req[r].path] = op[r].before]
    /\ undone' = [undone EXCEPT ![r] = TRUE]
    /\ Goto(r, "recovering")
    /\ UNCHANGED <<req, task, approval, armed, sub, wd, logged, effect, voidBy>>

AfterFailure(r) == IF req[r].kind = "read" THEN "done" ELSE "void"

\* RECOVERING; the shell service goes on to QUARANTINED when the task had not
\* started, the others give up on the first refused move.
ToRecovering(r) ==
    /\ op[r].pc = "recovering"
    /\ \/ /\ CanMove(task[r], "RECOVERING")
          /\ Move(r, "RECOVERING")
          /\ LogAndGoto(r, "RECOVERING", "quarantining")
       \/ /\ ~CanMove(task[r], "RECOVERING")
          /\ Goto(r, IF req[r].kind = "shell" THEN "quarantining" ELSE AfterFailure(r))
          /\ UNCHANGED <<task, logged>>
    /\ UNCHANGED <<req, approval, file, armed, sub, wd, effect, undone, voidBy>>

ToQuarantined(r) ==
    /\ op[r].pc = "quarantining"
    /\ LET moves == task[r] \in {"WAITING_APPROVAL", "APPROVED", "RECOVERING"} IN
        \/ /\ moves
           /\ Move(r, "QUARANTINED")
           /\ LogAndGoto(r, "QUARANTINED", AfterFailure(r))
        \/ /\ ~moves
           /\ Goto(r, AfterFailure(r))
           /\ UNCHANGED <<task, logged>>
    /\ UNCHANGED <<req, approval, file, armed, sub, wd, effect, undone, voidBy>>

\* _void_approval(): best effort.  A read stopped by the kill switch has none.
_void_approval(r) ==
    /\ op[r].pc = "void"
    /\ \/ /\ approval[r] = "APPROVED"
          /\ approval' = [approval EXCEPT ![r] = "VOID"]
          /\ voidBy' = [voidBy EXCEPT ![r] = "service"]
          /\ LogAndGoto(r, "approval.voided", "done")
       \/ /\ approval[r] # "APPROVED"
          /\ Goto(r, "done")
          /\ UNCHANGED <<approval, voidBy, logged>>
    /\ UNCHANGED <<req, task, file, armed, sub, wd, effect, undone>>

\* An uncaught error, or the process dies.
Dies(r) ==
    /\ Live(r)
    /\ Goto(r, "gone")
    /\ UNCHANGED <<req, task, approval, file, armed, sub, wd, logged, effect, undone, voidBy>>

-----------------------------------------------------------------------------
(* The kill switch, the watchdog and recovery.                              *)

Arm(to) ==
    /\ armed' = to
    /\ UNCHANGED <<req, task, approval, file, sub, op, wd, logged, effect, undone, voidBy>>

\* _approved_rows(): the write approvals; nobody scans the shell approvals.
WatchdogScan ==
    /\ wd.rows = {} /\ wd.dangling = {} /\ wd.voided = {}
    /\ wd' = [wd EXCEPT !.rows = {r \in Requests : req[r].kind = "write" /\ approval[r] = "APPROVED"}]
    /\ wd'.rows # {}
    /\ UNCHANGED <<req, task, approval, file, armed, sub, op, logged, effect, undone, voidBy>>

_classify(r) ==
    /\ r \in wd.rows
    /\ wd' = [wd EXCEPT !.rows = @ \ {r},
                        !.dangling = IF Dangling(task[r]) THEN @ \cup {r} ELSE @]
    /\ UNCHANGED <<req, task, approval, file, armed, sub, op, logged, effect, undone, voidBy>>

\* _void_one(), first store: the approval, if it is still APPROVED.
WatchdogVoid(r) ==
    /\ wd.rows = {} /\ r \in wd.dangling
    /\ wd' = [wd EXCEPT !.dangling = @ \ {r}, !.voided = @ \cup {r}]
    /\ IF approval[r] = "APPROVED"
       THEN /\ approval' = [approval EXCEPT ![r] = "VOID"]
            /\ voidBy' = [voidBy EXCEPT ![r] = "watchdog"]
       ELSE UNCHANGED <<approval, voidBy>>
    /\ UNCHANGED <<req, task, file, armed, sub, op, logged, effect, undone>>

\* Second store: the task, if the move is allowed.  The event that follows is
\* appended in every case and its failure only reported.
WatchdogQuarantine(r) ==
    /\ r \in wd.voided
    /\ wd' = [wd EXCEPT !.voided = @ \ {r}]
    /\ IF CanMove(task[r], "QUARANTINED") THEN Move(r, "QUARANTINED") ELSE UNCHANGED task
    /\ UNCHANGED <<req, approval, file, armed, sub, op, logged, effect, undone, voidBy>>

WatchdogDies ==
    /\ wd # [rows |-> {}, dangling |-> {}, voided |-> {}]
    /\ wd' = [rows |-> {}, dangling |-> {}, voided |-> {}]
    /\ UNCHANGED <<req, task, approval, file, armed, sub, op, logged, effect, undone, voidBy>>

\* recover_incomplete(): meant for a restart, before requests are taken; nothing
\* in the package calls it.
recover_incomplete ==
    /\ \A r \in Requests : ~Live(r)
    /\ \E r \in Requests : task[r] \in _RECOVERABLE_STATES
    /\ task' = [r \in Requests |-> IF task[r] \in _RECOVERABLE_STATES
                                   THEN "QUARANTINED" ELSE task[r]]
    /\ UNCHANGED <<req, approval, file, armed, sub, op, wd, logged, effect, undone, voidBy>>

Watchdog ==
    \/ WatchdogScan
    \/ \E r \in Requests : _classify(r) \/ WatchdogVoid(r) \/ WatchdogQuarantine(r)

Serve(r) ==
    \/ Decided(r) \/ _transition(r) \/ KillCheck(r)
    \/ WritePrecondition(r) \/ WriteReplace(r) \/ WritePostcondition(r)
    \/ ShellRun(r) \/ FileRead(r) \/ RecordReceipt(r) \/ Verified(r)
    \/ rollback(r) \/ ToRecovering(r) \/ ToQuarantined(r) \/ _void_approval(r)

Next ==
    \/ \E r \in Requests :
        \/ \E path \in Paths, expected \in {Absent, Original} : submit(r, "write", path, expected)
        \/ \E kind \in {"shell", "read"}, path \in Paths : submit(r, kind, path, Absent)
        \/ Deny(r) \/ SubmitApproval(r) \/ SubmitWait(r) \/ Authorize(r) \/ SubmitDies(r)
        \/ approve(r) \/ approve_expired(r) \/ reject(r)
        \/ Serve(r) \/ Dies(r)
    \/ \E to \in BOOLEAN : Arm(to)
    \/ Watchdog \/ WatchdogDies
    \/ recover_incomplete

Spec == Init /\ [][Next]_vars

-----------------------------------------------------------------------------
(* Properties.                                                              *)

Places ==
    DOMAIN Steps \cup
    {"idle", "decided", "kill", "act", "replace", "reread", "receipt", "verified",
     "rollback", "recovering", "quarantining", "void", "done", "gone"}
ReqRecord == [kind : Kinds, path : Paths, expected : {Absent, Original}]
CallRecord == [pc : Places, before : Contents, receipt : BOOLEAN, good : BOOLEAN]
SweepRecord == [rows : SUBSET Requests, dangling : SUBSET Requests, voided : SUBSET Requests]
Events == TASK_STATES \cup {"approval.decided", "execution.verified", "approval.voided"}

TypeOK ==
    /\ req \in [Requests -> ReqRecord]
    /\ task \in [Requests -> TASK_STATES \cup {"none"}]
    /\ approval \in [Requests -> {"none", "PENDING", "APPROVED", "REJECTED", "EXPIRED", "VOID"}]
    /\ file \in [Paths -> Contents]
    /\ armed \in BOOLEAN
    /\ sub \in [Requests -> {"none", "planned", "waiting", "returned", "gone"}]
    /\ op \in [Requests -> CallRecord]
    /\ wd \in SweepRecord
    /\ logged \in [Requests -> SUBSET Events]
    /\ effect \in [Requests -> Nat]
    /\ undone \in [Requests -> BOOLEAN]
    /\ voidBy \in [Requests -> {"nobody", "service", "watchdog"}]

\* Whatever the watchdog, concurrent calls and crashes do, a write or command
\* takes effect at most once, only on its owner's approval, and only after the
\* decision is on the audit chain (write.py approve_and_execute()).
ApprovedOnce ==
    \A r \in Requests : effect[r] > 0 =>
        /\ effect[r] = 1
        /\ approval[r] \in {"APPROVED", "VOID"}
        /\ {"approval.decided", "APPROVED", "EXECUTING"} \subseteq logged[r]

\* A task that reads COMPLETED took effect, was verified on the audit chain and
\* was not rolled back, although rollback and recovery run on a task that
\* others move.
CompletedIsReal ==
    \A r \in Requests : task[r] = "COMPLETED" =>
        /\ req[r].kind # "read" => effect[r] = 1
        /\ req[r].kind = "shell" => op[r].good
        /\ ~undone[r]
        /\ {"EXECUTING", "VERIFYING", "execution.verified"} \subseteq logged[r]

\* A service that voids the approval has not completed the task: the two
\* records of one execution, in two stores, never contradict each other.
ServiceVoidIsFailure ==
    \A r \in Requests : voidBy[r] = "service" => task[r] # "COMPLETED"

\* A write whose call returned a failure is not on disk, when no other request
\* wrote the same path (write.py's rollback on every caught error).
FailedWriteUndone ==
    \A r \in Requests :
        (/\ req[r].kind = "write" /\ op[r].pc = "done" /\ task[r] # "COMPLETED"
         /\ \A q \in Requests \ {r} : req[q].path = req[r].path => effect[q] = 0)
            => file[req[r].path] # r

\* An approval is voided only for an execution that did not complete
\* (approvals.py void(), approval_watchdog.py).
VoidNeverCompleted ==
    \A r \in Requests : approval[r] = "VOID" => task[r] # "COMPLETED"

=============================================================================
