---------------------------- MODULE VestaProofs ----------------------------
(***************************************************************************)
(* The safety of Vesta's approved writes and commands, for any number of   *)
(* requests and paths.  Each commit of a call is a step of its own, so the *)
(* invariant says what the stores, the audit chain and the file hold at    *)
(* every place a call can be at, or have died at.                          *)
(***************************************************************************)
EXTENDS Vesta, TLAPS

\* Where a call is before it acts, after it acted, and on its failure path.
Before == {"idle", "decided", "toAuthorized", "toApproved", "toExecuting", "kill", "killed",
           "act", "replace", "denying"}
Acted == {"reread", "receipt", "toVerifying", "verified", "toCompleted", "rollback"}
Failing == {"recovering", "quarantining", "void"}
Ended == {"done", "gone"}

Swept == wd.rows \cup wd.dangling \cup wd.voided

(***************************************************************************)
(* One call per request: it begins with the decision of a PENDING approval *)
(* (a read's with its authorization), and nothing decides a second time.   *)
(***************************************************************************)
Gate(r) ==
    /\ sub[r] = "none" => task[r] = "none"
    /\ sub[r] = "planned" => task[r] = "PLANNED"
    /\ sub[r] \in {"none", "planned"} => approval[r] = "none" /\ op[r].pc = "idle"
    /\ req[r].kind = "read" => approval[r] = "none"
    /\ op[r].pc = "idle" => approval[r] \in {"none", "PENDING", "EXPIRED"}
    /\ approval[r] \in {"none", "PENDING", "EXPIRED"}
          => op[r].pc = "idle" \/ req[r].kind = "read"
    /\ approval[r] = "REJECTED" => op[r].pc \in {"denying", "done", "gone"}
    /\ r \in Swept => approval[r] \in {"APPROVED", "VOID"}

\* The effect happens between two places of the call, once.
Effect(r) ==
    /\ effect[r] \in {0, 1}
    /\ op[r].pc \in Before => effect[r] = 0
    /\ op[r].pc \in Acted /\ req[r].kind # "read" => effect[r] = 1
    /\ op[r].pc \in {"replace", "reread", "rollback"} => req[r].kind = "write"
    /\ op[r].pc = "toAuthorized" => req[r].kind = "read"
    /\ op[r].receipt => op[r].pc \in (Acted \ {"reread"}) \cup Failing /\ req[r].kind = "write"
    /\ effect[r] = 1 => approval[r] \in {"APPROVED", "VOID"}
    /\ effect[r] = 1 => {"approval.decided", "APPROVED", "EXECUTING"} \subseteq logged[r]

\* A call goes on only after the event of the step before is on the chain.
Logged(r) ==
    /\ op[r].pc = "toApproved" => "approval.decided" \in logged[r]
    /\ op[r].pc \in {"toExecuting", "kill", "killed", "act", "replace"} /\ req[r].kind # "read"
          => {"approval.decided", "APPROVED"} \subseteq logged[r]
    /\ op[r].pc \in {"kill", "killed", "act", "replace"} \cup Acted
          => "EXECUTING" \in logged[r]
    /\ op[r].pc \in {"verified", "toCompleted"} => "VERIFYING" \in logged[r]
    /\ op[r].pc = "toCompleted" => "execution.verified" \in logged[r]

\* The task completes last, or not at all.
Outcome(r) ==
    /\ op[r].pc = "toCompleted" /\ req[r].kind = "shell" => op[r].good
    /\ undone[r] => op[r].pc \in Failing \cup Ended
    /\ voidBy[r] = "service" => op[r].pc \in Ended
    /\ task[r] = "COMPLETED" =>
          /\ op[r].pc \in Ended /\ voidBy[r] # "service" /\ ~undone[r]
          /\ req[r].kind # "read" => effect[r] = 1
          /\ req[r].kind = "shell" => op[r].good
          /\ {"EXECUTING", "VERIFYING", "execution.verified"} \subseteq logged[r]

CallInv(r) == Gate(r) /\ Effect(r) /\ Logged(r) /\ Outcome(r)

\* No other request took effect on r's path.
Sole(r) == \A q \in Requests \ {r} : req[q].path = req[r].path => effect[q] = 0

(***************************************************************************)
(* What a request wrote is found only after its effect, in files and in    *)
(* the contents held for a rollback.  From the effect on a write has its   *)
(* receipt or its file is still there, so a failure rolls it back.         *)
(***************************************************************************)
Held ==
    /\ \A p \in Paths, r \in Requests : file[p] = r => effect[r] = 1
    /\ \A q, r \in Requests : op[q].before = r => q # r /\ effect[r] = 1

WriteInv(r) == req[r].kind = "write" =>
    /\ op[r].pc \in Acted \ {"reread"} => op[r].receipt
    /\ op[r].pc = "reread" /\ Sole(r) => file[req[r].path] = r
    /\ op[r].pc \in Failing \cup {"done"} /\ task[r] # "COMPLETED" /\ Sole(r)
          => file[req[r].path] # r

IInv ==
    /\ TypeOK /\ Held
    /\ \A r \in Requests : CallInv(r) /\ WriteInv(r)

-----------------------------------------------------------------------------
(* Types.                                                                   *)

\* What Goto() does to the call it moves, and to the others.
LEMMA GotoFacts ==
    ASSUME TypeOK, NEW r \in Requests, NEW pc \in Places, Goto(r, pc)
    PROVE  /\ op' \in [Requests -> CallRecord]
           /\ op'[r].pc = pc /\ op'[r].good = op[r].good
           /\ op'[r].before = IF pc \in Ended THEN Absent ELSE op[r].before
           /\ op'[r].receipt = (op[r].receipt /\ pc \notin Ended)
           /\ \A q \in Requests \ {r} : op'[q] = op[q]
<1>1. /\ op \in [Requests -> CallRecord]
      /\ op[r].pc \in Places /\ op[r].before \in Contents
      /\ op[r].receipt \in BOOLEAN /\ op[r].good \in BOOLEAN
  BY DEF TypeOK, CallRecord
<1>2. CASE pc \in Ended
  <2>1. op' = [op EXCEPT ![r] = [NoCall EXCEPT !.pc = pc, !.good = op[r].good]]
    BY <1>2 DEF Goto, Ended
  <2>2. [NoCall EXCEPT !.pc = pc, !.good = op[r].good] \in CallRecord
    BY <1>1 DEF NoCall, CallRecord, Contents
  <2> QED BY <1>1, <1>2, <2>1, <2>2 DEF NoCall
<1>3. CASE pc \notin Ended
  <2>1. op' = [op EXCEPT ![r] = [op[r] EXCEPT !.pc = pc]]
    BY <1>1, <1>3 DEF Goto, Ended
  <2>2. [op[r] EXCEPT !.pc = pc] \in CallRecord
    BY <1>1 DEF CallRecord
  <2>3. /\ [op[r] EXCEPT !.pc = pc].pc = pc
        /\ [op[r] EXCEPT !.pc = pc].good = op[r].good
        /\ [op[r] EXCEPT !.pc = pc].before = op[r].before
        /\ [op[r] EXCEPT !.pc = pc].receipt = op[r].receipt
    BY <1>1 DEF CallRecord
  <2> QED BY <1>1, <1>3, <2>1, <2>2, <2>3
<1> QED BY <1>2, <1>3

\* An append that succeeds, and one that raises.
LEMMA LogFacts ==
    ASSUME TypeOK, NEW r \in Requests, NEW event \in Events, NEW pc \in Places,
           LogAndGoto(r, event, pc)
    PROVE  /\ logged' \in [Requests -> SUBSET Events]
           /\ logged[r] \subseteq logged'[r]
           /\ \A q \in Requests \ {r} : logged'[q] = logged[q]
           /\ \/ event \in logged'[r] /\ Goto(r, pc)
              \/ Goto(r, "gone")
  BY DEF LogAndGoto, TypeOK

LEMMA PlacesNamed ==
    Places = Before \cup Acted \cup Failing \cup Ended
  BY DEF Places, Steps, Before, Acted, Failing, Ended

\* Every move of _transition() is to a state and leads to a place.
LEMMA StepsTyped ==
    ASSUME NEW pc \in DOMAIN Steps
    PROVE  Steps[pc].to \in TASK_STATES \cap Events /\ Steps[pc].next \in Places
  BY DEF Steps, Places, TASK_STATES, Events

LEMMA TypeStep == TypeOK /\ [Next]_vars => TypeOK'
<1> SUFFICES ASSUME TypeOK, [Next]_vars PROVE TypeOK'
  OBVIOUS
<1> USE PlacesNamed
<1>1. ASSUME NEW r \in Requests, NEW kind \in Kinds, NEW path \in Paths,
             NEW expected \in {Absent, Original}, submit(r, kind, path, expected)
      PROVE  TypeOK'
  <2>1. [kind |-> kind, path |-> path, expected |-> expected] \in ReqRecord
    BY DEF ReqRecord
  <2>2. req' \in [Requests -> ReqRecord]
    BY <1>1, <2>1 DEF submit, TypeOK
  <2> QED BY <1>1, <2>2 DEF submit, TypeOK, Move, TASK_STATES
<1>2. ASSUME NEW r \in Requests, Deny(r) \/ SubmitApproval(r) \/ SubmitWait(r) \/ SubmitDies(r)
      PROVE  TypeOK'
  BY <1>2 DEF Deny, SubmitApproval, SubmitWait, SubmitDies, TypeOK, Move, TASK_STATES
<1>3. ASSUME NEW r \in Requests, Authorize(r)
      PROVE  TypeOK'
  <2>1. op' \in [Requests -> CallRecord]
    BY <1>3, GotoFacts DEF Authorize, Before
  <2> QED BY <1>3, <2>1 DEF Authorize, TypeOK
<1>4. ASSUME NEW r \in Requests, approve(r) \/ approve_expired(r) \/ reject(r)
      PROVE  TypeOK'
  <2>1. op' \in [Requests -> CallRecord]
    BY <1>4, GotoFacts DEF approve, approve_expired, reject, Before, TypeOK
  <2> QED BY <1>4, <2>1 DEF approve, approve_expired, reject, TypeOK
<1>5. ASSUME NEW r \in Requests, Decided(r)
      PROVE  TypeOK'
  <2>1. op' \in [Requests -> CallRecord] /\ logged' \in [Requests -> SUBSET Events]
    <3>1. \E pc \in {"toApproved", "recovering"} : LogAndGoto(r, "approval.decided", pc)
      BY <1>5 DEF Decided
    <3> QED BY <3>1, LogFacts, GotoFacts DEF Before, Failing, Ended, Events
  <2> QED BY <1>5, <2>1 DEF Decided, TypeOK
<1>6. ASSUME NEW r \in Requests, _transition(r)
      PROVE  TypeOK'
  <2>1. OnRefusal(r) \in Places
    BY DEF OnRefusal, Acted, Failing, Ended
  <2>2. /\ op' \in [Requests -> CallRecord]
        /\ logged' \in [Requests -> SUBSET Events]
        /\ task' \in [Requests -> TASK_STATES \cup {"none"}]
    <3> DEFINE step == Steps[op[r].pc]
    <3>1. step.to \in TASK_STATES \cap Events /\ step.next \in Places
      BY <1>6, StepsTyped DEF _transition
    <3>2. CASE Move(r, step.to) /\ LogAndGoto(r, step.to, step.next)
      <4>1. logged' \in [Requests -> SUBSET Events] /\ (Goto(r, step.next) \/ Goto(r, "gone"))
        BY <3>1, <3>2, LogFacts
      <4>2. op' \in [Requests -> CallRecord]
        BY <3>1, <4>1, GotoFacts DEF Ended
      <4> QED BY <3>1, <3>2, <4>1, <4>2 DEF Move, TypeOK
    <3>3. CASE Goto(r, OnRefusal(r)) /\ UNCHANGED <<task, logged>>
      BY <2>1, <3>3, GotoFacts DEF TypeOK
    <3> QED BY <1>6, <3>2, <3>3 DEF _transition
  <2> QED BY <1>6, <2>2 DEF _transition, TypeOK
<1>7. ASSUME NEW r \in Requests, KillCheck(r) \/ FileRead(r) \/ RecordReceipt(r) \/ Dies(r)
      PROVE  TypeOK'
  <2>1. \E pc \in Places : Goto(r, pc)
    BY <1>7 DEF KillCheck, FileRead, RecordReceipt, Dies, Before, Acted, Failing, Ended
  <2>2. op' \in [Requests -> CallRecord]
    BY <2>1, GotoFacts
  <2> QED BY <1>7, <2>2 DEF KillCheck, FileRead, RecordReceipt, Dies, TypeOK
<1>8. ASSUME NEW r \in Requests, WritePrecondition(r)
      PROVE  TypeOK'
  <2>0. req[r].path \in Paths /\ op[r] \in CallRecord
    BY DEF TypeOK, ReqRecord
  <2>1. CASE Goto(r, "recovering")
    <3>1. op' \in [Requests -> CallRecord]
      BY <2>1, GotoFacts DEF Failing
    <3> QED BY <1>8, <3>1 DEF WritePrecondition, TypeOK
  <2>2. CASE op' = [op EXCEPT ![r].pc = "replace", ![r].before = file[req[r].path]]
    <3>1. file[req[r].path] \in Contents
      BY <2>0 DEF TypeOK
    <3>2. [op[r] EXCEPT !.pc = "replace", !.before = file[req[r].path]] \in CallRecord
      BY <2>0, <3>1 DEF CallRecord, Before
    <3>3. op' \in [Requests -> CallRecord]
      BY <2>2, <3>2 DEF TypeOK
    <3> QED BY <1>8, <3>3 DEF WritePrecondition, TypeOK
  <2> QED BY <1>8, <2>1, <2>2 DEF WritePrecondition
<1>9. ASSUME NEW r \in Requests, WriteReplace(r)
      PROVE  TypeOK'
  <2>1. op' \in [Requests -> CallRecord]
    BY <1>9, GotoFacts DEF WriteReplace, Acted
  <2>2. r \in Contents
    BY DEF Contents
  <2>3. file' \in [Paths -> Contents]
    BY <1>9, <2>2 DEF WriteReplace, TypeOK
  <2>4. effect' \in [Requests -> Nat]
    BY <1>9 DEF WriteReplace, TypeOK
  <2> QED BY <1>9, <2>1, <2>3, <2>4 DEF WriteReplace, TypeOK
<1>10. ASSUME NEW r \in Requests, WritePostcondition(r)
       PROVE  TypeOK'
  <2>1. op' \in [Requests -> CallRecord]
    BY <1>10 DEF WritePostcondition, TypeOK, CallRecord, Acted, Failing
  <2> QED BY <1>10, <2>1 DEF WritePostcondition, TypeOK
<1>11. ASSUME NEW r \in Requests, ShellRun(r)
       PROVE  TypeOK'
  <2>1. CASE Goto(r, "recovering") /\ UNCHANGED effect
    <3>1. op' \in [Requests -> CallRecord]
      BY <2>1, GotoFacts DEF Failing
    <3> QED BY <1>11, <2>1, <3>1 DEF ShellRun, TypeOK
  <2>2. CASE \E good \in BOOLEAN : op' = [op EXCEPT ![r].pc = "receipt", ![r].good = good]
    <3>0. PICK good \in BOOLEAN : op' = [op EXCEPT ![r].pc = "receipt", ![r].good = good]
      BY <2>2
    <3>3. op[r] \in CallRecord /\ op \in [Requests -> CallRecord]
      BY DEF TypeOK
    <3>4. [op[r] EXCEPT !.pc = "receipt", !.good = good] \in CallRecord
      BY <3>3 DEF CallRecord, Acted
    <3>1. op' \in [Requests -> CallRecord]
      BY <3>0, <3>3, <3>4
    <3>2. effect' \in [Requests -> Nat]
      BY <1>11 DEF ShellRun, TypeOK
    <3> QED BY <1>11, <3>1, <3>2 DEF ShellRun, TypeOK
  <2> QED BY <1>11, <2>1, <2>2 DEF ShellRun
<1>12. ASSUME NEW r \in Requests, Verified(r)
       PROVE  TypeOK'
  <2>1. op' \in [Requests -> CallRecord] /\ logged' \in [Requests -> SUBSET Events]
    <3>1. \/ Goto(r, "recovering") /\ UNCHANGED logged
          \/ LogAndGoto(r, "execution.verified", "toCompleted")
      BY <1>12 DEF Verified
    <3> QED BY <3>1, LogFacts, GotoFacts DEF Acted, Failing, Ended, Events, TypeOK
  <2> QED BY <1>12, <2>1 DEF Verified, TypeOK
<1>13. ASSUME NEW r \in Requests, rollback(r)
       PROVE  TypeOK'
  <2>1. op' \in [Requests -> CallRecord]
    BY <1>13, GotoFacts DEF rollback, Failing
  <2>2. file' \in [Paths -> Contents]
    BY <1>13 DEF rollback, TypeOK, CallRecord
  <2> QED BY <1>13, <2>1, <2>2 DEF rollback, TypeOK
<1>14. ASSUME NEW r \in Requests, ToRecovering(r) \/ ToQuarantined(r)
       PROVE  TypeOK'
  <2>1. AfterFailure(r) \in Places
    BY DEF AfterFailure, Failing, Ended
  <2>2. \/ /\ \E pc \in Places, to \in {"RECOVERING", "QUARANTINED"} :
                Move(r, to) /\ LogAndGoto(r, to, pc)
        \/ UNCHANGED <<task, logged>> /\ \E pc \in Places : Goto(r, pc)
    BY <1>14, <2>1 DEF ToRecovering, ToQuarantined, Failing
  <2>3. /\ op' \in [Requests -> CallRecord] /\ logged' \in [Requests -> SUBSET Events]
        /\ task' \in [Requests -> TASK_STATES \cup {"none"}]
    <3>1. ASSUME NEW pc \in Places, NEW to \in {"RECOVERING", "QUARANTINED"},
                 Move(r, to), LogAndGoto(r, to, pc)
          PROVE  /\ op' \in [Requests -> CallRecord] /\ logged' \in [Requests -> SUBSET Events]
                 /\ task' \in [Requests -> TASK_STATES \cup {"none"}]
      <4>1. to \in Events /\ to \in TASK_STATES /\ "gone" \in Places
        BY DEF Events, TASK_STATES, Ended
      <4>2. logged' \in [Requests -> SUBSET Events] /\ (Goto(r, pc) \/ Goto(r, "gone"))
        BY <3>1, <4>1, LogFacts
      <4>3. op' \in [Requests -> CallRecord]
        BY <4>1, <4>2, GotoFacts
      <4> QED BY <3>1, <4>1, <4>2, <4>3 DEF Move, TypeOK
    <3>2. ASSUME UNCHANGED <<task, logged>>, NEW pc \in Places, Goto(r, pc)
          PROVE  /\ op' \in [Requests -> CallRecord] /\ logged' \in [Requests -> SUBSET Events]
                 /\ task' \in [Requests -> TASK_STATES \cup {"none"}]
      BY <3>2, GotoFacts DEF TypeOK
    <3> QED BY <2>2, <3>1, <3>2
  <2> QED BY <1>14, <2>3 DEF ToRecovering, ToQuarantined, TypeOK
<1>15. ASSUME NEW r \in Requests, _void_approval(r)
       PROVE  TypeOK'
  <2>1. op' \in [Requests -> CallRecord] /\ logged' \in [Requests -> SUBSET Events]
    <3>1. \/ Goto(r, "done") /\ UNCHANGED logged
          \/ LogAndGoto(r, "approval.voided", "done")
      BY <1>15 DEF _void_approval
    <3> QED BY <3>1, LogFacts, GotoFacts DEF Ended, Events, TypeOK
  <2> QED BY <1>15, <2>1 DEF _void_approval, TypeOK
<1>16. CASE \E to \in BOOLEAN : Arm(to)
  BY <1>16 DEF Arm, TypeOK
<1>17. CASE Watchdog \/ WatchdogDies
  <2>0. wd \in SweepRecord
    BY DEF TypeOK
  <2>1. wd' \in SweepRecord
    <3>1. CASE WatchdogScan
      BY <2>0, <3>1 DEF WatchdogScan, SweepRecord
    <3>2. ASSUME NEW r \in Requests, _classify(r) PROVE wd' \in SweepRecord
      BY <2>0, <3>2 DEF _classify, SweepRecord
    <3>3. ASSUME NEW r \in Requests, WatchdogVoid(r) PROVE wd' \in SweepRecord
      BY <2>0, <3>3 DEF WatchdogVoid, SweepRecord
    <3>4. ASSUME NEW r \in Requests, WatchdogQuarantine(r) PROVE wd' \in SweepRecord
      BY <2>0, <3>4 DEF WatchdogQuarantine, SweepRecord
    <3>5. CASE WatchdogDies
      BY <3>5 DEF WatchdogDies, SweepRecord
    <3> QED BY <1>17, <3>1, <3>2, <3>3, <3>4, <3>5 DEF Watchdog
  <2> QED BY <1>17, <2>1 DEF Watchdog, WatchdogScan, _classify, WatchdogVoid,
                 WatchdogQuarantine, WatchdogDies, TypeOK, Move, TASK_STATES
<1>18. CASE recover_incomplete
  BY <1>18 DEF recover_incomplete, TypeOK, TASK_STATES
<1>19. CASE UNCHANGED vars
  BY <1>19 DEF vars, TypeOK
<1>20. {"write", "shell", "read"} = Kinds
  BY DEF Kinds
<1> QED BY <1>1, <1>2, <1>3, <1>4, <1>5, <1>6, <1>7, <1>8, <1>9, <1>10, <1>11, <1>12,
           <1>13, <1>14, <1>15, <1>16, <1>17, <1>18, <1>19, <1>20 DEF Next, Serve

-----------------------------------------------------------------------------
(* One call.                                                                *)

\* A step leaves everything of request q alone.
Same(q) ==
    /\ req'[q] = req[q] /\ task'[q] = task[q] /\ approval'[q] = approval[q]
    /\ sub'[q] = sub[q] /\ op'[q] = op[q] /\ logged'[q] = logged[q]
    /\ effect'[q] = effect[q] /\ undone'[q] = undone[q] /\ voidBy'[q] = voidBy[q]
    /\ q \in Swept' => q \in Swept

LEMMA SameKeeps ==
    ASSUME NEW q \in Requests, CallInv(q), Same(q)
    PROVE  CallInv(q)'
  BY DEF CallInv, Gate, Effect, Logged, Outcome, Same

\* submit() and the owner's decision.
LEMMA SubmitKeeps ==
    ASSUME TypeOK, NEW r \in Requests, CallInv(r),
           \/ \E kind \in Kinds, path \in Paths, expected \in {Absent, Original} :
                 submit(r, kind, path, expected)
           \/ Deny(r) \/ SubmitApproval(r) \/ SubmitWait(r) \/ SubmitDies(r)
    PROVE  /\ CallInv(r)' /\ \A q \in Requests \ {r} : Same(q)
           /\ task[r] = "COMPLETED" => task'[r] = "COMPLETED"
<1>1. ASSUME NEW kind \in Kinds, NEW path \in Paths, NEW expected \in {Absent, Original},
             submit(r, kind, path, expected)
      PROVE  /\ CallInv(r)' /\ \A q \in Requests \ {r} : Same(q)
             /\ task[r] = "COMPLETED" => task'[r] = "COMPLETED"
  <2>1. \A q \in Requests \ {r} : Same(q)
    BY <1>1 DEF submit, Move, Same, Swept, TypeOK
  <2>2. /\ task'[r] \in {"RECEIVED", "AUTHENTICATED", "PLANNED"}
        /\ sub'[r] \in {"planned", "gone"} /\ (sub'[r] = "planned" => task'[r] = "PLANNED")
        /\ UNCHANGED <<file, op, effect, approval, logged, undone, voidBy, wd>>
    BY <1>1 DEF submit, Move, TypeOK
  <2>3. op[r].pc = "idle" /\ approval[r] = "none" /\ task[r] = "none"
    BY <1>1 DEF submit, CallInv, Gate
  <2>4. Gate(r)'
    BY <2>2, <2>3 DEF CallInv, Gate, Swept
  <2>5. Effect(r)' /\ Logged(r)' /\ Outcome(r)'
    BY <2>2, <2>3 DEF CallInv, Effect, Logged, Outcome, Before, Acted, Failing, Ended
  <2> QED BY <2>1, <2>3, <2>4, <2>5 DEF CallInv
<1>2. CASE Deny(r) \/ SubmitApproval(r) \/ SubmitWait(r) \/ SubmitDies(r)
  <2>1. \A q \in Requests \ {r} : Same(q)
    BY <1>2 DEF Deny, SubmitApproval, SubmitWait, SubmitDies, Move, Same, Swept, TypeOK
  <2>2. /\ UNCHANGED <<file, op, effect, logged, undone, voidBy, wd, req>>
        /\ task'[r] \in {task[r], "DENIED", "WAITING_APPROVAL"}
        /\ task'[r] # task[r] => task[r] = "PLANNED"
        /\ sub'[r] \in {"returned", "waiting", "gone"}
        /\ \/ approval'[r] = approval[r]
           \/ req[r].kind # "read" /\ sub[r] = "planned" /\ approval'[r] = "PENDING"
    BY <1>2 DEF Deny, SubmitApproval, SubmitWait, SubmitDies, Move, TypeOK,
                CanMove, _ALLOWED_TRANSITIONS, CallInv, Gate
  <2>3. Gate(r)'
    BY <2>2 DEF CallInv, Gate, Swept
  <2>4. Effect(r)' /\ Logged(r)' /\ Outcome(r)'
    BY <2>2 DEF CallInv, Gate, Effect, Logged, Outcome, Before
  <2> QED BY <2>1, <2>2, <2>3, <2>4 DEF CallInv
<1> QED BY <1>1, <1>2

\* The owner's decision, and a read's authorization, begin the call.
LEMMA DecisionKeeps ==
    ASSUME TypeOK, NEW r \in Requests, CallInv(r),
           approve(r) \/ approve_expired(r) \/ reject(r) \/ Authorize(r)
    PROVE  CallInv(r)' /\ \A q \in Requests \ {r} : Same(q)
<1>1. /\ op[r].pc = "idle"
      /\ UNCHANGED <<req, task, file, armed, wd, logged, effect, undone, voidBy>>
    BY DEF approve, approve_expired, reject, Authorize, CallInv, Gate
<1>2. \/ approve_expired(r)
      \/ approve(r) /\ Goto(r, "decided")
      \/ reject(r) /\ Goto(r, "denying")
      \/ Authorize(r) /\ Goto(r, "toAuthorized")
    BY DEF approve, reject, Authorize
<1>3. /\ \A q \in Requests \ {r} : op'[q] = op[q]
      /\ op'[r].receipt => op[r].receipt
      /\ \/ approve_expired(r) /\ op'[r] = op[r]
         \/ approve(r) /\ op'[r].pc = "decided"
         \/ reject(r) /\ op'[r].pc = "denying"
         \/ Authorize(r) /\ op'[r].pc = "toAuthorized"
    BY <1>2, GotoFacts, PlacesNamed DEF Before, Ended, approve_expired
<1>4. \A q \in Requests \ {r} : Same(q)
    BY <1>1, <1>3 DEF approve, approve_expired, reject, Authorize, Same, Swept, TypeOK
<1>5. /\ approve(r) => approval[r] = "PENDING" /\ approval'[r] = "APPROVED" /\ sub'[r] = sub[r]
      /\ approve_expired(r) => approval[r] = "PENDING" /\ approval'[r] = "EXPIRED" /\ sub'[r] = sub[r]
      /\ reject(r) => approval[r] = "PENDING" /\ approval'[r] = "REJECTED" /\ sub'[r] = sub[r]
      /\ Authorize(r) => /\ req[r].kind = "read" /\ approval'[r] = approval[r]
                         /\ sub'[r] = "returned"
    BY DEF approve, approve_expired, reject, Authorize, TypeOK
<1>6. Gate(r)'
    BY <1>1, <1>3, <1>5 DEF CallInv, Gate, Swept
<1>7. Effect(r)' /\ Logged(r)' /\ Outcome(r)'
    BY <1>1, <1>3, <1>5 DEF CallInv, Gate, Effect, Logged, Outcome, Before, Acted, Failing, Ended
<1> QED BY <1>4, <1>6, <1>7 DEF CallInv

(***************************************************************************)
(* The steps of a call that is under way: they leave its request and its   *)
(* submission alone, and its approval except for voiding it.               *)
(***************************************************************************)
LEMMA GateOfCall ==
    ASSUME TypeOK, NEW r \in Requests, CallInv(r),
           op[r].pc \notin {"idle", "done", "gone"}, op'[r].pc # "idle",
           op[r].pc = "denying" => op'[r].pc \in Ended,
           UNCHANGED <<req, sub, wd>>,
           approval'[r] = approval[r] \/ (approval[r] = "APPROVED" /\ approval'[r] = "VOID")
    PROVE  Gate(r)'
<1>1. sub[r] \notin {"none", "planned"}
  BY DEF CallInv, Gate
<1> QED BY <1>1 DEF CallInv, Gate, Swept, Ended

LEMMA MoveKeeps ==
    ASSUME TypeOK, NEW r \in Requests, CallInv(r), Decided(r) \/ _transition(r)
    PROVE  CallInv(r)' /\ \A q \in Requests \ {r} : Same(q)
<1> USE PlacesNamed
<1>1. CASE Decided(r)
  <2>1. PICK pc \in {"toApproved", "recovering"} : LogAndGoto(r, "approval.decided", pc)
    BY <1>1 DEF Decided
  <2>7. pc \in Places /\ "gone" \in Places /\ "approval.decided" \in Events
    BY DEF Before, Failing, Ended, Events
  <2>8. /\ logged[r] \subseteq logged'[r]
        /\ \A q \in Requests \ {r} : logged'[q] = logged[q]
        /\ \/ "approval.decided" \in logged'[r] /\ Goto(r, pc)
           \/ Goto(r, "gone")
    BY <2>1, <2>7, LogFacts
  <2>2. /\ logged[r] \subseteq logged'[r]
        /\ \A q \in Requests \ {r} : logged'[q] = logged[q] /\ op'[q] = op[q]
        /\ op'[r].pc \in {"toApproved", "recovering", "gone"}
        /\ op'[r].pc = "toApproved" => "approval.decided" \in logged'[r]
        /\ op'[r].receipt = (op[r].receipt /\ op'[r].pc \notin Ended)
    BY <2>7, <2>8, GotoFacts
  <2>3. /\ UNCHANGED <<req, task, approval, file, armed, sub, wd, effect, undone, voidBy>>
        /\ op[r].pc = "decided"
    BY <1>1 DEF Decided
  <2>4. Gate(r)'
    BY <2>2, <2>3, GateOfCall
  <2>5. Effect(r)' /\ Logged(r)' /\ Outcome(r)'
    BY <2>2, <2>3 DEF CallInv, Effect, Logged, Outcome, Before, Acted, Failing, Ended
  <2>6. \A q \in Requests \ {r} : Same(q)
    BY <2>2, <2>3 DEF Same, Swept
  <2> QED BY <2>4, <2>5, <2>6 DEF CallInv
<1>2. CASE _transition(r)
  <2> DEFINE step == Steps[op[r].pc]
  <2>1. step.to \in TASK_STATES \cap Events /\ step.next \in Places /\ op[r].pc \in DOMAIN Steps
    BY <1>2, StepsTyped DEF _transition
  <2>2. UNCHANGED <<req, approval, file, armed, sub, wd, effect, undone, voidBy>>
    BY <1>2 DEF _transition
  <2>3. /\ logged[r] \subseteq logged'[r]
        /\ \A q \in Requests \ {r} : logged'[q] = logged[q] /\ op'[q] = op[q] /\ task'[q] = task[q]
        /\ op'[r].good = op[r].good /\ op'[r].receipt = (op[r].receipt /\ op'[r].pc \notin Ended)
        /\ \/ /\ CanMove(task[r], step.to) /\ task'[r] = step.to
              /\ \/ step.to \in logged'[r] /\ op'[r].pc = step.next
                 \/ op'[r].pc = "gone"
           \/ op'[r].pc = OnRefusal(r) /\ task'[r] = task[r]
    <3>1. CASE CanMove(task[r], step.to) /\ Move(r, step.to) /\ LogAndGoto(r, step.to, step.next)
      <4>1. /\ logged[r] \subseteq logged'[r]
            /\ \A q \in Requests \ {r} : logged'[q] = logged[q]
            /\ \/ step.to \in logged'[r] /\ Goto(r, step.next)
               \/ Goto(r, "gone")
        BY <2>1, <3>1, LogFacts
      <4>2. /\ \A q \in Requests \ {r} : op'[q] = op[q]
            /\ op'[r].good = op[r].good /\ op'[r].receipt = (op[r].receipt /\ op'[r].pc \notin Ended)
            /\ \/ step.to \in logged'[r] /\ op'[r].pc = step.next
               \/ op'[r].pc = "gone"
        BY <2>1, <4>1, GotoFacts DEF Ended
      <4> QED BY <3>1, <4>1, <4>2 DEF Move, TypeOK
    <3>2. CASE Goto(r, OnRefusal(r)) /\ UNCHANGED <<task, logged>>
      <4>1. OnRefusal(r) \in Places
        BY DEF OnRefusal, Acted, Failing, Ended
      <4> QED BY <3>2, <4>1, GotoFacts
    <3> QED BY <1>2, <3>1, <3>2 DEF _transition
  <2>4. /\ OnRefusal(r) \in {"gone", "rollback", "recovering"}
        /\ OnRefusal(r) = "rollback" => op[r].receipt
        /\ op[r].pc = "denying" => OnRefusal(r) = "gone"
    BY DEF OnRefusal
  <2>5. Gate(r)'
    BY <2>1, <2>2, <2>3, <2>4, GateOfCall DEF Steps, Ended
  <2>6. Effect(r)'
    <3>1. CASE op'[r].pc = OnRefusal(r)
      BY <2>1, <2>2, <2>3, <2>4, <3>1 DEF CallInv, Effect, Steps, Before, Acted, Failing, Ended
    <3>2. CASE op'[r].pc = "gone"
      BY <2>1, <2>2, <2>3, <3>2 DEF CallInv, Effect, Before, Acted, Ended
    <3>3. CASE op'[r].pc = step.next
      <4>1. \/ op[r].pc \in Before /\ op'[r].pc \in Before \cup {"void", "done"}
            \/ op[r].pc \in Acted /\ op'[r].pc \in {"verified", "done"}
        BY <2>1, <3>3 DEF Steps, Before, Acted
      <4>2. op'[r].pc \notin {"toAuthorized", "replace", "reread", "rollback"}
        BY <2>1, <3>3 DEF Steps
      <4> QED BY <2>1, <2>2, <2>3, <4>1, <4>2 DEF CallInv, Effect, Before, Acted, Failing, Ended
    <3> QED BY <2>3, <3>1, <3>2, <3>3
  <2>7. Logged(r)'
    BY <2>1, <2>2, <2>3, <2>4 DEF CallInv, Effect, Logged, Steps, Acted, Failing
  <2>8. Outcome(r)'
    BY <2>1, <2>2, <2>3, <2>4 DEF CallInv, Logged, Effect, Outcome, Steps, Before, Acted, Failing, Ended
  <2>9. \A q \in Requests \ {r} : Same(q)
    BY <2>2, <2>3 DEF Same, Swept
  <2> QED BY <2>5, <2>6, <2>7, <2>8, <2>9 DEF CallInv
<1> QED BY <1>1, <1>2

\* The steps that act: the kill switch, the write, the command and the read.
LEMMA ActKeeps ==
    ASSUME TypeOK, NEW r \in Requests, CallInv(r),
           \/ KillCheck(r) \/ WritePrecondition(r) \/ WriteReplace(r) \/ WritePostcondition(r)
           \/ ShellRun(r) \/ FileRead(r) \/ RecordReceipt(r) \/ Verified(r)
    PROVE  CallInv(r)' /\ \A q \in Requests \ {r} : Same(q)
<1> USE PlacesNamed
<1>0. op \in [Requests -> CallRecord] /\ op[r] \in CallRecord
  BY DEF TypeOK
<1>1. ASSUME NEW pc \in Places, Goto(r, pc), op[r].pc \in {"kill", "act", "receipt", "verified"},
             UNCHANGED <<req, task, approval, armed, sub, wd, logged, effect, undone, voidBy>>,
             \/ op[r].pc = "kill" /\ pc \in {"killed", "act"}
             \/ pc = "recovering"
             \/ op[r].pc = "act" /\ req[r].kind = "read" /\ pc = "receipt"
             \/ op[r].pc = "receipt" /\ pc = "toVerifying"
             \/ op[r].pc = "receipt" /\ op[r].receipt /\ pc = "rollback"
      PROVE  CallInv(r)' /\ \A q \in Requests \ {r} : Same(q)
  <2>1. /\ op'[r].pc = pc /\ op'[r].good = op[r].good
        /\ op'[r].receipt => op[r].receipt
        /\ \A q \in Requests \ {r} : op'[q] = op[q]
    BY <1>1, GotoFacts
  <2>2. Gate(r)'
    BY <1>1, <2>1, GateOfCall
  <2>3. Effect(r)' /\ Logged(r)' /\ Outcome(r)'
    BY <1>1, <2>1 DEF CallInv, Effect, Logged, Outcome, Before, Acted, Failing, Ended
  <2> QED BY <1>1, <2>1, <2>2, <2>3 DEF CallInv, Same, Swept
<1>2. CASE KillCheck(r) \/ FileRead(r) \/ RecordReceipt(r)
  <2>1. \E pc \in Places :
          /\ Goto(r, pc)
          /\ \/ op[r].pc = "kill" /\ pc \in {"killed", "act"}
             \/ pc = "recovering"
             \/ op[r].pc = "act" /\ req[r].kind = "read" /\ pc = "receipt"
             \/ op[r].pc = "receipt" /\ pc = "toVerifying"
             \/ op[r].pc = "receipt" /\ op[r].receipt /\ pc = "rollback"
    BY <1>2 DEF KillCheck, FileRead, RecordReceipt, Before, Acted, Failing
  <2> QED BY <1>1, <1>2, <2>1 DEF KillCheck, FileRead, RecordReceipt
<1>3. CASE WritePrecondition(r)
  <2>1. CASE Goto(r, "recovering")
    BY <1>1, <1>3, <2>1 DEF WritePrecondition, Failing
  <2>2. CASE op' = [op EXCEPT ![r].pc = "replace", ![r].before = file[req[r].path]]
    <3>1. /\ op'[r].pc = "replace" /\ op'[r].good = op[r].good /\ op'[r].receipt = op[r].receipt
          /\ \A q \in Requests \ {r} : op'[q] = op[q]
      BY <1>0, <2>2 DEF CallRecord
    <3>2. /\ op[r].pc = "act" /\ req[r].kind = "write"
          /\ UNCHANGED <<req, task, approval, armed, sub, wd, logged, effect, undone, voidBy>>
      BY <1>3 DEF WritePrecondition
    <3>3. Gate(r)'
      BY <3>1, <3>2, GateOfCall
    <3>4. Effect(r)' /\ Logged(r)' /\ Outcome(r)'
      BY <3>1, <3>2 DEF CallInv, Effect, Logged, Outcome, Before, Acted, Failing, Ended
    <3> QED BY <3>1, <3>2, <3>3, <3>4 DEF CallInv, Same, Swept
  <2> QED BY <1>3, <2>1, <2>2 DEF WritePrecondition
<1>4. CASE WriteReplace(r)
  <2>1. /\ op'[r].pc = "reread" /\ op'[r].good = op[r].good
        /\ op'[r].receipt => op[r].receipt
        /\ \A q \in Requests \ {r} : op'[q] = op[q]
    BY <1>4, GotoFacts DEF WriteReplace, Acted
  <2>2. /\ op[r].pc = "replace" /\ effect'[r] = effect[r] + 1
        /\ \A q \in Requests \ {r} : effect'[q] = effect[q]
        /\ UNCHANGED <<req, task, approval, armed, sub, wd, logged, undone, voidBy>>
    BY <1>4 DEF WriteReplace, TypeOK
  <2>3. Gate(r)'
    BY <2>1, <2>2, GateOfCall
  <2>4. approval[r] \in {"APPROVED", "VOID"} /\ req[r].kind = "write" /\ effect[r] = 0
    BY <2>2 DEF CallInv, Gate, Effect, Before, TypeOK
  <2>5. Effect(r)' /\ Logged(r)' /\ Outcome(r)'
    BY <2>1, <2>2, <2>4 DEF CallInv, Effect, Logged, Outcome, Before, Acted, Failing, Ended
  <2> QED BY <2>1, <2>2, <2>3, <2>5 DEF CallInv, Same, Swept
<1>5. CASE WritePostcondition(r)
  <2>1. /\ op'[r].pc \in {"receipt", "recovering"} /\ op'[r].good = op[r].good
        /\ op'[r].receipt => op'[r].pc = "receipt"
        /\ \A q \in Requests \ {r} : op'[q] = op[q]
    BY <1>0, <1>5 DEF WritePostcondition, CallRecord
  <2>2. /\ op[r].pc = "reread"
        /\ UNCHANGED <<req, task, approval, armed, sub, wd, logged, effect, undone, voidBy>>
    BY <1>5 DEF WritePostcondition
  <2>3. Gate(r)'
    BY <2>1, <2>2, GateOfCall
  <2>4. Effect(r)' /\ Logged(r)' /\ Outcome(r)'
    BY <2>1, <2>2 DEF CallInv, Effect, Logged, Outcome, Before, Acted, Failing, Ended
  <2> QED BY <2>1, <2>2, <2>3, <2>4 DEF CallInv, Same, Swept
<1>6. CASE ShellRun(r)
  <2>1. CASE Goto(r, "recovering") /\ UNCHANGED effect
    BY <1>1, <1>6, <2>1 DEF ShellRun, Failing
  <2>2. CASE /\ \E good \in BOOLEAN : op' = [op EXCEPT ![r].pc = "receipt", ![r].good = good]
             /\ effect' = [effect EXCEPT ![r] = @ + 1]
    <3>0. PICK good \in BOOLEAN : op' = [op EXCEPT ![r].pc = "receipt", ![r].good = good]
      BY <2>2
    <3>1. /\ op'[r].pc = "receipt" /\ op'[r].receipt = op[r].receipt
          /\ \A q \in Requests \ {r} : op'[q] = op[q]
      BY <1>0, <3>0 DEF CallRecord
    <3>2. /\ op[r].pc = "act" /\ req[r].kind = "shell" /\ effect'[r] = effect[r] + 1
          /\ \A q \in Requests \ {r} : effect'[q] = effect[q]
          /\ UNCHANGED <<req, task, approval, armed, sub, wd, logged, undone, voidBy>>
      BY <1>6, <2>2 DEF ShellRun, TypeOK
    <3>3. Gate(r)'
      BY <3>1, <3>2, GateOfCall
    <3>4. approval[r] \in {"APPROVED", "VOID"} /\ effect[r] = 0
      BY <3>2 DEF CallInv, Gate, Effect, Before, TypeOK
    <3>5. Effect(r)' /\ Logged(r)' /\ Outcome(r)'
      BY <3>1, <3>2, <3>4 DEF CallInv, Effect, Logged, Outcome, Before, Acted, Failing, Ended
    <3> QED BY <3>1, <3>2, <3>3, <3>5 DEF CallInv, Same, Swept
  <2> QED BY <1>6, <2>1, <2>2 DEF ShellRun
<1>7. CASE Verified(r)
  <2>1. CASE Goto(r, "recovering") /\ UNCHANGED logged
    BY <1>1, <1>7, <2>1 DEF Verified, Failing
  <2>2. CASE /\ req[r].kind = "shell" => op[r].good
             /\ LogAndGoto(r, "execution.verified", "toCompleted")
    <3>1. /\ logged[r] \subseteq logged'[r]
          /\ \A q \in Requests \ {r} : logged'[q] = logged[q]
          /\ \/ "execution.verified" \in logged'[r] /\ Goto(r, "toCompleted")
             \/ Goto(r, "gone")
      BY <2>2, LogFacts DEF Events, Acted
    <3>2. /\ op'[r].good = op[r].good
          /\ op'[r].receipt => op[r].receipt /\ op'[r].pc \notin Ended
          /\ \A q \in Requests \ {r} : op'[q] = op[q]
          /\ \/ "execution.verified" \in logged'[r] /\ op'[r].pc = "toCompleted"
             \/ op'[r].pc = "gone"
      BY <3>1, GotoFacts DEF Acted, Ended
    <3>3. /\ op[r].pc = "verified"
          /\ UNCHANGED <<req, task, approval, armed, sub, wd, effect, undone, voidBy>>
      BY <1>7 DEF Verified
    <3>4. Gate(r)'
      BY <3>2, <3>3, GateOfCall
    <3>5. Effect(r)' /\ Logged(r)' /\ Outcome(r)'
      BY <2>2, <3>1, <3>2, <3>3
         DEF CallInv, Effect, Logged, Outcome, Before, Acted, Failing, Ended
    <3> QED BY <3>1, <3>2, <3>3, <3>4, <3>5 DEF CallInv, Same, Swept
  <2> QED BY <1>7, <2>1, <2>2 DEF Verified
<1> QED BY <1>2, <1>3, <1>4, <1>5, <1>6, <1>7

\* The failure path, and the death of the call.
LEMMA FailureKeeps ==
    ASSUME TypeOK, NEW r \in Requests, CallInv(r),
           rollback(r) \/ ToRecovering(r) \/ ToQuarantined(r) \/ _void_approval(r) \/ Dies(r)
    PROVE  CallInv(r)' /\ \A q \in Requests \ {r} : Same(q)
<1> USE PlacesNamed
<1>1. CASE rollback(r)
  <2>1. /\ op'[r].pc = "recovering" /\ op'[r].good = op[r].good
        /\ op'[r].receipt => op[r].receipt
        /\ \A q \in Requests \ {r} : op'[q] = op[q]
    BY <1>1, GotoFacts DEF rollback, Failing
  <2>2. /\ op[r].pc = "rollback"
        /\ \A q \in Requests \ {r} : undone'[q] = undone[q]
        /\ UNCHANGED <<req, task, approval, armed, sub, wd, logged, effect, voidBy>>
    BY <1>1 DEF rollback, TypeOK
  <2>3. Gate(r)'
    BY <2>1, <2>2, GateOfCall
  <2>4. Effect(r)' /\ Logged(r)' /\ Outcome(r)'
    BY <2>1, <2>2 DEF CallInv, Effect, Logged, Outcome, Before, Acted, Failing, Ended
  <2> QED BY <2>1, <2>2, <2>3, <2>4 DEF CallInv, Same, Swept
<1>2. CASE ToRecovering(r) \/ ToQuarantined(r)
  <2>1. AfterFailure(r) \in {"done", "void"}
    BY DEF AfterFailure
  <2>2. /\ op[r].pc \in {"recovering", "quarantining"}
        /\ UNCHANGED <<req, approval, armed, sub, wd, effect, undone, voidBy>>
    BY <1>2 DEF ToRecovering, ToQuarantined
  <2>3. /\ \A q \in Requests \ {r} : op'[q] = op[q] /\ logged'[q] = logged[q] /\ task'[q] = task[q]
        /\ logged[r] \subseteq logged'[r]
        /\ op'[r].pc \in Ended \cup {"quarantining", "void"} /\ op'[r].good = op[r].good
        /\ op'[r].receipt => op[r].receipt /\ op'[r].pc \notin Ended
        /\ task'[r] \in {task[r], "RECOVERING", "QUARANTINED"}
    <3>1. \/ \E pc \in {"quarantining", "void", "done"}, to \in {"RECOVERING", "QUARANTINED"} :
              Move(r, to) /\ LogAndGoto(r, to, pc)
          \/ /\ UNCHANGED <<task, logged>>
             /\ \E pc \in {"quarantining", "void", "done"} : Goto(r, pc)
      BY <1>2, <2>1 DEF ToRecovering, ToQuarantined
    <3>2. ASSUME NEW pc \in {"quarantining", "void", "done"}, NEW to \in {"RECOVERING", "QUARANTINED"},
                 Move(r, to), LogAndGoto(r, to, pc)
          PROVE  <2>3!:
      <4>1. to \in Events /\ pc \in Places /\ "gone" \in Places
        BY DEF Events, TASK_STATES, Failing, Ended
      <4>2. /\ logged[r] \subseteq logged'[r]
            /\ \A q \in Requests \ {r} : logged'[q] = logged[q]
            /\ Goto(r, pc) \/ Goto(r, "gone")
        BY <3>2, <4>1, LogFacts
      <4>3. /\ \A q \in Requests \ {r} : op'[q] = op[q]
            /\ op'[r].pc \in {pc, "gone"} /\ op'[r].good = op[r].good
            /\ op'[r].receipt => op[r].receipt /\ op'[r].pc \notin Ended
        BY <4>1, <4>2, GotoFacts
      <4>4. /\ task'[r] = to
            /\ \A q \in Requests \ {r} : task'[q] = task[q]
        BY <3>2 DEF Move, TypeOK
      <4> QED BY <4>2, <4>3, <4>4 DEF Ended
    <3>3. ASSUME NEW pc \in {"quarantining", "void", "done"}, Goto(r, pc), UNCHANGED <<task, logged>>
          PROVE  <2>3!:
      <4>1. pc \in Places
        BY DEF Failing, Ended
      <4> QED BY <3>3, <4>1, GotoFacts DEF Ended
    <3> QED BY <3>1, <3>2, <3>3
  <2>4. Gate(r)'
    BY <2>2, <2>3, GateOfCall DEF Ended
  <2>5. Effect(r)' /\ Logged(r)' /\ Outcome(r)'
    BY <2>2, <2>3 DEF CallInv, Effect, Logged, Outcome, Before, Acted, Failing, Ended
  <2> QED BY <2>2, <2>3, <2>4, <2>5 DEF CallInv, Same, Swept
<1>3. CASE _void_approval(r)
  <2>1. /\ op[r].pc = "void"
        /\ UNCHANGED <<req, task, armed, sub, wd, effect, undone>>
        /\ \/ /\ approval[r] = "APPROVED" /\ approval'[r] = "VOID"
              /\ LogAndGoto(r, "approval.voided", "done")
           \/ /\ UNCHANGED <<approval, voidBy, logged>> /\ Goto(r, "done")
        /\ \A q \in Requests \ {r} : approval'[q] = approval[q] /\ voidBy'[q] = voidBy[q]
    BY <1>3 DEF _void_approval, TypeOK
  <2>2. "done" \in Places /\ "gone" \in Places /\ "approval.voided" \in Events
    BY DEF Ended, Events
  <2>3. /\ logged[r] \subseteq logged'[r]
        /\ \A q \in Requests \ {r} : logged'[q] = logged[q]
        /\ Goto(r, "done") \/ Goto(r, "gone")
    BY <2>1, <2>2, LogFacts
  <2>4. /\ \A q \in Requests \ {r} : op'[q] = op[q]
        /\ op'[r].pc \in Ended /\ op'[r].good = op[r].good /\ ~op'[r].receipt
    BY <2>2, <2>3, GotoFacts DEF Ended
  <2>5. Gate(r)'
    BY <2>1, <2>4, GateOfCall DEF Ended
  <2>6. Effect(r)' /\ Logged(r)' /\ Outcome(r)'
    BY <2>1, <2>3, <2>4 DEF CallInv, Effect, Logged, Outcome, Before, Acted, Failing, Ended
  <2> QED BY <2>1, <2>3, <2>4, <2>5, <2>6 DEF CallInv, Same, Swept
<1>4. CASE Dies(r)
  <2>1. /\ op'[r].pc = "gone" /\ op'[r].good = op[r].good /\ ~op'[r].receipt
        /\ \A q \in Requests \ {r} : op'[q] = op[q]
    BY <1>4, GotoFacts DEF Dies, Ended
  <2>2. /\ op[r].pc \notin {"idle", "done", "gone"}
        /\ UNCHANGED <<req, task, approval, armed, sub, wd, logged, effect, undone, voidBy>>
    BY <1>4 DEF Dies, Live
  <2>3. Gate(r)'
    BY <2>1, <2>2, GateOfCall DEF Ended
  <2>4. Effect(r)' /\ Logged(r)' /\ Outcome(r)'
    BY <2>1, <2>2 DEF CallInv, Effect, Logged, Outcome, Before, Acted, Failing, Ended
  <2> QED BY <2>1, <2>2, <2>3, <2>4 DEF CallInv, Same, Swept
<1> QED BY <1>1, <1>2, <1>3, <1>4

\* The watchdog and recovery act on tasks and approvals of calls under way.
LEMMA SweepKeeps ==
    ASSUME TypeOK, NEW r \in Requests, CallInv(r), Watchdog \/ WatchdogDies \/ recover_incomplete
    PROVE  /\ CallInv(r)' /\ UNCHANGED <<req, file, op, effect>>
           /\ task[r] = "COMPLETED" => task'[r] = "COMPLETED"
<1>1. /\ UNCHANGED <<req, file, armed, sub, op, logged, effect, undone>>
      /\ task'[r] \in {task[r], "QUARANTINED"}
      /\ task'[r] # task[r] => approval[r] # "none" \/ task[r] \in _RECOVERABLE_STATES
      /\ r \in Swept' => r \in Swept \/ approval[r] = "APPROVED"
      /\ \/ approval'[r] = approval[r] /\ voidBy'[r] = voidBy[r]
         \/ approval[r] = "APPROVED" /\ approval'[r] = "VOID" /\ voidBy'[r] = "watchdog"
      /\ task[r] = "COMPLETED" => task'[r] = "COMPLETED"
  <2>1. CASE WatchdogScan
    BY <2>1 DEF WatchdogScan, TypeOK, SweepRecord, Swept
  <2>2. ASSUME NEW q \in Requests, _classify(q) PROVE <1>1!:
    BY <2>2 DEF _classify, TypeOK, SweepRecord, Swept
  <2>3. ASSUME NEW q \in Requests, WatchdogVoid(q) PROVE <1>1!:
    BY <2>3 DEF WatchdogVoid, TypeOK, SweepRecord, Swept
  <2>4. ASSUME NEW q \in Requests, WatchdogQuarantine(q) PROVE <1>1!:
    <3>1. wd' = [wd EXCEPT !.voided = @ \ {q}] /\ q \in wd.voided
      BY <2>4 DEF WatchdogQuarantine
    <3>2. r \in Swept' => r \in Swept
      BY <3>1 DEF TypeOK, SweepRecord, Swept
    <3>3. \/ task' = task
          \/ CanMove(task[q], "QUARANTINED") /\ task' = [task EXCEPT ![q] = "QUARANTINED"]
      BY <2>4 DEF WatchdogQuarantine, Move
    <3>4. q = r => approval[r] # "none"
      BY <3>1 DEF CallInv, Gate, Swept
    <3>5. task[q] = "COMPLETED" => ~CanMove(task[q], "QUARANTINED")
      BY DEF CanMove, _ALLOWED_TRANSITIONS
    <3> QED BY <2>4, <3>2, <3>3, <3>4, <3>5 DEF WatchdogQuarantine, TypeOK
  <2>5. CASE WatchdogDies
    BY <2>5 DEF WatchdogDies, Swept
  <2>6. CASE recover_incomplete
    BY <2>6 DEF recover_incomplete, _RECOVERABLE_STATES, Swept
  <2> QED BY <2>1, <2>2, <2>3, <2>4, <2>5, <2>6 DEF Watchdog
<1>2. Gate(r)'
  BY <1>1 DEF CallInv, Gate, _RECOVERABLE_STATES
<1>3. Effect(r)' /\ Logged(r)' /\ Outcome(r)'
  BY <1>1 DEF CallInv, Effect, Logged, Outcome
<1> QED BY <1>1, <1>2, <1>3 DEF CallInv

\* Every step keeps the invariant of every call.
LEMMA CallStep ==
    ASSUME TypeOK, [Next]_vars, \A r \in Requests : CallInv(r)
    PROVE  \A r \in Requests : CallInv(r)'
<1>1. ASSUME NEW r \in Requests,
             \/ \E kind \in Kinds, path \in Paths, expected \in {Absent, Original} :
                   submit(r, kind, path, expected)
             \/ Deny(r) \/ SubmitApproval(r) \/ SubmitWait(r) \/ SubmitDies(r)
      PROVE  \A q \in Requests : CallInv(q)'
  BY <1>1, SubmitKeeps, SameKeeps
<1>2. ASSUME NEW r \in Requests, approve(r) \/ approve_expired(r) \/ reject(r) \/ Authorize(r)
      PROVE  \A q \in Requests : CallInv(q)'
  BY <1>2, DecisionKeeps, SameKeeps
<1>3. ASSUME NEW r \in Requests, Serve(r) \/ Dies(r)
      PROVE  \A q \in Requests : CallInv(q)'
  BY <1>3, MoveKeeps, ActKeeps, FailureKeeps, SameKeeps DEF Serve
<1>4. CASE Watchdog \/ WatchdogDies \/ recover_incomplete
  BY <1>4, SweepKeeps
<1>5. CASE UNCHANGED vars \/ \E to \in BOOLEAN : Arm(to)
  <2>1. \A q \in Requests : Same(q)
    BY <1>5 DEF Arm, vars, Same, Swept
  <2> QED BY <2>1, SameKeeps
<1>6. Kinds = {"write", "shell", "read"}
  BY DEF Kinds
<1> QED BY <1>1, <1>2, <1>3, <1>4, <1>5, <1>6 DEF Next

-----------------------------------------------------------------------------
(* Files.                                                                   *)

\* Before its effect a request is in no file.
LEMMA Unacted ==
    ASSUME NEW r \in Requests, req'[r].path \in Paths, CallInv(r)', Held', effect'[r] = 0
    PROVE  WriteInv(r)'
  BY DEF WriteInv, CallInv, Effect, Held, Acted

\* A request that is sole after a step was so before.
LEMMA SoleBefore ==
    ASSUME NEW r \in Requests, req'[r] = req[r],
           \A q \in Requests : effect'[q] = 0 => effect[q] = 0,
           \A q \in Requests : req'[q] = req[q] \/ effect[q] = 0,
           Sole(r)'
    PROVE  Sole(r)
  BY DEF Sole

\* A step of request r that leaves the files alone leaves them to the others.
LEMMA OthersFiles ==
    ASSUME NEW r \in Requests, \A q \in Requests \ {r} : Same(q) /\ WriteInv(q),
           file' = file, effect'[r] = 0 => effect[r] = 0, req'[r] = req[r] \/ effect[r] = 0
    PROVE  \A q \in Requests \ {r} : WriteInv(q)'
<1> SUFFICES ASSUME NEW q \in Requests \ {r} PROVE WriteInv(q)'
  OBVIOUS
<1>1. Sole(q)' => Sole(q)
  BY SoleBefore DEF Same
<1> QED BY <1>1 DEF WriteInv, Same

\* The contents held for a rollback are Absent or were read from a file.
LEMMA HeldStep ==
    ASSUME IInv, [Next]_vars
    PROVE  Held'
<1> USE PlacesNamed
<1>0. TypeOK /\ Held /\ \A r \in Requests : CallInv(r) /\ req[r].path \in Paths
  BY DEF IInv, TypeOK, ReqRecord
<1>1. ASSUME NEW r \in Requests, file' = file, UNCHANGED effect,
             \A q \in Requests \ {r} : op'[q] = op[q], op'[r].before \in {op[r].before, Absent}
      PROVE  Held'
  BY <1>0, <1>1, VestaAssumption DEF Held
<1>2. ASSUME UNCHANGED <<file, effect, op>> PROVE Held'
  BY <1>0, <1>2 DEF Held
<1>3. ASSUME NEW r \in Requests, NEW pc \in Places, Goto(r, pc), UNCHANGED <<file, effect>>
      PROVE  Held'
  <2>1. /\ \A q \in Requests \ {r} : op'[q] = op[q]
        /\ op'[r].before \in {op[r].before, Absent}
    BY <1>0, <1>3, GotoFacts
  <2> QED BY <1>1, <1>3, <2>1
<1>4. ASSUME NEW r \in Requests, NEW event \in Events, NEW pc \in Places,
             LogAndGoto(r, event, pc), UNCHANGED <<file, effect>>
      PROVE  Held'
  BY <1>3, <1>4 DEF LogAndGoto, Ended
<1>5. ASSUME NEW r \in Requests, WritePrecondition(r) PROVE Held'
  <2>1. CASE Goto(r, "recovering")
    BY <1>3, <1>5, <2>1 DEF WritePrecondition, Failing
  <2>2. CASE op' = [op EXCEPT ![r].pc = "replace", ![r].before = file[req[r].path]]
    <3>1. /\ op'[r].before = file[req[r].path]
          /\ \A q \in Requests \ {r} : op'[q] = op[q]
      BY <1>0, <2>2 DEF TypeOK, CallRecord
    <3>2. effect[r] = 0 /\ UNCHANGED <<file, effect>>
      BY <1>0, <1>5 DEF WritePrecondition, CallInv, Effect, Before
    <3> QED BY <1>0, <3>1, <3>2 DEF Held
  <2> QED BY <1>5, <2>1, <2>2 DEF WritePrecondition
<1>6. ASSUME NEW r \in Requests, WriteReplace(r) PROVE Held'
  <2>1. /\ \A q \in Requests \ {r} : op'[q] = op[q]
        /\ op'[r].before \in {op[r].before, Absent}
    BY <1>0, <1>6, GotoFacts DEF WriteReplace, Acted
  <2>2. effect[r] = 0
    BY <1>0, <1>6 DEF WriteReplace, CallInv, Effect, Before
  <2>3. /\ \A q \in Requests : effect'[q] = IF q = r THEN 1 ELSE effect[q]
        /\ \A p \in Paths : file'[p] = IF p = req[r].path THEN r ELSE file[p]
    BY <1>0, <1>6, <2>2 DEF WriteReplace, TypeOK
  <2> QED BY <1>0, <2>1, <2>3, VestaAssumption DEF Held
<1>7. ASSUME NEW r \in Requests, WritePostcondition(r) PROVE Held'
  <2>1. op'[r].before = op[r].before /\ \A q \in Requests \ {r} : op'[q] = op[q]
    BY <1>0, <1>7 DEF WritePostcondition, TypeOK, CallRecord
  <2> QED BY <1>1, <1>7, <2>1 DEF WritePostcondition
<1>8. ASSUME NEW r \in Requests, ShellRun(r) PROVE Held'
  <2>1. CASE Goto(r, "recovering") /\ UNCHANGED effect
    BY <1>3, <1>8, <2>1 DEF ShellRun, Failing
  <2>2. CASE /\ \E good \in BOOLEAN : op' = [op EXCEPT ![r].pc = "receipt", ![r].good = good]
             /\ effect' = [effect EXCEPT ![r] = @ + 1]
    <3>1. PICK good \in BOOLEAN : op' = [op EXCEPT ![r].pc = "receipt", ![r].good = good]
      BY <2>2
    <3>2. op'[r].before = op[r].before /\ \A q \in Requests \ {r} : op'[q] = op[q]
      BY <1>0, <3>1 DEF TypeOK, CallRecord
    <3>3. effect[r] = 0 /\ UNCHANGED file
      BY <1>0, <1>8 DEF ShellRun, CallInv, Effect, Before
    <3>4. \A q \in Requests : effect'[q] = IF q = r THEN 1 ELSE effect[q]
      BY <1>0, <2>2, <3>3 DEF TypeOK
    <3> QED BY <1>0, <3>2, <3>3, <3>4 DEF Held
  <2> QED BY <1>8, <2>1, <2>2 DEF ShellRun
<1>9. ASSUME NEW r \in Requests, rollback(r) PROVE Held'
  <2>1. /\ \A q \in Requests \ {r} : op'[q] = op[q]
        /\ op'[r].before \in {op[r].before, Absent}
    BY <1>0, <1>9, GotoFacts DEF rollback, Failing
  <2>2. UNCHANGED effect /\ \A p \in Paths : file'[p] \in {op[r].before, file[p]}
    BY <1>0, <1>9 DEF rollback, TypeOK
  <2> QED BY <1>0, <2>1, <2>2, VestaAssumption DEF Held
<1>10. ASSUME NEW r \in Requests,
              \/ Decided(r) \/ _transition(r) \/ KillCheck(r) \/ FileRead(r) \/ RecordReceipt(r)
              \/ Verified(r) \/ ToRecovering(r) \/ ToQuarantined(r) \/ _void_approval(r)
              \/ Dies(r) \/ approve(r) \/ reject(r) \/ Authorize(r)
       PROVE  Held'
  <2>1. UNCHANGED <<file, effect>>
    BY <1>10 DEF Decided, _transition, KillCheck, FileRead, RecordReceipt, Verified,
                 ToRecovering, ToQuarantined, _void_approval, Dies, approve, reject, Authorize
  <2>2. CASE Decided(r) \/ KillCheck(r) \/ FileRead(r) \/ RecordReceipt(r) \/ Verified(r)
    BY <1>3, <1>4, <2>1, <2>2 DEF Decided, KillCheck, FileRead, RecordReceipt, Verified,
                 Before, Acted, Failing, Events
  <2>3. CASE ToRecovering(r) \/ ToQuarantined(r) \/ _void_approval(r)
    <3>1. AfterFailure(r) \in Places /\ {"RECOVERING", "QUARANTINED", "approval.voided"} \subseteq Events
      BY DEF AfterFailure, Failing, Ended, Events, TASK_STATES
    <3> QED BY <1>3, <1>4, <2>1, <2>3, <3>1 DEF ToRecovering, ToQuarantined, _void_approval,
                 Failing, Ended
  <2>4. CASE Dies(r) \/ approve(r) \/ reject(r) \/ Authorize(r)
    BY <1>3, <2>1, <2>4 DEF Dies, approve, reject, Authorize, Before, Ended
  <2>5. CASE _transition(r)
    <3>1. /\ Steps[op[r].pc].to \in Events /\ Steps[op[r].pc].next \in Places
          /\ OnRefusal(r) \in Places
      BY <2>5, StepsTyped DEF _transition, OnRefusal, Acted, Failing, Ended
    <3> QED BY <1>3, <1>4, <2>1, <2>5, <3>1 DEF _transition
  <2> QED BY <1>10, <2>2, <2>3, <2>4, <2>5
<1>11. CASE \/ Watchdog \/ WatchdogDies \/ recover_incomplete \/ UNCHANGED vars
            \/ \E to \in BOOLEAN : Arm(to)
  BY <1>2, <1>11 DEF Watchdog, WatchdogScan, _classify, WatchdogVoid, WatchdogQuarantine,
                     WatchdogDies, recover_incomplete, Arm, vars
<1>12. ASSUME NEW r \in Requests,
              \/ \E kind \in Kinds, path \in Paths, expected \in {Absent, Original} :
                    submit(r, kind, path, expected)
              \/ Deny(r) \/ SubmitApproval(r) \/ SubmitWait(r) \/ SubmitDies(r) \/ approve_expired(r)
       PROVE  Held'
  BY <1>2, <1>12 DEF submit, Deny, SubmitApproval, SubmitWait, SubmitDies, approve_expired
<1>13. Kinds = {"write", "shell", "read"}
  BY DEF Kinds
<1> QED BY <1>5, <1>6, <1>7, <1>8, <1>9, <1>10, <1>11, <1>12, <1>13 DEF Next, Serve

\* A written file stays until its request's rollback, or another request's effect.
LEMMA WriteStep ==
    ASSUME IInv, [Next]_vars
    PROVE  \A r \in Requests : WriteInv(r)'
<1> USE PlacesNamed
<1>0. /\ TypeOK /\ TypeOK' /\ Held'
      /\ \A r \in Requests : CallInv(r) /\ WriteInv(r) /\ CallInv(r)'
      /\ \A r \in Requests : req[r].path \in Paths /\ req'[r].path \in Paths
  BY TypeStep, HeldStep, CallStep DEF IInv, TypeOK, ReqRecord
<1>1. ASSUME NEW r \in Requests, effect'[r] = 0
      PROVE  WriteInv(r)'
  BY <1>0, <1>1, Unacted
<1>2. ASSUME NEW r \in Requests,
             \/ \E kind \in Kinds, path \in Paths, expected \in {Absent, Original} :
                   submit(r, kind, path, expected)
             \/ Deny(r) \/ SubmitApproval(r) \/ SubmitWait(r) \/ SubmitDies(r)
      PROVE  \A q \in Requests : WriteInv(q)'
  <2>1. /\ UNCHANGED <<file, op, effect>>
        /\ req' = req \/ sub[r] = "none"
    BY <1>2 DEF submit, Deny, SubmitApproval, SubmitWait, SubmitDies
  <2>2. /\ \A q \in Requests \ {r} : Same(q)
        /\ task[r] = "COMPLETED" => task'[r] = "COMPLETED"
    BY <1>0, <1>2, SubmitKeeps
  <2>3. sub[r] = "none" => effect[r] = 0
    BY <1>0 DEF CallInv, Gate, Effect, Before
  <2>4. \A q \in Requests \ {r} : WriteInv(q)'
    BY <1>0, <2>1, <2>2, <2>3, OthersFiles
  <2>5. req' = req => Sole(r)' = Sole(r)
    BY <2>1 DEF Sole
  <2>6. WriteInv(r)'
    BY <1>0, <1>1, <2>1, <2>2, <2>3, <2>5 DEF WriteInv
  <2> QED BY <2>4, <2>6
<1>3. ASSUME NEW r \in Requests, UNCHANGED <<file, effect, req>>,
             \A q \in Requests \ {r} : Same(q)
      PROVE  /\ \A q \in Requests \ {r} : WriteInv(q)'
             /\ Sole(r)' = Sole(r)
  BY <1>0, <1>3, OthersFiles DEF Sole
<1>4. ASSUME NEW r \in Requests, approve(r) \/ approve_expired(r) \/ reject(r) \/ Authorize(r)
      PROVE  \A q \in Requests : WriteInv(q)'
  <2>1. UNCHANGED <<file, effect, req>> /\ effect[r] = 0
    BY <1>0, <1>4 DEF approve, approve_expired, reject, Authorize, CallInv, Gate, Effect, Before
  <2> QED BY <1>0, <1>1, <1>3, <1>4, <2>1, DecisionKeeps
<1>5. ASSUME NEW r \in Requests, Decided(r) \/ _transition(r)
      PROVE  \A q \in Requests : WriteInv(q)'
  <2>1. UNCHANGED <<file, effect, req>>
    BY <1>5 DEF Decided, _transition
  <2>2. /\ \A q \in Requests \ {r} : WriteInv(q)'
        /\ Sole(r)' = Sole(r)
    BY <1>0, <1>3, <1>5, <2>1, MoveKeeps
  <2>3. CASE effect[r] # 0 /\ req[r].kind = "write"
    <3>1. _transition(r) /\ op[r].pc \in {"toVerifying", "toCompleted"} /\ op[r].receipt
      BY <1>0, <1>5, <2>3 DEF Decided, _transition, CallInv, Effect, WriteInv, Before, Acted, Steps
    <3>2. OnRefusal(r) = "rollback"
      BY <2>3, <3>1 DEF OnRefusal
    <3>3. CASE /\ Move(r, Steps[op[r].pc].to)
               /\ LogAndGoto(r, Steps[op[r].pc].to, Steps[op[r].pc].next)
      <4>1. Goto(r, Steps[op[r].pc].next) \/ Goto(r, "gone")
        BY <3>3 DEF LogAndGoto
      <4>5. {"verified", "done", "gone"} \subseteq Places
        BY DEF Acted, Ended
      <4>6. Steps[op[r].pc].next = IF op[r].pc = "toCompleted" THEN "done" ELSE "verified"
        BY <3>1 DEF Steps
      <4>7. Goto(r, "gone") => op'[r].pc = "gone"
        BY <1>0, <4>5, GotoFacts
      <4>8. Goto(r, "verified") => op'[r].pc = "verified" /\ op'[r].receipt
        BY <1>0, <3>1, <4>5, GotoFacts DEF Ended
      <4>9. Goto(r, "done") => op'[r].pc = "done"
        BY <1>0, <4>5, GotoFacts
      <4>2. \/ op'[r].pc = "verified" /\ op'[r].receipt
            \/ op'[r].pc \in Ended
        BY <4>1, <4>6, <4>7, <4>8, <4>9 DEF Ended
      <4>3. op[r].pc = "toCompleted" => task'[r] = "COMPLETED"
        BY <1>0, <3>3 DEF Move, TypeOK, Steps
      <4>4. op'[r].pc = "done" => op[r].pc = "toCompleted"
        BY <4>1, <4>6, <4>7, <4>8, <4>9
      <4> QED BY <2>2, <4>2, <4>3, <4>4 DEF WriteInv, Acted, Failing, Ended
    <3>4. CASE Goto(r, OnRefusal(r))
      <4>1. op'[r].pc = "rollback" /\ op'[r].receipt
        BY <1>0, <3>1, <3>2, <3>4, GotoFacts DEF Acted, Ended
      <4> QED BY <2>2, <4>1 DEF WriteInv, Failing
    <3> QED BY <2>2, <3>1, <3>3, <3>4 DEF _transition
  <2>4. CASE req[r].kind # "write"
    BY <2>1, <2>4, <2>2 DEF WriteInv
  <2> QED BY <1>1, <2>1, <2>2, <2>3, <2>4
<1>6. ASSUME NEW r \in Requests,
             KillCheck(r) \/ WritePrecondition(r) \/ ShellRun(r) \/ FileRead(r) \/ RecordReceipt(r)
             \/ Verified(r) \/ WritePostcondition(r)
      PROVE  \A q \in Requests : WriteInv(q)'
  <2>1. UNCHANGED <<file, req>> /\ \A q \in Requests \ {r} : Same(q)
    BY <1>0, <1>6, ActKeeps DEF KillCheck, WritePrecondition, ShellRun, FileRead, RecordReceipt,
                                Verified, WritePostcondition
  <2>2. req[r].kind = "write" => UNCHANGED effect
    BY <1>6 DEF KillCheck, WritePrecondition, ShellRun, FileRead, RecordReceipt, Verified,
                WritePostcondition
  <2>3. effect[r] # 0 => effect'[r] # 0
    BY <1>0, <1>6 DEF KillCheck, WritePrecondition, ShellRun, FileRead, RecordReceipt, Verified,
                WritePostcondition, TypeOK
  <2>4. \A q \in Requests \ {r} : WriteInv(q)'
    BY <1>0, <2>1, <2>3, OthersFiles
  <2>5. CASE effect[r] # 0 /\ req[r].kind = "write"
    <3>1. op[r].pc \in {"receipt", "verified", "reread"}
      BY <1>0, <1>6, <2>5 DEF KillCheck, WritePrecondition, ShellRun, FileRead, RecordReceipt,
                Verified, WritePostcondition, CallInv, Effect, Before
    <3>2. CASE RecordReceipt(r)
      <4>1. op[r].receipt /\ (Goto(r, "toVerifying") \/ Goto(r, "rollback"))
        BY <1>0, <2>5, <3>2 DEF RecordReceipt, WriteInv, Acted
      <4>2. op'[r].receipt /\ op'[r].pc \in {"toVerifying", "rollback"}
        BY <1>0, <4>1, GotoFacts DEF Acted, Ended
      <4> QED BY <2>4, <4>2 DEF WriteInv, Failing
    <3>3. CASE Verified(r)
      <4>1. op[r].receipt /\ (Goto(r, "toCompleted") \/ Goto(r, "gone"))
        BY <1>0, <2>5, <3>3 DEF Verified, WriteInv, Acted, LogAndGoto
      <4>2. \/ op'[r].receipt /\ op'[r].pc = "toCompleted"
            \/ op'[r].pc = "gone"
        <5>1. Goto(r, "gone") => op'[r].pc = "gone"
          BY <1>0, GotoFacts DEF Ended
        <5>2. Goto(r, "toCompleted") => op'[r].pc = "toCompleted" /\ op'[r].receipt
          BY <1>0, <4>1, GotoFacts DEF Acted, Ended
        <5> QED BY <4>1, <5>1, <5>2
      <4> QED BY <2>4, <4>2 DEF WriteInv, Failing, Acted
    <3>4. CASE WritePostcondition(r)
      <4>1. \/ op'[r].pc = "receipt" /\ op'[r].receipt
            \/ op'[r].pc = "recovering" /\ file'[req'[r].path] # r
        BY <1>0, <2>1, <3>4 DEF WritePostcondition, TypeOK, CallRecord
      <4> QED BY <2>4, <4>1 DEF WriteInv, Failing, Acted
    <3> QED BY <1>6, <2>5, <3>1, <3>2, <3>3, <3>4 DEF KillCheck, WritePrecondition, ShellRun,
                FileRead
  <2>6. CASE req[r].kind # "write"
    BY <2>1, <2>6, <2>4 DEF WriteInv
  <2> QED BY <1>1, <2>2, <2>4, <2>5, <2>6
<1>7. ASSUME NEW r \in Requests, WriteReplace(r) \/ rollback(r)
      PROVE  \A q \in Requests : WriteInv(q)'
  <2>1. /\ UNCHANGED req /\ req[r].path \in Paths
        /\ \A p \in Paths \ {req[r].path} : file'[p] = file[p]
        /\ \A q \in Requests \ {r} : Same(q)
    BY <1>0, <1>7, ActKeeps, FailureKeeps DEF WriteReplace, rollback, TypeOK
  <2>2. effect'[r] = 1 /\ req[r].kind = "write"
    BY <1>0, <1>7 DEF WriteReplace, rollback, CallInv, Effect, Before, Acted, TypeOK
  <2>3. ASSUME NEW q \in Requests \ {r} PROVE WriteInv(q)'
    <3>1. CASE req[q].path = req[r].path
      <4>1. ~Sole(q)'
        BY <2>1, <2>2, <3>1 DEF Sole
      <4> QED BY <1>0, <2>1, <4>1 DEF WriteInv, Same
    <3>2. CASE req[q].path # req[r].path
      <4>1. file'[req'[q].path] = file[req[q].path]
        BY <1>0, <2>1, <3>2
      <4>2. effect'[r] = 0 => effect[r] = 0
        BY <2>2
      <4>3. Sole(q)' => Sole(q)
        BY <2>1, <4>2, SoleBefore DEF Same
      <4> QED BY <1>0, <2>1, <4>1, <4>3 DEF WriteInv, Same
    <3> QED BY <3>1, <3>2
  <2>4. WriteInv(r)'
    <3>1. CASE WriteReplace(r)
      <4>1. op'[r].pc = "reread" /\ file'[req'[r].path] = r
        BY <1>0, <3>1, GotoFacts DEF WriteReplace, Acted, TypeOK
      <4> QED BY <4>1 DEF WriteInv, Failing
    <3>2. CASE rollback(r)
      <4>1. op'[r].pc = "recovering" /\ file'[req'[r].path] = op[r].before
        BY <1>0, <3>2, GotoFacts DEF rollback, Failing, TypeOK
      <4>2. op[r].before # r
        BY DEF IInv, Held
      <4> QED BY <4>1, <4>2 DEF WriteInv, Acted
    <3> QED BY <1>7, <3>1, <3>2
  <2> QED BY <2>3, <2>4
<1>8. ASSUME NEW r \in Requests, ToRecovering(r) \/ ToQuarantined(r) \/ _void_approval(r) \/ Dies(r)
      PROVE  \A q \in Requests : WriteInv(q)'
  <2>1. UNCHANGED <<file, effect, req>>
    BY <1>8 DEF ToRecovering, ToQuarantined, _void_approval, Dies
  <2>2. /\ \A q \in Requests \ {r} : WriteInv(q)'
        /\ Sole(r)' = Sole(r)
    BY <1>0, <1>3, <1>8, <2>1, FailureKeeps
  <2>3. WriteInv(r)'
    <3>1. CASE Dies(r)
      <4>1. op'[r].pc = "gone"
        BY <1>0, <3>1, GotoFacts DEF Dies, Ended
      <4> QED BY <4>1 DEF WriteInv, Acted, Failing
    <3>2. CASE ToRecovering(r) \/ ToQuarantined(r) \/ _void_approval(r)
      <4>1. op[r].pc \in Failing /\ task[r] # "COMPLETED"
        BY <1>0, <3>2 DEF ToRecovering, ToQuarantined, _void_approval, Failing, CallInv, Outcome, Ended
      <4>2. \E pc \in {"quarantining", "void", "done", "gone"} : Goto(r, pc)
        BY <3>2 DEF ToRecovering, ToQuarantined, _void_approval, LogAndGoto, AfterFailure
      <4>3. op'[r].pc \in {"quarantining", "void", "done", "gone"}
        BY <1>0, <4>2, GotoFacts DEF Failing, Ended
      <4> QED BY <1>0, <2>1, <2>2, <4>1, <4>3 DEF WriteInv, Acted
    <3> QED BY <1>8, <3>1, <3>2
  <2> QED BY <2>2, <2>3
<1>9. CASE Watchdog \/ WatchdogDies \/ recover_incomplete
  <2>1. ASSUME NEW r \in Requests
        PROVE  /\ UNCHANGED <<req, file, op, effect>>
               /\ task[r] = "COMPLETED" => task'[r] = "COMPLETED"
    BY <1>0, <1>9, SweepKeeps
  <2>2. ASSUME NEW r \in Requests PROVE Sole(r)' = Sole(r)
    BY <2>1 DEF Sole
  <2> QED BY <1>0, <2>1, <2>2 DEF WriteInv
<1>10. CASE UNCHANGED vars \/ \E to \in BOOLEAN : Arm(to)
  <2>1. UNCHANGED <<req, file, op, effect, task>>
    BY <1>10 DEF Arm, vars
  <2>2. ASSUME NEW r \in Requests PROVE Sole(r)' = Sole(r)
    BY <2>1 DEF Sole
  <2> QED BY <1>0, <2>1, <2>2 DEF WriteInv
<1>11. Kinds = {"write", "shell", "read"}
  BY DEF Kinds
<1> QED BY <1>2, <1>4, <1>5, <1>6, <1>7, <1>8, <1>9, <1>10, <1>11 DEF Next, Serve

-----------------------------------------------------------------------------
(* The theorems.                                                            *)

\* The inductive invariant holds in every reachable state.
LEMMA VestaInvariant == Spec => []IInv
<1>1. Init => IInv
  <2> SUFFICES ASSUME Init PROVE IInv
    OBVIOUS
  <2>1. TypeOK
    <3>1. (CHOOSE p \in Paths : TRUE) \in Paths
      BY VestaAssumption
    <3>2. [kind |-> "read", path |-> CHOOSE p \in Paths : TRUE, expected |-> Absent] \in ReqRecord
      BY <3>1 DEF ReqRecord, Kinds
    <3>3. NoCall \in CallRecord
      BY PlacesNamed DEF NoCall, CallRecord, Contents, Before
    <3>4. req \in [Requests -> ReqRecord] /\ op \in [Requests -> CallRecord]
      BY <3>2, <3>3 DEF Init
    <3>5. wd \in SweepRecord /\ file \in [Paths -> Contents]
      BY DEF Init, SweepRecord, Contents
    <3> QED BY <3>4, <3>5 DEF Init, TypeOK
  <2>2. \A r \in Requests : op[r].pc = "idle" /\ op[r].before = Absent /\ ~op[r].receipt
    BY DEF Init, NoCall
  <2>3. Held
    BY <2>2, VestaAssumption DEF Init, Held
  <2>4. ASSUME NEW r \in Requests PROVE CallInv(r) /\ WriteInv(r)
    BY <2>2 DEF Init, CallInv, Gate, Effect, Logged, Outcome, WriteInv, Swept, Before, Acted,
                Failing, Ended
  <2> QED BY <2>1, <2>3, <2>4 DEF IInv
<1>2. IInv /\ [Next]_vars => IInv'
  BY TypeStep, CallStep, HeldStep, WriteStep DEF IInv
<1> QED BY <1>1, <1>2, PTL DEF Spec

(***************************************************************************)
(* However the watchdog, concurrent calls and deaths interleave, a write   *)
(* or command takes effect at most once, only on its owner's approval, and *)
(* only after the decision is on the audit chain (approve_and_execute()),  *)
(* for any number of requests and paths.                                   *)
(***************************************************************************)
THEOREM ApprovalHolds == Spec => []ApprovedOnce
<1>1. IInv => ApprovedOnce
  BY DEF IInv, CallInv, Effect, ApprovedOnce
<1> QED BY <1>1, VestaInvariant, PTL

(***************************************************************************)
(* COMPLETED tells the truth: the request took effect, was verified on the *)
(* audit chain and was not rolled back (runtime.py's task store read with  *)
(* the services' failure path), for any number of requests and paths.      *)
(***************************************************************************)
THEOREM CompletedHolds == Spec => []CompletedIsReal
<1>1. IInv => CompletedIsReal
  BY DEF IInv, CallInv, Outcome, CompletedIsReal
<1> QED BY <1>1, VestaInvariant, PTL

\* An approval a service voids belongs to a task that did not complete
\* (_void_approval()), for any number of requests and paths.
THEOREM VoidHolds == Spec => []ServiceVoidIsFailure
<1>1. IInv => ServiceVoidIsFailure
  BY DEF IInv, CallInv, Outcome, ServiceVoidIsFailure
<1> QED BY <1>1, VestaInvariant, PTL

(***************************************************************************)
(* A write whose call returned a failure is not on disk, unless another    *)
(* request wrote the same path (write.py's rollback), for any number of    *)
(* requests and paths.                                                     *)
(***************************************************************************)
THEOREM RollbackHolds == Spec => []FailedWriteUndone
<1>1. IInv => FailedWriteUndone
  BY DEF IInv, WriteInv, Sole, FailedWriteUndone
<1> QED BY <1>1, VestaInvariant, PTL
=============================================================================
