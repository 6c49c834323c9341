------------------------------- MODULE Guard -------------------------------
(***************************************************************************)
(* The flywheel's single enforcement point (governance/guard.py            *)
(* check_run()) with the brakes it consults: the kill switch, the approval *)
(* queue, the budget ledger and the governor.  Each brake keeps its own    *)
(* SQLite tables and is consulted in a transaction of its own, so several  *)
(* loops, the operator and the clock interleave between any two checks of  *)
(* one call.                                                               *)
(*                                                                         *)
(* The governor's verdict is free here; its rules are not modelled.  A     *)
(* refusal is also written to the audit chain; if that fails check_run()   *)
(* raises, which refuses the action just the same.                         *)
(***************************************************************************)
EXTENDS Integers

CONSTANTS
    Callers,      \* loops that call check_run()
    Items,        \* approval item ids
    Kinds,        \* APPROVAL_KINDS
    Free,         \* the kind of an action that needs no approval
    Categories,   \* budget categories
    Limits,       \* set of <<category, limit>>: the configured caps
    Window,       \* window_s, in ticks
    MaxUnits,     \* bound: units one action asks of a category
    MaxTime,      \* bound: clock ticks
    MaxUses       \* bound: permitted runs counted per approval

ASSUME FreeAssumption == Free \notin Kinds
ASSUME ItemsAssumption == Items # {}
ASSUME LimitsAssumption == Limits \subseteq Categories \X Int
ASSUME WindowAssumption == Window \in Nat \ {0}
ASSUME GuardBounds == MaxUnits \in Nat /\ MaxTime \in Nat /\ MaxUses \in Nat

VARIABLES
    armed,    \* kill_switch_state.armed
    item,     \* approval_items: [kind, status], status "none" before submit
    row,      \* budget_entries: category -> [start, spent], start -1 if none
    now,      \* the clock
    call,     \* caller -> [pc, kind, item, todo]
    uses,     \* item -> permitted actions it covered (auxiliary)
    spentBefore  \* category -> tick -> capped units spent before it (auxiliary)

guardVars == <<armed, item, row, now, call, uses, spentBefore>>

STATUSES == {"PENDING", "APPROVED", "REJECTED", "CANCELLED"}

\* An unconfigured category is unlimited.
Limit(cat) == IF \E l \in Limits : l[1] = cat
              THEN (CHOOSE l \in Limits : l[1] = cat)[2] ELSE -1

Idle == [pc |-> "idle", kind |-> Free, item |-> CHOOSE i \in Items : TRUE,
         todo |-> [cat \in Categories |-> 0]]

NoRow == [start |-> -1, spent |-> 0]

GuardInit ==
    /\ armed = FALSE
    /\ item = [i \in Items |-> [kind |-> Free, status |-> "none"]]
    /\ row = [cat \in Categories |-> NoRow]
    /\ now = 0
    /\ call = [c \in Callers |-> Idle]
    /\ uses = [i \in Items |-> 0]
    /\ spentBefore = [cat \in Categories |-> [t \in 0 .. MaxTime + 1 |-> 0]]

-----------------------------------------------------------------------------
(* The operator and the clock.                                              *)

Arm(to) ==
    /\ armed' = to
    /\ UNCHANGED <<item, row, now, call, uses, spentBefore>>

submit(i, kind) ==
    /\ item[i].status = "none"
    /\ item' = [item EXCEPT ![i] = [kind |-> kind, status |-> "PENDING"]]
    /\ UNCHANGED <<armed, row, now, call, uses, spentBefore>>

\* Slip: the item is read first and the UPDATE has no PENDING guard.
DecideAgain(i, status) ==
    /\ item[i].status # "none"
    /\ item' = [item EXCEPT ![i].status = status]
    /\ UNCHANGED <<armed, row, now, call, uses, spentBefore>>

\* The PENDING guard is in the UPDATE's WHERE clause.
_decide(i, status) ==
    /\ item[i].status = "PENDING"
    /\ item' = [item EXCEPT ![i].status = status]
    /\ UNCHANGED <<armed, row, now, call, uses, spentBefore>>

\* reset(): the ledger forgets, and the count of what it let through restarts.
reset(cat) ==
    /\ row' = [row EXCEPT ![cat] = NoRow]
    /\ spentBefore' = [spentBefore EXCEPT ![cat] = [t \in 0 .. MaxTime + 1 |-> 0]]
    /\ UNCHANGED <<armed, item, now, call, uses>>

Tick ==
    /\ now < MaxTime
    /\ now' = now + 1
    /\ spentBefore' = [cat \in Categories |->
                          [spentBefore[cat] EXCEPT ![now + 2] = spentBefore[cat][now + 1]]]
    /\ UNCHANGED <<armed, item, row, call, uses>>

-----------------------------------------------------------------------------
(* check_run().  A refusal goes back to idle.                               *)

\* Slip: the kill switch is not consulted.
AskArmed(c, kind, i, units) ==
    /\ call[c].pc = "idle"
    /\ call' = [call EXCEPT ![c] = [pc |-> "approval", kind |-> kind, item |-> i,
                                    todo |-> units]]
    /\ UNCHANGED <<armed, item, row, now, uses, spentBefore>>

\* 1. The kill switch, read once at the start.
Ask(c, kind, i, units) ==
    /\ call[c].pc = "idle"
    /\ ~armed
    /\ call' = [call EXCEPT ![c] = [pc |-> "approval", kind |-> kind, item |-> i,
                                    todo |-> units]]
    /\ UNCHANGED <<armed, item, row, now, uses, spentBefore>>

Approved(c) ==
    call[c].kind \in Kinds =>
        /\ item[call[c].item].kind = call[c].kind
        /\ item[call[c].item].status = "APPROVED"

\* 2. The approval gate.
CheckApproval(c) ==
    /\ call[c].pc = "approval"
    /\ call' = [call EXCEPT ![c] = IF Approved(c) THEN [call[c] EXCEPT !.pc = "budget"] ELSE Idle]
    /\ UNCHANGED <<armed, item, row, now, uses, spentBefore>>

Expired(cat) == row[cat].start = -1 \/ now - row[cat].start >= Window

\* Slip: the fresh window is not opened with this spend, so it is not counted.
SpendUncounted(cat, amount) ==
    IF Expired(cat) THEN [start |-> now, spent |-> 0]
                    ELSE [row[cat] EXCEPT !.spent = @ + amount]

\* The row a successful spend leaves.
SpendRow(cat, amount) ==
    IF Expired(cat) THEN [start |-> now, spent |-> amount]
                    ELSE [row[cat] EXCEPT !.spent = @ + amount]

\* spend()'s verdict: 0 denies, negative is unlimited.
MaySpend(cat, amount) ==
    \/ Limit(cat) < 0
    \/ /\ amount <= Limit(cat)
       /\ Limit(cat) # 0
       /\ Expired(cat) \/ row[cat].spent + amount <= Limit(cat)

\* 3. The budget, one category after the other, each spent for good.
Spend(c, cat) ==
    LET amount == call[c].todo[cat]
    IN  /\ call[c].pc = "budget"
        /\ amount > 0
        /\ IF MaySpend(cat, amount)
           THEN /\ row' = [row EXCEPT ![cat] = IF Limit(cat) < 0 THEN @ ELSE SpendRow(cat, amount)]
                /\ spentBefore' = [spentBefore EXCEPT ![cat][now + 1] =
                                        IF Limit(cat) < 0 THEN @ ELSE @ + amount]
                /\ call' = [call EXCEPT ![c].todo[cat] = 0]
           ELSE /\ call' = [call EXCEPT ![c] = Idle]
                /\ UNCHANGED <<row, spentBefore>>
        /\ UNCHANGED <<armed, item, now, uses>>

\* 4. The governor, if the caller passes a signal: it halts ...
GovernorHalts(c) ==
    /\ call[c].pc = "budget"
    /\ \A cat \in Categories : call[c].todo[cat] = 0
    /\ call' = [call EXCEPT ![c] = Idle]
    /\ UNCHANGED <<armed, item, row, now, uses, spentBefore>>

\* ... or lets the action run (OK or SLOW).
Permit(c) ==
    /\ call[c].pc = "budget"
    /\ \A cat \in Categories : call[c].todo[cat] = 0
    /\ call' = [call EXCEPT ![c].pc = "run"]
    /\ UNCHANGED <<armed, item, row, now, uses, spentBefore>>

\* The caller does what it was permitted to do.
Run(c) ==
    /\ call[c].pc = "run"
    /\ uses' = IF call[c].kind \in Kinds /\ uses[call[c].item] < MaxUses
               THEN [uses EXCEPT ![call[c].item] = @ + 1] ELSE uses
    /\ call' = [call EXCEPT ![c] = Idle]
    /\ UNCHANGED <<armed, item, row, now, spentBefore>>

Check(c) ==
    CheckApproval(c) \/ (\E cat \in Categories : Spend(c, cat))
      \/ GovernorHalts(c) \/ Permit(c) \/ Run(c)

GuardNext ==
    \/ Arm(TRUE) \/ Arm(FALSE)
    \/ \E i \in Items, kind \in Kinds : submit(i, kind)
    \/ \E i \in Items, status \in STATUSES \ {"PENDING"} : _decide(i, status)
    \/ \E cat \in Categories : reset(cat)
    \/ Tick
    \/ \E c \in Callers :
          \/ \E kind \in Kinds \cup {Free}, i \in Items, units \in [Categories -> 0 .. MaxUnits] :
                Ask(c, kind, i, units)
          \/ Check(c)

GuardSpec == GuardInit /\ [][GuardNext]_guardVars

\* A call to check_run() comes to its end, and so does the action.
GuardFairSpec == GuardSpec /\ \A c \in Callers : WF_guardVars(Check(c))

-----------------------------------------------------------------------------
CallRecord == [pc : {"idle", "approval", "budget", "run"}, kind : Kinds \cup {Free},
               item : Items, todo : [Categories -> 0 .. MaxUnits]]

GuardTypeOK ==
    /\ armed \in BOOLEAN
    /\ item \in [Items -> [kind : Kinds \cup {Free}, status : STATUSES \cup {"none"}]]
    /\ row \in [Categories -> [start : -1 .. MaxTime, spent : Nat]]
    /\ now \in 0 .. MaxTime
    /\ call \in [Callers -> CallRecord]
    /\ uses \in [Items -> 0 .. MaxUses]
    /\ spentBefore \in [Categories -> [0 .. MaxTime + 1 -> Nat]]

\* What was spent from tick t on.
SpentSince(cat, t) == spentBefore[cat][now + 1] - spentBefore[cat][t]

(***************************************************************************)
(* "When a cap is hit the loop must halt" (budget.py): since the current   *)
(* window of a capped category began, all callers together spent no more   *)
(* than its limit, and the ledger's counter is exactly what they spent.    *)
(***************************************************************************)
CapHolds ==
    \A cat \in Categories :
        Limit(cat) >= 0 =>
            /\ row[cat].start = -1 => SpentSince(cat, 0) = 0
            /\ row[cat].start # -1 =>
                  /\ row[cat].spent = SpentSince(cat, row[cat].start)
                  /\ row[cat].spent <= Limit(cat)

(***************************************************************************)
(* The windows are fixed, so no stretch of window_s seconds is capped by   *)
(* the limit itself (the "rolling window" of budget.py 3-4), but two       *)
(* windows at most meet in one: any such stretch sees at most twice the    *)
(* limit, whoever spends when.                                             *)
(***************************************************************************)
RollingTwice ==
    \A cat \in Categories, t \in 0 .. now :
        Limit(cat) >= 0 /\ now - t < Window => SpentSince(cat, t) <= 2 * Limit(cat)

(***************************************************************************)
(* "Nothing irreversible executes without an explicit owner approval"      *)
(* (approval.py): an action of a gated kind that is about to run, or ran,  *)
(* has an item of its kind that the owner approved, and no later decision  *)
(* turned that approval around.                                            *)
(***************************************************************************)
ApprovedOnly ==
    /\ \A c \in Callers : call[c].pc \in {"budget", "run"} => Approved(c)
    /\ \A i \in Items : uses[i] > 0 => item[i].status = "APPROVED"

(***************************************************************************)
(* One control pauses the whole loop: when the operator arms the switch    *)
(* and leaves it armed, the actions already past the check come to an end  *)
(* and none follows.                                                       *)
(***************************************************************************)
ArmingQuiesces == <>[]armed => <>[](\A c \in Callers : call[c].pc = "idle")
=============================================================================
