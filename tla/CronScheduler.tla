--------------------------- MODULE CronScheduler ---------------------------
(***************************************************************************)
(* The cron scheduler (cron/scheduler.py, cron/store.py) and the wake      *)
(* cycle it drives (wake/runner.py).  Three callers share run_job(): the   *)
(* scheduler's loop and the API, which are coroutines of one event loop in *)
(* the server, and the command line, a process of its own.  A coroutine    *)
(* runs undisturbed by the other one until it awaits; the command line     *)
(* interleaves between any two of its transactions.  An action runs in a   *)
(* thread that a timeout abandons and does not stop.                       *)
(*                                                                         *)
(* Of the history only what the code reads again is kept: the RUNNING rows *)
(* and the newest row of each job.  prune_history() keeps the newest rows  *)
(* and so changes neither.                                                 *)
(***************************************************************************)
EXTENDS WakeInbox, FiniteSets

CONSTANTS
    Jobs,           \* job ids
    Wake,           \* the job whose action is wake_agent
    NeedsApproval,  \* jobs with governance.requires_approval
    MaxRetries,     \* governance.max_retries
    Threads,        \* bound: threads of the executor, a set of numbers
    MaxEvents       \* bound: acts of an operator, timeouts, failed writes and
                    \* deaths together

ASSUME CronAssumption ==
    /\ Wake \in Jobs /\ NeedsApproval \subseteq Jobs
    /\ MaxRetries \in Nat /\ MaxEvents \in Nat /\ Threads \subseteq Nat

VARIABLES
    enabled,   \* cron_jobs.enabled
    armed,     \* the kill switch
    up,        \* the server runs
    due,       \* what is left of the loop's list of due jobs
    call,      \* caller -> [pc, job, trigger, attempt]
    running,   \* job -> owners of its RUNNING rows
    newest,    \* job -> its newest row: [trigger, fresh], started this minute
    thread,    \* thread -> [job, owner, todo]
    events,    \* acts, timeouts, failed writes and deaths so far
    fired,     \* job -> times the schedule fired it this minute, noops included,
               \* since its last manual run (auxiliary)
    overlap    \* two wake cycles have run at once (auxiliary)

cronVars == <<enabled, armed, up, due, call, running, newest, thread, events, fired, overlap>>

vars == <<inbox, replies, cronVars>>

Server == {"loop", "api"}
Callers == Server \cup {"cli"}
Trigger(c) == IF c = "loop" THEN "schedule" ELSE "manual"

Idle == [pc |-> "idle", job |-> Wake, attempt |-> 1]
Free == [job |-> Wake, owner |-> "free", todo |-> {}]

Init ==
    /\ InboxInit
    /\ enabled = [j \in Jobs |-> TRUE]
    /\ armed = FALSE /\ up = TRUE /\ due = {}
    /\ call = [c \in Callers |-> Idle]
    /\ running = [j \in Jobs |-> {}]
    /\ newest = [j \in Jobs |-> [trigger |-> "none", fresh |-> FALSE]]
    /\ thread = [t \in Threads |-> Free]
    /\ events = 0
    /\ fired = [j \in Jobs |-> 0]
    /\ overlap = FALSE

Event == events < MaxEvents /\ events' = events + 1

is_running(j) == running[j] # {}

\* start_run(): the row becomes the newest; n is 1 when the schedule fires anew.
Row(c, j, n) ==
    /\ newest' = [newest EXCEPT ![j] = [trigger |-> Trigger(c), fresh |-> TRUE]]
    /\ fired' = [fired EXCEPT ![j] = IF c = "loop" /\ @ < 2 THEN @ + n
                                     ELSE IF c = "loop" THEN @ ELSE 0]

\* start_run() and asyncio.to_thread(): the wake cycle begins by reading what
\* is pending.
Start(c, j, attempt) ==
    LET free == {t \in Threads : thread[t].owner = "free"} IN
    /\ \E t \in free :
        /\ \A u \in free : t <= u
        /\ thread' = [thread EXCEPT ![t] = [job |-> j, owner |-> c,
                                            todo |-> IF j = Wake THEN pending ELSE {}]]
    /\ running' = [running EXCEPT ![j] = @ \cup {c}]
    /\ call' = [call EXCEPT ![c] = [pc |-> "acting", job |-> j, attempt |-> attempt]]
    /\ overlap' = (overlap \/ \E t \in Threads \ free : j = Wake /\ thread[t].job = Wake)
    /\ Row(c, j, IF attempt = 1 THEN 1 ELSE 0)

-----------------------------------------------------------------------------
(* The loop's list, and run_job().                                          *)

\* Slip: a coroutine that pauses before it tries again.
RetriesPause == TRUE

\* A coroutine of the server between two attempts has not awaited, so the other
\* one does not run.
NoneSwitching == \A c \in Server : call[c].pc # "retry"

_already_fired_this_minute(j) == newest[j].trigger = "schedule" /\ newest[j].fresh

\* Slip: only the overlap guard keeps a job from firing on the next tick.
DueUnlessRunning(matching) ==
    {j \in matching : enabled[j] /\ ~is_running(j)}

due_jobs(matching) ==
    {j \in matching : enabled[j] /\ ~is_running(j) /\ ~_already_fired_this_minute(j)}

\* The beginning of tick(): which schedules match this minute is free.
tick(matching) ==
    /\ up /\ NoneSwitching /\ call["loop"].pc = "idle" /\ due = {}
    /\ due' = due_jobs(matching) /\ due' # {}
    /\ UNCHANGED <<inbox, replies, enabled, armed, up, call, running, newest, thread,
                   events, fired, overlap>>

\* A run that is refused leaves a closed row, except for the overlap guard's.
RunJobRefused(c, j) ==
    /\ \/ is_running(j) /\ UNCHANGED <<newest, fired>>
       \/ /\ ~is_running(j)
          /\ armed \/ (c = "loop" /\ j \in NeedsApproval)
          /\ Row(c, j, 1)
    /\ UNCHANGED <<call, running, thread, overlap>>

RunJobStarts(c, j) ==
    /\ ~is_running(j) /\ ~armed
    /\ ~(c = "loop" /\ j \in NeedsApproval)
    /\ Start(c, j, 1)

\* run_job() in the server: from the check to the start there is no await.
run_job(c, j) ==
    /\ up /\ NoneSwitching /\ call[c].pc = "idle"
    /\ \/ c = "loop" /\ j \in due /\ due' = due \ {j} /\ UNCHANGED events
       \/ c = "api" /\ UNCHANGED due /\ Event
    /\ RunJobRefused(c, j) \/ RunJobStarts(c, j)
    /\ UNCHANGED <<inbox, replies, enabled, armed, up>>

\* run_job() from the command line: its checks,
CliCheck(j) ==
    /\ call["cli"].pc = "idle" /\ Event
    /\ \/ /\ RunJobRefused("cli", j)
       \/ /\ ~is_running(j) /\ ~armed
          /\ call' = [call EXCEPT !["cli"] = [pc |-> "checked", job |-> j, attempt |-> 1]]
          /\ UNCHANGED <<running, newest, thread, fired, overlap>>
    /\ UNCHANGED <<inbox, replies, enabled, armed, up, due>>

\* and its first attempt.
CliStart ==
    /\ call["cli"].pc = "checked"
    /\ Start("cli", call["cli"].job, 1)
    /\ UNCHANGED <<inbox, replies, enabled, armed, up, due, events>>

-----------------------------------------------------------------------------
(* The attempts: _execute().                                                *)

\* finish_run(): the row is closed whatever became of it meanwhile.
Finish(c, ok) ==
    /\ c \in Server => NoneSwitching
    /\ running' = [running EXCEPT ![call[c].job] = @ \ {c}]
    /\ call' = [call EXCEPT ![c] =
                  IF ok \/ call[c].attempt > MaxRetries THEN Idle
                  ELSE [pc |-> "retry", job |-> call[c].job, attempt |-> call[c].attempt + 1]]

\* The next attempt, without another look at the kill switch or the job.
Retry(c) ==
    /\ call[c].pc = "retry"
    /\ Start(c, call[c].job, call[c].attempt)
    /\ UNCHANGED <<inbox, replies, enabled, armed, up, due, events>>

\* wait_for() gives up; the thread goes on.
Timeout(t) ==
    /\ thread[t].owner \in Callers /\ Event
    /\ Finish(thread[t].owner, FALSE)
    /\ thread' = [thread EXCEPT ![t].owner = "nobody"]
    /\ UNCHANGED <<inbox, replies, enabled, armed, up, due, newest, fired, overlap>>

\* _process_inbox(): one message answered, or its turn failed.
Process(t) ==
    /\ \E m \in thread[t].todo :
        /\ respond(m) \/ mark_failed(m)
        /\ thread' = [thread EXCEPT ![t].todo = @ \ {m}]
    /\ UNCHANGED <<enabled, armed, up, due, call, running, newest, events, fired, overlap>>

\* The thread is free again.  Nobody waits for an abandoned one.
Leaves(t, ok) ==
    /\ IF thread[t].owner \in Callers THEN Finish(thread[t].owner, ok)
                                      ELSE UNCHANGED <<running, call>>
    /\ thread' = [thread EXCEPT ![t] = Free]
    /\ UNCHANGED <<inbox, replies, enabled, armed, up, due, newest, fired, overlap>>

\* The action, done with its messages, returns or raises.
ThreadEnds(t, ok) ==
    /\ thread[t].owner # "free" /\ thread[t].todo = {}
    /\ Leaves(t, ok)
    /\ UNCHANGED events

\* The transaction of respond() or mark_failed() raises, outside the try: the cycle
\* ends and leaves this message and the later ones pending.
CycleRaises(t) ==
    /\ thread[t].todo # {} /\ Event
    /\ Leaves(t, FALSE)

-----------------------------------------------------------------------------
(* Time, operators, and the death of a process.                             *)

NextMinute ==
    /\ newest' = [j \in Jobs |-> [newest[j] EXCEPT !.fresh = FALSE]]
    /\ fired' = [j \in Jobs |-> 0]
    /\ UNCHANGED <<inbox, replies, enabled, armed, up, due, call, running, thread,
                   events, overlap>>

update_job(j) ==
    /\ Event
    /\ enabled' = [enabled EXCEPT ![j] = ~@]
    /\ UNCHANGED <<inbox, replies, armed, up, due, call, running, newest, thread,
                   fired, overlap>>

\* The kill switch is armed or released.
Switch ==
    /\ Event
    /\ armed' = ~armed
    /\ UNCHANGED <<inbox, replies, enabled, up, due, call, running, newest, thread,
                   fired, overlap>>

Leave(m) == post(m) /\ UNCHANGED cronVars

\* The threads of a process die with it and its rows stay RUNNING.  Those it
\* has abandoned are the server's in this model.
Orphan(owners, by) ==
    /\ running' = [j \in Jobs |-> (running[j] \ owners) \cup
                       (IF running[j] \cap owners # {} THEN {by} ELSE {})]
    /\ call' = [c \in Callers |-> IF c \in owners THEN Idle ELSE call[c]]

ServerDies ==
    /\ up /\ Event
    /\ up' = FALSE /\ due' = {}
    /\ Orphan(Server, "deadServer")
    /\ thread' = [t \in Threads |-> IF thread[t].owner = "cli" THEN thread[t] ELSE Free]
    /\ UNCHANGED <<inbox, replies, enabled, armed, newest, fired, overlap>>

CliDies ==
    /\ call["cli"].pc # "idle" /\ Event
    /\ Orphan({"cli"}, "deadCli")
    /\ thread' = [t \in Threads |-> IF thread[t].owner = "cli" THEN Free ELSE thread[t]]
    /\ UNCHANGED <<inbox, replies, enabled, armed, up, due, newest, fired, overlap>>


\* run_loop() begins with recover_inflight(): every RUNNING row is closed,
\* whoever owns it.
ServerStarts ==
    /\ ~up
    /\ up' = TRUE
    /\ running' = [j \in Jobs |-> {}]
    /\ UNCHANGED <<inbox, replies, enabled, armed, due, call, newest, thread, events,
                   fired, overlap>>

Loop == \E j \in Jobs : run_job("loop", j)

Next ==
    \/ \E matching \in SUBSET Jobs : tick(matching)
    \/ \E c \in Server, j \in Jobs : run_job(c, j)
    \/ \E j \in Jobs : CliCheck(j)
    \/ CliStart
    \/ \E c \in Callers : Retry(c)
    \/ \E t \in Threads :
          Timeout(t) \/ Process(t) \/ CycleRaises(t) \/ \E ok \in BOOLEAN : ThreadEnds(t, ok)
    \/ NextMinute
    \/ \E j \in Jobs : update_job(j)
    \/ Switch
    \/ \E m \in Messages : Leave(m)
    \/ ServerDies \/ CliDies \/ ServerStarts

\* The tick of a minute the wake schedule matches, with the clock's help.
TickWake == \E matching \in SUBSET Jobs : tick(matching) /\ Wake \in due'

\* Threads and coroutines run on, time passes, launchd restarts the server, and
\* the schedule matches again and again; nobody has to start, stop or time out
\* anything, and no write has to fail.
Fairness ==
    /\ \A t \in Threads : WF_vars(Process(t)) /\ WF_vars(\E ok \in BOOLEAN : ThreadEnds(t, ok))
    /\ \A c \in Server : WF_vars(Retry(c))
    /\ WF_vars(Loop) /\ WF_vars(NextMinute) /\ WF_vars(ServerStarts)
    /\ SF_vars(TickWake)

Spec == Init /\ [][Next]_vars /\ Fairness

-----------------------------------------------------------------------------
(* Properties.                                                              *)

Owners == Callers \cup {"deadServer", "deadCli"}
CallRecord == [pc : {"idle", "checked", "acting", "retry"}, job : Jobs,
               attempt : 1 .. MaxRetries + 1]
NewestRecord == [trigger : {"none", "schedule", "manual"}, fresh : BOOLEAN]
ThreadRecord == [job : Jobs, owner : Callers \cup {"free", "nobody"}, todo : SUBSET Messages]

TypeOK ==
    /\ InboxTypeOK
    /\ enabled \in [Jobs -> BOOLEAN] /\ armed \in BOOLEAN /\ up \in BOOLEAN
    /\ due \subseteq Jobs
    /\ call \in [Callers -> CallRecord]
    /\ running \in [Jobs -> SUBSET Owners]
    /\ newest \in [Jobs -> NewestRecord]
    /\ thread \in [Threads -> ThreadRecord]
    /\ fired \in [Jobs -> 0 .. 2]
    /\ overlap \in BOOLEAN

\* Over retries, timeouts and restarts, the loop and the API never run one job
\* at the same time (the overlap guard of run_job(), which rests on the absence
\* of an await between the check and the row, and between two attempts).
ServerNeverOverlaps ==
    \A c, d \in Server : (c # d /\ call[c].pc # "idle" /\ call[d].pc # "idle")
        => call[c].job # call[d].job

\* A job fires once in a minute its schedule matches, however often the loop
\* ticks and however late it comes to the job, unless a manual run came between
\* (_already_fired_this_minute()).
FiresOncePerMinute ==
    \A j \in Jobs : fired[j] <= 1

\* A message is answered twice only when two wake cycles have overlapped: a
\* crash, a retry or a failed turn alone never duplicates a reply.
RepliesOnce ==
    \A m \in Messages : replies[m] > 1 => overlap


\* A job with an in-flight run is never started a second time, schedule or
\* manual (scheduler.py:12, store.py is_running()).
OneRunPerJob ==
    \A j \in Jobs : Cardinality({c \in Callers : call[c].pc = "acting" /\ call[c].job = j}) <= 1

=============================================================================
