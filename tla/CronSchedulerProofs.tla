------------------------ MODULE CronSchedulerProofs ------------------------
(***************************************************************************)
(* The safety of the cron scheduler and of the wake cycle, for any set of  *)
(* jobs, messages and threads and any number of retries, timeouts and      *)
(* deaths.                                                                 *)
(***************************************************************************)
EXTENDS CronScheduler, TLAPS

(***************************************************************************)
(* A call that waits has one thread, and a thread that is waited for has a *)
(* call that is acting: a timeout or an end closes the run it belongs to.  *)
(***************************************************************************)
Threading ==
    /\ \A t \in Threads : thread[t].owner \in Callers => call[thread[t].owner].pc = "acting"
    /\ \A t, u \in Threads :
          thread[t].owner \in Callers /\ thread[t].owner = thread[u].owner => t = u

(***************************************************************************)
(* While a coroutine of the server acts, its RUNNING row is there, so the  *)
(* overlap guard sees it; recover_inflight() closes rows only when no      *)
(* coroutine is alive.                                                     *)
(***************************************************************************)
RowsHeld ==
    /\ \A c \in Server : call[c].pc = "acting" => c \in running[call[c].job]
    /\ \A c \in Server : call[c].pc # "checked"
    /\ ~up => \A c \in Server : call[c].pc = "idle"

\* The loop retries with a number of its own, so a retry is no new firing.
RetriesCounted == \A c \in Callers : call[c].pc = "retry" => call[c].attempt > 1

(***************************************************************************)
(* A job the schedule fired this minute shows it in its newest row, and is *)
(* not on the loop's list.                                                 *)
(***************************************************************************)
FiringShown ==
    \A j \in Jobs : fired[j] > 0 => _already_fired_this_minute(j) /\ j \notin due

Awake(t) == thread[t].owner # "free" /\ thread[t].job = Wake

(***************************************************************************)
(* Only wake cycles hold messages; unless two overlapped there is one, and *)
(* what it still has to process is pending.  An open message has no reply. *)
(***************************************************************************)
OneCycle ==
    /\ \A t \in Threads : thread[t].todo # {} => Awake(t)
    /\ ~overlap => \A t, u \in Threads : Awake(t) /\ Awake(u) => t = u
    /\ ~overlap => \A t \in Threads : thread[t].todo \subseteq pending
    /\ \A m \in Messages : inbox[m] \in {"none", "pending"} => replies[m] = 0

ServerInv == Threading /\ RowsHeld /\ ServerNeverOverlaps
MinuteInv == RetriesCounted /\ FiringShown /\ FiresOncePerMinute
WakeInv == OneCycle /\ RepliesOnce

IInv == TypeOK /\ ServerInv /\ MinuteInv /\ WakeInv

-----------------------------------------------------------------------------
(* Types.                                                                   *)

\* The records calls, rows and threads begin with.
LEMMA RecordTypes == Idle \in CallRecord /\ Free \in ThreadRecord
  BY CronAssumption DEF Idle, Free, CallRecord, ThreadRecord

(***************************************************************************)
(* A new row keeps the types, whoever starts it (start_run()).             *)
(***************************************************************************)
LEMMA RowTypes ==
    ASSUME TypeOK, NEW c \in Callers, NEW j \in Jobs, NEW n \in {0, 1}, Row(c, j, n)
    PROVE  newest' \in [Jobs -> NewestRecord] /\ fired' \in [Jobs -> 0 .. 2]
<1>1. [trigger |-> Trigger(c), fresh |-> TRUE] \in NewestRecord
  BY DEF NewestRecord, Trigger
<1>2. newest' \in [Jobs -> NewestRecord]
  BY <1>1 DEF TypeOK, Row
<1>3. fired[j] \in 0 .. 2 /\ fired[j] < 2 => fired[j] + n \in 0 .. 2
  BY DEF TypeOK
<1>4. fired' \in [Jobs -> 0 .. 2]
  BY <1>3 DEF TypeOK, Row
<1> QED BY <1>2, <1>4

(***************************************************************************)
(* A start takes a free thread and keeps the types of what it changes      *)
(* (start_run(), asyncio.to_thread()).                                     *)
(***************************************************************************)
LEMMA StartTypes ==
    ASSUME TypeOK, NEW c \in Callers, NEW j \in Jobs, NEW n \in 1 .. MaxRetries + 1,
           Start(c, j, n)
    PROVE  /\ thread' \in [Threads -> ThreadRecord]
           /\ running' \in [Jobs -> SUBSET Owners]
           /\ call' \in [Callers -> CallRecord]
           /\ newest' \in [Jobs -> NewestRecord]
           /\ fired' \in [Jobs -> 0 .. 2]
           /\ overlap' \in BOOLEAN
<1>1. [job |-> j, owner |-> c, todo |-> IF j = Wake THEN pending ELSE {}] \in ThreadRecord
  BY DEF ThreadRecord, pending
<1>2. thread' \in [Threads -> ThreadRecord]
  BY <1>1 DEF TypeOK, Start
<1>3. running' \in [Jobs -> SUBSET Owners]
  BY DEF TypeOK, Start, Owners
<1>4. [pc |-> "acting", job |-> j, attempt |-> n] \in CallRecord
  BY DEF CallRecord
<1>5. call' \in [Callers -> CallRecord]
  BY <1>4 DEF TypeOK, Start
<1>6. newest' \in [Jobs -> NewestRecord] /\ fired' \in [Jobs -> 0 .. 2]
  BY RowTypes DEF Start
<1>7. overlap' \in BOOLEAN
  BY DEF TypeOK, Start
<1> QED BY <1>2, <1>3, <1>5, <1>6, <1>7

(***************************************************************************)
(* Closing a run keeps the types (finish_run()).                           *)
(***************************************************************************)
LEMMA FinishTypes ==
    ASSUME TypeOK, NEW c \in Callers, NEW ok \in BOOLEAN, Finish(c, ok)
    PROVE  running' \in [Jobs -> SUBSET Owners] /\ call' \in [Callers -> CallRecord]
<1>1. running' \in [Jobs -> SUBSET Owners]
  BY DEF TypeOK, Finish
<1>2. call[c].job \in Jobs /\ call[c].attempt \in 1 .. MaxRetries + 1 /\ MaxRetries \in Nat
  BY CronAssumption DEF TypeOK, CallRecord
<1>3. ASSUME ~(call[c].attempt > MaxRetries)
      PROVE  [pc |-> "retry", job |-> call[c].job, attempt |-> call[c].attempt + 1] \in CallRecord
  BY <1>2, <1>3 DEF CallRecord
<1>4. call' \in [Callers -> CallRecord]
  BY <1>3, RecordTypes DEF TypeOK, Finish
<1> QED BY <1>1, <1>4

(***************************************************************************)
(* Every variable of the scheduler keeps its type.                         *)
(***************************************************************************)
LEMMA TypeStep == TypeOK /\ [Next]_vars => TypeOK'
<1> SUFFICES ASSUME TypeOK, [Next]_vars PROVE TypeOK'
  OBVIOUS
<1>1. ASSUME NEW matching \in SUBSET Jobs, tick(matching) PROVE TypeOK'
  BY <1>1 DEF TypeOK, InboxTypeOK, tick, due_jobs
<1>2. ASSUME NEW c \in Callers, NEW j \in Jobs, RunJobRefused(c, j),
             UNCHANGED <<inbox, replies, enabled, armed, up>>, due' \subseteq Jobs
      PROVE  TypeOK'
  <2>1. newest' \in [Jobs -> NewestRecord] /\ fired' \in [Jobs -> 0 .. 2]
    BY <1>2, RowTypes DEF RunJobRefused, TypeOK
  <2> QED BY <1>2, <2>1 DEF TypeOK, InboxTypeOK, RunJobRefused
<1>3. ASSUME NEW c \in Callers, NEW j \in Jobs, NEW n \in 1 .. MaxRetries + 1, Start(c, j, n),
             UNCHANGED <<inbox, replies, enabled, armed, up>>, due' \subseteq Jobs
      PROVE  TypeOK'
  BY <1>3, StartTypes DEF TypeOK, InboxTypeOK
<1>4. ASSUME NEW c \in Server, NEW j \in Jobs, run_job(c, j) PROVE TypeOK'
  <2>1. c \in Callers /\ 1 \in 1 .. MaxRetries + 1 /\ due' \subseteq Jobs
    BY <1>4, CronAssumption DEF run_job, Callers, TypeOK
  <2> QED BY <1>2, <1>3, <1>4, <2>1 DEF run_job, RunJobStarts
<1>5. ASSUME NEW j \in Jobs, CliCheck(j) PROVE TypeOK'
  <2>1. "cli" \in Callers /\ 1 \in 1 .. MaxRetries + 1
    BY CronAssumption DEF Callers
  <2>2. CASE RunJobRefused("cli", j)
    BY <1>2, <1>5, <2>1, <2>2 DEF CliCheck, TypeOK
  <2>3. CASE ~RunJobRefused("cli", j)
    <3>1. [pc |-> "checked", job |-> j, attempt |-> 1] \in CallRecord
      BY <2>1 DEF CallRecord
    <3> QED BY <1>5, <2>1, <2>3, <3>1 DEF CliCheck, TypeOK, InboxTypeOK
  <2> QED BY <2>2, <2>3
<1>6. CASE CliStart
  <2>1. "cli" \in Callers /\ 1 \in 1 .. MaxRetries + 1 /\ call["cli"].job \in Jobs
    BY CronAssumption DEF Callers, TypeOK, CallRecord
  <2> QED BY <1>3, <1>6, <2>1 DEF CliStart, TypeOK
<1>7. ASSUME NEW c \in Callers, Retry(c) PROVE TypeOK'
  <2>1. call[c].job \in Jobs /\ call[c].attempt \in 1 .. MaxRetries + 1
    BY DEF TypeOK, CallRecord
  <2> QED BY <1>3, <1>7, <2>1 DEF Retry, TypeOK
<1>8. ASSUME NEW t \in Threads, Timeout(t) PROVE TypeOK'
  <2>1. running' \in [Jobs -> SUBSET Owners] /\ call' \in [Callers -> CallRecord]
    BY <1>8, FinishTypes DEF Timeout
  <2>2. [thread[t] EXCEPT !.owner = "nobody"] \in ThreadRecord
    BY DEF TypeOK, ThreadRecord
  <2>3. thread' \in [Threads -> ThreadRecord]
    BY <1>8, <2>2 DEF Timeout, TypeOK
  <2> QED BY <1>8, <2>1, <2>3 DEF Timeout, TypeOK, InboxTypeOK
<1>9. ASSUME NEW t \in Threads, Process(t) PROVE TypeOK'
  <2>1. PICK m \in thread[t].todo :
          /\ respond(m) \/ mark_failed(m)
          /\ thread' = [thread EXCEPT ![t].todo = @ \ {m}]
    BY <1>9 DEF Process
  <2>2. m \in Messages /\ [thread[t] EXCEPT !.todo = @ \ {m}] \in ThreadRecord
    BY DEF TypeOK, ThreadRecord
  <2>3. thread' \in [Threads -> ThreadRecord]
    BY <2>1, <2>2 DEF TypeOK
  <2>4. InboxTypeOK'
    BY <2>1, <2>2, RepliesBound DEF TypeOK, InboxTypeOK, respond, mark_failed
  <2> QED BY <1>9, <2>3, <2>4 DEF Process, TypeOK
<1>10. ASSUME NEW t \in Threads, NEW ok \in BOOLEAN, Leaves(t, ok) PROVE TypeOK'
  <2>1. running' \in [Jobs -> SUBSET Owners] /\ call' \in [Callers -> CallRecord]
    BY <1>10, FinishTypes DEF Leaves, TypeOK
  <2>2. thread' \in [Threads -> ThreadRecord]
    BY <1>10, RecordTypes DEF Leaves, TypeOK
  <2> QED BY <1>10, <2>1, <2>2 DEF Leaves, TypeOK, InboxTypeOK
<1>11. CASE NextMinute
  <2>1. \A j \in Jobs : [newest[j] EXCEPT !.fresh = FALSE] \in NewestRecord
    BY DEF TypeOK, NewestRecord
  <2> QED BY <1>11, <2>1 DEF NextMinute, TypeOK, InboxTypeOK
<1>12. CASE Switch \/ \E j \in Jobs : update_job(j)
  BY <1>12 DEF Switch, update_job, TypeOK, InboxTypeOK
<1>13. ASSUME NEW m \in Messages, Leave(m) PROVE TypeOK'
  BY <1>13 DEF Leave, post, cronVars, TypeOK, InboxTypeOK
<1>14. ASSUME NEW owners, NEW by \in {"deadServer", "deadCli"}, Orphan(owners, by)
       PROVE  running' \in [Jobs -> SUBSET Owners] /\ call' \in [Callers -> CallRecord]
  BY <1>14, RecordTypes DEF Orphan, TypeOK, Owners
<1>15. CASE ServerDies
  BY <1>14, <1>15, RecordTypes DEF ServerDies, TypeOK, InboxTypeOK
<1>16. CASE CliDies
  BY <1>14, <1>16, RecordTypes DEF CliDies, TypeOK, InboxTypeOK
<1>17. CASE ServerStarts
  BY <1>17 DEF ServerStarts, TypeOK, InboxTypeOK
<1>18. CASE UNCHANGED vars
  BY <1>18 DEF vars, cronVars, TypeOK, InboxTypeOK
<1> QED BY <1>1, <1>4, <1>5, <1>6, <1>7, <1>8, <1>9, <1>10, <1>11, <1>12, <1>13,
           <1>15, <1>16, <1>17, <1>18 DEF Next, ThreadEnds, CycleRaises

-----------------------------------------------------------------------------
(* The loop and the API never run one job at the same time.                 *)

(***************************************************************************)
(* A start keeps ServerInv when the call is not acting already and, in the *)
(* server, no other coroutine is busy with the job.                        *)
(***************************************************************************)
LEMMA StartKeepsServer ==
    ASSUME TypeOK, ServerInv, NEW c \in Callers, NEW j \in Jobs, NEW n, Start(c, j, n),
           call[c].pc # "acting", up' = up,
           c \in Server => up /\ \A d \in Server \ {c} : call[d].pc # "idle" => call[d].job # j
    PROVE  ServerInv'
<1>1. PICK t \in Threads :
        /\ thread[t].owner = "free"
        /\ thread' = [thread EXCEPT ![t] = [job |-> j, owner |-> c,
                                           todo |-> IF j = Wake THEN pending ELSE {}]]
  BY DEF Start
<1>2. /\ thread'[t].owner = c
      /\ \A u \in Threads \ {t} : thread'[u] = thread[u]
  BY <1>1 DEF TypeOK
<1>3. /\ call'[c].pc = "acting" /\ call'[c].job = j
      /\ \A d \in Callers \ {c} : call'[d] = call[d]
  BY DEF Start, TypeOK
<1>4. /\ c \in running'[j]
      /\ \A k \in Jobs : running[k] \subseteq running'[k]
  BY DEF Start, TypeOK
<1>5. Threading'
  <2>1. \A u \in Threads : thread[u].owner # c
    BY DEF ServerInv, Threading
  <2> QED BY <1>2, <1>3, <2>1 DEF ServerInv, Threading
<1>6. RowsHeld'
  <2>1. \A d \in Server : d \in Callers /\ call[d].job \in Jobs
    BY DEF Callers, TypeOK, CallRecord
  <2> QED BY <1>3, <1>4, <2>1 DEF ServerInv, RowsHeld
<1>7. ServerNeverOverlaps'
  BY <1>3 DEF ServerInv, ServerNeverOverlaps, Callers
<1> QED BY <1>5, <1>6, <1>7 DEF ServerInv

(***************************************************************************)
(* So does closing a run: the thread is nobody's afterwards, and a call    *)
(* that goes on to its next attempt keeps its job.                         *)
(***************************************************************************)
LEMMA FinishKeepsServer ==
    ASSUME TypeOK, ServerInv, NEW t \in Threads, thread[t].owner \in Callers, NEW ok,
           Finish(thread[t].owner, ok), NEW x, x.owner \notin Callers,
           thread' = [thread EXCEPT ![t] = x], up' = up
    PROVE  ServerInv'
<1> DEFINE c == thread[t].owner
<1>1. /\ \A d \in Callers \ {c} : call'[d] = call[d]
      /\ call'[c].pc \in {"idle", "retry"}
      /\ call'[c].pc = "idle" \/ call'[c].job = call[c].job
  BY DEF Finish, TypeOK, Idle
<1>2. /\ thread'[t].owner \notin Callers
      /\ \A u \in Threads \ {t} : thread'[u] = thread[u]
  BY DEF TypeOK
<1>3. \A k \in Jobs : running'[k] = running[k] \ (IF k = call[c].job THEN {c} ELSE {})
  BY DEF Finish, TypeOK, CallRecord
<1>4. call[c].pc = "acting"
  BY DEF ServerInv, Threading
<1> HIDE DEF c
<1>5. Threading'
  <2>1. \A u \in Threads \ {t} : thread[u].owner # c
    BY DEF ServerInv, Threading, c
  <2> QED BY <1>1, <1>2, <2>1 DEF ServerInv, Threading
<1>6. RowsHeld'
  <2>1. \A d \in Server : d \in Callers /\ call[d].job \in Jobs
    BY DEF Callers, TypeOK, CallRecord
  <2> QED BY <1>1, <1>3, <1>4, <2>1 DEF ServerInv, RowsHeld
<1>7. ServerNeverOverlaps'
  BY <1>1, <1>4 DEF ServerInv, ServerNeverOverlaps, Callers
<1> QED BY <1>5, <1>6, <1>7 DEF ServerInv

(***************************************************************************)
(* Every step keeps ServerInv.                                             *)
(***************************************************************************)
LEMMA ServerStep == TypeOK /\ ServerInv /\ [Next]_vars => ServerInv'
<1> SUFFICES ASSUME TypeOK, ServerInv, [Next]_vars PROVE ServerInv'
  OBVIOUS
<1>0. ASSUME UNCHANGED <<call, running, up>>, \A t \in Threads : thread'[t].owner = thread[t].owner
      PROVE  ServerInv'
  BY <1>0 DEF ServerInv, Threading, RowsHeld, ServerNeverOverlaps
<1>1. ASSUME NEW matching \in SUBSET Jobs, tick(matching) PROVE ServerInv'
  BY <1>0, <1>1 DEF tick
<1>2. ASSUME NEW c \in Server, NEW j \in Jobs, run_job(c, j) PROVE ServerInv'
  <2>1. CASE RunJobRefused(c, j)
    BY <1>0, <1>2, <2>1 DEF run_job, RunJobRefused
  <2>2. CASE RunJobStarts(c, j)
    \* A coroutine that acts has its row, and none is between two attempts.
    <3>1. ASSUME NEW d \in Server \ {c}, call[d].pc # "idle" PROVE call[d].job # j
      <4>1. call[d].pc = "acting"
        BY <1>2, <3>1 DEF run_job, NoneSwitching, ServerInv, RowsHeld, TypeOK, CallRecord, Callers
      <4> QED BY <4>1, <2>2 DEF RunJobStarts, is_running, ServerInv, RowsHeld
    <3>2. c \in Callers /\ call[c].pc # "acting" /\ up /\ up' = up
      BY <1>2 DEF run_job, Callers
    <3> QED BY <2>2, <3>1, <3>2, StartKeepsServer DEF RunJobStarts
  <2> QED BY <1>2, <2>1, <2>2 DEF run_job
<1>3. ASSUME NEW j \in Jobs, CliCheck(j) PROVE ServerInv'
  <2>1. CASE RunJobRefused("cli", j)
    BY <1>0, <1>3, <2>1 DEF CliCheck, RunJobRefused
  <2>2. CASE ~RunJobRefused("cli", j)
    <3>1. /\ call["cli"].pc = "idle" /\ \A c \in Callers \ {"cli"} : call'[c] = call[c]
          /\ UNCHANGED <<running, thread, up>>
      BY <1>3, <2>2 DEF CliCheck, TypeOK
    <3>2. \A c \in Server : c \in Callers \ {"cli"}
      BY DEF Server, Callers
    <3> QED BY <3>1, <3>2 DEF ServerInv, Threading, RowsHeld, ServerNeverOverlaps
  <2> QED BY <2>1, <2>2
<1>4. CASE CliStart
  <2>1. "cli" \in Callers \ Server /\ call["cli"].job \in Jobs
    BY DEF Callers, Server, TypeOK, CallRecord
  <2> QED BY <1>4, <2>1, StartKeepsServer DEF CliStart
<1>5. ASSUME NEW c \in Callers, Retry(c) PROVE ServerInv'
  <2>1. call[c].job \in Jobs /\ call[c].pc = "retry"
    BY <1>5 DEF Retry, TypeOK, CallRecord
  <2>2. c \in Server =>
          up /\ \A d \in Server \ {c} : call[d].pc # "idle" => call[d].job # call[c].job
    BY <2>1 DEF ServerInv, RowsHeld, ServerNeverOverlaps, TypeOK
  <2> QED BY <1>5, <2>1, <2>2, StartKeepsServer DEF Retry
<1>6. ASSUME NEW t \in Threads, Timeout(t) PROVE ServerInv'
  <2>1. [thread[t] EXCEPT !.owner = "nobody"].owner \notin Callers
    BY DEF TypeOK, ThreadRecord, Callers, Server
  <2> QED BY <1>6, <2>1, FinishKeepsServer DEF Timeout
<1>7. ASSUME NEW t \in Threads, Process(t) PROVE ServerInv'
  <2>1. \A u \in Threads : thread'[u].owner = thread[u].owner
    BY <1>7 DEF Process, TypeOK, ThreadRecord
  <2> QED BY <1>0, <1>7, <2>1 DEF Process
<1>8. ASSUME NEW t \in Threads, NEW ok \in BOOLEAN, Leaves(t, ok) PROVE ServerInv'
  <2>1. Free.owner \notin Callers
    BY DEF Free, Callers, Server
  <2>2. CASE thread[t].owner \in Callers
    BY <1>8, <2>1, <2>2, FinishKeepsServer DEF Leaves
  <2>3. CASE thread[t].owner \notin Callers
    BY <1>8, <2>1, <2>3 DEF Leaves, TypeOK, ServerInv, Threading, RowsHeld,
       ServerNeverOverlaps
  <2> QED BY <2>2, <2>3
<1>9. CASE NextMinute \/ Switch \/ \E j \in Jobs : update_job(j)
  BY <1>0, <1>9 DEF NextMinute, Switch, update_job
<1>10. ASSUME NEW m \in Messages, Leave(m) PROVE ServerInv'
  BY <1>0, <1>10 DEF Leave, cronVars
<1>11. CASE ServerDies
  <2>1. /\ \A c \in Server : call'[c].pc = "idle"
        /\ call'["cli"] = call["cli"]
        /\ \A t \in Threads : thread'[t].owner \in Callers =>
               thread'[t] = thread[t] /\ thread[t].owner = "cli"
    BY <1>11 DEF ServerDies, Orphan, Callers, Server, Idle, Free
  <2> QED BY <2>1 DEF ServerInv, Threading, RowsHeld, ServerNeverOverlaps
<1>12. CASE CliDies
  <2>1. /\ \A c \in Server : call'[c] = call[c]
        /\ \A t \in Threads : thread'[t].owner \in Callers =>
               thread'[t] = thread[t] /\ thread[t].owner \in Server
        /\ up' = up
    BY <1>12 DEF CliDies, Orphan, Callers, Server, Free
  <2>2. \A k \in Jobs, c \in Server : c \in running[k] => c \in running'[k]
    BY <1>12 DEF CliDies, Orphan, Server
  <2>3. \A c \in Server : call[c].job \in Jobs
    BY DEF TypeOK, CallRecord, Callers
  <2> QED BY <2>1, <2>2, <2>3 DEF ServerInv, Threading, RowsHeld, ServerNeverOverlaps
<1>13. CASE ServerStarts
  BY <1>13 DEF ServerStarts, ServerInv, Threading, RowsHeld, ServerNeverOverlaps
<1>14. CASE UNCHANGED vars
  BY <1>0, <1>14 DEF vars, cronVars
<1> QED BY <1>1, <1>2, <1>3, <1>4, <1>5, <1>6, <1>7, <1>8, <1>9, <1>10, <1>11, <1>12,
           <1>13, <1>14 DEF Next, ThreadEnds, CycleRaises

-----------------------------------------------------------------------------
(* A job fires once a minute.                                               *)

(***************************************************************************)
(* A new row keeps FiringShown: the loop's own row shows the firing it     *)
(* counts, and a manual one ends the count.  Only a job just taken from    *)
(* the list is counted.                                                    *)
(***************************************************************************)
LEMMA RowKeepsFiring ==
    ASSUME TypeOK, FiringShown, FiresOncePerMinute, NEW c \in Callers, NEW j \in Jobs,
           NEW n \in {0, 1}, Row(c, j, n), due' \subseteq due,
           c = "loop" /\ n = 1 => j \notin due' /\ fired[j] = 0
    PROVE  FiringShown' /\ FiresOncePerMinute'
<1>1. \A k \in Jobs \ {j} : newest'[k] = newest[k] /\ fired'[k] = fired[k]
  BY DEF Row, TypeOK
<1>2. CASE c = "loop"
  <2>1. newest'[j].trigger = "schedule" /\ newest'[j].fresh
    BY <1>2 DEF Row, TypeOK, Trigger
  <2>2. fired[j] \in 0 .. 1 /\ fired'[j] = fired[j] + n
    BY <1>2 DEF Row, TypeOK, FiresOncePerMinute
  <2>3. fired'[j] <= 1 /\ (fired'[j] > 0 => j \notin due')
    BY <1>2, <2>2 DEF FiringShown
  <2> QED BY <1>1, <2>1, <2>3 DEF FiringShown, FiresOncePerMinute, _already_fired_this_minute
<1>3. CASE c # "loop"
  <2>1. fired'[j] = 0
    BY <1>3 DEF Row, TypeOK
  <2> QED BY <1>1, <2>1 DEF FiringShown, FiresOncePerMinute, _already_fired_this_minute
<1> QED BY <1>2, <1>3

(***************************************************************************)
(* Every step keeps MinuteInv.                                             *)
(***************************************************************************)
LEMMA MinuteStep == TypeOK /\ Threading /\ MinuteInv /\ [Next]_vars => MinuteInv'
<1> SUFFICES ASSUME TypeOK, Threading, MinuteInv, [Next]_vars PROVE MinuteInv'
  OBVIOUS
<1>0. ASSUME UNCHANGED <<newest, fired>>, due' \subseteq due
      PROVE  FiringShown' /\ FiresOncePerMinute'
  BY <1>0 DEF MinuteInv, FiringShown, FiresOncePerMinute, _already_fired_this_minute
<1>1. ASSUME NEW c \in Callers, NEW x, x.pc # "retry" \/ x.attempt > 1,
             call' = [call EXCEPT ![c] = x]
      PROVE  RetriesCounted'
  BY <1>1 DEF MinuteInv, RetriesCounted, TypeOK
<1>2. ASSUME NEW c \in Callers, NEW j \in Jobs, NEW n \in 1 .. MaxRetries + 1, Start(c, j, n),
             due' \subseteq due, c = "loop" /\ n = 1 => j \notin due' /\ fired[j] = 0
      PROVE  MinuteInv'
  <2>1. RetriesCounted'
    BY <1>1, <1>2 DEF Start
  <2>2. FiringShown' /\ FiresOncePerMinute'
    BY <1>2, RowKeepsFiring DEF Start, MinuteInv
  <2> QED BY <2>1, <2>2 DEF MinuteInv
<1>3. ASSUME NEW t \in Threads, thread[t].owner \in Callers, NEW ok,
             Finish(thread[t].owner, ok)
      PROVE  RetriesCounted'
  <2> DEFINE c == thread[t].owner
  <2>1. call[c].attempt \in 1 .. MaxRetries + 1
    BY <1>3 DEF TypeOK, CallRecord
  <2> DEFINE x == IF ok \/ call[c].attempt > MaxRetries THEN Idle
                  ELSE [pc |-> "retry", job |-> call[c].job, attempt |-> call[c].attempt + 1]
  <2>2. x.pc # "retry" \/ x.attempt > 1
    BY <2>1, CronAssumption DEF Idle
  <2>3. call' = [call EXCEPT ![c] = x]
    BY <1>3 DEF Finish
  <2> HIDE DEF x
  <2> QED BY <1>1, <1>3, <2>2, <2>3
<1>4. ASSUME NEW matching \in SUBSET Jobs, tick(matching) PROVE MinuteInv'
  BY <1>4 DEF tick, due_jobs, MinuteInv, RetriesCounted, FiringShown, FiresOncePerMinute,
     _already_fired_this_minute
<1>5. ASSUME NEW c \in Server, NEW j \in Jobs, run_job(c, j) PROVE MinuteInv'
  <2>1. /\ c \in Callers /\ due' \subseteq due
        /\ c = "loop" => j \notin due' /\ fired[j] = 0
    <3>1. c = "loop" => j \in due /\ due' = due \ {j}
      BY <1>5 DEF run_job
    <3>2. c # "loop" => due' = due
      BY <1>5 DEF run_job
    <3>3. j \in due => fired[j] = 0
      BY DEF MinuteInv, FiringShown, TypeOK
    <3> QED BY <3>1, <3>2, <3>3 DEF Callers
  <2>2. CASE RunJobRefused(c, j)
    <3>1. FiringShown' /\ FiresOncePerMinute'
      BY <1>0, <2>1, <2>2, RowKeepsFiring DEF RunJobRefused, MinuteInv
    <3> QED BY <2>2, <3>1 DEF RunJobRefused, MinuteInv, RetriesCounted
  <2>3. CASE RunJobStarts(c, j)
    BY <1>2, <2>1, <2>3, CronAssumption DEF RunJobStarts
  <2> QED BY <1>5, <2>2, <2>3 DEF run_job
<1>6. ASSUME NEW j \in Jobs, CliCheck(j) PROVE MinuteInv'
  <2>1. "cli" \in Callers /\ due' \subseteq due
    BY <1>6 DEF CliCheck, Callers
  <2>2. CASE RunJobRefused("cli", j)
    <3>1. FiringShown' /\ FiresOncePerMinute'
      BY <1>0, <2>1, <2>2, RowKeepsFiring DEF RunJobRefused, MinuteInv
    <3> QED BY <2>2, <3>1 DEF RunJobRefused, MinuteInv, RetriesCounted
  <2>3. CASE ~RunJobRefused("cli", j)
    BY <1>0, <1>1, <1>6, <2>1, <2>3 DEF CliCheck, MinuteInv
  <2> QED BY <2>2, <2>3
<1>7. CASE CliStart
  BY <1>2, <1>7, CronAssumption DEF CliStart, Callers, TypeOK, CallRecord
<1>8. ASSUME NEW c \in Callers, Retry(c) PROVE MinuteInv'
  \* A retry of the loop is not counted.
  <2>1. /\ call[c].job \in Jobs /\ call[c].attempt \in 1 .. MaxRetries + 1
        /\ call[c].attempt # 1
    BY <1>8 DEF Retry, TypeOK, CallRecord, MinuteInv, RetriesCounted
  <2> QED BY <1>2, <1>8, <2>1 DEF Retry
<1>9. ASSUME NEW t \in Threads, Timeout(t) PROVE MinuteInv'
  BY <1>0, <1>3, <1>9 DEF Timeout, MinuteInv
<1>10. ASSUME NEW t \in Threads, Process(t) PROVE MinuteInv'
  BY <1>0, <1>10 DEF Process, MinuteInv, RetriesCounted
<1>11. ASSUME NEW t \in Threads, NEW ok \in BOOLEAN, Leaves(t, ok) PROVE MinuteInv'
  BY <1>0, <1>3, <1>11 DEF Leaves, MinuteInv, RetriesCounted
<1>12. CASE NextMinute
  BY <1>12 DEF NextMinute, MinuteInv, RetriesCounted, FiringShown, FiresOncePerMinute
<1>13. CASE Switch \/ \E j \in Jobs : update_job(j)
  BY <1>0, <1>13 DEF Switch, update_job, MinuteInv, RetriesCounted
<1>14. ASSUME NEW m \in Messages, Leave(m) PROVE MinuteInv'
  BY <1>0, <1>14 DEF Leave, cronVars, MinuteInv, RetriesCounted
<1>15. CASE ServerDies \/ CliDies
  BY <1>0, <1>15 DEF ServerDies, CliDies, Orphan, Idle, MinuteInv, RetriesCounted
<1>16. CASE ServerStarts
  BY <1>0, <1>16 DEF ServerStarts, MinuteInv, RetriesCounted
<1>17. CASE UNCHANGED vars
  BY <1>0, <1>17 DEF vars, cronVars, MinuteInv, RetriesCounted
<1> QED BY <1>4, <1>5, <1>6, <1>7, <1>8, <1>9, <1>10, <1>11, <1>12, <1>13, <1>14,
           <1>15, <1>16, <1>17 DEF Next, ThreadEnds, CycleRaises

-----------------------------------------------------------------------------
(* A message is answered twice only when two wake cycles have overlapped.   *)

(***************************************************************************)
(* A start keeps OneCycle: the new cycle reads what is pending, and a      *)
(* cycle that still runs beside it sets `overlap`.                         *)
(***************************************************************************)
LEMMA StartKeepsCycle ==
    ASSUME TypeOK, WakeInv, NEW c \in Callers, NEW j \in Jobs, NEW n, Start(c, j, n),
           UNCHANGED <<inbox, replies>>
    PROVE  WakeInv'
<1>1. PICK t \in Threads :
        /\ thread[t].owner = "free"
        /\ thread' = [thread EXCEPT ![t] = [job |-> j, owner |-> c,
                                           todo |-> IF j = Wake THEN pending ELSE {}]]
  BY DEF Start
<1>2. /\ thread'[t].owner = c /\ thread'[t].job = j
      /\ thread'[t].todo = IF j = Wake THEN pending ELSE {}
      /\ \A u \in Threads \ {t} : thread'[u] = thread[u]
  BY <1>1 DEF TypeOK
<1>3. c # "free" /\ pending' = pending
  BY DEF Callers, Server, pending
<1>4. ~overlap' => ~overlap /\ \A u \in Threads : Awake(u) => j # Wake
  BY DEF Start, Awake
<1>5. OneCycle'
  BY <1>2, <1>3, <1>4 DEF WakeInv, OneCycle, Awake
<1>6. RepliesOnce'
  BY <1>4 DEF WakeInv, RepliesOnce
<1> QED BY <1>5, <1>6 DEF WakeInv

(***************************************************************************)
(* Every step keeps WakeInv.                                               *)
(***************************************************************************)
LEMMA WakeStep == TypeOK /\ WakeInv /\ [Next]_vars => WakeInv'
<1> SUFFICES ASSUME TypeOK, WakeInv, [Next]_vars PROVE WakeInv'
  OBVIOUS
<1>0. ASSUME UNCHANGED <<inbox, replies, overlap>>,
             \A t \in Threads : \/ /\ thread'[t].job = thread[t].job
                                   /\ thread'[t].todo = thread[t].todo
                                   /\ thread[t].owner = "free" <=> thread'[t].owner = "free"
                                \/ thread'[t] = Free
      PROVE  WakeInv'
  <2>1. pending' = pending
    BY <1>0 DEF pending
  <2>2. OneCycle'
    BY <1>0, <2>1 DEF WakeInv, OneCycle, Awake, Free
  <2> QED BY <1>0, <2>2 DEF WakeInv, RepliesOnce
<1>1. CASE \E matching \in SUBSET Jobs : tick(matching)
  BY <1>0, <1>1 DEF tick
<1>2. ASSUME NEW c \in Server, NEW j \in Jobs, run_job(c, j) PROVE WakeInv'
  <2>1. CASE RunJobRefused(c, j)
    BY <1>0, <1>2, <2>1 DEF run_job, RunJobRefused
  <2>2. CASE RunJobStarts(c, j)
    BY <1>2, <2>2, StartKeepsCycle DEF run_job, RunJobStarts, Callers
  <2> QED BY <1>2, <2>1, <2>2 DEF run_job
<1>3. CASE \E j \in Jobs : CliCheck(j)
  BY <1>0, <1>3 DEF CliCheck, RunJobRefused
<1>4. CASE CliStart
  BY <1>4, StartKeepsCycle DEF CliStart, Callers, TypeOK, CallRecord
<1>5. ASSUME NEW c \in Callers, Retry(c) PROVE WakeInv'
  BY <1>5, StartKeepsCycle DEF Retry, TypeOK, CallRecord
<1>6. ASSUME NEW t \in Threads, Timeout(t) PROVE WakeInv'
  <2>1. /\ thread[t].owner # "free" /\ thread'[t].owner = "nobody"
        /\ thread'[t].job = thread[t].job /\ thread'[t].todo = thread[t].todo
        /\ \A u \in Threads \ {t} : thread'[u] = thread[u]
    BY <1>6 DEF Timeout, TypeOK, ThreadRecord, Callers, Server
  <2> QED BY <1>0, <1>6, <2>1 DEF Timeout
<1>7. ASSUME NEW t \in Threads, Process(t) PROVE WakeInv'
  <2>1. PICK m \in thread[t].todo :
          /\ respond(m) \/ mark_failed(m)
          /\ thread' = [thread EXCEPT ![t].todo = @ \ {m}]
    BY <1>7 DEF Process
  <2>2. /\ thread'[t].todo = thread[t].todo \ {m}
        /\ \A u \in Threads : thread'[u].job = thread[u].job /\ thread'[u].owner = thread[u].owner
        /\ \A u \in Threads \ {t} : thread'[u] = thread[u]
        /\ overlap' = overlap
    BY <1>7, <2>1 DEF Process, TypeOK, ThreadRecord
  <2>3. /\ m \in Messages
        /\ inbox'[m] \in {"done", "failed"}
        /\ \A q \in Messages \ {m} : inbox'[q] = inbox[q] /\ replies'[q] = replies[q]
        /\ replies'[m] \in {replies[m], replies[m] + 1}
    BY <2>1 DEF respond, mark_failed, TypeOK, InboxTypeOK, ThreadRecord
  <2>4. pending' = pending \ {m}
    BY <2>3 DEF pending
  \* Without an overlap the message was pending, and only this cycle holds it.
  <2>5. ~overlap => /\ replies[m] = 0
                    /\ \A u \in Threads \ {t} : m \notin thread[u].todo
    <3> SUFFICES ASSUME ~overlap PROVE /\ replies[m] = 0
                                       /\ \A u \in Threads \ {t} : m \notin thread[u].todo
      OBVIOUS
    <3>1. m \in pending /\ Awake(t)
      BY DEF WakeInv, OneCycle
    <3> QED BY <3>1 DEF WakeInv, OneCycle, pending
  <2>6. OneCycle'
    <3>1. \A u \in Threads : Awake(u)' <=> Awake(u)
      BY <2>2 DEF Awake
    <3>2. \A u \in Threads : thread'[u].todo \subseteq thread[u].todo
      BY <2>2
    <3>3. ~overlap => \A u \in Threads : thread'[u].todo \subseteq pending'
      BY <2>2, <2>4, <2>5 DEF WakeInv, OneCycle
    <3>4. \A q \in Messages : inbox'[q] \in {"none", "pending"} => replies'[q] = 0
      BY <2>3 DEF WakeInv, OneCycle
    <3> QED BY <2>2, <3>1, <3>2, <3>3, <3>4 DEF WakeInv, OneCycle
  <2>7. RepliesOnce'
    BY <2>2, <2>3, <2>5 DEF WakeInv, RepliesOnce
  <2> QED BY <2>6, <2>7 DEF WakeInv
<1>8. ASSUME NEW t \in Threads, NEW ok \in BOOLEAN, Leaves(t, ok) PROVE WakeInv'
  <2>1. \A u \in Threads : thread'[u] = IF u = t THEN Free ELSE thread[u]
    BY <1>8 DEF Leaves, TypeOK
  <2> QED BY <1>0, <1>8, <2>1 DEF Leaves
<1>9. CASE NextMinute \/ Switch \/ \E j \in Jobs : update_job(j)
  BY <1>0, <1>9 DEF NextMinute, Switch, update_job
<1>10. ASSUME NEW m \in Messages, Leave(m) PROVE WakeInv'
  <2>1. /\ UNCHANGED <<replies, thread, overlap>>
        /\ inbox[m] = "none" /\ \A q \in Messages \ {m} : inbox'[q] = inbox[q]
    BY <1>10 DEF Leave, post, cronVars, TypeOK, InboxTypeOK
  <2>2. pending \subseteq pending'
    BY <2>1 DEF pending
  <2>3. OneCycle'
    BY <2>1, <2>2 DEF WakeInv, OneCycle, Awake
  <2> QED BY <2>1, <2>3 DEF WakeInv, RepliesOnce
<1>11. CASE ServerDies \/ CliDies
  BY <1>0, <1>11 DEF ServerDies, CliDies
<1>12. CASE ServerStarts
  BY <1>0, <1>12 DEF ServerStarts
<1>13. CASE UNCHANGED vars
  BY <1>0, <1>13 DEF vars, cronVars
<1> QED BY <1>1, <1>2, <1>3, <1>4, <1>5, <1>6, <1>7, <1>8, <1>9, <1>10, <1>11, <1>12,
           <1>13 DEF Next, ThreadEnds, CycleRaises

-----------------------------------------------------------------------------
(* The theorems.                                                            *)

\* The inductive invariant holds in every reachable state.
LEMMA CronInvariant == Spec => []IInv
<1>1. Init => IInv
  <2> SUFFICES ASSUME Init PROVE IInv
    OBVIOUS
  <2>1. TypeOK
    <3>1. [trigger |-> "none", fresh |-> FALSE] \in NewestRecord
      BY DEF NewestRecord
    <3>2. InboxTypeOK
      BY RepliesBound DEF Init, InboxInit, InboxTypeOK
    <3>3. call \in [Callers -> CallRecord] /\ thread \in [Threads -> ThreadRecord]
      BY RecordTypes DEF Init
    <3>4. newest \in [Jobs -> NewestRecord]
      BY <3>1 DEF Init
    <3>5. running \in [Jobs -> SUBSET Owners]
      BY DEF Init
    <3>6. fired \in [Jobs -> 0 .. 2] /\ enabled \in [Jobs -> BOOLEAN]
      BY DEF Init
    <3> QED BY <3>2, <3>3, <3>4, <3>5, <3>6, CronAssumption DEF Init, TypeOK
  <2>2. ServerInv
    BY DEF Init, ServerInv, Threading, RowsHeld, ServerNeverOverlaps, Free, Idle, Callers, Server
  <2>3. MinuteInv
    BY DEF Init, MinuteInv, RetriesCounted, FiringShown, FiresOncePerMinute, Idle
  <2>4. WakeInv
    BY DEF Init, InboxInit, WakeInv, OneCycle, RepliesOnce, Awake, Free
  <2> QED BY <2>1, <2>2, <2>3, <2>4 DEF IInv
<1>2. IInv /\ [Next]_vars => IInv'
  BY TypeStep, ServerStep, MinuteStep, WakeStep DEF IInv, ServerInv
<1> QED BY <1>1, <1>2, PTL DEF Spec

(***************************************************************************)
(* However retries, timeouts, restarts and manual runs interleave, the     *)
(* loop and the API never run one job at the same time (run_job()'s        *)
(* overlap guard), for any number of jobs, threads and retries.            *)
(***************************************************************************)
THEOREM ServerExclusion == Spec => []ServerNeverOverlaps
<1>1. IInv => ServerNeverOverlaps
  BY DEF IInv, ServerInv
<1> QED BY <1>1, CronInvariant, PTL

(***************************************************************************)
(* The schedule fires a job once a minute, for any number of jobs and      *)
(* however late the loop comes to one (_already_fired_this_minute()).      *)
(***************************************************************************)
THEOREM OneFiring == Spec => []FiresOncePerMinute
<1>1. IInv => FiresOncePerMinute
  BY DEF IInv, MinuteInv
<1> QED BY <1>1, CronInvariant, PTL

(***************************************************************************)
(* Crashes, timeouts, retries and failed turns alone never duplicate a     *)
(* reply: a second reply needs two wake cycles at once (wake/runner.py     *)
(* _process_inbox()), for any number of messages and threads.              *)
(***************************************************************************)
THEOREM OneReply == Spec => []RepliesOnce
<1>1. IInv => RepliesOnce
  BY DEF IInv, WakeInv
<1> QED BY <1>1, CronInvariant, PTL
=============================================================================
