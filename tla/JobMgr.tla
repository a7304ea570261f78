------------------------------- MODULE JobMgr -------------------------------
(***************************************************************************)
(* Batch jobs of the master (src/src/master/jobmgr.py: JobMgr, BatchJob),  *)
(* their rows in the database, and what JobMgr sees of the batch scheduler *)
(* (src/src/master/taskmgr.py, modelled in full in TaskMgr).               *)
(*                                                                         *)
(* JobMgr has no thread. Its methods are called by                         *)
(*   - the scheduler thread of TaskMgr, which reports the status of tasks, *)
(*   - the gRPC threads of TaskMgr, which report tasks to be retried       *)
(*     (one of them is modelled, "handler"),                               *)
(*   - HTTP threads: add_job, one for each job, and stop_job.              *)
(* A call of report is cut where another thread can come in between: the   *)
(* look into job_map, the update of the BatchJob (under its lock), each    *)
(* task it hands to TaskMgr, and the last test, which deletes the job.     *)
(*                                                                         *)
(* A BatchJob and its rows are one object for every thread: each method    *)
(* reads the rows anew and commits before it gives up the lock. Users,     *)
(* reasons, times and amounts are left out.                                *)
(***************************************************************************)
EXTENDS Integers, FiniteSets

CONSTANTS
  Job,       \* job ids
  Idx,       \* task indices of every job
  Dep,       \* [Idx -> SUBSET Idx]: the field "dependency" of the tasks
  MaxStop,   \* bound: calls of stop_job
  MaxRetry,  \* bound: "retrying" reports
  MaxRaise,  \* bound: calls of add_task that raise an exception
  MaxStuck,  \* bound: tasks that never end
  MaxCrash   \* bound: restarts of the master

Caller == {"scheduler", "handler"} \cup Job

TaskStatus == {"pending", "scheduling", "running", "retrying", "failed",
               "finished", "stopped"}
EndedTask == {"failed", "finished", "stopped"}
EndedJob == {"done", "failed", "stopped"}

ASSUME SetAssumption ==
  /\ IsFiniteSet(Job) /\ IsFiniteSet(Idx) /\ Idx # {}
  /\ "scheduler" \notin Job /\ "handler" \notin Job
ASSUME DepAssumption == Dep \in [Idx -> SUBSET Idx]
ASSUME BoundAssumption ==
  /\ MaxStop \in Nat /\ MaxRetry \in Nat /\ MaxRaise \in Nat
  /\ MaxStuck \in Nat /\ MaxCrash \in Nat

VARIABLES
  job_db,      \* Batchjob.status in the database
  task_db,     \* Batchtask.status in the database
  job_map,     \* the keys of JobMgr.job_map
  tasks,       \* BatchJob.tasks[i]['status']
  dependency,  \* BatchJob.tasks[i]['dependency']
  tasks_cnt,   \* BatchJob.tasks_cnt
  call,        \* the call into JobMgr each thread is in, but those of stop_job
  stopper,     \* the call of stop_job for each job
  tm,          \* where each task is: out of TaskMgr, appended, queued, waiting, active, over
  lazy_delete_list,  \* TaskMgr: tasks done with and still queued
  lazy_stop_list,    \* TaskMgr: tasks to stop
  sort,        \* TaskMgr: is the scheduler in sort_out_task_queue, and where
  phase,       \* is the master up, or in recover_jobs
  used,        \* what was used up of each bound
  handed,      \* calls of add_task for each task since the master started
  charged,     \* calls of charge_beans for each task since the master started
  revived,     \* ended tasks a later report made running or retrying
  stuck,       \* tasks of TaskMgr with a subtask that stays RUNNING
  cut          \* jobs an exception cut off from a task that was to be handed over

db_vars == <<job_db, task_db>>
mem_vars == <<tasks, dependency, tasks_cnt>>
tm_vars == <<tm, lazy_delete_list, lazy_stop_list, sort>>
ghost_vars == <<handed, charged, revived, stuck, cut>>
vars == <<job_db, task_db, job_map, tasks, dependency, tasks_cnt, call, stopper, tm,
          lazy_delete_list, lazy_stop_list, sort, phase, used, handed, charged, revived, stuck, cut>>

-----------------------------------------------------------------------------
(* Data.                                                                   *)

Pair == Job \X Idx

\* A call: todo are the tasks still to be handed to TaskMgr; nested: the report is made
\* by add_task, inside the call; report: a report is at the bottom of the call, not add_job.
Idle == [pc |-> "idle"]
DeadThread == [pc |-> "dead"]

Report(j, i, s, bill) ==
  [pc |-> "lookup", job |-> j, task |-> i, status |-> s, bill |-> bill,
   todo |-> {}, nested |-> FALSE, report |-> TRUE]

\* add_job, before process_job; its task field is set by the reports nested in it.
Adding(j) == [Report(j, CHOOSE i \in Idx : TRUE, "pending", FALSE) EXCEPT
                !.pc = "start", !.report = FALSE]

NotStopping == [pc |-> "idle", todo |-> {}]
NotSorting == [pc |-> "scan", todo |-> {}]

NoTasks == [j \in Job |-> [i \in Idx |-> "pending"]]
AllPending == [s \in TaskStatus |-> IF s = "pending" THEN Cardinality(Idx) ELSE 0]
Zero == [j \in Job |-> [i \in Idx |-> 0]]

\* The tasks of get_tasks_no_dependency.
Ready0 == {i \in Idx : Dep[i] = {}}

\* A new BatchJob after get_tasks_no_dependency(True).
StartedTasks == [i \in Idx |-> IF i \in Ready0 THEN "scheduling" ELSE "pending"]

StartedCnt == [AllPending EXCEPT !["pending"] = @ - Cardinality(Ready0),
                                 !["scheduling"] = Cardinality(Ready0)]

\* Mutant: a job to stop does not wait for the tasks that are to be scheduled.
UpdateJobStatus_mutant(old, cnt) ==
  CASE cnt["failed"] # 0 -> "failed"
    [] cnt["failed"] = 0 /\ cnt["finished"] = Cardinality(Idx) -> "done"
    [] OTHER ->
       IF old = "stopping"
       THEN IF cnt["running"] = 0 /\ cnt["retrying"] = 0 THEN "stopped" ELSE old
       ELSE IF cnt["running"] # 0 \/ cnt["retrying"] # 0 THEN "running" ELSE "pending"
\* _update_job_status, from the status in the database and the new counters.
UpdateJobStatus(old, cnt) ==
  CASE cnt["failed"] # 0 -> "failed"
    [] cnt["failed"] = 0 /\ cnt["finished"] = Cardinality(Idx) -> "done"
    [] OTHER ->
       IF old = "stopping"
       THEN IF cnt["running"] = 0 /\ cnt["scheduling"] = 0 /\ cnt["retrying"] = 0
            THEN "stopped" ELSE old
       ELSE IF cnt["running"] # 0 \/ cnt["retrying"] # 0 THEN "running" ELSE "pending"

\* How a call goes on when what it was doing for one task is done.
Proceed(r) ==
  IF r.todo # {} THEN [r EXCEPT !.pc = "add", !.nested = FALSE]
  ELSE IF r.report THEN [r EXCEPT !.pc = "check", !.nested = FALSE]
  ELSE Idle

\* An exception leaves the call: it ends the scheduler thread, which catches
\* nothing, but no more than the call in a gRPC or HTTP thread.
Raised(c) == IF c = "scheduler" THEN DeadThread ELSE Idle

\* TaskMgr.add_lock: held by add_task, also while it reports, and by
\* sort_out_task_queue.
AddLockFree ==
  /\ sort.pc = "scan"
  /\ \A c \in Caller : call[c].pc \in {"lookup", "update", "check"} => ~call[c].nested

SchedulerIdle == call["scheduler"].pc = "idle"

-----------------------------------------------------------------------------
Init ==
  /\ job_db = [j \in Job |-> "none"] /\ task_db = NoTasks
  /\ job_map = {}
  /\ tasks = NoTasks /\ dependency = [j \in Job |-> Dep]
  /\ tasks_cnt = [j \in Job |-> AllPending]
  /\ call = [c \in Caller |-> Idle]
  /\ stopper = [j \in Job |-> NotStopping]
  /\ tm = [j \in Job |-> [i \in Idx |-> "out"]]
  /\ lazy_delete_list = {} /\ lazy_stop_list = {} /\ sort = NotSorting
  /\ phase = [pc |-> "up", todo |-> {}]
  /\ used = [stop |-> 0, retry |-> 0, raise |-> 0, crash |-> 0]
  /\ handed = Zero /\ charged = Zero /\ revived = {} /\ stuck = {} /\ cut = {}

-----------------------------------------------------------------------------
(* HTTP threads: add_job.                                                  *)

\* create_job: the rows are committed, the job is not in job_map yet.
CreateJob(j) ==
  /\ phase.pc = "up" /\ job_db[j] = "none"
  /\ job_db' = [job_db EXCEPT ![j] = "pending"]
  /\ call' = [call EXCEPT ![j] = Adding(j)]
  /\ UNCHANGED <<task_db, job_map, mem_vars, stopper, tm_vars, phase, used, ghost_vars>>

\* The job is put into job_map; process_job takes the tasks without dependencies.
StartJob(j) ==
  /\ call[j].pc = "start"
  /\ job_map' = job_map \cup {j}
  /\ tasks' = [tasks EXCEPT ![j] = StartedTasks]
  /\ tasks_cnt' = [tasks_cnt EXCEPT ![j] = StartedCnt]
  /\ task_db' = [task_db EXCEPT ![j] = StartedTasks]
  /\ call' = [call EXCEPT ![j] = Proceed([@ EXCEPT !.todo = Ready0])]
  /\ UNCHANGED <<job_db, dependency, stopper, tm_vars, phase, used, ghost_vars>>

-----------------------------------------------------------------------------
(* A call of report, by any thread.                                        *)

Charge(j, i) == charged' = [charged EXCEPT ![j][i] = @ + 1]

\* report, up to the look into job_map: a failed or finished task is charged first,
\* whether the job is there or not. Without the job only the row of the task is
\* updated, unless it says the task has ended.
Lookup(c) ==
  /\ call[c].pc = "lookup"
  /\ LET r == call[c]
     IN /\ IF r.bill /\ r.status \in {"failed", "finished"}
           THEN Charge(r.job, r.task) ELSE UNCHANGED charged
        /\ IF r.job \in job_map
           THEN /\ call' = [call EXCEPT ![c].pc = "update"]
                /\ UNCHANGED task_db
           ELSE /\ task_db' = IF task_db[r.job][r.task] \in EndedTask THEN task_db
                              ELSE [task_db EXCEPT ![r.job][r.task] = r.status]
                /\ call' = [call EXCEPT ![c] = IF r.nested THEN Proceed(r) ELSE Idle]
  /\ UNCHANGED <<job_db, job_map, mem_vars, stopper, tm_vars, phase, used, handed, revived,
                 stuck, cut>>

\* The tasks finish_task releases when task i of job j finishes. Mutants: a task is
\* released by the first of its dependencies to finish; the test is made before i is
\* taken out of the dependencies.
Released_mutant1(j, i) ==
  {o \in Idx : i \in dependency[j][o] /\ tasks[j][o] = "pending"}
Released_mutant2(j, i) ==
  {o \in Idx : /\ i \in dependency[j][o] /\ tasks[j][o] = "pending"
               /\ dependency[j][o] = {}}
Released(j, i) ==
  {o \in Idx : /\ i \in dependency[j][o] /\ tasks[j][o] = "pending"
               /\ dependency[j][o] \ {i} = {}}

\* update_task_stopped ignores a task that has ended; no other update ignores
\* anything. Mutant: it does not look at the old status.
Ignored_mutant(j, i, s) == FALSE
Ignored(j, i, s) == s = "stopped" /\ tasks[j][i] \in EndedTask

\* tasks_cnt after task i goes from old to s and the tasks R are released. Mutant:
\* the old status is not counted down.
Recount_mutant(cnt, old, s, R) ==
  [x \in TaskStatus |-> cnt[x] + (IF x = s THEN 1 ELSE 0)
     + (IF x = "scheduling" THEN Cardinality(R) ELSE 0)
     - (IF x = "pending" THEN Cardinality(R) ELSE 0)]
Recount(cnt, old, s, R) ==
  [x \in TaskStatus |-> cnt[x] + (IF x = s THEN 1 ELSE 0) - (IF x = old THEN 1 ELSE 0)
     + (IF x = "scheduling" THEN Cardinality(R) ELSE 0)
     - (IF x = "pending" THEN Cardinality(R) ELSE 0)]

\* update_task_running, finish_task, update_task_retrying, update_task_failed and
\* update_task_stopped, under the lock of the job; a task they report stopped is
\* charged afterwards.
Update(c) ==
  /\ call[c].pc = "update"
  /\ LET r == call[c]
         j == r.job
         i == r.task
         old == tasks[j][i]
         R == IF r.status = "finished" THEN Released(j, i) ELSE {}
         new(row) == [o \in Idx |-> IF o = i THEN r.status
                                    ELSE IF o \in R THEN "scheduling" ELSE row[o]]
         cnt == Recount(tasks_cnt[j], old, r.status, R)
     IN IF Ignored(j, i, r.status)
        THEN /\ call' = [call EXCEPT ![c].pc = "check"]
             /\ UNCHANGED <<db_vars, mem_vars, charged, revived>>
        ELSE /\ tasks' = [tasks EXCEPT ![j] = new(@)]
             /\ task_db' = [task_db EXCEPT ![j] = new(@)]
             /\ tasks_cnt' = [tasks_cnt EXCEPT ![j] = cnt]
             /\ job_db' = [job_db EXCEPT ![j] = UpdateJobStatus(@, cnt)]
             /\ dependency' = IF r.status = "finished"
                              THEN [dependency EXCEPT ![j] = [o \in Idx |-> @[o] \ {i}]]
                              ELSE dependency
             /\ IF r.bill /\ r.status = "stopped"
                THEN Charge(j, i) ELSE UNCHANGED charged
             /\ revived' = IF old \in EndedTask /\ r.status \notin EndedTask
                           THEN revived \cup {<<j, i>>} ELSE revived
             /\ call' = [call EXCEPT ![c] = IF R = {} THEN [@ EXCEPT !.pc = "check"]
                                            ELSE Proceed([@ EXCEPT !.todo = R])]
  /\ UNCHANGED <<job_map, stopper, tm_vars, phase, used, handed, stuck, cut>>

\* add_task_taskmgr hands the next task to TaskMgr.add_task. It is appended; or it
\* is refused, which add_task reports as failed before it returns, and nobody looks
\* at what it returns; or an exception comes out (a worker that is not monitored).
AddNext(c) ==
  /\ call[c].pc = "add" /\ AddLockFree
  /\ \E i \in call[c].todo :
       LET r == [call[c] EXCEPT !.todo = @ \ {i}]
           j == r.job
       IN /\ handed' = [handed EXCEPT ![j][i] = @ + 1]
          /\ \/ /\ tm' = [tm EXCEPT ![j][i] = "append"]
                /\ call' = [call EXCEPT ![c] = Proceed(r)]
                /\ UNCHANGED <<used, cut>>
             \/ /\ tm' = [tm EXCEPT ![j][i] = "failed"]
                /\ call' = [call EXCEPT ![c] =
                     [r EXCEPT !.pc = "lookup", !.task = i, !.status = "failed",
                               !.bill = FALSE, !.nested = TRUE]]
                /\ UNCHANGED <<used, cut>>
             \/ /\ used.raise < MaxRaise
                /\ used' = [used EXCEPT !.raise = @ + 1]
                /\ call' = [call EXCEPT ![c] = Raised(c)]
                /\ cut' = cut \cup {j}
                /\ UNCHANGED tm
  /\ UNCHANGED <<db_vars, job_map, mem_vars, stopper, lazy_delete_list, lazy_stop_list,
                 sort, phase, charged, revived, stuck>>

\* The end of report: a job that is over leaves job_map, and another thread may have
\* taken it out already. Mutant: a job that failed is kept.
Over_mutant(s) == s \in EndedJob \ {"failed"}
Over(s) == s \in EndedJob

Check(c) ==
  /\ call[c].pc = "check"
  /\ LET r == call[c]
         back == IF r.nested THEN Proceed(r) ELSE Idle
     IN IF ~Over(job_db[r.job])
        THEN /\ call' = [call EXCEPT ![c] = back]
             /\ UNCHANGED job_map
        ELSE /\ job_map' = job_map \ {r.job}
             /\ call' = [call EXCEPT ![c] = IF r.job \in job_map THEN back ELSE Raised(c)]
  /\ UNCHANGED <<db_vars, mem_vars, stopper, tm_vars, phase, used, ghost_vars>>

InCall(c) == Lookup(c) \/ Update(c) \/ AddNext(c) \/ Check(c)

-----------------------------------------------------------------------------
(* HTTP threads: stop_job.                                                 *)

StopJob(j) ==
  /\ phase.pc = "up" /\ used.stop < MaxStop
  /\ stopper[j] = NotStopping
  /\ j \in job_map /\ job_db[j] \notin {"done", "failed"}
  /\ stopper' = [stopper EXCEPT ![j] = [pc |-> "stopping", todo |-> Idx]]
  /\ used' = [used EXCEPT !.stop = @ + 1]
  /\ UNCHANGED <<db_vars, job_map, mem_vars, call, tm_vars, phase, ghost_vars>>

\* TaskMgr.lazy_stop_task for the next task of the job.
StopNext(j) ==
  /\ stopper[j].pc = "stopping" /\ sort.pc = "scan"
  /\ \E i \in stopper[j].todo :
       /\ stopper' = [stopper EXCEPT ![j].todo = @ \ {i}]
       /\ lazy_stop_list' = lazy_stop_list \cup {<<j, i>>}
  /\ UNCHANGED <<db_vars, job_map, mem_vars, call, tm, lazy_delete_list, sort, phase,
                 used, ghost_vars>>

\* BatchJob.stop_job, whatever became of the job in the meantime.
StopMark(j) ==
  /\ stopper[j].pc = "stopping" /\ stopper[j].todo = {}
  /\ stopper' = [stopper EXCEPT ![j] = NotStopping]
  /\ job_db' = [job_db EXCEPT ![j] = "stopping"]
  /\ UNCHANGED <<task_db, job_map, mem_vars, call, tm_vars, phase, used, ghost_vars>>

-----------------------------------------------------------------------------
(* TaskMgr, as far as JobMgr sees it. A task is                            *)
(*   out        not handed over, or refused by add_task,                   *)
(*   append     in lazy_append_list,                                       *)
(*   queued     in task_queue, no vnode of it ever placed on a worker,     *)
(*   waiting    in task_queue, with a subtask to be tried again,           *)
(*   active     in task_queue, its subtasks started,                       *)
(*   finished, failed, stopped: over, after it was active,                 *)
(*   dropped    stopped before it was ever active.                         *)

Live == {"append", "queued", "waiting", "active"}

Queued == {p \in Pair : tm[p[1]][p[2]] \in {"queued", "waiting", "active"}}
            \cup lazy_delete_list
Appended == {p \in Pair : tm[p[1]][p[2]] = "append"}

\* The scheduler reports the status s of a task that is over, with its bill. Before
\* that get_billing asks for the price of the worker of each vnode, and raises an
\* exception for a vnode that was never placed: all of those of a queued task, and
\* perhaps one of a task with several vnodes.
Bill(j, i, s, holds_locks) ==
  \/ /\ tm[j][i] # "queued"
     /\ call' = [call EXCEPT !["scheduler"] = Report(j, i, s, TRUE)]
     /\ sort' = holds_locks
  \/ /\ tm[j][i] = "queued" \/ s # "finished"
     /\ call' = [call EXCEPT !["scheduler"] = DeadThread]
     /\ sort' = NotSorting

SortBegin ==
  /\ phase.pc = "up" /\ SchedulerIdle /\ sort.pc = "scan" /\ AddLockFree
  /\ sort' = [pc |-> "stop", todo |-> Queued \cap lazy_stop_list]
  /\ UNCHANGED <<db_vars, job_map, mem_vars, call, stopper, tm, lazy_delete_list,
                 lazy_stop_list, phase, used, ghost_vars>>

\* A task to stop is in the queue, perhaps as one that is over already.
SortStop ==
  /\ sort.pc = "stop" /\ SchedulerIdle
  /\ \E p \in sort.todo :
       LET j == p[1]
           i == p[2]
       IN /\ tm' = [tm EXCEPT ![j][i] = IF @ = "queued" THEN "dropped"
                                        ELSE IF @ \in Live THEN "stopped" ELSE @]
          /\ lazy_delete_list' = lazy_delete_list \cup {p}
          /\ Bill(j, i, "stopped", [sort EXCEPT !.todo = @ \ {p}])
  /\ UNCHANGED <<db_vars, job_map, mem_vars, stopper, lazy_stop_list, phase, used,
                 ghost_vars>>

\* The tasks that are over leave the queue; next, those to stop that wait to join it.
SortDelete ==
  /\ sort.pc = "stop" /\ sort.todo = {} /\ SchedulerIdle
  /\ lazy_delete_list' = {}
  /\ sort' = [pc |-> "cancel", todo |-> Appended \cap lazy_stop_list]
  /\ UNCHANGED <<db_vars, job_map, mem_vars, call, stopper, tm, lazy_stop_list, phase,
                 used, ghost_vars>>

SortCancel ==
  /\ sort.pc = "cancel" /\ SchedulerIdle
  /\ \E p \in sort.todo :
       /\ sort' = [sort EXCEPT !.todo = @ \ {p}]
       /\ tm' = [tm EXCEPT ![p[1]][p[2]] = "dropped"]
       /\ call' = [call EXCEPT !["scheduler"] = Report(p[1], p[2], "stopped", FALSE)]
  /\ UNCHANGED <<db_vars, job_map, mem_vars, stopper, lazy_delete_list, lazy_stop_list,
                 phase, used, ghost_vars>>

SortEnd ==
  /\ sort.pc = "cancel" /\ sort.todo = {} /\ SchedulerIdle
  /\ tm' = [j \in Job |-> [i \in Idx |->
              IF tm[j][i] = "append" THEN "queued" ELSE tm[j][i]]]
  /\ lazy_stop_list' = {}
  /\ sort' = NotSorting
  /\ UNCHANGED <<db_vars, job_map, mem_vars, call, stopper, lazy_delete_list, phase, used,
                 ghost_vars>>

\* The scheduler works on a queued task that nobody asked to stop.
Scanned(j, i) ==
  /\ sort.pc = "scan" /\ SchedulerIdle
  /\ <<j, i>> \notin lazy_stop_list

\* task_processor
Process(j, i) ==
  /\ Scanned(j, i) /\ tm[j][i] \in {"queued", "waiting"}
  /\ tm' = [tm EXCEPT ![j][i] = "active"]
  /\ call' = [call EXCEPT !["scheduler"] = Report(j, i, "running", FALSE)]
  /\ UNCHANGED <<db_vars, job_map, mem_vars, stopper, lazy_delete_list, lazy_stop_list,
                 sort, phase, used, ghost_vars>>

\* check_task_completed finds the task over.
EndTask(j, i) ==
  /\ Scanned(j, i) /\ tm[j][i] = "active"
  /\ \E s \in {"finished", "failed"} :
       /\ <<j, i>> \in stuck => s = "failed"
       /\ tm' = [tm EXCEPT ![j][i] = s]
       /\ Bill(j, i, s, sort)
  /\ lazy_delete_list' = lazy_delete_list \cup {<<j, i>>}
  /\ UNCHANGED <<db_vars, job_map, mem_vars, stopper, lazy_stop_list, phase, used,
                 ghost_vars>>

\* A subtask of the task has reported for the last time and is still RUNNING: the worker
\* dropped its last report, or task_processor made it RUNNING after that report. The
\* task will not finish; it may still fail, be retried or be stopped.
Hang(j, i) ==
  /\ tm[j][i] = "active" /\ Cardinality(stuck) < MaxStuck
  /\ stuck' = stuck \cup {<<j, i>>}
  /\ UNCHANGED <<db_vars, job_map, mem_vars, call, stopper, tm_vars, phase, used, handed,
                 charged, revived, cut>>

\* task_processor could not start a vnode or a command.
StartFails(j, i) ==
  /\ Scanned(j, i) /\ tm[j][i] = "active" /\ used.retry < MaxRetry
  /\ used' = [used EXCEPT !.retry = @ + 1]
  /\ tm' = [tm EXCEPT ![j][i] = "waiting"]
  /\ call' = [call EXCEPT !["scheduler"] = Report(j, i, "retrying", FALSE)]
  /\ UNCHANGED <<db_vars, job_map, mem_vars, stopper, lazy_delete_list, lazy_stop_list,
                 sort, phase, ghost_vars>>

\* on_task_report gives a subtask another try. It found the task in the queue, but
\* its RPCs take time: the task may have been stopped since, or failed by another
\* subtask.
ReportRetrying(j, i) ==
  /\ call["handler"] = Idle /\ used.retry < MaxRetry
  /\ tm[j][i] \in {"active", "failed", "stopped"}
  /\ used' = [used EXCEPT !.retry = @ + 1]
  /\ tm' = [tm EXCEPT ![j][i] = IF @ = "active" THEN "waiting" ELSE @]
  /\ call' = [call EXCEPT !["handler"] = Report(j, i, "retrying", FALSE)]
  /\ UNCHANGED <<db_vars, job_map, mem_vars, stopper, lazy_delete_list, lazy_stop_list,
                 sort, phase, ghost_vars>>

-----------------------------------------------------------------------------
(* Restarts of the master.                                                 *)

\* The database is all that is left.
Crash ==
  /\ used.crash < MaxCrash
  /\ used' = [used EXCEPT !.crash = @ + 1]
  /\ job_map' = {}
  /\ tasks' = NoTasks /\ dependency' = [j \in Job |-> Dep]
  /\ tasks_cnt' = [j \in Job |-> AllPending]
  /\ call' = [c \in Caller |-> Idle]
  /\ stopper' = [j \in Job |-> NotStopping]
  /\ tm' = [j \in Job |-> [i \in Idx |-> "out"]]
  /\ lazy_delete_list' = {} /\ lazy_stop_list' = {} /\ sort' = NotSorting
  /\ phase' = [pc |-> "recovering",
               todo |-> {j \in Job : job_db[j] \notin EndedJob \cup {"none"}}]
  /\ handed' = Zero /\ charged' = Zero /\ revived' = {} /\ stuck' = {} /\ cut' = {}
  /\ UNCHANGED db_vars

\* recover_jobs, for one job: its rows are cleared, it is put into job_map and its
\* first tasks are handed to TaskMgr. At that time TaskMgr cannot report to JobMgr and
\* the monitor has no data of the workers, so that add_task may raise an exception: it
\* ends recover_jobs, whatever jobs are left.
RecoverJob(j) ==
  /\ phase.pc = "recovering" /\ j \in phase.todo
  /\ job_db' = [job_db EXCEPT ![j] = "pending"]
  /\ task_db' = [task_db EXCEPT ![j] = StartedTasks]
  /\ tasks' = [tasks EXCEPT ![j] = StartedTasks]
  /\ tasks_cnt' = [tasks_cnt EXCEPT ![j] = StartedCnt]
  /\ job_map' = job_map \cup {j}
  /\ \E added \in SUBSET Ready0, tried \in SUBSET Ready0 :
       /\ added \subseteq tried /\ Cardinality(tried \ added) <= 1
       /\ \/ added = Ready0
          \/ tried # added /\ used.raise < MaxRaise
       /\ handed' = [handed EXCEPT ![j] = [i \in Idx |-> IF i \in tried THEN 1 ELSE 0]]
       /\ tm' = [tm EXCEPT ![j] = [i \in Idx |-> IF i \in added THEN "append" ELSE "out"]]
       /\ IF tried = added
          THEN /\ phase' = [phase EXCEPT !.todo = @ \ {j}]
               /\ UNCHANGED <<used, cut>>
          ELSE /\ phase' = [pc |-> "up", todo |-> {}]
               /\ used' = [used EXCEPT !.raise = @ + 1]
               /\ cut' = phase.todo
  /\ UNCHANGED <<dependency, call, stopper, lazy_delete_list, lazy_stop_list, sort,
                 charged, revived, stuck>>

RecoverEnd ==
  /\ phase.pc = "recovering" /\ phase.todo = {}
  /\ phase' = [phase EXCEPT !.pc = "up"]
  /\ UNCHANGED <<db_vars, job_map, mem_vars, call, stopper, tm_vars, used, ghost_vars>>

-----------------------------------------------------------------------------
Sorting == SortBegin \/ SortStop \/ SortDelete \/ SortCancel \/ SortEnd
Stopping(j) == StopNext(j) \/ StopMark(j)

Next ==
  \/ \E j \in Job : CreateJob(j) \/ StartJob(j)
  \/ \E c \in Caller : InCall(c)
  \/ \E j \in Job : StopJob(j) \/ Stopping(j)
  \/ Sorting
  \/ \E j \in Job, i \in Idx :
       \/ Process(j, i) \/ EndTask(j, i) \/ Hang(j, i)
       \/ StartFails(j, i) \/ ReportRetrying(j, i)
  \/ Crash
  \/ \E j \in Job : RecoverJob(j)
  \/ RecoverEnd

Spec == Init /\ [][Next]_vars

\* Every thread goes on, until an exception ends it. The scheduler thread looks at every
\* task of the queue again and again: a task finds a worker, and is over, some day,
\* unless one that never ends keeps what it has.
FairSpec ==
  /\ Spec
  /\ \A j \in Job : WF_vars(StartJob(j)) /\ WF_vars(RecoverJob(j))
  /\ WF_vars(RecoverEnd)
  /\ \A c \in {"scheduler", "handler"} : WF_vars(InCall(c))
  /\ \A j \in Job : SF_vars(InCall(j))
  /\ WF_vars(Sorting)
  /\ \A j \in Job, i \in Idx :
       SF_vars(stuck = {} /\ (Process(j, i) \/ EndTask(j, i)))

-----------------------------------------------------------------------------
(* Properties.                                                             *)

\* tasks_cnt, on which _update_job_status decides that a job is done or failed or
\* stopped, agrees with the statuses of the tasks whatever reports cross.
CountersMatch ==
  \A j \in Job, s \in TaskStatus :
    tasks_cnt[j][s] = Cardinality({i \in Idx : tasks[j][i] = s})

\* add_task is called for a task at most once while the master runs (TaskMgr does not
\* look whether it has the task), and not before all it depends on has finished.
HandedInOrder ==
  \A j \in Job, i \in Idx :
    /\ handed[j][i] <= 1
    /\ handed[j][i] = 1 => \A d \in Dep[i] : tm[j][d] = "finished"

\* A job that is done or stopped has no task in TaskMgr any more, and of a job that is
\* done every task has finished, in memory and in the database.
OverIsQuiet ==
  \A j \in Job :
    /\ job_db[j] \in {"done", "stopped"} => \A i \in Idx : tm[j][i] \notin Live
    /\ job_db[j] = "done" => \A i \in Idx : task_db[j][i] = "finished"

\* A job that is over stays in job_map only while a thread is on its way to delete it,
\* or when an exception ended the scheduler thread, perhaps on that way.
NoZombie ==
  \A j \in job_map : job_db[j] \in EndedJob =>
    \/ call["scheduler"] = DeadThread
    \/ \E c \in Caller : call[c] \notin {Idle, DeadThread} /\ call[c].job = j

\* A task is charged for at most once while the master runs, although a task that is
\* over can be stopped and is reported again, unless a late report revived it.
ChargedOnce ==
  \A p \in Pair : charged[p[1]][p[2]] > 1 => p \in revived

\* What may keep a job from ending: a request to stop it; a late report on a task that
\* has ended; an exception out of add_task that cut it off, in the recovery also when
\* another job was being handed over, until the next restart; an exception that ended
\* the scheduler thread; a task that never ends and keeps its share of the workers.
Disturbed(j) ==
  \/ used.stop > 0 \/ j \in cut \/ stuck # {}
  \/ \E i \in Idx : <<j, i>> \in revived
  \/ call["scheduler"] = DeadThread

\* A job that has a row and is not over is brought to its end and out of job_map, in
\* spite of restarts, which run it anew from its row, unless something disturbed it.
JobEnds ==
  \A j \in Job : job_db[j] \notin EndedJob \cup {"none"}
    ~> (job_db[j] \in EndedJob /\ j \notin job_map) \/ Disturbed(j)

=============================================================================
