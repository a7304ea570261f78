------------------------------- MODULE TaskMgr -------------------------------
(***************************************************************************)
(* The batch scheduler of the master (src/src/master/taskmgr.py) and the   *)
(* part of a batch worker it talks to (src/src/worker/taskworker.py).      *)
(*                                                                         *)
(* Three kinds of threads share the task objects:                          *)
(*   - the scheduler thread TaskMgr.run: sort_out_task_queue,              *)
(*     task_scheduler and task_processor, in a loop;                       *)
(*   - one gRPC thread per worker that is reporting: on_task_report;       *)
(*   - HTTP threads of the master: add_task and lazy_stop_task.            *)
(* Only small critical sections are atomic here: every RPC, and every read *)
(* made before one and used after it, is a step of its own. The two calls  *)
(* clear_sub_task makes for one subtask are one step.                      *)
(*                                                                         *)
(* Left out: wording, the hosts file, bridges, prices and running times.   *)
(* find_proper_workers compares needs with figures that change all the     *)
(* time (free memory, free disk, usage counters), so a placement may       *)
(* succeed or fail whenever some worker is up.                             *)
(***************************************************************************)
EXTENDS Integers, Sequences, FiniteSets

CONSTANTS
  Task,        \* task ids, numbered by priority: the smaller is served first
  VnodeCount,  \* vnodes of a task
  Worker,      \* batch workers
  NoWorker,    \* Python's None in SubTask.worker
  NetCount,    \* nets in the pool: 1 << (32 - batch_cidr - task_cidr)
  MaxRetry,    \* max_retry_count of every subtask
  AtSameTime,  \* the tasks with at_same_time
  RunOnAll,    \* the tasks whose command runs on every vnode, not on the first
  GpuTask,     \* the tasks with a GPU preference
  MaxFault,    \* bound: failed RPCs, lost reports and worker restarts
  MaxFlap      \* bound: workers that leave or join

Vnode == 0 .. VnodeCount - 1
NoNet == 0
Net == 1 .. NetCount

ASSUME TaskAssumption == Task \subseteq Nat /\ IsFiniteSet(Task)
ASSUME CountAssumption ==
  /\ VnodeCount \in Nat \ {0}
  /\ NetCount \in Nat \ {0}
  /\ MaxRetry \in Nat
  /\ MaxFault \in Nat
  /\ MaxFlap \in Nat
ASSUME WorkerAssumption == NoWorker \notin Worker
ASSUME KindAssumption ==
  AtSameTime \subseteq Task /\ RunOnAll \subseteq Task /\ GpuTask \subseteq Task

VARIABLES
  task_queue,        \* tasks the scheduler thread works on
  lazy_append_list,  \* tasks accepted by add_task, not yet in the queue
  lazy_delete_list,  \* tasks done with, not yet taken out of the queue
  lazy_stop_list,    \* tasks to stop
  task_status,       \* Task.status
  subtask,           \* the SubTask objects
  task_base_ip,      \* the net a task holds
  free_nets,         \* the pool of nets, taken from the front
  sched,             \* where the scheduler thread is, with its locals
  handler,           \* the on_task_report call in progress for each worker
  batch,             \* task messages of a report RPC not handled yet
  taskmsgs,          \* task messages a worker has not reported yet
  containers,        \* vnodes that exist on the workers
  execs,             \* commands the workers execute
  nodes,             \* what the master knows of the workers
  job_view,          \* the last status of each task reported to JobMgr
  billed,            \* reports of each task that charge its user
  faults, flaps,     \* counters the bounds apply to
  answer_lost        \* an RPC was served and its answer lost

nets_vars == <<task_base_ip, free_nets>>
queue_vars == <<task_queue, lazy_append_list, lazy_delete_list, lazy_stop_list>>
worker_vars == <<taskmsgs, containers, execs>>
report_vars == <<handler, batch>>
env_vars == <<nodes, flaps>>
fault_vars == <<faults, answer_lost>>
vars == <<task_queue, lazy_append_list, lazy_delete_list, lazy_stop_list,
          task_status, subtask, task_base_ip, free_nets, sched, handler, batch,
          taskmsgs, containers, execs, nodes, job_view, billed, faults, flaps,
          answer_lost>>

-----------------------------------------------------------------------------
(* Data.                                                                   *)

SubTask == [status: {"WAITING", "RUNNING", "COMPLETED", "FAILED"},
            vnode_started: BOOLEAN, task_started: BOOLEAN,
            try_count: Nat, worker: Worker \cup {NoWorker}, token: Nat]

NewSubTask == [status |-> "WAITING", vnode_started |-> FALSE,
               task_started |-> FALSE, try_count |-> 0, worker |-> NoWorker,
               token |-> 0]

\* A TIMEOUT report is handled as a FAILED one.
TaskMsg == [task: Task, vnode: Vnode, token: Nat,
            status: {"COMPLETED", "FAILED", "OUTPUTERROR"}]

NoHandler == [pc |-> "idle"]
Handler == {NoHandler} \cup
  [pc: {"clear", "verdict", "tell"}, msg: TaskMsg,
   found: {"WAITING", "RUNNING", "COMPLETED", "FAILED"}]

Schedule == [pc: {"sort", "sorting", "stopping", "scan", "finishing", "running",
                  "vnodes", "commands", "accepted", "dead"},
             todo: SUBSET Task, task: Task \cup {0}, list: SUBSET Vnode,
             left: SUBSET Vnode, ok: BOOLEAN, gpu_pending: BOOLEAN]

AtSort == [pc |-> "sort", todo |-> {}, task |-> 0, list |-> {}, left |-> {},
           ok |-> TRUE, gpu_pending |-> FALSE]
Dead == [AtSort EXCEPT !.pc = "dead"]

First(S) == CHOOSE x \in S : \A y \in S : x <= y

HasCommand(t, v) == t \in RunOnAll \/ v = 0

\* task_queue_lock, add_lock and stop_lock are held by sort_out_task_queue.
SortHoldsLocks == sched.pc \in {"sorting", "stopping"}

\* SubTask.waiting_for_retry, and what it does to the root task.
waiting_for_retry(s) ==
  [s EXCEPT !.try_count = @ + 1,
            !.status = IF s.try_count + 1 <= MaxRetry THEN "WAITING" ELSE "FAILED"]

RootStatus(t, s) ==
  IF s.status = "FAILED" THEN [task_status EXCEPT ![t] = "FAILED"] ELSE task_status

\* An RPC is served, or refused, or served with its answer lost.
RpcOutcome == {"ok", "refused", "lost"}
Served(r) == r \in {"ok", "lost"}

\* What the RPCs with outcomes rs add to the count of faults.
Spend(rs) ==
  LET n == Cardinality({i \in DOMAIN rs : rs[i] # "ok"})
  IN /\ faults' = faults + n /\ faults + n <= MaxFault
     /\ answer_lost' = (answer_lost \/ \E i \in DOMAIN rs : rs[i] = "lost")

-----------------------------------------------------------------------------
Init ==
  /\ task_queue = {} /\ lazy_append_list = {}
  /\ lazy_delete_list = {} /\ lazy_stop_list = {}
  /\ task_status = [t \in Task |-> "WAITING"]
  /\ subtask = [t \in Task |-> [v \in Vnode |-> NewSubTask]]
  /\ task_base_ip = [t \in Task |-> NoNet]
  /\ free_nets = [i \in Net |-> i]
  /\ sched = AtSort
  /\ handler = [w \in Worker |-> NoHandler]
  /\ batch = [w \in Worker |-> {}]
  /\ taskmsgs = [w \in Worker |-> {}]
  /\ containers = {} /\ execs = {}
  /\ nodes = [w \in Worker |-> "on"]
  /\ job_view = [t \in Task |-> "none"]
  /\ billed = [t \in Task |-> 0]
  /\ faults = 0 /\ flaps = 0 /\ answer_lost = FALSE

-----------------------------------------------------------------------------
(* HTTP threads.                                                           *)

\* add_task: the task fits no set of workers and is refused, or is appended.
AddTask(t) ==
  /\ ~SortHoldsLocks
  /\ job_view[t] = "none"
  /\ \/ /\ job_view' = [job_view EXCEPT ![t] = "failed"]
        /\ UNCHANGED lazy_append_list
     \/ /\ lazy_append_list' = lazy_append_list \cup {t}
        /\ job_view' = [job_view EXCEPT ![t] = "scheduling"]
  /\ UNCHANGED <<task_queue, lazy_delete_list, lazy_stop_list, task_status, subtask,
                 nets_vars, sched, report_vars, worker_vars, env_vars, billed, fault_vars>>

\* lazy_stop_task: JobMgr.stop_job asks for every task of a job, whatever its
\* state, those not added yet included.
LazyStopTask(t) ==
  /\ ~SortHoldsLocks
  /\ t \notin lazy_stop_list
  /\ lazy_stop_list' = lazy_stop_list \cup {t}
  /\ UNCHANGED <<task_queue, lazy_append_list, lazy_delete_list, task_status, subtask,
                 nets_vars, sched, report_vars, worker_vars, env_vars, job_view,
                 billed, fault_vars>>

-----------------------------------------------------------------------------
(* The calls to a worker shared by the scheduler and the report threads.   *)

Kill(E, w, t, v) ==
  {IF e.worker = w /\ e.task = t /\ e.vnode = v THEN [e EXCEPT !.killed = TRUE] ELSE e :
     e \in E}

\* The vnodes stop_vnode acts on. Mutant: only those of running subtasks.
HasVnode_mutant(s) == s.vnode_started /\ s.status = "RUNNING"
HasVnode(s) == s.vnode_started

\* clear_sub_task: stop_subtask if a command was started, then stop_vnode if a
\* vnode was. A failed stop_subtask fails the subtask; a failed stop_vnode leaves
\* vnode_started set.
ClearSubTask(t, v) ==
  LET s == subtask[t][v]
      called(started) == IF started THEN RpcOutcome ELSE {"ok"}
  IN \E kill \in called(s.task_started), stop \in called(HasVnode(s)) :
       /\ Spend(<<kill, stop>>)
       /\ subtask' = [subtask EXCEPT ![t][v] =
            [s EXCEPT !.task_started = s.task_started /\ kill # "ok",
                      !.status = IF kill = "ok" THEN @ ELSE "FAILED",
                      !.vnode_started = @ /\ ~(HasVnode(s) /\ stop = "ok")]]
       /\ execs' = IF \/ s.task_started /\ Served(kill)
                      \/ HasVnode(s) /\ Served(stop)
                   THEN Kill(execs, s.worker, t, v) ELSE execs
       /\ containers' = IF HasVnode(s) /\ Served(stop)
                        THEN containers \ {<<s.worker, t, v>>} ELSE containers

\* Mutant: the net stays with the task.
ReleaseTaskIps_mutant(t) ==
  IF task_base_ip[t] = NoNet
  THEN UNCHANGED nets_vars
  ELSE /\ free_nets' = Append(free_nets, task_base_ip[t])
       /\ UNCHANGED task_base_ip

\* release_task_ips
ReleaseTaskIps(t) ==
  IF task_base_ip[t] = NoNet
  THEN UNCHANGED nets_vars
  ELSE /\ free_nets' = Append(free_nets, task_base_ip[t])
       /\ task_base_ip' = [task_base_ip EXCEPT ![t] = NoNet]

\* acquire_task_ips, when the pool is not empty
AcquireTaskIps(t) ==
  IF task_base_ip[t] = NoNet
  THEN /\ task_base_ip' = [task_base_ip EXCEPT ![t] = Head(free_nets)]
       /\ free_nets' = Tail(free_nets)
  ELSE UNCHANGED nets_vars

\* Task.get_billing looks up the price of every subtask's worker and raises an
\* exception if one has none.
CanBill(t) == \A v \in Vnode : subtask[t][v].worker # NoWorker

-----------------------------------------------------------------------------
(* The scheduler thread: sort_out_task_queue.                              *)

SortBegin ==
  /\ sched.pc = "sort"
  /\ sched' = [sched EXCEPT !.pc = "sorting", !.todo = task_queue \cap lazy_stop_list]
  /\ UNCHANGED <<queue_vars, task_status, subtask, nets_vars, report_vars, worker_vars,
                 env_vars, job_view, billed, fault_vars>>

SortStopNext ==
  /\ sched.pc = "sorting" /\ sched.todo # {}
  /\ LET t == First(sched.todo)
     IN sched' = [sched EXCEPT !.pc = "stopping", !.task = t, !.todo = @ \ {t},
                               !.left = Vnode]
  /\ UNCHANGED <<queue_vars, task_status, subtask, nets_vars, report_vars, worker_vars,
                 env_vars, job_view, billed, fault_vars>>

\* One turn of clear_sub_tasks, called by stop_remove_task.
SchedulerClear ==
  /\ sched.pc \in {"stopping", "finishing"} /\ sched.left # {}
  /\ LET v == First(sched.left)
     IN /\ ClearSubTask(sched.task, v)
        /\ sched' = [sched EXCEPT !.left = @ \ {v}]
  /\ UNCHANGED <<queue_vars, task_status, nets_vars, report_vars, taskmsgs, env_vars,
                 job_view, billed>>

\* The end of stop_remove_task and the 'stopped' report of sort_out_task_queue.
StopTask ==
  /\ sched.pc = "stopping" /\ sched.left = {}
  /\ LET t == sched.task
     IN /\ ReleaseTaskIps(t)
        /\ lazy_delete_list' = lazy_delete_list \cup {t}
        /\ IF CanBill(t)
           THEN /\ job_view' = [job_view EXCEPT ![t] = "stopped"]
                /\ sched' = [sched EXCEPT !.pc = "sorting", !.task = 0]
           ELSE sched' = Dead /\ UNCHANGED job_view
  /\ UNCHANGED <<task_queue, lazy_append_list, lazy_stop_list, task_status, subtask,
                 report_vars, worker_vars, env_vars, billed, fault_vars>>

\* What is left of the queue, and what joins it. Mutants: deletions forgotten; a
\* stop that comes before the task is queued forgotten.
Kept_mutant == task_queue
Kept == task_queue \ lazy_delete_list
Joining_mutant == lazy_append_list
Joining == lazy_append_list \ lazy_stop_list

\* The rest of sort_out_task_queue, once every task to stop is stopped.
SortEnd ==
  /\ sched.pc = "sorting" /\ sched.todo = {}
  /\ LET queued == Kept \cup Joining
         cancelled == lazy_append_list \ Joining
     IN /\ task_queue' = queued
        /\ job_view' = [t \in Task |-> IF t \in cancelled THEN "stopped" ELSE job_view[t]]
        /\ sched' = [AtSort EXCEPT !.pc = "scan", !.todo = queued]
  /\ lazy_delete_list' = {} /\ lazy_append_list' = {} /\ lazy_stop_list' = {}
  /\ UNCHANGED <<task_status, subtask, nets_vars, report_vars, worker_vars, env_vars,
                 billed, fault_vars>>

-----------------------------------------------------------------------------
(* The scheduler thread: task_scheduler.                                   *)

\* The condition check_task_completed tests.
Completed(t) ==
  \/ task_status[t] = "FAILED"
  \/ \A v \in Vnode : HasCommand(t, v) =>
       subtask[t][v].status \notin {"RUNNING", "WAITING"}

Waiting(t) == {v \in Vnode : subtask[t][v].status = "WAITING"}

\* The task examined is skipped; its GPU may be waited for by a task before it.
Passed(t) ==
  \/ t \in lazy_delete_list \cup lazy_stop_list
  \/ ~Completed(t) /\ Waiting(t) = {}
  \/ ~Completed(t) /\ t \in GpuTask /\ sched.gpu_pending

Schedulable(t) ==
  /\ t \notin lazy_delete_list \cup lazy_stop_list
  /\ ~Completed(t)
  /\ Waiting(t) # {}
  /\ ~(t \in GpuTask /\ sched.gpu_pending)

Examined == First(sched.todo)

ScanSkip ==
  /\ sched.pc = "scan" /\ sched.todo # {}
  /\ Passed(Examined)
  /\ sched' = [sched EXCEPT !.todo = @ \ {Examined}]
  /\ UNCHANGED <<queue_vars, task_status, subtask, nets_vars, report_vars, worker_vars,
                 env_vars, job_view, billed, fault_vars>>

\* check_task_completed finds the task done and starts to clear it.
ScanCompleted ==
  /\ sched.pc = "scan" /\ sched.todo # {}
  /\ Examined \notin lazy_delete_list \cup lazy_stop_list
  /\ Completed(Examined)
  /\ sched' = [sched EXCEPT !.pc = "finishing", !.task = Examined,
                            !.todo = @ \ {Examined}, !.left = Vnode]
  /\ UNCHANGED <<queue_vars, task_status, subtask, nets_vars, report_vars, worker_vars,
                 env_vars, job_view, billed, fault_vars>>

\* The end of check_task_completed: net, lazy deletion, billing, report.
FinishTask ==
  /\ sched.pc = "finishing" /\ sched.left = {}
  /\ LET t == sched.task
     IN /\ ReleaseTaskIps(t)
        /\ lazy_delete_list' = lazy_delete_list \cup {t}
        /\ IF CanBill(t)
           THEN /\ job_view' = [job_view EXCEPT ![t] =
                     IF task_status[t] = "FAILED" THEN "failed" ELSE "finished"]
                /\ billed' = [billed EXCEPT ![t] = @ + 1]
                /\ sched' = [sched EXCEPT !.pc = "scan", !.task = 0]
           ELSE sched' = Dead /\ UNCHANGED <<job_view, billed>>
  /\ UNCHANGED <<task_queue, lazy_append_list, lazy_stop_list, task_status, subtask,
                 report_vars, worker_vars, env_vars, fault_vars>>

\* find_proper_workers finds a worker for each subtask to place: for all of an
\* at_same_time task (those with a vnode keep their worker), for one otherwise.
ScanPlace ==
  /\ sched.pc = "scan" /\ sched.todo # {}
  /\ Schedulable(Examined)
  /\ \A w \in Worker : nodes[w] # "new"
  /\ \E list \in IF Examined \in AtSameTime THEN {Vnode}
                 ELSE {{v} : v \in Waiting(Examined)} :
     \E place \in [list -> {w \in Worker : nodes[w] = "on"}
                             \cup {subtask[Examined][v].worker : v \in Vnode}] :
       /\ \A v \in list :
            LET s == subtask[Examined][v]
            IN IF s.vnode_started THEN place[v] = s.worker
               ELSE place[v] \in Worker /\ nodes[place[v]] = "on"
       /\ \E w \in Worker : nodes[w] = "on"
       /\ subtask' = [subtask EXCEPT ![Examined] =
            [v \in Vnode |-> IF v \in list THEN [@[v] EXCEPT !.worker = place[v]]
                             ELSE @[v]]]
       /\ sched' = [AtSort EXCEPT !.pc = "running", !.task = Examined, !.list = list]
  /\ UNCHANGED <<queue_vars, task_status, nets_vars, report_vars, worker_vars,
                 env_vars, job_view, billed, fault_vars>>

\* No proper workers: the pass ends there, unless the task waits for its kind of
\* GPU, which lets the tasks after it be looked at.
ScanNoPlace ==
  /\ sched.pc = "scan" /\ sched.todo # {}
  /\ Schedulable(Examined)
  /\ \A w \in Worker : nodes[w] # "new"
  /\ \E w \in Worker : nodes[w] = "on"
  /\ sched' = IF Examined \in GpuTask
              THEN [sched EXCEPT !.todo = @ \ {Examined}, !.gpu_pending = TRUE]
              ELSE AtSort
  /\ UNCHANGED <<queue_vars, task_status, subtask, nets_vars, report_vars, worker_vars,
                 env_vars, job_view, billed, fault_vars>>

\* Without workers find_proper_workers returns None, whose length is asked for;
\* a worker the monitor has no data of yet is a missing key. Both end the thread.
ScanRaises ==
  /\ sched.pc = "scan" /\ sched.todo # {}
  /\ Schedulable(Examined)
  /\ \/ \A w \in Worker : nodes[w] = "off"
     \/ \E w \in Worker : nodes[w] = "new"
  /\ sched' = Dead
  /\ UNCHANGED <<queue_vars, task_status, subtask, nets_vars, report_vars, worker_vars,
                 env_vars, job_view, billed, fault_vars>>

ScanEnd ==
  /\ sched.pc = "scan" /\ sched.todo = {}
  /\ sched' = AtSort
  /\ UNCHANGED <<queue_vars, task_status, subtask, nets_vars, report_vars, worker_vars,
                 env_vars, job_view, billed, fault_vars>>

-----------------------------------------------------------------------------
(* The scheduler thread: task_processor.                                   *)

\* The task is marked running, whatever became of it since it was examined, and
\* gets its net; an empty pool raises an exception.
ProcessTask ==
  /\ sched.pc = "running"
  /\ LET t == sched.task
     IN /\ task_status' = [task_status EXCEPT ![t] = "RUNNING"]
        /\ job_view' = [job_view EXCEPT ![t] = "running"]
        /\ IF task_base_ip[t] = NoNet /\ free_nets = <<>>
           THEN sched' = Dead /\ UNCHANGED nets_vars
           ELSE /\ AcquireTaskIps(t)
                /\ sched' = [sched EXCEPT !.pc = "vnodes", !.left = sched.list]
  /\ UNCHANGED <<queue_vars, subtask, report_vars, worker_vars, env_vars, billed, fault_vars>>

\* waiting_for_retry after a failed RPC of the scheduler, and its report.
Retry(t, s) ==
  LET new == waiting_for_retry(s)
  IN /\ task_status' = RootStatus(t, new)
     /\ job_view' = IF new.status = "WAITING"
                    THEN [job_view EXCEPT ![t] = "retrying"] ELSE job_view

\* start_vnode for the next subtask of the list that has no vnode
StartVnode ==
  /\ sched.pc = "vnodes" /\ sched.left # {}
  /\ LET t == sched.task
         v == First(sched.left)
         s == subtask[t][v]
         rest == [sched EXCEPT !.left = @ \ {v}]
     IN \/ /\ s.vnode_started
           /\ sched' = rest
           /\ UNCHANGED <<subtask, containers, task_status, job_view, fault_vars>>
        \/ /\ ~s.vnode_started
           /\ \E r \in RpcOutcome :
                /\ Spend(<<r>>)
                /\ containers' = IF Served(r) THEN containers \cup {<<s.worker, t, v>>}
                                 ELSE containers
                /\ IF r = "ok"
                   THEN /\ subtask' = [subtask EXCEPT ![t][v].vnode_started = TRUE]
                        /\ sched' = rest
                        /\ UNCHANGED <<task_status, job_view>>
                   ELSE /\ subtask' = [subtask EXCEPT ![t][v] =
                             [waiting_for_retry(s) EXCEPT !.worker = NoWorker]]
                        /\ sched' = [rest EXCEPT !.ok = FALSE]
                        /\ Retry(t, s)
  /\ UNCHANGED <<queue_vars, nets_vars, report_vars, taskmsgs, execs, env_vars, billed>>

VnodesDone ==
  /\ sched.pc = "vnodes" /\ sched.left = {}
  /\ sched' = IF sched.ok THEN [sched EXCEPT !.pc = "commands", !.left = sched.list]
              ELSE AtSort
  /\ UNCHANGED <<queue_vars, task_status, subtask, nets_vars, report_vars, worker_vars,
                 env_vars, job_view, billed, fault_vars>>

\* start_subtask for the next subtask of the list: a new token, and the RPC. A
\* worker asked to run a command in a container it does not have accepts, and
\* never reports on it.
StartCommand ==
  /\ sched.pc = "commands" /\ sched.left # {}
  /\ LET t == sched.task
         v == First(sched.left)
         s == subtask[t][v]
         new == [s EXCEPT !.token = @ + 1]
         rest == [sched EXCEPT !.left = @ \ {v}]
         exec == [worker |-> s.worker, task |-> t, vnode |-> v, token |-> new.token,
                  killed |-> FALSE]
     IN \/ /\ ~HasCommand(t, v) \/ s.status = "RUNNING"
           /\ subtask' = [subtask EXCEPT ![t][v].status = "RUNNING"]
           /\ sched' = rest
           /\ UNCHANGED <<execs, task_status, job_view, fault_vars>>
        \/ /\ HasCommand(t, v) /\ s.status # "RUNNING"
           /\ \E r \in RpcOutcome :
                /\ Spend(<<r>>)
                /\ execs' = IF Served(r) /\ <<s.worker, t, v>> \in containers
                            THEN execs \cup {exec} ELSE execs
                /\ IF r = "ok"
                   THEN /\ subtask' = [subtask EXCEPT ![t][v] = new]
                        /\ sched' = [sched EXCEPT !.pc = "accepted"]
                        /\ UNCHANGED <<task_status, job_view>>
                   ELSE /\ subtask' = [subtask EXCEPT ![t][v] = waiting_for_retry(new)]
                        /\ sched' = rest
                        /\ Retry(t, new)
  /\ UNCHANGED <<queue_vars, nets_vars, report_vars, taskmsgs, containers, env_vars,
                 billed>>

\* What the scheduler writes once start_task was accepted.
CommandAccepted ==
  /\ sched.pc = "accepted"
  /\ LET v == First(sched.left)
     IN /\ subtask' = [subtask EXCEPT ![sched.task][v] =
             [@ EXCEPT !.task_started = TRUE, !.status = "RUNNING"]]
        /\ sched' = [sched EXCEPT !.pc = "commands", !.left = @ \ {v}]
  /\ UNCHANGED <<queue_vars, task_status, nets_vars, report_vars, worker_vars, env_vars,
                 job_view, billed, fault_vars>>

CommandsDone ==
  /\ sched.pc = "commands" /\ sched.left = {}
  /\ sched' = AtSort
  /\ UNCHANGED <<queue_vars, task_status, subtask, nets_vars, report_vars, worker_vars,
                 env_vars, job_view, billed, fault_vars>>

-----------------------------------------------------------------------------
(* The report threads: one call of TaskReporter.report per worker at a     *)
(* time, since report_msg waits for its answer.                            *)

\* report_msg: all the messages are sent and forgotten ...
ReportMsg(w) ==
  /\ taskmsgs[w] # {} /\ batch[w] = {} /\ handler[w] = NoHandler
  /\ batch' = [batch EXCEPT ![w] = taskmsgs[w]]
  /\ taskmsgs' = [taskmsgs EXCEPT ![w] = {}]
  /\ UNCHANGED <<queue_vars, task_status, subtask, nets_vars, sched, handler, containers,
                 execs, env_vars, job_view, billed, fault_vars>>

\* ... also when the RPC fails.
ReportLost(w) ==
  /\ taskmsgs[w] # {} /\ batch[w] = {} /\ handler[w] = NoHandler
  /\ Spend(<<"refused">>)
  /\ taskmsgs' = [taskmsgs EXCEPT ![w] = {}]
  /\ UNCHANGED <<queue_vars, task_status, subtask, nets_vars, sched, report_vars,
                 containers, execs, env_vars, job_view, billed>>

\* What on_task_report writes before it clears the subtask. Mutant: the retry comes
\* first.
Heard_mutant(s, m) ==
  LET idle == [s EXCEPT !.task_started = FALSE]
  IN IF m.status = "FAILED" THEN waiting_for_retry(idle)
     ELSE [idle EXCEPT !.status = m.status]
Heard(s, m) ==
  [s EXCEPT !.task_started = FALSE,
            !.status = IF m.status = "COMPLETED" THEN m.status ELSE @]

\* on_task_report up to its branches. get_task needs task_queue_lock.
OnTaskReport(w) ==
  /\ handler[w] = NoHandler
  /\ ~SortHoldsLocks
  /\ \E m \in batch[w] :
       LET s == subtask[m.task][m.vnode]
       IN /\ batch' = [batch EXCEPT ![w] = @ \ {m}]
          /\ IF m.task \in task_queue /\ s.token = m.token
             THEN /\ subtask' = [subtask EXCEPT ![m.task][m.vnode] = Heard(s, m)]
                  /\ handler' = [handler EXCEPT ![w] =
                       [pc |-> "clear", msg |-> m, found |-> s.status]]
             ELSE UNCHANGED <<subtask, handler>>
  /\ UNCHANGED <<queue_vars, task_status, nets_vars, sched, worker_vars, env_vars,
                 job_view, billed, fault_vars>>

HandlerClear(w) ==
  /\ handler[w].pc = "clear"
  /\ LET m == handler[w].msg
     IN /\ ClearSubTask(m.task, m.vnode)
        /\ handler' = [handler EXCEPT ![w] = IF m.status = "COMPLETED" THEN NoHandler
                                             ELSE [@ EXCEPT !.pc = "verdict"]]
  /\ UNCHANGED <<queue_vars, task_status, nets_vars, sched, batch, taskmsgs, env_vars,
                 job_view, billed>>

\* A failed execution is retried or fails its task; an output error fails it at once.
HandlerVerdict(w) ==
  /\ handler[w].pc = "verdict"
  /\ LET m == handler[w].msg
         s == subtask[m.task][m.vnode]
         new == IF m.status = "FAILED" THEN waiting_for_retry(s)
                ELSE [s EXCEPT !.status = "FAILED"]
     IN /\ subtask' = [subtask EXCEPT ![m.task][m.vnode] = new]
        /\ task_status' = RootStatus(m.task, new)
        /\ handler' = [handler EXCEPT ![w] = IF new.status = "WAITING"
                                             THEN [@ EXCEPT !.pc = "tell"] ELSE NoHandler]
  /\ UNCHANGED <<queue_vars, nets_vars, sched, batch, worker_vars, env_vars, job_view,
                 billed, fault_vars>>

HandlerTell(w) ==
  /\ handler[w].pc = "tell"
  /\ job_view' = [job_view EXCEPT ![handler[w].msg.task] = "retrying"]
  /\ handler' = [handler EXCEPT ![w] = NoHandler]
  /\ UNCHANGED <<queue_vars, task_status, subtask, nets_vars, sched, batch, worker_vars,
                 env_vars, billed, fault_vars>>

-----------------------------------------------------------------------------
(* The worker: execute_task, and its restart.                              *)

\* A command ends by itself in any way; a killed one fails, or its output cannot
\* be moved.
CommandEnds(e) ==
  /\ e \in execs
  /\ \E st \in IF e.killed THEN {"FAILED", "OUTPUTERROR"}
               ELSE {"COMPLETED", "FAILED", "OUTPUTERROR"} :
       taskmsgs' = [taskmsgs EXCEPT ![e.worker] = @ \cup
         {[task |-> e.task, vnode |-> e.vnode, token |-> e.token, status |-> st]}]
  /\ execs' = execs \ {e}
  /\ UNCHANGED <<queue_vars, task_status, subtask, nets_vars, sched, report_vars,
                 containers, env_vars, job_view, billed, fault_vars>>

\* rm_all_batch_containers at start; the messages not reported were in memory.
WorkerRestart(w) ==
  /\ Spend(<<"refused">>)
  /\ containers' = {c \in containers : c[1] # w}
  /\ execs' = {e \in execs : e.worker # w}
  /\ taskmsgs' = [taskmsgs EXCEPT ![w] = {}]
  /\ UNCHANGED <<queue_vars, task_status, subtask, nets_vars, sched, report_vars,
                 env_vars, job_view, billed>>

\* A batch worker leaves; or joins, known to nodemgr before the monitor.
NodeChange(w) ==
  /\ \E to \in {"on", "new", "off"} :
       /\ <<nodes[w], to>> \in {<<"on", "off">>, <<"off", "new">>, <<"new", "on">>}
       /\ nodes' = [nodes EXCEPT ![w] = to]
       /\ flaps' = IF to = "off" THEN flaps + 1 ELSE flaps
       /\ flaps' <= MaxFlap
  /\ UNCHANGED <<queue_vars, task_status, subtask, nets_vars, sched, report_vars,
                 worker_vars, job_view, billed, fault_vars>>

-----------------------------------------------------------------------------
Scheduler ==
  \/ SortBegin \/ SortStopNext \/ SchedulerClear \/ StopTask \/ SortEnd
  \/ ScanSkip \/ ScanCompleted \/ FinishTask
  \/ ScanPlace \/ ScanNoPlace \/ ScanRaises \/ ScanEnd
  \/ ProcessTask \/ StartVnode \/ VnodesDone
  \/ StartCommand \/ CommandAccepted \/ CommandsDone

Reporting(w) ==
  \/ ReportMsg(w) \/ OnTaskReport(w)
  \/ HandlerClear(w) \/ HandlerVerdict(w) \/ HandlerTell(w)

Next ==
  \/ \E t \in Task : AddTask(t) \/ LazyStopTask(t)
  \/ Scheduler
  \/ \E w \in Worker : Reporting(w)
  \/ \E w \in Worker : ReportLost(w) \/ WorkerRestart(w) \/ NodeChange(w)
  \/ \E e \in execs : CommandEnds(e)

Spec == Init /\ [][Next]_vars

\* The threads keep running and an RPC returns: with an answer or an error.
FairSpec == Spec /\ WF_vars(Scheduler)

-----------------------------------------------------------------------------
(* Properties.                                                             *)

TypeOK ==
  /\ task_queue \subseteq Task /\ lazy_append_list \subseteq Task
  /\ lazy_delete_list \subseteq Task /\ lazy_stop_list \subseteq Task
  /\ task_status \in [Task -> {"WAITING", "RUNNING", "FAILED"}]
  /\ subtask \in [Task -> [Vnode -> SubTask]]
  /\ task_base_ip \in [Task -> Net \cup {NoNet}]
  /\ free_nets \in Seq(Net)
  /\ sched \in Schedule
  /\ handler \in [Worker -> Handler]
  /\ batch \in [Worker -> SUBSET TaskMsg]
  /\ taskmsgs \in [Worker -> SUBSET TaskMsg]
  /\ containers \subseteq Worker \X Task \X Vnode
  /\ execs \subseteq [worker: Worker, task: Task, vnode: Vnode, token: Nat,
                      killed: BOOLEAN]
  /\ nodes \in [Worker -> {"on", "new", "off"}]
  /\ job_view \in [Task -> {"none", "scheduling", "running", "retrying",
                            "finished", "failed", "stopped"}]
  /\ billed \in [Task -> Nat]
  /\ faults \in Nat /\ flaps \in Nat /\ answer_lost \in BOOLEAN

\* The scheduler is done with t: it was refused, or dropped before it was queued,
\* or finished, failed or stopped.
Retired(t) ==
  /\ job_view[t] # "none"
  /\ t \notin lazy_append_list
  /\ t \in task_queue => t \in lazy_delete_list

\* acquire_task_ips and release_task_ips never hand one net to two tasks, never
\* lose one and never put one back twice, although a task that is done stays in
\* task_queue and can be stopped and released again.
NetsExclusive ==
  /\ \A i, j \in DOMAIN free_nets : free_nets[i] = free_nets[j] => i = j
  /\ \A t \in Task : task_base_ip[t] # NoNet =>
       /\ \A i \in DOMAIN free_nets : free_nets[i] # task_base_ip[t]
       /\ \A u \in Task \ {t} : task_base_ip[u] # task_base_ip[t]
  /\ \A t \in Task : Retired(t) => task_base_ip[t] = NoNet

\* check_task_completed reports a task to be charged at most once, although the
\* task stays in task_queue until the next sort_out_task_queue.
BilledOnce == \A t \in Task : billed[t] <= 1

\* Each execution of a subtask of a task that is not at_same_time gets one verdict.
\* Between the token check of on_task_report and its verdict the subtask is not
\* started again, if the answers to start_task arrive, so that the verdict is on the
\* execution it was sent for; and no interleaving of the scheduler with the reports
\* adds an attempt to the max_retry_count + 1.
FreshVerdict ==
  /\ ~answer_lost =>
       \A w \in Worker :
         /\ handler[w].pc \in {"clear", "verdict"}
         /\ handler[w].msg.task \notin AtSameTime
         => LET m == handler[w].msg IN subtask[m.task][m.vnode].token = m.token
  /\ \A t \in Task \ AtSameTime, v \in Vnode : subtask[t][v].token <= MaxRetry + 1

\* When no RPC failed, every vnode on a worker is known to its subtask, and a task
\* that is done with has no vnode left, whatever the report threads were doing.
NoOrphanVnode ==
  faults = 0 =>
    \A c \in containers :
      /\ ~Retired(c[2])
      /\ subtask[c[2]][c[3]].vnode_started
      /\ subtask[c[2]][c[3]].worker = c[1]

\* A task that is done with stays so: it gets no net, no vnode and no
\* token any more.
RetiredStaysDown ==
  [][\A t \in Task : Retired(t) =>
       /\ Retired(t)'
       /\ \A v \in Vnode : subtask'[t][v].token = subtask[t][v].token
       /\ task_base_ip'[t] = NoNet
       /\ \A c \in containers' \ containers : c[2] # t]_vars

\* A stop request takes effect on a task that add_task has been called for before
\* sort_out_task_queue looks at the request, in whatever state the task is, even
\* when its workers do not answer, unless the scheduler thread dies. A request for
\* a task that is added only later is forgotten by the sort in between.
StopTakesEffect ==
  \A t \in Task :
    t \in lazy_stop_list /\ job_view[t] # "none" ~> Retired(t) \/ sched.pc = "dead"

=============================================================================
