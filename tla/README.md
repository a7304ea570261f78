# A verification development of Docklet

Docklet gives every user a private cloud of lxc containers on a pool of machines.
One *master* keeps the state of all clusters and of the batch jobs, *workers* run
the containers, a *user service* keeps accounts, quotas and beans (the currency
users pay with), etcd and SQLite databases hold what must survive a restart.
The modules in this directory model the parts of it with protocols worth checking.
Paths such as `master/taskmgr.py` are below `src/src/`.

## 1. Inventory

| Component | State | Operations | Talks to |
|---|---|---|---|
| `TaskMgr` (`master/taskmgr.py`) | task queue, three lazy lists, the tasks with their subtasks, pool of nets, usage counters | `add_task`, `lazy_stop_task`, `on_task_report`, one scheduler thread | workers (gRPC), `JobMgr.report`, `NodeMgr`, monitor data |
| `TaskWorker` (`worker/taskworker.py`) | containers, commands in execution, messages to report | `start_vnode`, `stop_vnode`, `start_task`, `stop_task`, report loop | master (gRPC) |
| `JobMgr`, `BatchJob` (`master/jobmgr.py`) | `job_map`; per job the tasks' statuses, open dependencies and counters; rows in the database | `add_job`, `stop_job`, `report`, `recover_jobs` | `TaskMgr`, database, user service (charges) |
| `NetworkMgr` (`master/network.py`) | center pool of address blocks, system pool, a pool per user, gateways; all in etcd | `add_user`, `del_user`, acquire and release addresses, gateways | etcd, workers |
| `VclusterMgr` (`master/vclustermgr.py`) | cluster rows and containers in the database | create, scale out, scale in, start, stop, delete, port mappings, migrate, recover | `NetworkMgr`, workers, `PortControl` |
| `PortControl` (`utils/nettools.py`) | free host ports, mappings | acquire, release | iptables |
| `NodeMgr` (`master/nodemgr.py`) | run list, all nodes, batch nodes | polling thread, `recover_node` | etcd, workers |
| `LockMgr` (`master/lockmgr.py`) | named locks | acquire, release | used by the REST server and user service |
| REST server (`master/httprest.py`) | named locks | one thread per request | all of the above |
| User service (`master/userManager.py`, `user/user.py`) | users, groups, usage, beans | `usageInc`, `usageRecover`, `usageRelease`, `/billing/beans/` | database, `StopAllReqMgr` |
| `StopAllReqMgr` (`user/stopreqmgr.py`) | a queue of at most 100 users | `add_request`, one thread | masters |
| Monitor (`master/monitor.py`, `worker/monitor.py`) | figures per node and container, billing history | collect, bill | user service |
| Proxies, bridges, OSS mounts, clouds | none of their own | shell commands | - |
| `NotificationMgr` (`master/notificationmgr.py`) | notifications, their groups, a mark per user who is to read one | create, modify, delete, query | database, mail |
| `ApplicationMgr`, `ApprovalRobot` (`master/beansapplicationmgr.py`) | applications for beans | apply, agree, reject, a thread that agrees to those that waited for long | database, mail |
| Worker (`worker/worker.py`, `worker/container.py`) | containers and their volumes, keys in etcd | start in a mode, heartbeat, create, delete, recover | etcd, lxc, LVM |
| `ImageMgr` (`utils/imagemgr.py`) | rows of images, archives on the shared file system | save, share, remove, copy, list | database, shell commands |
| Web front end, metering prototype, tools | none | - | REST server |

Behaviours that are hard here: the scheduler thread makes RPCs between reading and
writing a task while gRPC threads and HTTP threads work on the same objects; reports
are lost, late, or about a previous execution; reports to `JobMgr` are nested in
`add_task`, which a report may have called; most exceptions in the scheduler thread end
it; the master and the workers restart; nearly all requests change etcd or the
database with a read, a change and a write under partial locking.

What makes each part correct: a verdict is about the execution it was sent for, no
container or net is left behind, a task that is over stays over and is billed once, a
stop takes effect (`TaskMgr`); the marks of the GPUs are true and the end of a command
is told (`TaskWorker`); the counters agree with the tasks, tasks are handed over once and
in order, a job that is over is quiet and forgotten, every job ends (`JobMgr`); a block or
address has at most one owner and none is lost (`NetworkMgr`); what the rows, the
address pool, the usage and the workers say of a cluster agrees, also after a
failure (`VclusterMgr`); a host port has one owner and leads to it (`PortControl`); what is
used is paid once, and who cannot pay is stopped (beans); a change overwrites nothing its
author has not seen, and every lock is given back (user service); no container loses
its data, and a node that rejoins is recovered (workers, images). `PROJECT.json` lists the
hazards by line.

## 2. Modules

| Module | Models |
|---|---|
| `TaskMgr`, `MCTaskMgr` (3 configurations) | the batch scheduler with the workers it talks to |
| `TaskWorker`, `MCTaskWorker` | the inside of one batch worker, called as `TaskMgr` does |
| `JobMgr`, `MCJobMgr` (2 configurations) | batch jobs, with `TaskMgr` as an abstract environment |
| `IntervalPool` | the center pool's blocks: operators only |
| `BlockSpace` | abstract: whole blocks are taken out of a set of free addresses and put back |
| `NetworkMgr`, `MCNetworkMgr` | blocks of users, pools of addresses, etcd, the recovery thread; composes `IntervalPool` and refines `BlockSpace` |
| `Vcluster`, `MCVcluster` | the clusters of a user: rows, addresses, usage, containers on workers |
| `PortMap`, `MCPortMap` | port mappings: tables in memory, iptables, rows |
| `Beans`, `MCBeans` | billing, grants, and stops of users without beans |
| `Users`, `MCUsers` | the user service's handlers and locks |
| `Images` | the images of a user |
| `Worker`, `MCWorker` | nodes, etcd keys, file systems of containers; composes `Images` |
| `TaskMgrProofs`, `TaskWorkerProofs`, `JobMgrProofs`, `VclusterProofs`, `PortMapProofs`, `BeansProofs`, `UsersProofs`, `WorkerProofs` | theorems about the module named, each of which extends it |

### TaskMgr

Threads: the scheduler (`sched`, with its program counter and locals), one report
handler per worker (`handler`; a worker makes one report RPC at a time, with a `batch` of
messages), HTTP threads whose calls `AddTask` and `LazyStopTask` are atomic because
they hold the locks. The scheduler goes through `sort_out_task_queue` (`SortBegin`,
`SortStopNext`, `StopTask`, `SortEnd`), the scan of the queue (`ScanSkip`,
`ScanCompleted`, `FinishTask`, `ScanPlace`, `ScanNoPlace`, `ScanRaises`, `ScanEnd`)
and `task_processor` (`ProcessTask`, `StartVnode`, `VnodesDone`, `StartCommand`,
`CommandAccepted`, `CommandsDone`). Each RPC is a step of its own and is served,
refused, or served with its answer lost. `StartCommand` and `CommandAccepted` are two
steps, since the worker may report before the master notes the answer. `Dead` is the
scheduler thread after an exception nothing catches.

Data: a subtask is its status, two flags, try counter, worker and token (a number for
the random string; what counts is that a new one differs from the former ones).
Resource figures are left out, so a placement may succeed or not whenever a worker is
known (`ScanPlace`, `ScanNoPlace`). Tasks are numbered by priority.

`LazyStopTask` may be called for any task at any time, also for one not added yet, since
`JobMgr.stop_job` asks for every task of its job; the next sort drops such a request.

Ghosts: `job_view` (the last status reported to `JobMgr`), `billed`, `faults`, `flaps`,
`answer_lost`.

### JobMgr

A call in progress (`call`) belongs to the thread of the scheduler, of a report handler
or of `add_job`; its `pc` says whether it is before the look into `job_map`, the update of
the job, the handing over of tasks, or the final check. `nested` marks the report that
`add_task` makes when it refuses a task. `TaskMgr` is abstracted to the place of each
task (`tm`), the lazy lists and the order in which `sort_out_task_queue` empties them;
its end of a task may bill or raise as in `TaskMgr`. `Crash` forgets everything but the
database (`job_db`, `task_db`); `RecoverJob` is one round of `recover_jobs`.

`Hang` makes a task one that will not finish: one of its subtasks stays RUNNING, because
the last report about it was dropped or came too early. It can still fail, be retried or be
stopped. An exception out of `add_task` cuts a job off from the tasks it was to hand over; in
`recover_jobs`, whose `try` is around the loop, it also cuts off the jobs that were to follow.

Ghosts: `handed`, `charged` (counts since the last restart), `revived` (tasks that were
over and that a late report made unfinished), `stuck` (tasks that hang), `cut` (jobs an
exception cut off), `used` (what the bounds count).

### NetworkMgr

An address is a number below `2^Width`, a block of level `l` is the code's `a/cidr` with
`l = 32 - cidr`. `IntervalPool` has allocation and freeing as the code does them: the loop
that looks for the first level with a free block is `CanServe` and `Least`, the one
that splits is `Allocate`, the one that merges is `Free`, whose `top` is the level the
loop ends at.

`NetworkMgr` has what is in memory (`center`, `users`, `user_locks`) and what is in etcd
(`etcd_center`, `etcd_users`). An operation is a request of a user: its steps end where the code
calls etcd or uses `self.users[username]`, so that others get in between. At most one request
of a user is in progress, because `httprest.py` takes a lock per user; the recovery thread
(`CheckUserGw`, `Recovers`) takes none. A missing entry of `self.users` is the exception
`KeyError`, after which the request is over; in the recovery thread nothing catches it
(`RecoveryDies`). `Crash` forgets everything but etcd and what containers hold.

The operations on a pool that differ only in the format of what they return are one
(`get_usergw` stands for `get_usergw_cidr` and `setup_usrgw`, too). Whether a request succeeds
is in the pools; `has_user` and `load_user` are one step, since only the user's own
requests remove the user.

Ghosts: `crossed` (users a request and a recovery of whom had the entry of `self.users`
at a time), `torn` (a restart inside `del_user`, between its two writes), `used`.

### Vcluster

`req` is the one request in progress: the handlers of `httprest.py` and `ReleaseMgr` take the
user's lock. Its `at` is where it is, `todo` the containers it has still to do, `rows` and
`ips` what it works on. `rec` is the recovery thread, which takes no lock. An operation enters
(`CreateEnter`, ...), calls the workers one by one (`Build`, `StartBox`, `StopBox`, `Drop`,
`MoveSave`, ...) and commits. A call goes wrong in the ways the code tells apart: no
proxy for the worker (a refusal), a dead worker still listed (an exception, after which
nothing is undone), an answer `False`, which the code looks at in some places (`create_container`)
and in others not (`stop_container`, `delete_container`, `recover_container`). A worker that
fails may have done its work, or part of it: `create_container` leaves the file system it has
made, `delete_container` raises after it has removed the container. `Crash` restarts the
master, which first recovers what is not stopped.

The pool of addresses is what `NetworkMgr` has in etcd. Each operation on it (`Pool`) loads it
into `self.users`, changes it, writes it and removes the entry, which the lock of the user
keeps apart from other requests, but not from `check_usergw` in the recovery thread
(`rec.at = "gateway"`). When the two meet the change may be lost, or one of them finds the entry
gone, a `KeyError`. `NetworkMgr` has these steps one by one; here they are one step with these
outcomes. The recovery thread ends with an exception nothing catches (`RecoverDies`): what
`post_to_user` answers is used without a look, and `check_usergw` raises.

A failure half-way often leaves things behind; that is what the code does. `mishap`
collects by name the causes that occurred, and each property says with `Unless` which of
them it does not hold under. So `AddressKept` lists exactly the ways in which addresses
leak, and a new one would be a violation. The same device is used in the modules below.

### PortMap

The tables and `ports_lock` as one step per critical section, each call of iptables as a step
outside it that may fail. `proc` has one operation per user and the recovery thread.
`rules` counts how often a rule is present: iptables has duplicates after a recovery.

### Beans

A sender of bills (`collector`, `delete` or `net`, per user) resets its counter, sends, and
waits for the handler, which takes the lock of the user's beans, debits, may send a mail,
commits and may wait for a place in the queue of stop requests. `robot` and `admin` grant
beans; `agree` holds the lock, the robot does not. A deletion (of the user's running container
or of another one, `DeleteOther`) is a handler of the master that holds the user's lock until
its bill is answered; `stopall_cluster`, which the stop thread calls, waits for that lock, and
so does every start and stop of the user. `due` is a ghost: what was used and is not debited.

### Users

A thread `h[t]` is a handler: its operation, user and group, where it is, and its `copy` of
what it read. A file is empty between its opening for writing and the write (`torn`): who
reads it then gets an exception, and leaves its lock held, as there is no `finally`. So do a
value that is missing or not a number (`int()` in `usageInc` and its kin) and a commit that
fails (`CommitFails`). Where a handler commits twice, the first commit stays. `modify` writes
the status and the group of its form, of whatever value, where they differ from the row it has
read, as the database layer does. `member` and `approved` are ghosts.

### Images and Worker

`Images` has the rows and files of a user's images. `Worker` extends it with the nodes:
`pc` is a worker's way through its start, `key` and `ttl` its key in etcd, `seen` a listing
the master has read and not yet applied. An operation (`op`, `job`) creates, saves, migrates or
deletes a container. A deletion removes the volume and then bills the container, where it may
raise; the worker may die in it, before or after the volume is gone. `Die`, `Killed` and
`HostRestarts` are the environment.

### TaskWorker

`call[c]` is what handler `c`, a thread of the gRPC server, does: for which vnode, at which
step, and whether the master still waits for it. `thread` are the commands in execution,
`taskmsgs` the ends to report. `phase`, `vnode_started` and `try` are what the master knows: it
calls for a vnode as `TaskMgr` does, one call at a time. A handler goes on when the connection
breaks (`LoseAnswer`) or the master is restarted, which then starts the same vnodes again at
once (`MasterRestart`), so several handlers may be at work for one vnode. `StartTask` may reach a
vnode that is being stopped or is gone: a task whose vnodes start together is sent to all of
them. A worker that starts removes the batch containers it finds, but not those of users with a
'-' in their names, nor those that `lxc-stop` fails for.

## 3. Runs

| Run | Bounds | Shows |
|---|---|---|
| `taskmgr_subtasks` | 1 task, 2 vnodes, 1 worker, 1 net, 1 retry, 1 fault | `FreshVerdict`, `NoOrphanVnode`, `RetiredStaysDown` |
| `taskmgr_two_tasks` | 2 tasks (one `at_same_time`, both with GPU), 1 vnode, 1 net, 1 leave of the worker | `NetsExclusive`, `BilledOnce` |
| `taskmgr_stop` | 1 `at_same_time` task, 2 vnodes, 1 fault, 1 leave, fairness | `StopTakesEffect` |
| `jobmgr` | 1 job of 3 tasks (the third needs both others), 1 stop, retry, exception and restart | `CountersMatch`, `HandedInOrder`, `OverIsQuiet`, `NoZombie`, `ChargedOnce` |
| `jobmgr_ends` | the same job, 1 retry, 1 exception, 1 task that hangs, 1 restart, fairness | `JobEnds` |
| `networkmgr` | 2 users, 16 addresses of which 4 are the system's, blocks of 4 and 8, 2 addresses held, 1 recovery, 1 restart | `BlocksDisjoint`, `AddressOnce`, `NothingLost`, `CenterIsSpace` |
| `vcluster` | 2 workers, 2 clusters of at most 2 containers, 3 addresses, quota 2, 5 events of which 2 faults, fairness | `AddressOnce`, `AddressKept`, `UsageMatches`, `NoStray`, `NoPhantom`, `StatusTells`, `AllSettles` |
| `portmap` | 2 containers, 2 ports each, 2 host ports, 4 operations, 2 faults | `PortOnce`, `PortKept`, `RuleLeadsToOwner`, `RowServed` |
| `beans` | 1 user, 3 senders, beans -1 to 2, 1 application, a queue of 1, 2 events, fairness | `PaidOnce`, `FreshBeans`, `GrantedOnce`, `OutOfBeansStops` |
| `users` | 2 handlers, 2 users, 2 groups, 2 limits, 1 allowed failure, 3 requests or restarts | `LocksFree`, `FreshCopies`, `AccountKept`, `PairOnce` |
| `worker` | 2 nodes, 1 container, 1 image and that of a migration, 5 events (a fault counts 2) | `ImageTold`, `RejoinSeen`, `DataKept` |
| `taskworker` | 2 vnodes, 2 GPUs (one vnode needs both), 2 handlers, 2 commands of that vnode and 1 of the other, 1 fault, fairness | `GpuTable`, `EndTold` |

Why the bounds are enough for what they show: two subtasks are the least for which
one is over while another runs or is retried; one net and two tasks make them compete
for it; one fault at any of the points where one can happen, since a fault is handled
on its own; one retry separates a first from a last attempt; three tasks are the least
with a dependency on two. With 16 addresses of which 4 are never free, two users compete for
the block of 8, which is split and merged over two levels; a user's block of 8 has 5
addresses, of which 2 are given out at once or one by one. Two containers are the least for
an operation on a cluster to fail half-way, three addresses leave one over for a leak to
show, and a quota of 2 is reached. Two host ports and two containers make a port change
hands. Beans between -1 and 2 have the mark at 0 and one above it, a queue of one place is
full with one stop request: a deletion whose bill waits for a place and the stop of the same
user are then enough for a deadlock. Two handlers of the user service are the least that cross,
and in `UsersProofs` there are any number. Two GPUs of which one vnode needs both can be taken in
part. Two commands reuse the name of a container, and with two handlers a call of before a
restart of the master overlaps one of after it.

The bounds are the constants `MaxRetry`, `MaxFault`, `MaxFlap`, `MaxStop`, `MaxRaise`,
`MaxStuck`, `MaxCrash`, `MaxRecover`, `MaxHeld`, `MaxId`, `MaxCid`, `MaxEvent`, `MaxOp`, `MaxBytes`, `MaxTry`.
`MaxRetry` is `max_retry_count` in `TaskMgr`, `MaxQueue` the size of a queue in `Beans`, `Lockout`
the failed logins allowed in `Users`; the others only keep the state space finite. Deadlock is
not checked: all systems rest when the bounded requests and faults are used up, and a
polling loop is modelled by the steps that change something.

Each property has a mutant in its module, a definition that a plausible mistake would give
(`..._mutant`), with which the same run finds it violated.

Fairness. `TaskMgr` assumes weak fairness of the scheduler thread alone: it is a loop
that sleeps and goes on, and every gRPC call has an outcome. `JobMgr` assumes that each
thread that is in a call goes on (strong fairness for the threads that wait for
`add_lock`, which the scheduler takes and gives back in each round), and that a task the
scheduler looks at again and again is placed and ends some day, as commands have a
time limit and waiting tasks are scanned in every round; but only as long as no task hangs
(`stuck = {}`), for one that hangs never ends and keeps what others may wait for. `Vcluster`
assumes that a handler and the recovery thread, both threads of the master, go on while they
can; the recovery thread cannot once an exception has ended it, and `AllSettles` says so.
`Beans` assumes that an
hour of a running container passes, that the collector and the handlers go on, and that the
thread of the stop requests does; users, administrators and the robot need do nothing.
`TaskWorker` assumes that the threads of commands end (`MAX_RUNNING_TIME`) and the report loop
goes on. `PortMap`, `Users` and `Worker` state safety only.

## 4. What the code does that its authors may not expect

None of these is a property of a run; each is behaviour the models have, or that was met while
reading the code for them. Where a property has an exception, the cause is one of these.

Batch jobs:
- A report may come before the scheduler has noted that the command runs
  (`taskmgr.py:462`); the subtask then stays RUNNING, and its job does not end (`stuck`).
- `stop_job` asks the scheduler to stop every task of the job (`jobmgr.py:361-363`), the ones not
  handed over yet included. The next sort drops such a request (`taskmgr.py:276`), and a task
  that is added afterwards runs. `StopTakesEffect` promises a stop only for added tasks.
- Stopping a task that was queued and never placed raises in `get_billing` (`taskmgr.py:256`),
  which ends the scheduler thread (`Dead`).
- A stop that crosses the end of a job writes 'stopping' over 'done' (`jobmgr.py:364`); after a
  restart the job runs again.
- The `try` of `recover_jobs` is around its loop (`jobmgr.py:295`): an exception for one job
  leaves that one half handed over and the later ones untouched until the next restart (`cut`).
- A report nested in another one can delete the job first (`jobmgr.py:499`); the outer deletion
  is a `KeyError`.
- A job that is over can stay in `job_map`. A task that `add_job` hands over is refused, and the
  job fails; `stop_job` writes 'stopping' over 'failed' before `report` checks, which then keeps
  the job; the scheduler's report makes it fail again, but its call of `add_task` for the next
  task raises, so that its check is never made. The scheduler thread is then dead: `NoZombie`
  allows for that, and the proof showed the need.
- The worker drops its reports also when the call failed, and marks of GPUs stay when ssh
  does not start in a container. A failing mount of object storage is ignored.
- A master that restarts starts its jobs again at once, under the same names of containers,
  while the worker may still serve the calls of before: the two undo each other's work. One that
  restarts between `stop_task` and `stop_vnode` leaves marks of a stopped container.
- The tasks of an `at_same_time` task are sent a command also when their vnode is being stopped
  after its end (`taskmgr.py:455-462`, `544-545`), or was stopped and the answer lost
  (`taskmgr.py:324-327`). The script cannot be written then, and nobody is told
  (`taskworker.py:401-408`).
- A worker that starts leaves the batch containers of users with a '-' in their names, and those
  it cannot stop (`taskworker.py:99-105`), while it takes all its GPUs for free.

Network and clusters:
- `del_user` writes the center pool before it deletes the user (`network.py:535`): a restart in
  between leaves a block with a user and free. `BlocksDisjoint` has `~torn` for that.
- `check_usergw` uses the entry of `self.users` without the user's lock, in the recovery thread
  (`vclustermgr.py:737`, `network.py:557-568`). When it crosses a request, the change to the user's
  pool can be lost, or either of them gets a `KeyError`: `AddressOnce` (of both modules),
  `AddressKept` and `NothingLost` leave crossed users out.
- An exception in the recovery (the user service does not answer, `check_usergw` raises, a
  cluster was deleted meanwhile) ends its thread (`vclustermgr.py:78-83`): workers that come back
  later are not recovered until the master restarts.
- `create_container` that fails after the file system was made leaves it
  (`container.py:146-152`), on the worker and without a row.
- `delete_container` removes the file system and then bills (`container.py:158-159`), which may
  raise (`monitor.py:220`, `225`). The request ends there: the row stays, and its container is gone.
- What `stop_container` and `recover_container` answer is not looked at (`vclustermgr.py:776`,
  `746`): a cluster can be 'stopped' with a container that runs, or 'running' with one that does not.
- `create_cluster` that fails at its i-th container leaves the earlier ones, and gives back
  one address; with `CLUSTER_SIZE` above 1 the usage is charged once and released per container.
- Deleting a running cluster is refused, after its usage was released.
- `recover_cluster` answers True for a stopped cluster, which `recover_clusters` then marks as
  running. A cluster with port mappings is marked 'error' when its worker rejoins.
- A migration whose create call raises leaves the image it made. `flush_cluster` calls a
  method no worker has, and the handler of `migrate_cluster` passes too few arguments.
- The master's restart keeps the rules of iptables, and the recovery adds them again.
- `release_ulock` lets an administrator release a lock some handler holds.

Beans and user service:
- A mail that cannot be sent from `billing_beans` leaves the lock `__beans_<user>` held, and
  the user is billed no more. The thread of stop requests ends when a master does not answer.
- Three can wait for each other for good: the stop thread for the user's lock (`httprest.py:332`),
  a deletion that holds it (`httprest.py:279`) for the bill of its container, and that bill, with
  the lock of the beans, for a place in the queue the stop thread should empty
  (`user/user.py:520`). Nobody is stopped then. `OutOfBeansStops` names it (`Jammed`).
- A container that is deleted while it is billed is billed by two threads from one counter.
  A restarted master forgets what traffic it has billed. The robot writes beans without the
  lock.
- No handler of `user.py` has a `finally`: an exception in one leaves its lock held. A quota or a
  value of a form that is missing or not a number makes `int()` raise in `usageInc`, `usageRecover`
  and `usageRelease` (`userManager.py:595-608`, `631-633`, `658-660`). A file of groups that is being
  written can be read empty by a handler without the lock.
- `register` commits twice (`userManager.py:905-910`): if the second commit fails, the row is gone.
  `create_notification` leaves a notification without groups or marks in the same way.
- `modify` writes whatever status the form has (`userManager.py:852`): an approved user can become
  'init' again, and then be replaced by a registration.
- A notification without a mark of the user makes a query raise; two queries at a time
  make two marks. The branch of `auth_pam` for new users is not reached by way of `auth`.

Workers and images:
- `createImage` and `prepareImage` log the errors of tar and report success: a migration then
  deletes the old volume.
- A worker that is back before the master has missed it is not recovered, nor is one whose
  key lapsed while the master was restarted. The 'ok' the master writes has no time to live:
  a worker that dies before its first heartbeat stays listed. Batch workers always
  start anew. `check_allcontainers` answers with the state of the last container only.
- The limit on images counts directories, and images are files: it is never reached
  (`userManager.py:185`); `image_check` compares names without `.tz`.
- A shared image that was removed and is saved again stays marked as not private.

## 5. Proofs

`TaskMgrProofs` proves, for every finite set of tasks and any number of vnodes, workers, nets,
retries, faults and leaves, under the named assumptions of `TaskMgr` and nothing else:

- `TypeSafe`: `Spec => []TypeOK` (no run repeats it), by way of `TypeCorrect`. `TypeInv` adds to `TypeOK` what
  the program counter says about the locals (`Located`): which task the scheduler is at
  and that the vnodes it still has to serve belong to it, without which the next record
  updates have no type.
- `NetsSafe`, `BilledSafe`, `DownSafe`: `NetsExclusive`, `BilledOnce` and
  `RetiredStaysDown`, by way of `QueueCorrect`. These are not inductive alone: a net could be
  released twice if a task were stopped twice, or billed twice if it were finished
  twice. `QueueInv` says where a task can be (not yet seen, waiting to join, in the queue,
  in the queue and to be deleted), that only one in the queue holds a net or was started,
  that the scheduler's task is of the kind its position needs, and that nets free and
  held are a partition.

- `VnodesSafe` (`NoOrphanVnode`), by way of `VnodesCorrect`. While no RPC has failed, each
  vnode on a worker belongs to a subtask that knows it, of a task in the queue (`Known`); a task
  leaves the queue only when the scheduler has cleared its subtasks one by one (`Cleared`).
- `VerdictsSafe` (`FreshVerdict`), by way of `FreshCorrect`. An execution of a subtask is under
  way as a command on a worker, a message not sent, one not looked at, or a report at a handler
  (`Signals`). It is under way once, and each was given its token by the subtask (`Once`); the
  tokens given out are bounded by the attempts that ended in a retry (`Attempts`); and as long as
  the last one is under way the subtask is not about to be started again (`Settled`), unless an
  answer to `start_task` was lost. So the token a handler has checked is still the subtask's when
  it gives the verdict, although it does not hold the scheduler's lock in between.

The proofs go action by action; actions that leave the queues and nets alone are treated
together (`CalmKeeps`), and all that happens to executions is that they go from one place to
the next, end, or begin (`Descends`).

The other modules prove every invariant their component's run checks, each for every value
of the constants that the component's own assumptions allow (`TaskWorkerAssumption`,
`SetAssumption`, `DepAssumption` and `BoundAssumption`, `VclusterAssumption`, `PortAssumption`,
`BeansAssumption`, `UsersAssumption`, and for `Worker` `WorkerAssumption` with
`ImagesAssumption`: finitely many nodes, none of them called "none"), and nothing else. No property is inductive as it stands. The inductive
invariants were checked by TLC on the run's instance, or a smaller one, before they were proved.

`TaskWorkerProofs`, for any vnodes, GPUs, tries and faults: `TableSafe` (`GpuTable`). A
container loses its devices when it stops, and its marks at the end of `stop_vnode`, or never.
The invariant adds that a call which starts a vnode is the only one for it (`Alone`), where in a
call its container runs (`Reached`, `Running`) and where it has no mark, so that a call may end
without a release (`Unmarked`). `Alone` fails once calls overlap after a restart of the master,
and with it the rest: `again` is the cause the theorem names. Only the master's knowledge
(`vnode_started`) and the handlers it waits for keep calls apart, so the proof is about any number of
handlers, most of which nobody waits for.

`JobMgrProofs`, for any jobs, any number of tasks with any dependencies, any stops, retries,
exceptions and restarts: `CountersRight` (`CountersMatch`), `TasksInOrder` (`HandedInOrder`),
`QuietWhenOver` (`OverIsQuiet`), `JobsLeave` (`NoZombie`), `TasksChargedOnce` (`ChargedOnce`),
by way of `JobsCorrect`. The argument rests on two facts. A task is pending until the one thread
that will hand it over takes it (`Unhanded`), so no two threads release the same task. And an
ended status is reported, and stored, only when `TaskMgr` is done with the task (`Reported`,
`Ended`), so counters that match the statuses show a job as over only when nothing of it is left
to run (`Quieted`). `Zombies` says who will still make the check that deletes a job, `Charging`
whose report is to be charged. The counters are cardinalities; what a change of one status does
to them is `RecountCounted`. The steps of the environment (`TaskMgr` and the requests to stop)
look alike to `JobMgr`: they are shown to be of one form (`Outside`), which keeps each part.

`VclusterProofs`, for any workers, sizes of clusters, addresses, quota, requests and faults:
`AddressesSafe` (`AddressOnce`), `AddressesReturned` (`AddressKept`), `UsageCorrect`
(`UsageMatches`), `NothingLeft` (`NoStray`), `NothingMissing` (`NoPhantom`), `StatusesTrue`
(`StatusTells`). Under all of them lies `HandCorrect`: `Hand` says for each phase of a request
which cluster, rows, addresses and containers are the request's own, and that its list of what is
left to do fits what it has done. Each property has a strengthening that speaks of the cluster in
hand too: where an address is between the pool and a row (`Once`, `Returned`, `Accounted`); by how
much the usage is ahead of the rows in each phase, as cardinalities (`Balanced`); which containers
a request has made, or deleted, so far (`Tidy`, `Whole`); which of a cluster's containers have
been started, or stopped, so far (`Rests`, `Runs`). `StatusTells` needs that the recovery thread,
which takes no lock, works on another cluster than the request does unless the overlap is named
(`Apart`), and that a running cluster's host which restarted is in the recovery's queue or list,
unless the thread has ended. The steps on the pool have the outcomes of `Pool`: each part of
the invariant is shown for the one where nobody is in the way, and the others name `crossed`. A
request whose worker failed keeps only its usage to be given back (`Failed`).

`PortMapProofs`, for any nodes, ports, requests and faults: `PortsOnce`, `PortsKept`,
`RulesLead`, `RowsServed`, by way of `PortMapCorrect`. A request and a recovery of a node can
overlap. What holds nevertheless is an argument about one key at a time: who acquires a key
finds it unallocated, and only the node's request gives it back (`Releasing`), so whoever adds
the rules of a key is alone with it (`RuleCount`). Where they do not overlap, each is alone at
its node (`Alone`). `RowsDone` follows a row from its commit to its deletion: it has its
mapping, waits for the recovery, or is about to be deleted. Each of the four properties has a
part of the invariant, with the same exceptions as the property has or fewer.

`BeansProofs`, for any users, applications and bounds: `BeansFresh`, `BeansGrantedOnce`,
`BeansPaidOnce`, by way of `BeansCorrect`. Who reads beans to write them holds the user's lock
(`Holding`); an administrator that agrees is the only one to decide (`Deciding`); a bill that is
made is the only one, and its amount and what was used since are the counter (`Counting`); the
bill of a deleted container is one unit that was used when it was made.

`UsersProofs`, for any threads, users, groups, limits and bounds, and with every conversion and
commit free to raise: `LocksSafe` (`LocksFree`) and
`CopiesSafe` (`FreshCopies`), by way of `LocksCorrect`; `AccountsSafe` (`AccountKept`) and
`PairsSafe` (`PairOnce`). `FreshCopies` fails by itself when another handler writes between a
read and a write. The invariant adds that a handler past its acquire has its lock (`Holds`), so
that no two of them have the same one; that where a handler is determines what kind it is of
(`Coherent`), so that one about to write a file has the lock of the file; and that two logins of
a user cross only when `mishap` says so. Handlers of accounts hold no lock: `AccountInv` says
that one is alone with its account unless others crossed it (`Alone`), and that who is about to
drop an account found it waiting (`Dropping`). Who looks at a notification holds no lock either:
`PairInv` says that unless it met another handler it has no mark yet and the notification is
there (`Looking`), and that one handler at most makes the notification (`Creating`). The steps
of the module are of four kinds, and there is one lemma for each: a request begins (`Started`),
goes on (`Moved`), replies (`Replied`), raises (`Raised`); acquiring a lock and a restart are
the others.

`WorkerProofs`, for any finite set of nodes and any containers, images, requests and faults:
`DataSafe` (`DataKept`), `RejoinsSeen` (`RejoinSeen`), `ImagesTrue` (`ImageTold`), by way of
`StoreCorrect`. A node is wiped when it starts and is not in `allnodes`; that it has no data then
is `Recorded`: whoever has a container, is about to get one, or has a key or a place in a list of
keys from which the master makes it a running node, is in `allnodes`, unless etcd failed.
With it `Data` follows a container's data from the old volume to the image of the migration, to
the new volume, and past the commit; a deletion that removes the data and does not come to its
commit is named (`deleted`). `Rejoins` says where a node is between its announcement and
its recovery, and why nothing takes it off that way: in etcd, in the list the master has read but
not looked at, in the queue; that a node that is back is one the master knew, so that it is
queued and not taken for a new one, is `Recorded` again. `Listed` says of each image how far its
row and its file are apart in the middle of an operation.

Only model-checked: the invariants of `NetworkMgr` (`BlocksDisjoint`, `AddressOnce`,
`NothingLost`) and that it implements `BlockSpace`. `IntervalPool` computes with powers of two, of which the provers know no law (not even that `2^l` is a number), so that what
its blocks have in common cannot be proved from the definitions as they are. The liveness
properties `StopTakesEffect`, `JobEnds`, `AllSettles`, `OutOfBeansStops` and `EndTold` are out
of the prover's reach, as it has no rule for fairness.

## 6. Not modelled

- Shell commands around lxc, OVS bridges, proxies and OSS mounts; HTML, mails and their
  texts; the metering prototype; generated code; bug reports, cloud, deployment, settings:
  single operations without a protocol.
- The numeric side of placement and of billing (cpu, memory, disk figures and prices), the
  history tables, sizes of volumes, dates (when a cluster is long stopped is a free choice).
- Queries that change nothing, and the parsing of requests.
- The gateways of users on several hosts (`usrgws`, GRE ports) and the system pool's
  addresses, which nobody acquires.
- `flush_cluster`, the REST entry of `migrate_cluster` and `taskcontroller.py`, which cannot run;
  `release_ulock`, an administrator's override.
- Several masters, and etcd itself: its calls are atomic steps, which in `Worker` may raise.

What a continuation could add: an abstract task life cycle that both `TaskMgr` and the
environment inside `JobMgr` implement; and, with a prover that has a theory of powers, proofs of
`BlocksDisjoint` of `NetworkMgr` and with it of the steps of its refinement.
