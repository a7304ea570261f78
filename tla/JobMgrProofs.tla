----------------------------- MODULE JobMgrProofs -----------------------------
(***************************************************************************)
(* Proofs about JobMgr.tla, for any jobs, tasks, dependencies and bounds.  *)
(*                                                                         *)
(* The inductive invariant IInv relates four things: where a task is in    *)
(* TaskMgr (tm), its status in the BatchJob and in its row, how often it   *)
(* was handed over, and what each thread inside a call is about to do.     *)
(* The steps of TaskMgr and the requests to stop are alike for JobMgr:     *)
(* they are brought to one form (Outside), which is shown to keep every    *)
(* part. The steps of JobMgr itself are treated one by one.                *)
(*                                                                         *)
(* Mostly it hangs on two facts. A task is pending until the one thread    *)
(* that will hand it over takes it (Unhanded): so no two threads release   *)
(* the same task, and none is reported, let alone charged, before that.    *)
(* And a status that says a task has ended is reported only when TaskMgr   *)
(* is done with it (Reported, Ended): so counters that match the statuses  *)
(* show a job as over only when nothing of it is left to run.              *)
(***************************************************************************)
EXTENDS JobMgr, FiniteSetTheorems, TLAPS

Told == {"running", "retrying", "failed", "finished", "stopped"}
Places == {"out", "append", "queued", "waiting", "active", "finished", "failed", "stopped", "dropped"}
Off == Places \ (Live \union {"out"})

Reports == [pc: {"start", "lookup", "update", "add", "check"}, job: Job, task: Idx, status: TaskStatus,
            bill: BOOLEAN, todo: SUBSET Idx, nested: BOOLEAN, report: BOOLEAN]

\* What each thread's calls are like.
Coherent(c, r) ==
  /\ r \in Reports \union {Idle, DeadThread}
  /\ r = DeadThread => c = "scheduler"
  /\ r \in Reports =>
       /\ c \in Job => /\ r.job = c /\ ~r.report
                       /\ r.pc \in {"lookup", "update", "check"} <=> r.nested
       /\ c \notin Job => r.report /\ r.pc # "start"
       /\ c = "handler" => r.status = "retrying" /\ r.pc # "add"
       /\ r.bill => c = "scheduler" /\ ~r.nested
       /\ r.nested => r.status = "failed"
       /\ r.report => r.status \in Told
       /\ r.todo # {} => r.pc = "add" \/ r.nested
       /\ r.pc = "start" => r.todo = {}

Shapes ==
  /\ job_db \in [Job -> {"none", "pending", "running", "stopping"} \union EndedJob]
  /\ task_db \in [Job -> [Idx -> TaskStatus]] /\ tasks \in [Job -> [Idx -> TaskStatus]]
  /\ job_map \subseteq Job
  /\ dependency \in [Job -> [Idx -> SUBSET Idx]]
  /\ tasks_cnt \in [Job -> [TaskStatus -> Int]]
  /\ call \in [Caller -> Reports \union {Idle, DeadThread}]
  /\ stopper \in [Job -> [pc: {"idle", "stopping"}, todo: SUBSET Idx]]
  /\ tm \in [Job -> [Idx -> Places]]
  /\ lazy_delete_list \subseteq Pair /\ lazy_stop_list \subseteq Pair
  /\ sort \in [pc: {"scan", "stop", "cancel"}, todo: SUBSET Pair]
  /\ phase \in [pc: {"up", "recovering"}, todo: SUBSET Job]
  /\ handed \in [Job -> [Idx -> Nat]] /\ charged \in [Job -> [Idx -> Nat]]
  /\ revived \subseteq Pair
  /\ \A c \in Caller : Coherent(c, call[c])

\* The scheduler's lists.
Sorted ==
  /\ \A p \in lazy_delete_list : tm[p[1]][p[2]] # "out"
  /\ sort.pc = "stop" => \A p \in sort.todo : tm[p[1]][p[2]] # "out"
  /\ sort.pc = "cancel" => \A p \in sort.todo : tm[p[1]][p[2]] = "append"

\* While jobs are recovered, nobody else is at work.
Recovering ==
  /\ phase.pc = "up" => phase.todo = {}
  /\ phase.pc = "recovering" =>
       /\ \A c \in Caller : call[c] = Idle
       /\ \A j \in Job, i \in Idx : tm[j][i] \in {"out", "append"}
       /\ sort.pc = "scan"

\* A job that is not started yet, or not recovered yet, has done nothing.
Fresh(j) == j \notin job_map /\ dependency[j] = Dep /\ \A i \in Idx : tasks[j][i] = "pending"
Unstarted ==
  \A j \in Job :
    /\ job_db[j] = "none" \/ call[j].pc = "start" \/ j \in phase.todo => Fresh(j)
    /\ call[j].pc = "start" => job_db[j] \notin EndedJob \union {"none"}

Calling(c, j) == call[c] \in Reports /\ call[c].job = j

\* Where the task is of which a thread reports.
Reported ==
  \A c \in Caller : call[c] \in Reports /\ call[c].pc \in {"lookup", "update"} =>
    LET t == tm[call[c].job][call[c].task] IN
    /\ t # "out" /\ call[c].status \in Told
    /\ call[c].status \in EndedTask => t \in Off
    /\ call[c].status = "finished" => t = "finished"

Finished(j, i) == \A d \in Dep[i] : tm[j][d] = "finished"

\* A task is in the hands of one thread at most until it is handed to TaskMgr.
InOrder(j, i) ==
  /\ handed[j][i] <= 1
  /\ handed[j][i] = 1 => Finished(j, i)
  /\ handed[j][i] = 0 => tm[j][i] = "out"
  /\ tasks[j][i] = "pending" => handed[j][i] = 0
  /\ \A d \in Dep[i] \ dependency[j][i] : tm[j][d] = "finished"

InHand(c, j, i) ==
  /\ handed[j][i] = 0 /\ tasks[j][i] # "pending" /\ Finished(j, i)
  /\ \A d \in Caller : Calling(d, j) /\ i \in call[d].todo => d = c

Unhanded ==
  /\ \A j \in Job, i \in Idx : InOrder(j, i)
  /\ \A c \in Caller, j \in Job : Calling(c, j) => \A i \in call[c].todo : InHand(c, j, i)

OrderInv == Sorted /\ Recovering /\ Unstarted /\ Reported /\ Unhanded

\* What the statuses say of a task.
Ended ==
  \A j \in Job, i \in Idx :
    /\ tasks[j][i] \in EndedTask => tm[j][i] \in Off /\ task_db[j][i] = tasks[j][i]
    /\ tasks[j][i] = "finished" => tm[j][i] = "finished"

Quiet(j) == /\ \A i \in Idx : tm[j][i] \notin Live
            /\ \A c \in Caller : Calling(c, j) => call[c].todo = {}

Quieted ==
  \A j \in Job : /\ job_db[j] \in {"done", "stopped"} => Quiet(j)
                 /\ job_db[j] = "done" => \A i \in Idx : task_db[j][i] = "finished"

\* Who is going to test whether a job is over.
Tests(c, j) ==
  /\ call[c] \in Reports /\ call[c].job = j
  /\ call[c].pc \in {"lookup", "update", "check"} \/ (call[c].pc = "add" /\ call[c].report)

Zombies ==
  \A j \in job_map : job_db[j] \in EndedJob =>
    call["scheduler"] = DeadThread \/ \E c \in Caller : Tests(c, j)

\* The scheduler is on its way with a report on a task.
At(j, i, pc, S) ==
  LET r == call["scheduler"] IN r \in Reports /\ r.job = j /\ r.task = i /\ r.pc = pc /\ r.status \in S

Charge1(j, i) ==
  /\ charged[j][i] <= 1
  /\ tm[j][i] \in Live \union {"out"} => charged[j][i] = 0
  /\ At(j, i, "lookup", {"failed", "finished"}) /\ call["scheduler"].bill => charged[j][i] = 0
  /\ charged[j][i] = 1 =>
       tasks[j][i] \in EndedTask \/ j \notin job_map \/ At(j, i, "update", {"failed", "finished"})
  /\ At(j, i, "update", {"stopped"}) /\ charged[j][i] = 1 => tasks[j][i] \in EndedTask

Charging == \A j \in Job, i \in Idx : <<j, i>> \notin revived => Charge1(j, i)

IInv == /\ Shapes /\ OrderInv /\ Ended /\ Quieted /\ Zombies /\ Charging /\ CountersMatch

-----------------------------------------------------------------------------
(* Data.                                                                   *)

Calls == Reports \union {Idle, DeadThread}

LEMMA CallIs ==
  /\ Idle \in Calls /\ Idle.pc = "idle" /\ Idle \notin Reports
  /\ DeadThread \in Calls /\ DeadThread.pc = "dead" /\ DeadThread \notin Reports
  /\ Idle # DeadThread
  /\ \A r \in Calls : r.pc \in {"start", "lookup", "update", "add", "check"} => r \in Reports
  /\ \A r \in Calls : r.pc = "idle" => r = Idle
<1>1. Idle.pc = "idle" /\ DeadThread.pc = "dead"
  BY DEF Idle, DeadThread
<1>2. \A r \in Reports : r.pc \in {"start", "lookup", "update", "add", "check"}
  BY DEF Reports
<1>3. QED
  BY <1>1, <1>2 DEF Calls

LEMMA Callers ==
  /\ "scheduler" \in Caller /\ "handler" \in Caller /\ Job \subseteq Caller
  /\ "scheduler" \notin Job /\ "handler" \notin Job
  /\ \A c \in Caller : c = "scheduler" \/ c = "handler" \/ c \in Job
BY SetAssumption DEF Caller

LEMMA Stages ==
  /\ Off = {"finished", "failed", "stopped", "dropped"}
  /\ \A t \in Places : t = "out" \/ t \in Live \/ t \in Off
  /\ "out" \notin Live /\ "out" \notin Off /\ \A t \in Off : t \notin Live
  /\ EndedTask \subseteq Off /\ EndedTask \subseteq Told /\ Told \subseteq TaskStatus
  /\ "pending" \notin Told /\ "pending" \notin EndedTask /\ "scheduling" \notin Told
  /\ "scheduling" \notin EndedTask
BY DEF Off, Places, Live, EndedTask, Told, TaskStatus

LEMMA IdleCoherent ==
  ASSUME NEW c \in Caller
  PROVE  Coherent(c, Idle) /\ (c = "scheduler" => Coherent(c, DeadThread))
BY CallIs DEF Coherent

LEMMA SetAt ==
  ASSUME NEW S, NEW f \in [Job -> [Idx -> S]], NEW j \in Job, NEW i \in Idx, NEW v \in S,
         NEW g, g = [f EXCEPT ![j][i] = v]
  PROVE  /\ g \in [Job -> [Idx -> S]] /\ g[j][i] = v
         /\ \A k \in Job, l \in Idx : k # j \/ l # i => g[k][l] = f[k][l]
OBVIOUS

-----------------------------------------------------------------------------
(* Calls.                                                                  *)

\* Only the thread c goes on.
Turns(c) ==
  /\ call' \in [Caller -> Calls] /\ Coherent(c, call'[c])
  /\ \A d \in Caller : d # c => call'[d] = call[d]

LEMMA CallTurns ==
  ASSUME Shapes, NEW c \in Caller, NEW q, call' = [call EXCEPT ![c] = q], Coherent(c, q)
  PROVE  Turns(c) /\ call'[c] = q
<1>1. q \in Calls
  BY DEF Coherent, Calls
<1>2. QED
  BY <1>1 DEF Shapes, Turns, Calls

LEMMA TurnsCoherent ==
  ASSUME Shapes, NEW c \in Caller, Turns(c)
  PROVE  call' \in [Caller -> Calls] /\ \A d \in Caller : Coherent(d, call'[d])
BY DEF Shapes, Turns

\* What a report begins with.
LEMMA ReportIs ==
  ASSUME NEW j \in Job, NEW i \in Idx, NEW s \in Told, NEW b \in BOOLEAN
  PROVE  LET q == Report(j, i, s, b) IN
         /\ q \in Reports /\ q.pc = "lookup" /\ q.job = j /\ q.task = i /\ q.status = s /\ q.bill = b
         /\ q.todo = {} /\ q.nested = FALSE /\ q.report = TRUE
BY Stages DEF Report, Reports

\* How a call r with the tasks todo to hand goes on, as q.
Follows(q, r, todo) ==
  \/ todo = {} /\ ~ r.report /\ q = Idle
  \/ /\ todo # {} \/ r.report
     /\ q \in Reports /\ q.job = r.job /\ q.todo = todo /\ q.nested = FALSE /\ q.report = r.report
     /\ q.status = r.status /\ q.bill = r.bill /\ q.task = r.task
     /\ q.pc = IF todo # {} THEN "add" ELSE "check"

LEMMA ProceedFollows ==
  ASSUME NEW r \in Reports, NEW todo \in SUBSET Idx, NEW s, s = [r EXCEPT !.todo = todo]
  PROVE  Follows(Proceed(s), r, todo)
<1>1. /\ s \in Reports /\ s.todo = todo /\ s.job = r.job /\ s.report = r.report /\ s.status = r.status
      /\ s.bill = r.bill /\ s.task = r.task
  BY DEF Reports
<1>2. CASE todo # {}
  <2>1. PICK q : q = [s EXCEPT !.pc = "add", !.nested = FALSE]
    OBVIOUS
  <2>2. /\ q \in Reports /\ q.job = s.job /\ q.todo = s.todo /\ q.nested = FALSE /\ q.report = s.report
        /\ q.status = s.status /\ q.bill = s.bill /\ q.task = s.task /\ q.pc = "add"
    BY <1>1, <2>1 DEF Reports
  <2>3. Proceed(s) = q
    BY <1>1, <1>2, <2>1 DEF Proceed
  <2>4. QED
    BY <1>1, <1>2, <2>2, <2>3 DEF Follows
<1>3. CASE todo = {} /\ r.report
  <2>1. PICK q : q = [s EXCEPT !.pc = "check", !.nested = FALSE]
    OBVIOUS
  <2>2. /\ q \in Reports /\ q.job = s.job /\ q.todo = s.todo /\ q.nested = FALSE /\ q.report = s.report
        /\ q.status = s.status /\ q.bill = s.bill /\ q.task = s.task /\ q.pc = "check"
    BY <1>1, <2>1 DEF Reports
  <2>3. Proceed(s) = q
    BY <1>1, <1>3, <2>1 DEF Proceed
  <2>4. QED
    BY <1>1, <1>3, <2>2, <2>3 DEF Follows
<1>4. CASE todo = {} /\ ~ r.report
  BY <1>1, <1>4 DEF Proceed, Follows
<1>5. r.report \in BOOLEAN
  BY DEF Reports
<1>6. QED
  BY <1>2, <1>3, <1>4, <1>5

\* A thread goes on like that as it should.
LEMMA FollowsCoherent ==
  ASSUME NEW c \in Caller, NEW r \in Reports, Coherent(c, r), NEW q, NEW todo \in SUBSET Idx,
         Follows(q, r, todo), r.pc # "start" \/ c \in Job, todo # {} => c # "handler"
  PROVE  Coherent(c, q)
BY IdleCoherent, CallIs DEF Follows, Coherent

-----------------------------------------------------------------------------
(* Steps of TaskMgr and of requests to stop: they leave the jobs alone.    *)

\* A task goes on in TaskMgr; one that is over stays so.
Goes ==
  \A j \in Job, i \in Idx : /\ tm'[j][i] = "out" <=> tm[j][i] = "out"
                            /\ tm[j][i] \in Off => tm'[j][i] = tm[j][i]

\* A thread begins to report of a task, or dies on the way.
Tells(c) ==
  LET q == call'[c] IN
  /\ call[c] = Idle /\ Turns(c) /\ phase.pc = "up"
  /\ q = DeadThread \/
       /\ q \in Reports /\ q.pc = "lookup" /\ q.todo = {} /\ ~ q.nested
       /\ tm'[q.job][q.task] # "out"
       /\ q.status \in EndedTask => tm'[q.job][q.task] \in Off
       /\ q.status = "finished" => tm'[q.job][q.task] = "finished"
       /\ q.bill /\ q.status \in {"failed", "finished"} => tm[q.job][q.task] \in Live

Outside ==
  /\ stopper' \in [Job -> [pc: {"idle", "stopping"}, todo: SUBSET Idx]]
  /\ Goes /\ tm' \in [Job -> [Idx -> Places]]
  /\ lazy_delete_list' \subseteq Pair /\ lazy_stop_list' \subseteq Pair
  /\ sort' \in [pc: {"scan", "stop", "cancel"}, todo: SUBSET Pair]
  /\ job_db' = job_db \/ \E j \in Job : job_db' = [job_db EXCEPT ![j] = "stopping"]
  /\ phase' = phase \/ (phase.todo = {} /\ phase' = [phase EXCEPT !.pc = "up"])
  /\ phase.pc = "recovering" => UNCHANGED <<tm, sort>>
  /\ call' = call \/ \E c \in {"scheduler", "handler"} : Tells(c)
  /\ UNCHANGED <<task_db, job_map, mem_vars, handed, charged, revived>>

LEMMA OutsideShapes == ASSUME Shapes, Outside PROVE Shapes'
<1>1. call' \in [Caller -> Calls] /\ \A d \in Caller : Coherent(d, call'[d])
  BY TurnsCoherent, Callers DEF Outside, Tells, Shapes, Calls
<1>2. job_db' \in [Job -> {"none", "pending", "running", "stopping"} \union EndedJob]
  BY DEF Outside, Shapes
<1>3. phase' \in [pc: {"up", "recovering"}, todo: SUBSET Job]
  BY DEF Outside, Shapes
<1>4. QED
  BY <1>1, <1>2, <1>3 DEF Outside, Shapes, mem_vars, ghost_vars, Calls

\* The task of a pair moves to t in TaskMgr.
Moves(j, i, t) ==
  /\ tm[j][i] # "out" /\ t \in Places /\ t # "out" /\ (tm[j][i] \in Off => t = tm[j][i])
  /\ tm' = [tm EXCEPT ![j][i] = t]

LEMMA MovesGoes ==
  ASSUME Shapes, NEW j \in Job, NEW i \in Idx, NEW t, Moves(j, i, t)
  PROVE  Goes /\ tm' \in [Job -> [Idx -> Places]] /\ tm'[j][i] = t
<1>1. /\ tm' \in [Job -> [Idx -> Places]] /\ tm'[j][i] = t
      /\ \A k \in Job, l \in Idx : k # j \/ l # i => tm'[k][l] = tm[k][l]
  BY SetAt DEF Moves, Shapes
<1>2. QED
  BY <1>1 DEF Moves, Goes

\* The scheduler's report, or the exception before it.
LEMMA Billed ==
  ASSUME Shapes, NEW j \in Job, NEW i \in Idx, NEW t, Moves(j, i, t), NEW s \in EndedTask, NEW b \in BOOLEAN,
         call["scheduler"] = Idle, phase.pc = "up", t \in Off, s = "finished" => t = "finished",
         b /\ s \in {"failed", "finished"} => tm[j][i] \in Live,
         \/ call' = [call EXCEPT !["scheduler"] = Report(j, i, s, b)]
         \/ call' = [call EXCEPT !["scheduler"] = DeadThread]
  PROVE  Tells("scheduler")
<1>1. tm'[j][i] = t /\ "scheduler" \in Caller
  BY MovesGoes, Callers
<1>2. CASE call' = [call EXCEPT !["scheduler"] = DeadThread]
  BY <1>1, <1>2, CallTurns, IdleCoherent DEF Tells
<1>3. CASE call' = [call EXCEPT !["scheduler"] = Report(j, i, s, b)]
  <2>0. s \in Told /\ s \in TaskStatus
    BY Stages
  <2>1. PICK q : q = Report(j, i, s, b)
    OBVIOUS
  <2>2. /\ q \in Reports /\ q.pc = "lookup" /\ q.job = j /\ q.task = i /\ q.status = s /\ q.bill = b
        /\ q.todo = {} /\ q.nested = FALSE /\ q.report = TRUE
    BY <2>0, <2>1 DEF Report, Reports
  <2>3. Coherent("scheduler", q)
    BY <2>2, Callers, CallIs, Stages DEF Coherent
  <2>4. Turns("scheduler") /\ call'["scheduler"] = q
    BY <1>1, <1>3, <2>1, <2>3, CallTurns
  <2>5. QED
    BY <1>1, <2>2, <2>4, Stages DEF Tells
<1>4. QED
  BY <1>2, <1>3

LEMMA Passing ==
  ASSUME Shapes, NEW c \in {"scheduler", "handler"}, NEW j \in Job, NEW i \in Idx, NEW t, Moves(j, i, t),
         NEW s \in {"running", "retrying"}, c = "handler" => s = "retrying",
         call[c] = Idle, phase.pc = "up", call' = [call EXCEPT ![c] = Report(j, i, s, FALSE)]
  PROVE  Tells(c)
<1>1. tm'[j][i] = t /\ c \in Caller /\ c \notin Job /\ t # "out"
  BY MovesGoes, Callers DEF Moves
<1>2. PICK q : q = Report(j, i, s, FALSE)
  OBVIOUS
<1>3. s \in Told /\ s \in TaskStatus /\ s \notin EndedTask
  BY DEF Told, EndedTask, TaskStatus
<1>4. /\ q \in Reports /\ q.pc = "lookup" /\ q.job = j /\ q.task = i /\ q.status = s /\ q.bill = FALSE
      /\ q.todo = {} /\ q.nested = FALSE /\ q.report = TRUE
  BY <1>2, <1>3 DEF Report, Reports
<1>5. Coherent(c, q)
  BY <1>1, <1>3, <1>4, CallIs DEF Coherent
<1>6. Turns(c) /\ call'[c] = q
  BY <1>1, <1>2, <1>5, CallTurns
<1>7. QED
  BY <1>1, <1>3, <1>4, <1>6, Stages DEF Tells

LEMMA StandsStill == ASSUME Shapes, tm' = tm PROVE Goes /\ tm' \in [Job -> [Idx -> Places]]
BY DEF Shapes, Goes

LEMMA StopOutside ==
  ASSUME Shapes, Sorted, NEW j \in Job, StopJob(j) \/ StopNext(j) \/ StopMark(j)
  PROVE  Outside /\ Sorted'
<1>1. Goes /\ tm' \in [Job -> [Idx -> Places]]
  BY StandsStill DEF StopJob, StopNext, StopMark, tm_vars
<1>2. lazy_stop_list' \subseteq Pair /\ stopper' \in [Job -> [pc: {"idle", "stopping"}, todo: SUBSET Idx]]
  <2>1. CASE StopJob(j)
    BY <2>1 DEF StopJob, tm_vars, Shapes
  <2>2. CASE StopNext(j)
    <3>1. PICK i \in stopper[j].todo : /\ stopper' = [stopper EXCEPT ![j].todo = @ \ {i}]
                                       /\ lazy_stop_list' = lazy_stop_list \cup {<<j, i>>}
      BY <2>2 DEF StopNext
    <3>2. i \in Idx /\ stopper[j] \in [pc: {"idle", "stopping"}, todo: SUBSET Idx]
      BY DEF Shapes
    <3>3. [stopper[j] EXCEPT !.todo = @ \ {i}] \in [pc: {"idle", "stopping"}, todo: SUBSET Idx]
      BY <3>2
    <3>4. QED
      BY <3>1, <3>2, <3>3 DEF Shapes, Pair
  <2>3. CASE StopMark(j)
    BY <2>3 DEF StopMark, tm_vars, Shapes, NotStopping
  <2>4. QED
    BY <2>1, <2>2, <2>3
<1>3. UNCHANGED <<tm, lazy_delete_list, sort, phase, call, task_db, job_map, mem_vars, ghost_vars>>
  BY DEF StopJob, StopNext, StopMark, tm_vars, db_vars
<1>4. job_db' = job_db \/ job_db' = [job_db EXCEPT ![j] = "stopping"]
  BY DEF StopJob, StopNext, StopMark, db_vars
<1>5. Outside
  BY <1>1, <1>2, <1>3, <1>4 DEF Outside, Shapes, ghost_vars
<1>6. QED
  BY <1>3, <1>5 DEF Sorted

LEMMA RestOutside == ASSUME Shapes, Sorted, RecoverEnd \/ UNCHANGED vars PROVE Outside /\ Sorted'
<1>1. Goes /\ tm' \in [Job -> [Idx -> Places]]
  BY StandsStill DEF RecoverEnd, tm_vars, vars
<1>2. /\ UNCHANGED <<tm, lazy_delete_list, lazy_stop_list, sort, call, stopper, job_db, task_db, job_map, mem_vars, ghost_vars>>
      /\ phase' = phase \/ (phase.todo = {} /\ phase' = [phase EXCEPT !.pc = "up"])
  BY DEF RecoverEnd, vars, tm_vars, db_vars, mem_vars, ghost_vars
<1>3. Outside
  BY <1>1, <1>2 DEF Outside, Shapes, ghost_vars
<1>4. QED
  BY <1>2, <1>3 DEF Sorted

LEMMA HangOutside == ASSUME Shapes, Sorted, NEW j \in Job, NEW i \in Idx, Hang(j, i) PROVE Outside /\ Sorted'
<1>1. Goes /\ tm' \in [Job -> [Idx -> Places]]
  BY StandsStill DEF Hang, tm_vars
<1>2. /\ UNCHANGED <<tm, lazy_delete_list, lazy_stop_list, sort, call, stopper, job_db, task_db, job_map, mem_vars>>
      /\ UNCHANGED <<phase, handed, charged, revived>>
  BY DEF Hang, tm_vars, db_vars, mem_vars
<1>3. Outside
  BY <1>1, <1>2 DEF Outside, Shapes
<1>4. QED
  BY <1>2, <1>3 DEF Sorted

LEMMA BeginOutside == ASSUME Shapes, Sorted, SortBegin PROVE Outside /\ Sorted'
<1>1. Goes /\ tm' \in [Job -> [Idx -> Places]]
  BY StandsStill DEF SortBegin
<1>2. /\ phase.pc = "up" /\ sort' = [pc |-> "stop", todo |-> Queued \cap lazy_stop_list]
      /\ UNCHANGED <<tm, lazy_delete_list, lazy_stop_list, phase, call, stopper, job_db, task_db, job_map, mem_vars, ghost_vars>>
  BY DEF SortBegin, db_vars
<1>3. Queued \subseteq Pair /\ \A p \in Queued : tm[p[1]][p[2]] # "out"
  BY DEF Queued, Sorted, Shapes
<1>4. sort' \in [pc: {"scan", "stop", "cancel"}, todo: SUBSET Pair]
  BY <1>2, <1>3
<1>5. Outside
  BY <1>1, <1>2, <1>4 DEF Outside, Shapes, ghost_vars
<1>6. sort'.pc = "stop" /\ \A p \in sort'.todo : p \in Queued
  BY <1>2
<1>7. QED
  BY <1>2, <1>3, <1>5, <1>6 DEF Sorted

LEMMA StopsOutside == ASSUME Shapes, Sorted, Recovering, SortStop PROVE Outside /\ Sorted'
<1>1. /\ sort.pc = "stop" /\ SchedulerIdle /\ call["scheduler"] = Idle /\ phase.pc = "up"
      /\ UNCHANGED <<lazy_stop_list, phase, stopper, job_db, task_db, job_map, mem_vars, ghost_vars>>
  BY CallIs, Callers DEF SortStop, SchedulerIdle, Recovering, Shapes, Calls, db_vars
<1>2. PICK p \in sort.todo :
        /\ tm' = [tm EXCEPT ![p[1]][p[2]] = IF @ = "queued" THEN "dropped"
                                            ELSE IF @ \in Live THEN "stopped" ELSE @]
        /\ lazy_delete_list' = lazy_delete_list \cup {p}
        /\ Bill(p[1], p[2], "stopped", [sort EXCEPT !.todo = @ \ {p}])
  BY DEF SortStop
<1>3. PICK j \in Job, i \in Idx : p = <<j, i>>
  BY <1>2 DEF Shapes, Pair
<1>4. PICK t : t = IF tm[j][i] = "queued" THEN "dropped" ELSE IF tm[j][i] \in Live THEN "stopped" ELSE tm[j][i]
  OBVIOUS
<1>5. tm[j][i] \in Places /\ tm[j][i] # "out"
  BY <1>1, <1>2, <1>3 DEF Sorted, Shapes
<1>6. t \in Off /\ t \in Places /\ t # "out" /\ (tm[j][i] \in Off => t = tm[j][i])
  BY <1>4, <1>5, Stages DEF Live, Places
<1>7. Moves(j, i, t)
  <2>1. tm' = [tm EXCEPT ![j][i] = t]
    BY <1>2, <1>3, <1>4
  <2>2. QED
    BY <2>1, <1>5, <1>6 DEF Moves
<1>8. Goes /\ tm' \in [Job -> [Idx -> Places]] /\ tm'[j][i] = t
  BY <1>7, MovesGoes
<1>9. Tells("scheduler")
  <2>1. "stopped" \in EndedTask /\ TRUE \in BOOLEAN
    BY DEF EndedTask
  <2>2. \/ call' = [call EXCEPT !["scheduler"] = Report(j, i, "stopped", TRUE)]
        \/ call' = [call EXCEPT !["scheduler"] = DeadThread]
    BY <1>2, <1>3 DEF Bill
  <2>3. QED
    <3>1. "stopped" # "finished" /\ "stopped" \notin {"failed", "finished"}
      OBVIOUS
    <3>2. QED
      BY <1>1, <1>3, <1>6, <1>7, <2>1, <2>2, <3>1, Billed
<1>10. sort' = [sort EXCEPT !.todo = @ \ {p}] \/ sort' = NotSorting
  BY <1>2 DEF Bill
<1>11. /\ sort' \in [pc: {"scan", "stop", "cancel"}, todo: SUBSET Pair]
       /\ sort'.pc \in {"stop", "scan"} /\ (sort'.pc = "stop" => sort'.todo \subseteq sort.todo)
  BY <1>1, <1>10 DEF Shapes, NotSorting
<1>12. Outside
  BY <1>1, <1>2, <1>3, <1>8, <1>9, <1>11 DEF Outside, Shapes, Pair, ghost_vars
<1>13. QED
  <2>1. \A q \in Pair : tm[q[1]][q[2]] # "out" => tm'[q[1]][q[2]] # "out"
    BY <1>8 DEF Goes, Pair
  <2>2. \A q \in lazy_delete_list' : tm'[q[1]][q[2]] # "out"
    BY <1>2, <1>3, <1>6, <1>8, <2>1 DEF Sorted, Shapes
  <2>3. \A q \in sort.todo : tm'[q[1]][q[2]] # "out"
    BY <1>1, <2>1 DEF Sorted, Shapes
  <2>4. QED
    BY <1>11, <1>12, <2>2, <2>3 DEF Sorted

LEMMA DeleteOutside == ASSUME Shapes, Sorted, Recovering, SortDelete PROVE Outside /\ Sorted'
<1>1. Goes /\ tm' \in [Job -> [Idx -> Places]]
  BY StandsStill DEF SortDelete
<1>2. /\ sort.pc = "stop" /\ lazy_delete_list' = {} /\ sort' = [pc |-> "cancel", todo |-> Appended \cap lazy_stop_list]
      /\ UNCHANGED <<tm, lazy_stop_list, phase, call, stopper, job_db, task_db, job_map, mem_vars, ghost_vars>>
  BY DEF SortDelete, db_vars
<1>3. Appended \subseteq Pair /\ \A p \in Appended : tm[p[1]][p[2]] = "append"
  BY DEF Appended
<1>4. sort' \in [pc: {"scan", "stop", "cancel"}, todo: SUBSET Pair]
  BY <1>2, <1>3
<1>5. phase.pc # "recovering"
  BY <1>2 DEF Recovering
<1>6. Outside
  BY <1>1, <1>2, <1>4, <1>5 DEF Outside, Shapes, ghost_vars
<1>7. sort'.pc = "cancel" /\ \A p \in sort'.todo : p \in Appended
  BY <1>2
<1>8. QED
  BY <1>2, <1>3, <1>6, <1>7 DEF Sorted

LEMMA CancelOutside == ASSUME Shapes, Sorted, Recovering, SortCancel PROVE Outside /\ Sorted'
<1>1. /\ sort.pc = "cancel" /\ SchedulerIdle /\ call["scheduler"] = Idle /\ phase.pc = "up"
      /\ UNCHANGED <<lazy_stop_list, lazy_delete_list, phase, stopper, job_db, task_db, job_map, mem_vars, ghost_vars>>
  BY CallIs, Callers DEF SortCancel, SchedulerIdle, Recovering, Shapes, Calls, db_vars
<1>2. PICK p \in sort.todo :
        /\ sort' = [sort EXCEPT !.todo = @ \ {p}]
        /\ tm' = [tm EXCEPT ![p[1]][p[2]] = "dropped"]
        /\ call' = [call EXCEPT !["scheduler"] = Report(p[1], p[2], "stopped", FALSE)]
  BY DEF SortCancel
<1>3. PICK j \in Job, i \in Idx : p = <<j, i>>
  BY <1>2 DEF Shapes, Pair
<1>4. tm[j][i] = "append"
  BY <1>1, <1>2, <1>3 DEF Sorted
<1>5. "dropped" \in Off /\ "dropped" \in Places /\ "dropped" # "out" /\ "append" \notin Off
  BY Stages DEF Places
<1>6. tm' = [tm EXCEPT ![j][i] = "dropped"]
  BY <1>2, <1>3
<1>7. Moves(j, i, "dropped")
  BY <1>4, <1>5, <1>6 DEF Moves
<1>8. Goes /\ tm' \in [Job -> [Idx -> Places]] /\ tm'[j][i] = "dropped"
  BY <1>7, MovesGoes
<1>9. Tells("scheduler")
  <2>1. "stopped" \in EndedTask /\ FALSE \in BOOLEAN
    BY DEF EndedTask
  <2>2. call' = [call EXCEPT !["scheduler"] = Report(j, i, "stopped", FALSE)]
    BY <1>2, <1>3
  <2>3. "stopped" # "finished" /\ "stopped" \notin {"failed", "finished"}
    OBVIOUS
  <2>4. QED
    BY <1>1, <1>3, <1>5, <1>7, <2>1, <2>2, <2>3, Billed
<1>10. sort' \in [pc: {"scan", "stop", "cancel"}, todo: SUBSET Pair] /\ sort'.pc = "cancel" /\ sort'.todo = sort.todo \ {p}
  BY <1>1, <1>2 DEF Shapes
<1>11. Outside
  BY <1>1, <1>8, <1>9, <1>10 DEF Outside, Shapes, ghost_vars
<1>12. \A q \in Pair : tm[q[1]][q[2]] # "out" => tm'[q[1]][q[2]] # "out"
  BY <1>8 DEF Goes, Pair
<1>13. \A q \in sort'.todo : tm'[q[1]][q[2]] = "append"
  <2>1. TAKE q \in sort'.todo
  <2>2. PICK k \in Job, l \in Idx : q = <<k, l>>
    BY <1>10 DEF Pair
  <2>3. tm[k][l] = "append" /\ (k # j \/ l # i)
    BY <1>1, <1>3, <1>10, <2>2 DEF Sorted
  <2>4. tm'[k][l] = tm[k][l]
    BY <1>6, <2>3 DEF Shapes
  <2>5. QED
    BY <2>2, <2>3, <2>4
<1>14. QED
  BY <1>1, <1>10, <1>11, <1>12, <1>13 DEF Sorted, Shapes

LEMMA EndOutside == ASSUME Shapes, Sorted, Recovering, SortEnd PROVE Outside /\ Sorted'
<1>1. /\ sort.pc = "cancel" /\ phase.pc # "recovering" /\ lazy_stop_list' = {} /\ sort' = NotSorting
      /\ UNCHANGED <<lazy_delete_list, phase, call, stopper, job_db, task_db, job_map, mem_vars, ghost_vars>>
  BY DEF SortEnd, Recovering, db_vars
<1>2. tm' = [j \in Job |-> [i \in Idx |-> IF tm[j][i] = "append" THEN "queued" ELSE tm[j][i]]]
  BY DEF SortEnd
<1>3. \A j \in Job, i \in Idx : tm[j][i] \in Places /\ tm'[j][i] = IF tm[j][i] = "append" THEN "queued" ELSE tm[j][i]
  BY <1>2 DEF Shapes
<1>4. tm' \in [Job -> [Idx -> Places]]
  BY <1>2, <1>3 DEF Places
<1>5. Goes
  BY <1>3, Stages DEF Goes
<1>6. sort' \in [pc: {"scan", "stop", "cancel"}, todo: SUBSET Pair] /\ sort'.pc = "scan"
  BY <1>1 DEF NotSorting
<1>7. Outside
  BY <1>1, <1>4, <1>5, <1>6 DEF Outside, Shapes, ghost_vars
<1>8. \A q \in Pair : tm[q[1]][q[2]] # "out" => tm'[q[1]][q[2]] # "out"
  BY <1>5 DEF Goes, Pair
<1>9. QED
  BY <1>1, <1>6, <1>7, <1>8 DEF Sorted, Shapes

\* A step of the scheduler or of a report on one task of the queue.
LEMMA OneOutside ==
  ASSUME Shapes, Sorted, Recovering, NEW j \in Job, NEW i \in Idx, NEW t, Moves(j, i, t), tm[j][i] # "append",
         NEW c \in {"scheduler", "handler"}, Tells(c), sort.pc = "cancel" => sort' = sort,
         sort' = sort \/ sort' = NotSorting, lazy_delete_list' \in {lazy_delete_list, lazy_delete_list \cup {<<j, i>>}},
         UNCHANGED <<lazy_stop_list, phase, stopper, job_db, task_db, job_map, mem_vars, ghost_vars>>
  PROVE  Outside /\ Sorted'
<1>1. Goes /\ tm' \in [Job -> [Idx -> Places]] /\ tm'[j][i] = t
  BY MovesGoes
<1>2. /\ sort' \in [pc: {"scan", "stop", "cancel"}, todo: SUBSET Pair]
      /\ sort'.pc # "scan" => sort' = sort
  BY DEF Shapes, NotSorting
<1>3. phase.pc # "recovering" /\ lazy_delete_list' \subseteq Pair
  BY DEF Tells, Pair, Shapes
<1>4. Outside
  BY <1>1, <1>2, <1>3 DEF Outside, Shapes, ghost_vars
<1>5. \A q \in Pair : tm[q[1]][q[2]] # "out" => tm'[q[1]][q[2]] # "out"
  BY <1>1 DEF Goes, Pair
<1>6. \A q \in lazy_delete_list' : tm'[q[1]][q[2]] # "out"
  BY <1>1, <1>5 DEF Sorted, Shapes, Moves
<1>7. \A q \in Pair : tm[q[1]][q[2]] = "append" => tm'[q[1]][q[2]] = "append"
  <2>1. ASSUME NEW k \in Job, NEW l \in Idx, tm[k][l] = "append" PROVE tm'[k][l] = "append"
    <3>1. k # j \/ l # i
      BY <2>1
    <3>2. QED
      BY <2>1, <3>1 DEF Moves, Shapes
  <2>2. QED
    BY <2>1 DEF Pair
<1>8. sort.todo \subseteq Pair
  BY DEF Shapes
<1>9. QED
  BY <1>2, <1>4, <1>5, <1>6, <1>7, <1>8 DEF Sorted

LEMMA ScanOutside ==
  ASSUME Shapes, Sorted, Recovering, NEW j \in Job, NEW i \in Idx,
         Process(j, i) \/ EndTask(j, i) \/ StartFails(j, i) \/ ReportRetrying(j, i)
  PROVE  Outside /\ Sorted'
<1>1. /\ tm[j][i] \in {"queued", "waiting", "active", "failed", "stopped"} /\ phase.pc = "up"
      /\ UNCHANGED <<lazy_stop_list, phase, stopper, job_db, task_db, job_map, mem_vars, ghost_vars>>
  BY DEF Process, EndTask, StartFails, ReportRetrying, db_vars, Recovering, Shapes
<1>2. /\ tm[j][i] \in Places /\ tm[j][i] # "out" /\ tm[j][i] # "append"
      /\ "failed" \in Off /\ "finished" \in Off /\ "active" \notin Off /\ "queued" \notin Off /\ "waiting" \notin Off
      /\ "active" \in Live /\ {"active", "waiting", "failed", "finished"} \subseteq Places
  BY <1>1, Stages DEF Live, Places
<1>3. CASE Process(j, i)
  <2>1. Moves(j, i, "active") /\ call["scheduler"] = Idle
    BY <1>2, <1>3, CallIs, Callers DEF Process, Moves, Scanned, SchedulerIdle, Shapes, Calls
  <2>2. "running" \in {"running", "retrying"} /\ "scheduler" \in {"scheduler", "handler"} /\ "scheduler" # "handler"
    OBVIOUS
  <2>3. Tells("scheduler")
    BY <1>1, <1>3, <2>1, <2>2, Passing DEF Process
  <2>4. QED
    BY <1>1, <1>2, <1>3, <2>1, <2>2, <2>3, OneOutside DEF Process
<1>4. CASE EndTask(j, i)
  <2>1. PICK s \in {"finished", "failed"} : tm' = [tm EXCEPT ![j][i] = s] /\ Bill(j, i, s, sort)
    BY <1>4 DEF EndTask
  <2>2. Moves(j, i, s) /\ call["scheduler"] = Idle /\ tm[j][i] \in Live /\ sort.pc = "scan"
    BY <1>2, <1>4, <2>1, CallIs, Callers DEF EndTask, Moves, Scanned, SchedulerIdle, Shapes, Calls
  <2>3. /\ s \in EndedTask /\ TRUE \in BOOLEAN /\ s \in Off /\ (s = "finished" => s = "finished")
        /\ \/ call' = [call EXCEPT !["scheduler"] = Report(j, i, s, TRUE)]
           \/ call' = [call EXCEPT !["scheduler"] = DeadThread]
    BY <1>2, <2>1 DEF EndedTask, Bill
  <2>4. Tells("scheduler")
    BY <1>1, <2>2, <2>3, Billed
  <2>5. sort' = sort \/ sort' = NotSorting
    BY <2>1 DEF Bill
  <2>6. "scheduler" \in {"scheduler", "handler"}
    OBVIOUS
  <2>7. QED
    BY <1>1, <1>2, <1>4, <2>2, <2>4, <2>5, <2>6, OneOutside DEF EndTask
<1>5. CASE StartFails(j, i)
  <2>1. Moves(j, i, "waiting") /\ call["scheduler"] = Idle
    BY <1>2, <1>5, CallIs, Callers DEF StartFails, Moves, Scanned, SchedulerIdle, Shapes, Calls
  <2>2. "retrying" \in {"running", "retrying"} /\ "scheduler" \in {"scheduler", "handler"} /\ "scheduler" # "handler"
    OBVIOUS
  <2>3. Tells("scheduler")
    BY <1>1, <1>5, <2>1, <2>2, Passing DEF StartFails
  <2>4. QED
    BY <1>1, <1>2, <1>5, <2>1, <2>2, <2>3, OneOutside DEF StartFails
<1>6. CASE ReportRetrying(j, i)
  <2>1. PICK t : t = IF tm[j][i] = "active" THEN "waiting" ELSE tm[j][i]
    OBVIOUS
  <2>2. tm' = [tm EXCEPT ![j][i] = t]
    BY <1>6, <2>1 DEF ReportRetrying
  <2>3. Moves(j, i, t) /\ call["handler"] = Idle
    BY <1>2, <1>6, <2>1, <2>2 DEF ReportRetrying, Moves
  <2>4. "retrying" \in {"running", "retrying"} /\ "handler" \in {"scheduler", "handler"}
    OBVIOUS
  <2>5. Tells("handler")
    BY <1>1, <1>6, <2>3, <2>4, Passing DEF ReportRetrying
  <2>6. QED
    BY <1>1, <1>2, <1>6, <2>3, <2>4, <2>5, OneOutside DEF ReportRetrying
<1>7. QED
  BY <1>3, <1>4, <1>5, <1>6

\* Whatever of them changes a thread's call changes it like this.
LEMMA OutsideCalls ==
  ASSUME Shapes, Outside, NEW c \in Caller
  PROVE  \/ call'[c] = call[c]
         \/ c \in {"scheduler", "handler"} /\ Tells(c)
BY Callers DEF Outside, Tells, Turns

LEMMA OutsideJobs ==
  ASSUME Shapes, Outside, NEW j \in Job
  PROVE  job_db'[j] = job_db[j] \/ job_db'[j] = "stopping"
BY DEF Outside, Shapes

LEMMA GoesFinished ==
  ASSUME Shapes, Goes, NEW j \in Job
  PROVE  /\ \A i \in Idx : tm[j][i] = "finished" => tm'[j][i] = "finished"
         /\ \A i \in Idx : tm[j][i] \in Off => tm'[j][i] \in Off
         /\ \A i \in Idx : tm'[j][i] \in Live \union {"out"} => tm[j][i] \in Live \union {"out"}
<1>1. "finished" \in Off
  BY Stages
<1>2. \A i \in Idx : tm[j][i] \in Off => tm'[j][i] = tm[j][i]
  BY DEF Goes
<1>3. \A i \in Idx : tm[j][i] \in Places
  BY DEF Shapes
<1>4. QED
  BY <1>1, <1>2, <1>3, Stages

LEMMA OutsideRecovering == ASSUME Shapes, Recovering, Outside PROVE Recovering'
<1>1. CASE phase.pc = "up"
  BY <1>1 DEF Recovering, Outside, Shapes
<1>2. CASE phase.pc = "recovering"
  <2>1. call' = call
    BY <1>2 DEF Outside, Tells
  <2>2. QED
    BY <1>2, <2>1 DEF Recovering, Outside, Shapes
<1>3. QED
  BY <1>1, <1>2 DEF Shapes

LEMMA OutsideUnstarted == ASSUME Shapes, Unstarted, Outside PROVE Unstarted'
<1>1. \A j \in Job : call'[j] = call[j]
  BY OutsideCalls, Callers
<1>2. phase'.todo = phase.todo /\ UNCHANGED <<job_map, dependency, tasks>>
  BY DEF Outside, Shapes, mem_vars
<1>3. "stopping" \notin EndedJob \union {"none"}
  BY DEF EndedJob
<1>4. \A j \in Job : Fresh(j)' <=> Fresh(j)
  BY <1>2 DEF Fresh
<1>5. QED
  BY <1>1, <1>2, <1>3, <1>4, OutsideJobs DEF Unstarted

LEMMA OutsideReported == ASSUME Shapes, Reported, Outside PROVE Reported'
<1>1. SUFFICES ASSUME NEW c \in Caller, call'[c] \in Reports, call'[c].pc \in {"lookup", "update"}
               PROVE  LET t == tm'[call'[c].job][call'[c].task] IN
                      /\ t # "out" /\ call'[c].status \in Told
                      /\ call'[c].status \in EndedTask => t \in Off
                      /\ call'[c].status = "finished" => t = "finished"
  BY DEF Reported
<1>2. PICK q : q = call'[c]
  OBVIOUS
<1>3. q.job \in Job /\ q.task \in Idx
  BY <1>1, <1>2 DEF Reports
<1>4. CASE q = call[c]
  BY <1>1, <1>2, <1>3, <1>4, GoesFinished DEF Reported, Outside, Goes
<1>5. CASE c \in {"scheduler", "handler"} /\ Tells(c)
  <2>1. Coherent(c, q) /\ c \notin Job
    BY <1>1, <1>2, <1>5, Callers DEF Tells, Turns
  <2>2. q.status \in Told
    BY <1>1, <1>2, <2>1 DEF Coherent
  <2>3. QED
    BY <1>1, <1>2, <1>5, <2>2, CallIs DEF Tells
<1>6. QED
  BY <1>2, <1>4, <1>5, OutsideCalls

LEMMA OutsideUnhanded == ASSUME Shapes, Unhanded, Outside PROVE Unhanded'
<1>1. Goes /\ UNCHANGED <<handed, tasks, dependency>>
  BY DEF Outside, ghost_vars, mem_vars
<1>2. \A j \in Job, i \in Idx : Finished(j, i) => Finished(j, i)'
  BY <1>1, GoesFinished, DepAssumption DEF Finished
<1>3. \A j \in Job, i \in Idx : InOrder(j, i) => InOrder(j, i)'
  BY <1>1, <1>2, GoesFinished, DepAssumption DEF InOrder, Goes
<1>4. \A c \in Caller : call'[c] \in Reports /\ call'[c].todo # {} => call'[c] = call[c]
  BY OutsideCalls, CallIs DEF Tells
<1>5. ASSUME NEW c \in Caller, NEW j \in Job, Calling(c, j)', NEW i \in call'[c].todo
      PROVE  InHand(c, j, i)'
  <2>1. call'[c] = call[c] /\ Calling(c, j) /\ i \in Idx
    BY <1>4, <1>5 DEF Reports, Calling
  <2>2. \A d \in Caller : Calling(d, j)' /\ i \in call'[d].todo => Calling(d, j) /\ i \in call[d].todo
    BY <1>4 DEF Calling
  <2>3. InHand(c, j, i) /\ Finished(j, i)'
    BY <1>2, <1>5, <2>1 DEF Unhanded, InHand
  <2>4. QED
    BY <1>1, <2>2, <2>3 DEF InHand
<1>6. QED
  BY <1>3, <1>5 DEF Unhanded

LEMMA OutsideEnded == ASSUME Shapes, Ended, Outside PROVE Ended'
<1>1. Goes /\ UNCHANGED <<task_db, tasks>>
  BY DEF Outside, mem_vars
<1>2. QED
  BY <1>1, GoesFinished DEF Ended

LEMMA OutsideOver == ASSUME Shapes, Quieted, Outside PROVE Quieted'
<1>2. \A j \in Job : job_db'[j] \in {"done", "stopped"} => job_db'[j] = job_db[j]
  BY OutsideJobs
<1>3. Goes /\ UNCHANGED task_db
  BY DEF Outside
<1>4. ASSUME NEW j \in Job, Quiet(j) PROVE Quiet(j)'
  <2>1. \A i \in Idx : tm'[j][i] \notin Live
    BY <1>3, <1>4, GoesFinished, Stages DEF Quiet, Goes, Shapes
  <2>2. \A c \in Caller : Calling(c, j)' => call'[c].todo = {}
    BY <1>4, OutsideCalls, CallIs DEF Quiet, Calling, Tells
  <2>3. QED
    BY <2>1, <2>2 DEF Quiet
<1>5. QED
  BY <1>2, <1>3, <1>4 DEF Quieted

LEMMA OutsideZombies == ASSUME Shapes, Zombies, Outside PROVE Zombies'
<1>1. \A c \in Caller : call[c] = Idle \/ call'[c] = call[c]
  BY OutsideCalls DEF Tells
<1>2. \A c \in Caller, j \in Job : Tests(c, j) => Tests(c, j)'
  BY <1>1, CallIs DEF Tests
<1>3. call["scheduler"] = DeadThread => call'["scheduler"] = DeadThread
  BY <1>1, CallIs, Callers
<1>4. job_map' = job_map /\ "stopping" \notin EndedJob
  BY DEF Outside, EndedJob
<1>5. QED
  BY <1>2, <1>3, <1>4, OutsideJobs DEF Zombies, Shapes

LEMMA OutsideCounters == ASSUME Shapes, CountersMatch, Outside PROVE CountersMatch'
BY DEF CountersMatch, Outside, mem_vars

LEMMA OutsideCharging == ASSUME Shapes, Charging, Outside PROVE Charging'
<1>1. Goes /\ UNCHANGED <<charged, tasks, job_map, revived>>
  BY DEF Outside, ghost_vars, mem_vars
<1>2. PICK r, q : r = call["scheduler"] /\ q = call'["scheduler"]
  OBVIOUS
<1>3. q = r \/ (Tells("scheduler") /\ r = Idle)
  BY <1>2, OutsideCalls, Callers DEF Tells
<1>4. ASSUME NEW j \in Job, NEW i \in Idx, Charge1(j, i) PROVE Charge1(j, i)'
  <2>1. tm'[j][i] \in Live \union {"out"} => charged[j][i] = 0
    BY <1>1, <1>4, GoesFinished DEF Charge1
  <2>2. CASE q = r
    BY <1>1, <1>2, <1>4, <2>1, <2>2 DEF Charge1, At
  <2>3. CASE Tells("scheduler") /\ r = Idle
    <3>1. \A pc, S : ~ At(j, i, pc, S)
      BY <1>2, <2>3, CallIs DEF At
    <3>2. \A S : ~ At(j, i, "update", S)'
      BY <1>2, <2>3, CallIs DEF At, Tells
    <3>3. At(j, i, "lookup", {"failed", "finished"})' /\ call'["scheduler"].bill => tm[j][i] \in Live
      BY <2>3, CallIs DEF At, Tells
    <3>4. QED
      BY <1>1, <1>4, <2>1, <3>1, <3>2, <3>3 DEF Charge1
  <2>4. QED
    BY <1>3, <2>2, <2>3
<1>5. QED
  BY <1>1, <1>4 DEF Charging

LEMMA OutsideKeeps == ASSUME IInv, Outside, Sorted' PROVE IInv'
BY OutsideShapes, OutsideRecovering, OutsideUnstarted, OutsideReported, OutsideUnhanded, OutsideEnded, OutsideOver,
   OutsideZombies, OutsideCharging, OutsideCounters DEF IInv, OrderInv

-----------------------------------------------------------------------------
(* The numbers of tasks.                                                   *)

Having(T, s) == {i \in Idx : T[i] = s}
Counted(cnt, T) == \A s \in TaskStatus : cnt[s] = Cardinality(Having(T, s))

LEMMA HavingFinite ==
  ASSUME NEW T, NEW s
  PROVE  IsFiniteSet(Having(T, s)) /\ Having(T, s) \subseteq Idx /\ Cardinality(Having(T, s)) \in Nat
BY SetAssumption, FS_Subset, FS_CardinalityType DEF Having

LEMMA CountersAre ==
  /\ CountersMatch <=> \A j \in Job : Counted(tasks_cnt[j], tasks[j])
  /\ CountersMatch' <=> \A j \in Job : Counted(tasks_cnt'[j], tasks'[j])
BY DEF CountersMatch, Counted, Having

LEMMA NewCounted ==
  /\ AllPending \in [TaskStatus -> Int]
  /\ \A T : (\A i \in Idx : T[i] = "pending") => Counted(AllPending, T)
<1>1. Cardinality(Idx) \in Nat
  BY SetAssumption, FS_CardinalityType
<1>2. \A s \in TaskStatus : AllPending[s] = IF s = "pending" THEN Cardinality(Idx) ELSE 0
  BY DEF AllPending
<1>3. AllPending \in [TaskStatus -> Int]
  BY <1>1 DEF AllPending
<1>4. ASSUME NEW T, \A i \in Idx : T[i] = "pending", NEW s \in TaskStatus
      PROVE  AllPending[s] = Cardinality(Having(T, s))
  <2>1. Having(T, s) = IF s = "pending" THEN Idx ELSE {}
    BY <1>4 DEF Having
  <2>2. QED
    BY <1>2, <2>1, FS_EmptySet
<1>5. QED
  BY <1>3, <1>4 DEF Counted

LEMMA StartedIs ==
  /\ Ready0 \subseteq Idx /\ \A i \in Ready0 : Dep[i] = {}
  /\ StartedTasks \in [Idx -> TaskStatus]
  /\ \A i \in Idx : StartedTasks[i] = IF i \in Ready0 THEN "scheduling" ELSE "pending"
BY DEF Ready0, StartedTasks, TaskStatus

LEMMA StartedCounted ==
  /\ StartedCnt \in [TaskStatus -> Int] /\ Counted(StartedCnt, StartedTasks)
<1>1. IsFiniteSet(Ready0) /\ Cardinality(Ready0) \in Nat /\ Cardinality(Idx) \in Nat
  BY StartedIs, SetAssumption, FS_Subset, FS_CardinalityType
<1>2. "pending" \in TaskStatus /\ "scheduling" \in TaskStatus
  BY DEF TaskStatus
<1>3. \A s \in TaskStatus :
        StartedCnt[s] = IF s = "pending" THEN Cardinality(Idx) - Cardinality(Ready0)
                        ELSE IF s = "scheduling" THEN Cardinality(Ready0) ELSE 0
  BY <1>2 DEF StartedCnt, AllPending
<1>4. StartedCnt \in [TaskStatus -> Int]
  <2>1. StartedCnt = [s \in TaskStatus |-> StartedCnt[s]]
    BY DEF StartedCnt, AllPending
  <2>2. \A s \in TaskStatus : StartedCnt[s] \in Int
    BY <1>1, <1>3
  <2>3. QED
    BY <2>1, <2>2
<1>5. ASSUME NEW s \in TaskStatus PROVE StartedCnt[s] = Cardinality(Having(StartedTasks, s))
  <2>1. CASE s = "pending"
    <3>1. Having(StartedTasks, s) = Idx \ Ready0
      BY <2>1, StartedIs DEF Having
    <3>2. Idx \cap Ready0 = Ready0
      BY StartedIs
    <3>3. Cardinality(Idx \ Ready0) = Cardinality(Idx) - Cardinality(Ready0)
      BY <3>2, SetAssumption, FS_Difference
    <3>4. QED
      BY <1>3, <2>1, <3>1, <3>3
  <2>2. CASE s = "scheduling"
    BY <1>3, <2>2, StartedIs DEF Having
  <2>3. CASE s # "pending" /\ s # "scheduling"
    <3>1. Having(StartedTasks, s) = {}
      BY <2>3, StartedIs DEF Having
    <3>2. QED
      BY <1>3, <2>3, <3>1, FS_EmptySet
  <2>4. QED
    BY <2>1, <2>2, <2>3
<1>6. QED
  BY <1>4, <1>5 DEF Counted

\* The counters after a task goes to another status and others are released.
LEMMA RecountCounted ==
  ASSUME NEW T \in [Idx -> TaskStatus], NEW cnt \in [TaskStatus -> Int], Counted(cnt, T), NEW i \in Idx,
         T[i] # "pending", NEW s \in Told, NEW R \in SUBSET Having(T, "pending"),
         NEW U, U = [o \in Idx |-> IF o = i THEN s ELSE IF o \in R THEN "scheduling" ELSE T[o]]
  PROVE  Recount(cnt, T[i], s, R) \in [TaskStatus -> Int] /\ Counted(Recount(cnt, T[i], s, R), U)
<1>1. IsFiniteSet(R) /\ Cardinality(R) \in Nat /\ i \notin R /\ R \subseteq Idx
  <2>1. IsFiniteSet(R)
    BY HavingFinite, FS_Subset
  <2>2. QED
    BY <2>1, FS_CardinalityType DEF Having
<1>2. s # "pending" /\ s # "scheduling"
  BY Stages
<1>3. Recount(cnt, T[i], s, R) \in [TaskStatus -> Int]
  BY <1>1 DEF Recount
<1>4. ASSUME NEW x \in TaskStatus PROVE Recount(cnt, T[i], s, R)[x] = Cardinality(Having(U, x))
  <2>1. /\ IsFiniteSet(Having(T, x)) /\ Cardinality(Having(T, x)) \in Nat /\ cnt[x] = Cardinality(Having(T, x))
    BY HavingFinite DEF Counted
  <2>2. Recount(cnt, T[i], s, R)[x] =
          cnt[x] + (IF x = s THEN 1 ELSE 0) - (IF x = T[i] THEN 1 ELSE 0)
             + (IF x = "scheduling" THEN Cardinality(R) ELSE 0) - (IF x = "pending" THEN Cardinality(R) ELSE 0)
    BY DEF Recount
  <2>3. PICK B : B = Having(T, x) \ {i}
    OBVIOUS
  <2>4. PICK e \in Int : e = IF x = T[i] THEN 1 ELSE 0
    OBVIOUS
  <2>5. /\ IsFiniteSet(B) /\ i \notin B /\ Cardinality(B) \in Nat
        /\ Cardinality(B) = Cardinality(Having(T, x)) - e
    <3>1. CASE x = T[i]
      <4>1. i \in Having(T, x)
        BY <3>1 DEF Having
      <4>2. IsFiniteSet(B) /\ Cardinality(B) = Cardinality(Having(T, x)) - 1
        BY <2>1, <2>3, <4>1, FS_RemoveElement
      <4>3. QED
        BY <2>3, <2>4, <3>1, <4>2, FS_CardinalityType
    <3>2. CASE x # T[i]
      <4>1. B = Having(T, x) /\ e = 0
        BY <2>3, <2>4, <3>2 DEF Having
      <4>2. QED
        BY <2>1, <2>3, <4>1
    <3>3. QED
      BY <3>1, <3>2
  <2>6. CASE x = s
    <3>1. Having(U, x) = B \union {i}
      BY <1>1, <1>2, <2>3, <2>6 DEF Having
    <3>2. Cardinality(B \union {i}) = Cardinality(B) + 1
      BY <2>5, FS_AddElement
    <3>3. Recount(cnt, T[i], s, R)[x] = cnt[x] + 1 - e
      BY <1>2, <2>1, <2>2, <2>4, <2>6
    <3>4. Cardinality(Having(U, x)) = Cardinality(B) + 1
      BY <3>1, <3>2
    <3>5. QED
      BY <2>1, <2>5, <3>3, <3>4
  <2>7. CASE x = "scheduling"
    <3>1. Having(U, x) = B \union R /\ B \cap R = {}
      BY <1>1, <1>2, <2>3, <2>7 DEF Having
    <3>2. Cardinality(B \union R) = Cardinality(B) + Cardinality(R)
      <4>1. Cardinality(B \union R) = Cardinality(B) + Cardinality(R) - Cardinality(B \cap R)
        BY <1>1, <2>5, FS_Union
      <4>2. Cardinality(B \cap R) = 0
        BY <3>1, FS_EmptySet
      <4>3. QED
        BY <1>1, <2>5, <4>1, <4>2
    <3>3. Recount(cnt, T[i], s, R)[x] = cnt[x] - e + Cardinality(R)
      BY <1>1, <1>2, <2>1, <2>2, <2>4, <2>7
    <3>4. QED
      BY <1>1, <2>1, <2>5, <3>1, <3>2, <3>3
  <2>8. CASE x = "pending"
    <3>1. Having(U, x) = Having(T, x) \ R /\ Having(T, x) \cap R = R
      BY <1>1, <1>2, <2>8 DEF Having
    <3>2. Cardinality(Having(T, x) \ R) = Cardinality(Having(T, x)) - Cardinality(R)
      BY <2>1, <3>1, FS_Difference
    <3>3. Recount(cnt, T[i], s, R)[x] = cnt[x] - Cardinality(R)
      BY <1>1, <1>2, <2>1, <2>2, <2>8
    <3>4. QED
      BY <1>1, <2>1, <3>1, <3>2, <3>3
  <2>9. CASE x # s /\ x # "scheduling" /\ x # "pending"
    <3>1. Having(U, x) = B
      BY <1>1, <2>3, <2>9 DEF Having
    <3>2. Recount(cnt, T[i], s, R)[x] = cnt[x] - e
      BY <2>1, <2>2, <2>4, <2>9
    <3>3. QED
      BY <2>1, <2>5, <3>1, <3>2
  <2>10. QED
    BY <2>6, <2>7, <2>8, <2>9
<1>5. QED
  BY <1>3, <1>4 DEF Counted

-----------------------------------------------------------------------------
(* The beginning, and restarts.                                            *)

\* What Init and Crash set up in memory; the rows stay.
Blank ==
  /\ job_map = {} /\ tasks = NoTasks /\ dependency = [j \in Job |-> Dep]
  /\ tasks_cnt = [j \in Job |-> AllPending]
  /\ call = [c \in Caller |-> Idle] /\ stopper = [j \in Job |-> NotStopping]
  /\ tm = [j \in Job |-> [i \in Idx |-> "out"]]
  /\ lazy_delete_list = {} /\ lazy_stop_list = {} /\ sort = NotSorting
  /\ phase \in [pc: {"up", "recovering"}, todo: SUBSET Job] /\ (phase.pc = "up" => phase.todo = {})
  /\ handed = Zero /\ charged = Zero /\ revived = {}

Rows ==
  /\ job_db \in [Job -> {"none", "pending", "running", "stopping"} \union EndedJob]
  /\ task_db \in [Job -> [Idx -> TaskStatus]]
  /\ \A j \in Job : job_db[j] = "done" => \A i \in Idx : task_db[j][i] = "finished"

LEMMA BlankKeeps == Blank /\ Rows => IInv
<1> SUFFICES ASSUME Blank, Rows PROVE IInv
  OBVIOUS
<1>1. /\ \A j \in Job, i \in Idx : tasks[j][i] = "pending" /\ tm[j][i] = "out" /\ handed[j][i] = 0 /\ charged[j][i] = 0
      /\ \A j \in Job : dependency[j] = Dep /\ tasks_cnt[j] = AllPending
      /\ \A c \in Caller : call[c] = Idle
  BY DEF Blank, NoTasks, Zero
<1>2. \A c \in Caller : call[c] \notin Reports /\ call[c].pc = "idle"
  BY <1>1, CallIs
<1>3. Shapes
  <2>1. tasks \in [Job -> [Idx -> TaskStatus]]
    BY DEF Blank, NoTasks, TaskStatus
  <2>2. dependency \in [Job -> [Idx -> SUBSET Idx]]
    BY DepAssumption DEF Blank
  <2>3. tasks_cnt \in [Job -> [TaskStatus -> Int]]
    BY NewCounted DEF Blank
  <2>4. call \in [Caller -> Reports \union {Idle, DeadThread}]
    BY CallIs DEF Blank
  <2>5. stopper \in [Job -> [pc: {"idle", "stopping"}, todo: SUBSET Idx]]
    BY DEF Blank, NotStopping
  <2>6. tm \in [Job -> [Idx -> Places]]
    BY DEF Blank, Places
  <2>7. sort \in [pc: {"scan", "stop", "cancel"}, todo: SUBSET Pair]
    BY DEF Blank, NotSorting
  <2>8. handed \in [Job -> [Idx -> Nat]] /\ charged \in [Job -> [Idx -> Nat]]
    BY DEF Blank, Zero
  <2>9. \A c \in Caller : Coherent(c, call[c])
    BY <1>1, IdleCoherent
  <2>10. QED
    BY <2>1, <2>2, <2>3, <2>4, <2>5, <2>6, <2>7, <2>8, <2>9 DEF Shapes, Blank, Rows
<1>4. Sorted
  BY DEF Blank, Sorted, NotSorting
<1>5. Recovering
  BY <1>1 DEF Blank, Recovering, NotSorting
<1>6. Unstarted
  BY <1>1, <1>2, Callers DEF Blank, Unstarted, Fresh
<1>7. Reported
  BY <1>2 DEF Reported
<1>8. Unhanded
  BY <1>1, <1>2, DepAssumption DEF Unhanded, InOrder, Calling
<1>9. Ended
  BY <1>1, Stages DEF Ended, EndedTask
<1>10. Quieted
  BY <1>1, <1>2, Stages DEF Quieted, Quiet, Calling, Rows
<1>11. Zombies
  BY DEF Blank, Zombies
<1>12. Charging
  BY <1>1, <1>2, Callers DEF Charging, Charge1, At
<1>13. CountersMatch
  <2>1. \A j \in Job : Counted(AllPending, tasks[j])
    BY <1>1, NewCounted
  <2>2. QED
    BY <1>1, <2>1, CountersAre
<1>14. QED
  BY <1>3, <1>4, <1>5, <1>6, <1>7, <1>8, <1>9, <1>10, <1>11, <1>12, <1>13 DEF IInv, OrderInv

LEMMA Initially == Init => IInv
<1>1. ASSUME Init PROVE IInv
  <2>1. Blank
    BY <1>1 DEF Init, Blank
  <2>2. Rows
    BY <1>1 DEF Init, NoTasks, TaskStatus, Rows
  <2>3. QED
    BY <2>1, <2>2, BlankKeeps
<1>2. QED
  BY <1>1

LEMMA CrashKeeps == ASSUME IInv, Crash PROVE IInv'
<1>1. Blank'
  <2>1. phase' \in [pc: {"up", "recovering"}, todo: SUBSET Job] /\ phase'.pc # "up"
    BY DEF Crash
  <2>2. QED
    BY <2>1 DEF Crash, Blank
<1>2. UNCHANGED <<job_db, task_db>> /\ Shapes /\ Quieted
  BY DEF Crash, IInv, db_vars
<1>3. Rows'
  BY <1>2 DEF Shapes, Quieted, Rows
<1>4. QED
  BY <1>1, <1>3, BlankKeeps, PTL

-----------------------------------------------------------------------------
(* Jobs that begin.                                                        *)

LEMMA Parts ==
  ASSUME IInv
  PROVE  /\ Shapes /\ Sorted /\ Recovering /\ Unstarted /\ Reported /\ Unhanded /\ Ended /\ Quieted /\ Zombies
         /\ Charging /\ CountersMatch
BY DEF IInv, OrderInv

LEMMA Working ==
  ASSUME IInv, NEW c \in Caller, call[c] \in Reports
  PROVE  phase.pc = "up" /\ phase.todo = {}
<1>1. call[c] # Idle /\ phase.pc \in {"up", "recovering"}
  BY CallIs, Parts DEF Shapes
<1>2. QED
  BY <1>1, Parts DEF Recovering

\* A job that has not begun is nowhere.
LEMMA FreshIs ==
  ASSUME IInv, NEW j \in Job, Fresh(j)
  PROVE  /\ \A i \in Idx : tasks[j][i] = "pending" /\ handed[j][i] = 0 /\ tm[j][i] = "out"
         /\ \A i \in Idx : <<j, i>> \notin revived => charged[j][i] = 0
         /\ \A c \in Caller : Calling(c, j) => call[c].todo = {} /\ call[c].pc \notin {"lookup", "update"}
         /\ j \notin job_map /\ dependency[j] = Dep
         /\ \A p \in Pair : tm[p[1]][p[2]] # "out" => p[1] # j
<1>1. \A i \in Idx : tasks[j][i] = "pending" /\ handed[j][i] = 0 /\ tm[j][i] = "out"
  BY Parts DEF Fresh, Unhanded, InOrder
<1>2. \A i \in Idx : <<j, i>> \notin revived => charged[j][i] = 0
  BY <1>1, Parts DEF Charging, Charge1
<1>3. ASSUME NEW c \in Caller, Calling(c, j) PROVE call[c].todo = {} /\ call[c].pc \notin {"lookup", "update"}
  <2>1. call[c].todo \subseteq Idx /\ call[c].task \in Idx
    BY <1>3 DEF Calling, Reports
  <2>2. \A i \in call[c].todo : tasks[j][i] # "pending"
    BY <1>3, Parts DEF Unhanded, InHand
  <2>3. call[c].pc \in {"lookup", "update"} => tm[j][call[c].task] # "out"
    BY <1>3, Parts DEF Reported, Calling
  <2>4. QED
    BY <1>1, <2>1, <2>2, <2>3
<1>4. QED
  BY <1>1, <1>2, <1>3 DEF Fresh, Pair

LEMMA CreateKeeps == ASSUME IInv, NEW j \in Job, CreateJob(j) PROVE IInv'
<1>1. /\ job_db[j] = "none" /\ job_db' = [job_db EXCEPT ![j] = "pending"] /\ call' = [call EXCEPT ![j] = Adding(j)]
      /\ phase.pc = "up" /\ phase' = phase
      /\ UNCHANGED <<task_db, job_map, tasks, dependency, tasks_cnt, stopper, tm, lazy_delete_list, lazy_stop_list,
                     sort, handed, charged, revived>>
  BY DEF CreateJob, mem_vars, tm_vars, ghost_vars
<1>2. PICK q : q = Adding(j)
  OBVIOUS
<1>3. /\ q \in Reports /\ q.pc = "start" /\ q.job = j /\ q.todo = {} /\ q.nested = FALSE /\ q.report = FALSE
      /\ q.bill = FALSE
  <2>1. (CHOOSE i \in Idx : TRUE) \in Idx
    BY SetAssumption
  <2>2. "pending" \in TaskStatus
    BY DEF TaskStatus
  <2>3. QED
    BY <1>2, <2>1, <2>2 DEF Adding, Report, Reports
<1>4. Shapes /\ Fresh(j) /\ j \in Caller
  BY <1>1, Parts, Callers DEF Unstarted
<1>5. Coherent(j, q)
  BY <1>3, <1>4, CallIs, Callers DEF Coherent
<1>6. /\ Turns(j) /\ call'[j] = q /\ call' \in [Caller -> Calls]
      /\ \A d \in Caller : Coherent(d, call'[d])
  BY <1>1, <1>2, <1>4, <1>5, CallTurns, TurnsCoherent
<1>7. \A d \in Caller : d # j => call'[d] = call[d]
  BY <1>6 DEF Turns
<1>8. /\ job_db' \in [Job -> {"none", "pending", "running", "stopping"} \union EndedJob] /\ job_db'[j] = "pending"
      /\ \A k \in Job : k # j => job_db'[k] = job_db[k]
  BY <1>1, <1>4 DEF Shapes
<1>9. "pending" \notin EndedJob \union {"none"}
  BY DEF EndedJob
<1>10. Shapes'
  BY <1>1, <1>4, <1>6, <1>8 DEF Shapes, Calls
<1>11. Sorted'
  BY <1>1, Parts DEF Sorted
<1>12. Recovering'
  BY <1>1, Parts DEF Recovering
<1>13. Unstarted'
  <2>1. \A k \in Job : Fresh(k)' <=> Fresh(k)
    BY <1>1 DEF Fresh
  <2>2. QED
    BY <1>1, <1>4, <1>7, <1>8, <1>9, <2>1, Parts, Callers DEF Unstarted
<1>14. Reported'
  BY <1>1, <1>3, <1>6, <1>7, Parts DEF Reported
<1>15. Unhanded'
  <2>1. \A k \in Job, i \in Idx : InOrder(k, i)'
    BY <1>1, Parts DEF Unhanded, InOrder, Finished
  <2>2. \A c \in Caller, k \in Job : \A i \in call'[c].todo : Calling(c, k)' => Calling(c, k) /\ call'[c] = call[c]
    BY <1>3, <1>6, <1>7 DEF Calling
  <2>3. ASSUME NEW c \in Caller, NEW k \in Job, Calling(c, k)', NEW i \in call'[c].todo PROVE InHand(c, k, i)'
    <3>1. InHand(c, k, i)
      BY <2>2, <2>3, Parts DEF Unhanded
    <3>2. \A d \in Caller : Calling(d, k)' /\ i \in call'[d].todo => Calling(d, k) /\ i \in call[d].todo
      BY <2>2
    <3>3. QED
      BY <1>1, <3>1, <3>2 DEF InHand, Finished
  <2>4. QED
    BY <2>1, <2>3 DEF Unhanded
<1>16. Ended'
  BY <1>1, Parts DEF Ended
<1>17. Quieted'
  <2>1. \A k \in Job : Quiet(k) => Quiet(k)'
    BY <1>1, <1>3, <1>6, <1>7 DEF Quiet, Calling
  <2>2. QED
    BY <1>1, <1>8, <2>1, Parts DEF Quieted
<1>18. Zombies'
  <2>1. \A c \in Caller, k \in Job : Tests(c, k) /\ c # j => Tests(c, k)'
    BY <1>7 DEF Tests
  <2>2. \A k \in Job : Tests(j, k) => k = j
    BY <1>4, Callers DEF Tests, Shapes, Coherent
  <2>3. call'["scheduler"] = call["scheduler"]
    BY <1>7, Callers
  <2>4. \A k \in Job : job_db'[k] \in EndedJob => job_db[k] \in EndedJob /\ k # j
    BY <1>8, <1>9
  <2>5. QED
    BY <1>1, <1>4, <2>1, <2>2, <2>3, <2>4, Parts DEF Zombies, Shapes
<1>19. Charging'
  <2>1. call'["scheduler"] = call["scheduler"]
    BY <1>7, Callers
  <2>2. QED
    BY <1>1, <2>1, Parts DEF Charging, Charge1, At
<1>20. CountersMatch'
  BY <1>1, Parts DEF CountersMatch
<1>21. QED
  BY <1>10, <1>11, <1>12, <1>13, <1>14, <1>15, <1>16, <1>17, <1>18, <1>19, <1>20 DEF IInv, OrderInv

\* The tasks of a job that begins.
LEMMA Begins ==
  ASSUME IInv, NEW j \in Job, tasks' = [tasks EXCEPT ![j] = StartedTasks],
         tasks_cnt' = [tasks_cnt EXCEPT ![j] = StartedCnt], task_db' = [task_db EXCEPT ![j] = StartedTasks]
  PROVE  /\ tasks' \in [Job -> [Idx -> TaskStatus]] /\ task_db' \in [Job -> [Idx -> TaskStatus]]
         /\ tasks_cnt' \in [Job -> [TaskStatus -> Int]] /\ CountersMatch'
         /\ \A k \in Job : k # j => tasks'[k] = tasks[k] /\ task_db'[k] = task_db[k]
         /\ \A i \in Idx : tasks'[j][i] = IF i \in Ready0 THEN "scheduling" ELSE "pending"
<1>1. /\ tasks \in [Job -> [Idx -> TaskStatus]] /\ task_db \in [Job -> [Idx -> TaskStatus]]
      /\ tasks_cnt \in [Job -> [TaskStatus -> Int]]
  BY Parts DEF Shapes
<1>2. /\ tasks'[j] = StartedTasks /\ tasks_cnt'[j] = StartedCnt
      /\ \A k \in Job : k # j => tasks'[k] = tasks[k] /\ task_db'[k] = task_db[k] /\ tasks_cnt'[k] = tasks_cnt[k]
  BY <1>1
<1>3. CountersMatch'
  <2>1. \A k \in Job : Counted(tasks_cnt[k], tasks[k])
    BY Parts, CountersAre
  <2>2. Counted(tasks_cnt'[j], tasks'[j])
    BY <1>2, StartedCounted
  <2>3. \A k \in Job : Counted(tasks_cnt'[k], tasks'[k])
    BY <1>2, <2>1, <2>2
  <2>4. QED
    BY <2>3, CountersAre
<1>4. QED
  BY <1>1, <1>2, <1>3, StartedIs, StartedCounted

LEMMA RecoverKeeps == ASSUME IInv, NEW j \in Job, RecoverJob(j) PROVE IInv'
<1>1. /\ phase.pc = "recovering" /\ j \in phase.todo
      /\ job_db' = [job_db EXCEPT ![j] = "pending"] /\ job_map' = job_map \cup {j}
      /\ tasks' = [tasks EXCEPT ![j] = StartedTasks] /\ tasks_cnt' = [tasks_cnt EXCEPT ![j] = StartedCnt]
      /\ task_db' = [task_db EXCEPT ![j] = StartedTasks]
      /\ UNCHANGED <<dependency, call, stopper, lazy_delete_list, lazy_stop_list, sort, charged, revived>>
  BY DEF RecoverJob
<1>2. PICK added \in SUBSET Ready0, tried \in SUBSET Ready0 :
        /\ added \subseteq tried
        /\ handed' = [handed EXCEPT ![j] = [i \in Idx |-> IF i \in tried THEN 1 ELSE 0]]
        /\ tm' = [tm EXCEPT ![j] = [i \in Idx |-> IF i \in added THEN "append" ELSE "out"]]
        /\ \/ phase' = [phase EXCEPT !.todo = @ \ {j}]
           \/ phase' = [pc |-> "up", todo |-> {}]
  BY DEF RecoverJob
<1>3. /\ Shapes /\ Fresh(j) /\ "scheduler" \in Caller /\ sort.pc = "scan"
      /\ \A c \in Caller : call[c] = Idle
      /\ \A k \in Job, i \in Idx : tm[k][i] \in {"out", "append"}
  BY <1>1, Parts, Callers DEF Unstarted, Recovering
<1>4. \A c \in Caller : call'[c] = Idle /\ call'[c] \notin Reports /\ call'[c].pc # "start"
  BY <1>1, <1>3, CallIs
<1>5. /\ tasks' \in [Job -> [Idx -> TaskStatus]] /\ task_db' \in [Job -> [Idx -> TaskStatus]]
      /\ tasks_cnt' \in [Job -> [TaskStatus -> Int]] /\ CountersMatch'
      /\ \A k \in Job : k # j => tasks'[k] = tasks[k] /\ task_db'[k] = task_db[k]
      /\ \A i \in Idx : tasks'[j][i] = IF i \in Ready0 THEN "scheduling" ELSE "pending"
  BY <1>1, Begins
<1>6. /\ handed' \in [Job -> [Idx -> Nat]]
      /\ \A i \in Idx : handed'[j][i] = IF i \in tried THEN 1 ELSE 0
      /\ \A k \in Job : k # j => handed'[k] = handed[k]
  BY <1>2, <1>3 DEF Shapes
<1>7. /\ tm' \in [Job -> [Idx -> Places]]
      /\ \A i \in Idx : tm'[j][i] = IF i \in added THEN "append" ELSE "out"
      /\ \A k \in Job : k # j => tm'[k] = tm[k]
  BY <1>2, <1>3 DEF Shapes, Places
<1>8. /\ job_db' \in [Job -> {"none", "pending", "running", "stopping"} \union EndedJob] /\ job_db'[j] = "pending"
      /\ \A k \in Job : k # j => job_db'[k] = job_db[k]
  BY <1>1, <1>3 DEF Shapes
<1>9. "pending" \notin EndedJob \union {"none"}
  BY DEF EndedJob
<1>10. /\ phase' \in [pc: {"up", "recovering"}, todo: SUBSET Job] /\ phase'.todo \subseteq phase.todo \ {j}
       /\ phase'.pc = "up" => phase'.todo = {}
  BY <1>1, <1>2, <1>3 DEF Shapes
<1>11. Shapes'
  BY <1>1, <1>3, <1>5, <1>6, <1>7, <1>8, <1>10 DEF Shapes
<1>12. Sorted'
  <2>1. \A p \in Pair : tm[p[1]][p[2]] # "out" => p[1] # j /\ p[1] \in Job
    BY <1>3, FreshIs DEF Pair
  <2>2. \A p \in Pair : tm[p[1]][p[2]] # "out" => tm'[p[1]][p[2]] = tm[p[1]][p[2]]
    BY <1>7, <2>1
  <2>3. QED
    BY <1>1, <1>3, <2>2, Parts DEF Sorted, Shapes
<1>13. Recovering'
  <2>1. \A k \in Job, i \in Idx : tm'[k][i] \in {"out", "append"}
    BY <1>3, <1>7
  <2>2. QED
    BY <1>1, <1>3, <1>4, <1>10, <2>1 DEF Recovering
<1>14. Unstarted'
  <2>1. \A k \in Job : k # j /\ Fresh(k) => Fresh(k)'
    BY <1>1, <1>5 DEF Fresh
  <2>2. QED
    BY <1>4, <1>8, <1>9, <1>10, <2>1, Parts, Callers DEF Unstarted
<1>15. Reported'
  BY <1>4 DEF Reported
<1>16. Unhanded'
  <2>1. ASSUME NEW k \in Job, k # j, NEW i \in Idx PROVE InOrder(k, i)'
    <3>1. InOrder(k, i)
      BY Parts DEF Unhanded
    <3>2. tasks'[k] = tasks[k] /\ handed'[k] = handed[k] /\ tm'[k] = tm[k] /\ dependency' = dependency
      BY <1>1, <1>5, <1>6, <1>7, <2>1
    <3>3. QED
      BY <3>1, <3>2 DEF InOrder, Finished
  <2>2. ASSUME NEW i \in Idx PROVE InOrder(j, i)'
    <3>1. dependency'[j][i] = Dep[i]
      BY <1>1, <1>3, FreshIs
    <3>2. handed'[j][i] = 1 => Dep[i] = {}
      BY <1>6, StartedIs
    <3>3. handed'[j][i] \in {0, 1} /\ (handed'[j][i] = 0 => tm'[j][i] = "out")
      BY <1>2, <1>6, <1>7
    <3>4. tasks'[j][i] = "pending" => handed'[j][i] = 0
      BY <1>5, <1>6
    <3>5. QED
      BY <3>1, <3>2, <3>3, <3>4 DEF InOrder, Finished
  <2>3. QED
    BY <1>4, <2>1, <2>2 DEF Unhanded, Calling
<1>17. Ended'
  <2>1. \A i \in Idx : tasks'[j][i] \notin EndedTask
    BY <1>5, Stages
  <2>2. ASSUME NEW k \in Job, k # j PROVE tm'[k] = tm[k] /\ task_db'[k] = task_db[k] /\ tasks'[k] = tasks[k]
    BY <1>5, <1>7, <2>2
  <2>3. "finished" \in EndedTask
    BY DEF EndedTask
  <2>4. QED
    BY <2>1, <2>2, <2>3, Parts DEF Ended
<1>18. Quieted'
  <2>1. ASSUME NEW k \in Job, k # j PROVE (Quiet(k) => Quiet(k)') /\ job_db'[k] = job_db[k] /\ task_db'[k] = task_db[k]
    BY <1>4, <1>5, <1>7, <1>8, <2>1 DEF Quiet, Calling
  <2>2. job_db'[j] \notin {"done", "stopped"}
    BY <1>8
  <2>3. QED
    BY <2>1, <2>2, Parts DEF Quieted
<1>19. Zombies'
  <2>1. \A c \in Caller, k \in Job : ~ Tests(c, k)
    BY <1>3, CallIs DEF Tests
  <2>2. \A k \in job_map : job_db[k] \notin EndedJob
    BY <1>3, <2>1, CallIs, Parts DEF Zombies, Shapes
  <2>3. QED
    BY <1>1, <1>3, <1>8, <1>9, <2>2 DEF Zombies, Shapes
<1>20. Charging'
  <2>1. \A k \in Job, i \in Idx : \A pc, S : ~ At(k, i, pc, S) /\ ~ At(k, i, pc, S)'
    BY <1>3, <1>4, CallIs DEF At
  <2>2. ASSUME NEW i \in Idx, <<j, i>> \notin revived PROVE Charge1(j, i)'
    BY <1>1, <1>3, <2>1, <2>2, FreshIs DEF Charge1
  <2>3. ASSUME NEW k \in Job, k # j, NEW i \in Idx, Charge1(k, i) PROVE Charge1(k, i)'
    BY <1>1, <1>5, <1>7, <2>1, <2>3 DEF Charge1
  <2>4. QED
    BY <1>1, <2>2, <2>3, Parts DEF Charging
<1>21. QED
  BY <1>5, <1>11, <1>12, <1>13, <1>14, <1>15, <1>16, <1>17, <1>18, <1>19, <1>20 DEF IInv, OrderInv

LEMMA StartKeeps == ASSUME IInv, NEW j \in Job, StartJob(j) PROVE IInv'
<1>1. /\ call[j].pc = "start" /\ job_map' = job_map \cup {j}
      /\ tasks' = [tasks EXCEPT ![j] = StartedTasks] /\ tasks_cnt' = [tasks_cnt EXCEPT ![j] = StartedCnt]
      /\ task_db' = [task_db EXCEPT ![j] = StartedTasks]
      /\ call' = [call EXCEPT ![j] = Proceed([@ EXCEPT !.todo = Ready0])]
      /\ UNCHANGED <<job_db, dependency, stopper, tm, lazy_delete_list, lazy_stop_list, sort, phase, handed, charged,
                     revived>>
  BY DEF StartJob, tm_vars, ghost_vars
<1>2. PICK r, q : r = call[j] /\ q = Proceed([r EXCEPT !.todo = Ready0])
  OBVIOUS
<1>3. /\ Shapes /\ j \in Caller /\ j # "scheduler" /\ j # "handler" /\ Coherent(j, r) /\ r \in Reports
      /\ r.job = j /\ r.report = FALSE
  BY <1>1, <1>2, Parts, Callers, CallIs DEF Shapes, Calls, Coherent, Reports
<1>4. Fresh(j) /\ job_db[j] \notin EndedJob \union {"none"} /\ phase.todo = {} /\ phase.pc = "up"
  BY <1>1, <1>2, <1>3, Parts, Working DEF Unstarted
<1>5. Follows(q, r, Ready0)
  BY <1>2, <1>3, StartedIs, ProceedFollows
<1>6. Coherent(j, q)
  BY <1>3, <1>5, StartedIs, FollowsCoherent
<1>7. /\ Turns(j) /\ call'[j] = q /\ call' \in [Caller -> Calls]
      /\ \A d \in Caller : Coherent(d, call'[d])
  BY <1>1, <1>2, <1>3, <1>6, CallTurns, TurnsCoherent
<1>8. \A d \in Caller : d # j => call'[d] = call[d]
  BY <1>7 DEF Turns
<1>9. q \in Reports => q.job = j /\ q.todo = Ready0 /\ q.pc \in {"add", "check"} /\ (q.report = FALSE)
  BY <1>3, <1>5, CallIs DEF Follows
<1>10. q.pc # "start" /\ (q \in Reports => q.pc = "add")
  BY <1>3, <1>5, CallIs DEF Follows
<1>11. /\ tasks' \in [Job -> [Idx -> TaskStatus]] /\ task_db' \in [Job -> [Idx -> TaskStatus]]
       /\ tasks_cnt' \in [Job -> [TaskStatus -> Int]] /\ CountersMatch'
       /\ \A k \in Job : k # j => tasks'[k] = tasks[k] /\ task_db'[k] = task_db[k]
       /\ \A i \in Idx : tasks'[j][i] = IF i \in Ready0 THEN "scheduling" ELSE "pending"
  BY <1>1, Begins
<1>12. /\ \A i \in Idx : tasks[j][i] = "pending" /\ handed[j][i] = 0 /\ tm[j][i] = "out"
       /\ \A i \in Idx : <<j, i>> \notin revived => charged[j][i] = 0
       /\ \A c \in Caller : Calling(c, j) => call[c].todo = {} /\ call[c].pc \notin {"lookup", "update"}
       /\ dependency[j] = Dep
  BY <1>4, FreshIs
<1>13. Shapes'
  BY <1>1, <1>3, <1>7, <1>11 DEF Shapes, Calls
<1>14. Sorted'
  BY <1>1, Parts DEF Sorted
<1>15. Recovering'
  BY <1>1, <1>4 DEF Recovering
<1>16. Unstarted'
  <2>1. \A k \in Job : k # j /\ Fresh(k) => Fresh(k)'
    BY <1>1, <1>11 DEF Fresh
  <2>2. \A k \in Job : k # j => call'[k] = call[k]
    BY <1>8, Callers
  <2>3. QED
    BY <1>1, <1>4, <1>7, <1>10, <2>1, <2>2, Parts DEF Unstarted
<1>17. Reported'
  BY <1>1, <1>7, <1>8, <1>9, Parts DEF Reported
<1>18. Unhanded'
  <2>1. ASSUME NEW k \in Job, k # j, NEW i \in Idx PROVE InOrder(k, i)'
    <3>1. InOrder(k, i) /\ tasks'[k] = tasks[k]
      BY <1>11, <2>1, Parts DEF Unhanded
    <3>2. QED
      BY <1>1, <3>1 DEF InOrder, Finished
  <2>2. ASSUME NEW i \in Idx PROVE InOrder(j, i)'
    BY <1>1, <1>12 DEF InOrder
  <2>3. ASSUME NEW c \in Caller, NEW k \in Job, k # j, Calling(c, k)', NEW i \in call'[c].todo PROVE InHand(c, k, i)'
    <3>1. \A d \in Caller : Calling(d, k)' => Calling(d, k) /\ call'[d] = call[d]
      BY <1>7, <1>8, <1>9, <2>3 DEF Calling
    <3>2. InHand(c, k, i) /\ tasks'[k] = tasks[k]
      BY <1>11, <2>3, <3>1, Parts DEF Unhanded
    <3>3. QED
      BY <1>1, <3>1, <3>2 DEF InHand, Finished
  <2>4. ASSUME NEW c \in Caller, Calling(c, j)', NEW i \in call'[c].todo PROVE InHand(c, j, i)'
    <3>1. \A d \in Caller : Calling(d, j)' /\ d # j => call'[d].todo = {}
      BY <1>8, <1>12 DEF Calling
    <3>2. c = j /\ i \in Ready0 /\ i \in Idx
      BY <1>7, <1>9, <2>4, <3>1, StartedIs DEF Calling
    <3>3. Dep[i] = {} /\ tasks'[j][i] # "pending" /\ handed'[j][i] = 0
      BY <1>1, <1>11, <1>12, <3>2, StartedIs
    <3>4. QED
      BY <3>1, <3>2, <3>3 DEF InHand, Finished
  <2>5. \A k \in Job, i \in Idx : InOrder(k, i)'
    BY <2>1, <2>2
  <2>6. \A c \in Caller, k \in Job : Calling(c, k)' => \A i \in call'[c].todo : InHand(c, k, i)'
    BY <2>3, <2>4
  <2>7. QED
    BY <2>5, <2>6 DEF Unhanded
<1>19. Ended'
  <2>1. \A i \in Idx : tasks'[j][i] \notin EndedTask
    BY <1>11, Stages
  <2>2. ASSUME NEW k \in Job, k # j PROVE tm'[k] = tm[k] /\ task_db'[k] = task_db[k] /\ tasks'[k] = tasks[k]
    BY <1>1, <1>11, <2>2
  <2>3. "finished" \in EndedTask
    BY DEF EndedTask
  <2>4. QED
    BY <2>1, <2>2, <2>3, Parts DEF Ended
<1>20. Quieted'
  <2>1. ASSUME NEW k \in Job, k # j PROVE (Quiet(k) => Quiet(k)') /\ job_db'[k] = job_db[k] /\ task_db'[k] = task_db[k]
    BY <1>1, <1>7, <1>8, <1>9, <1>11, <2>1 DEF Quiet, Calling
  <2>2. job_db'[j] \notin {"done", "stopped"}
    BY <1>1, <1>4 DEF EndedJob
  <2>3. QED
    BY <2>1, <2>2, Parts DEF Quieted
<1>21. Zombies'
  <2>1. \A c \in Caller, k \in Job : Tests(c, k) /\ c # j => Tests(c, k)'
    BY <1>8 DEF Tests
  <2>2. \A k \in Job : Tests(j, k) => k = j
    BY <1>2, <1>3 DEF Tests
  <2>3. call'["scheduler"] = call["scheduler"]
    BY <1>3, <1>8, Callers
  <2>4. QED
    BY <1>1, <1>3, <1>4, <2>1, <2>2, <2>3, Parts DEF Zombies, Shapes
<1>22. Charging'
  <2>1. call'["scheduler"] = call["scheduler"]
    BY <1>3, <1>8, Callers
  <2>2. \A k \in Job, i \in Idx : \A pc, S : At(k, i, pc, S)' <=> At(k, i, pc, S)
    BY <2>1 DEF At
  <2>3. ASSUME NEW i \in Idx, <<j, i>> \notin revived PROVE Charge1(j, i)'
    BY <1>1, <1>12, <2>3 DEF Charge1
  <2>4. ASSUME NEW k \in Job, k # j, NEW i \in Idx, Charge1(k, i) PROVE Charge1(k, i)'
    BY <1>1, <1>11, <2>1, <2>2, <2>4 DEF Charge1
  <2>5. QED
    BY <1>1, <2>3, <2>4, Parts DEF Charging
<1>23. QED
  BY <1>11, <1>13, <1>14, <1>15, <1>16, <1>17, <1>18, <1>19, <1>20, <1>21, <1>22 DEF IInv, OrderInv

-----------------------------------------------------------------------------
(* Calls of report.                                                        *)

\* The thread c, in the call r, goes on with q, for the same job.
Onward(c, r, q) ==
  /\ Shapes /\ r = call[c] /\ r \in Reports /\ q = call'[c] /\ Coherent(c, r)
  /\ r.job \in Job /\ r.task \in Idx /\ r.todo \subseteq Idx
  /\ q \in {Idle, DeadThread} \/ (q \in Reports /\ q.job = r.job /\ q.pc # "start")
  /\ \A d \in Caller : d # c => call'[d] = call[d]
  /\ phase.pc = "up" /\ phase.todo = {} /\ phase' = phase

LEMMA OnwardCalls ==
  ASSUME NEW c \in Caller, NEW r, NEW q, Onward(c, r, q), NEW k \in Job, k # r.job
  PROVE  \A d \in Caller : /\ Calling(d, k)' <=> Calling(d, k)
                           /\ Calling(d, k) => call'[d] = call[d]
                           /\ Tests(d, k)' <=> Tests(d, k)
BY CallIs DEF Onward, Calling, Tests

LEMMA OnwardTests ==
  ASSUME NEW c \in Caller, NEW r, NEW q, Onward(c, r, q)
  PROVE  \A d \in Caller, k \in Job : Tests(d, k) /\ d # c => Tests(d, k)'
BY DEF Onward, Tests

\* A look into job_map.
LEMMA LookupForm ==
  ASSUME IInv, NEW c \in Caller, Lookup(c)
  PROVE  \E r, q : 
    /\ Onward(c, r, q) /\ r.pc = "lookup" /\ call' \in [Caller -> Calls] /\ \A d \in Caller : Coherent(d, call'[d])
    /\ \/ /\ r.job \in job_map /\ task_db' = task_db
          /\ q \in Reports /\ q.pc = "update" /\ q.task = r.task /\ q.status = r.status /\ q.todo = r.todo
       \/ /\ r.job \notin job_map /\ task_db' \in [Job -> [Idx -> TaskStatus]]
          /\ \A k \in Job, l \in Idx : task_db[k][l] \in EndedTask => task_db'[k][l] = task_db[k][l]
          /\ q \in Reports => q.pc \in {"add", "check"} /\ q.todo = r.todo
    /\ \/ /\ r.bill /\ r.status \in {"failed", "finished"}
          /\ charged' = [charged EXCEPT ![r.job][r.task] = @ + 1]
       \/ ~ (r.bill /\ r.status \in {"failed", "finished"}) /\ charged' = charged
    /\ UNCHANGED <<job_db, job_map, tasks, dependency, tasks_cnt, stopper, tm, lazy_delete_list, lazy_stop_list, sort,
                   handed, revived>>
<1>1. PICK r, q : r = call[c] /\ q = call'[c]
  OBVIOUS
<1>2. /\ r.pc = "lookup" /\ phase' = phase
      /\ UNCHANGED <<job_db, job_map, tasks, dependency, tasks_cnt, stopper, tm, lazy_delete_list, lazy_stop_list, sort,
                     handed, revived>>
  BY <1>1 DEF Lookup, mem_vars, tm_vars
<1>3. /\ Shapes /\ Coherent(c, r) /\ r \in Reports /\ r.job \in Job /\ r.task \in Idx /\ r.status \in TaskStatus
      /\ r.todo \subseteq Idx
  BY <1>1, <1>2, Parts, CallIs DEF Shapes, Calls, Reports
<1>4. phase.pc = "up" /\ phase.todo = {}
  BY <1>1, <1>3, Working
<1>5. \/ /\ r.bill /\ r.status \in {"failed", "finished"}
         /\ charged' = [charged EXCEPT ![r.job][r.task] = @ + 1]
      \/ ~ (r.bill /\ r.status \in {"failed", "finished"}) /\ charged' = charged
  BY <1>1 DEF Lookup, Charge
<1>6. CASE r.job \in job_map
  <2>1. call' = [call EXCEPT ![c].pc = "update"] /\ task_db' = task_db
    BY <1>1, <1>6 DEF Lookup
  <2>2. PICK p : p = [r EXCEPT !.pc = "update"]
    OBVIOUS
  <2>3. /\ p \in Reports /\ p.pc = "update" /\ p.job = r.job /\ p.task = r.task /\ p.status = r.status /\ p.todo = r.todo
        /\ p.nested = r.nested /\ p.bill = r.bill /\ p.report = r.report
    BY <1>3, <2>2 DEF Reports
  <2>4. Coherent(c, p)
    BY <1>2, <1>3, <2>3, CallIs DEF Coherent
  <2>5. call' = [call EXCEPT ![c] = p]
    BY <1>1, <2>1, <2>2
  <2>6. Turns(c) /\ q = p
    BY <1>1, <1>3, <2>4, <2>5, CallTurns
  <2>7. call' \in [Caller -> Calls] /\ \A d \in Caller : Coherent(d, call'[d])
    BY <1>3, <2>6, TurnsCoherent
  <2>8. Onward(c, r, q)
    BY <1>1, <1>2, <1>3, <1>4, <2>3, <2>6 DEF Onward, Turns
  <2>9. QED
    BY <1>2, <1>5, <1>6, <2>1, <2>3, <2>6, <2>7, <2>8
<1>7. CASE r.job \notin job_map
  <2>1. /\ call' = [call EXCEPT ![c] = IF r.nested THEN Proceed(r) ELSE Idle]
        /\ task_db' = IF task_db[r.job][r.task] \in EndedTask THEN task_db
                      ELSE [task_db EXCEPT ![r.job][r.task] = r.status]
    BY <1>1, <1>7 DEF Lookup
  <2>2. PICK p : p = IF r.nested THEN Proceed(r) ELSE Idle
    OBVIOUS
  <2>3. p = Idle \/ Follows(p, r, r.todo)
    <3>1. r = [r EXCEPT !.todo = r.todo]
      BY <1>3 DEF Reports
    <3>2. QED
      BY <1>3, <2>2, <3>1, ProceedFollows
  <2>4. p = Idle \/ (p \in Reports /\ p.job = r.job /\ p.pc \in {"add", "check"} /\ p.todo = r.todo)
    BY <2>3 DEF Follows
  <2>5. Coherent(c, p)
    <3>1. r.todo # {} => c # "handler"
      BY <1>2, <1>3, Stages DEF Coherent
    <3>2. QED
      BY <1>2, <1>3, <2>3, <3>1, FollowsCoherent, IdleCoherent
  <2>6. Turns(c) /\ q = p
    BY <1>1, <1>3, <2>1, <2>2, <2>5, CallTurns
  <2>7. call' \in [Caller -> Calls] /\ \A d \in Caller : Coherent(d, call'[d])
    BY <1>3, <2>6, TurnsCoherent
  <2>8. Onward(c, r, q)
    BY <1>1, <1>2, <1>3, <1>4, <2>4, <2>6 DEF Onward, Turns
  <2>9. /\ task_db' \in [Job -> [Idx -> TaskStatus]]
        /\ \A k \in Job, l \in Idx : task_db[k][l] \in EndedTask => task_db'[k][l] = task_db[k][l]
    <3>1. CASE task_db[r.job][r.task] \in EndedTask
      BY <1>3, <2>1, <3>1 DEF Shapes
    <3>2. CASE task_db[r.job][r.task] \notin EndedTask
      <4>1. /\ task_db' \in [Job -> [Idx -> TaskStatus]]
            /\ \A k \in Job, l \in Idx : k # r.job \/ l # r.task => task_db'[k][l] = task_db[k][l]
        BY <1>3, <2>1, <3>2, SetAt DEF Shapes
      <4>2. QED
        BY <3>2, <4>1
    <3>3. QED
      BY <3>1, <3>2
  <2>10. q \in Reports => q.pc \in {"add", "check"} /\ q.todo = r.todo
    BY <2>4, <2>6, CallIs
  <2>11. QED
    BY <1>2, <1>5, <1>7, <2>7, <2>8, <2>9, <2>10
<1>8. QED
  BY <1>6, <1>7

LEMMA LookupKeeps == ASSUME IInv, NEW c \in Caller, Lookup(c) PROVE IInv'
<1>1. PICK r, q : 
    /\ Onward(c, r, q) /\ r.pc = "lookup" /\ call' \in [Caller -> Calls] /\ \A d \in Caller : Coherent(d, call'[d])
    /\ \/ /\ r.job \in job_map /\ task_db' = task_db
          /\ q \in Reports /\ q.pc = "update" /\ q.task = r.task /\ q.status = r.status /\ q.todo = r.todo
       \/ /\ r.job \notin job_map /\ task_db' \in [Job -> [Idx -> TaskStatus]]
          /\ \A k \in Job, l \in Idx : task_db[k][l] \in EndedTask => task_db'[k][l] = task_db[k][l]
          /\ q \in Reports => q.pc \in {"add", "check"} /\ q.todo = r.todo
    /\ \/ /\ r.bill /\ r.status \in {"failed", "finished"}
          /\ charged' = [charged EXCEPT ![r.job][r.task] = @ + 1]
       \/ ~ (r.bill /\ r.status \in {"failed", "finished"}) /\ charged' = charged
    /\ UNCHANGED <<job_db, job_map, tasks, dependency, tasks_cnt, stopper, tm, lazy_delete_list, lazy_stop_list, sort,
                   handed, revived>>
  BY LookupForm
<1>2. /\ Shapes /\ r = call[c] /\ r \in Reports /\ q = call'[c] /\ Coherent(c, r) /\ r.job \in Job /\ r.task \in Idx
      /\ phase.pc = "up" /\ phase.todo = {} /\ phase' = phase
      /\ \A d \in Caller : d # c => call'[d] = call[d]
      /\ q \in {Idle, DeadThread} \/ (q \in Reports /\ q.job = r.job /\ q.pc # "start" /\ q.todo = r.todo)
  BY <1>1 DEF Onward
<1>3. /\ task_db' \in [Job -> [Idx -> TaskStatus]]
      /\ \A k \in Job, l \in Idx : task_db[k][l] \in EndedTask => task_db'[k][l] = task_db[k][l]
  BY <1>1, <1>2 DEF Shapes
<1>4. /\ charged' \in [Job -> [Idx -> Nat]]
      /\ \A k \in Job, l \in Idx : k # r.job \/ l # r.task => charged'[k][l] = charged[k][l]
      /\ \/ r.bill /\ r.status \in {"failed", "finished"} /\ charged'[r.job][r.task] = charged[r.job][r.task] + 1
         \/ charged'[r.job][r.task] = charged[r.job][r.task]
  <2>1. CASE charged' = charged
    BY <1>2, <2>1 DEF Shapes
  <2>2. CASE charged' = [charged EXCEPT ![r.job][r.task] = @ + 1] /\ r.bill /\ r.status \in {"failed", "finished"}
    <3>1. charged[r.job][r.task] + 1 \in Nat
      BY <1>2 DEF Shapes
    <3>2. PICK v \in Nat : v = charged[r.job][r.task] + 1
      BY <3>1
    <3>3. charged' = [charged EXCEPT ![r.job][r.task] = v]
      BY <2>2, <3>2
    <3>4. QED
      BY <1>2, <2>2, <3>2, <3>3, SetAt DEF Shapes
  <2>3. QED
    BY <1>1, <2>1, <2>2
<1>5. Shapes'
  BY <1>1, <1>2, <1>3, <1>4 DEF Shapes, Calls
<1>6. Sorted'
  BY <1>1, Parts DEF Sorted
<1>7. Recovering'
  BY <1>2 DEF Recovering
<1>8. Unstarted'
  <2>1. \A k \in Job : Fresh(k)' <=> Fresh(k)
    BY <1>1 DEF Fresh
  <2>2. \A k \in Job : call'[k] = call[k] \/ call'[k].pc # "start"
    BY <1>2, Callers, CallIs
  <2>3. QED
    BY <1>1, <1>2, <2>1, <2>2, Parts DEF Unstarted
<1>9. Reported'
  <2>1. ASSUME NEW d \in Caller, call'[d] \in Reports, call'[d].pc \in {"lookup", "update"}
        PROVE  /\ call[d] \in Reports /\ call[d].pc \in {"lookup", "update"} /\ call'[d].job = call[d].job
               /\ call'[d].task = call[d].task /\ call'[d].status = call[d].status
    BY <1>1, <1>2, <2>1, CallIs
  <2>2. QED
    BY <1>1, <2>1, Parts DEF Reported
<1>10. Unhanded'
  <2>1. \A d \in Caller, k \in Job : Calling(d, k)' => Calling(d, k) /\ call'[d].todo = call[d].todo
    BY <1>2, CallIs DEF Calling
  <2>2. \A k \in Job, i \in Idx : InOrder(k, i)'
    BY <1>1, Parts DEF Unhanded, InOrder, Finished
  <2>3. ASSUME NEW d \in Caller, NEW k \in Job, Calling(d, k)', NEW i \in call'[d].todo PROVE InHand(d, k, i)'
    <3>1. InHand(d, k, i)
      BY <2>1, <2>3, Parts DEF Unhanded
    <3>2. \A e \in Caller : Calling(e, k)' /\ i \in call'[e].todo => Calling(e, k) /\ i \in call[e].todo
      BY <2>1
    <3>3. QED
      BY <1>1, <3>1, <3>2 DEF InHand, Finished
  <2>4. QED
    BY <2>2, <2>3 DEF Unhanded
<1>11. Ended'
  BY <1>1, <1>3, Parts DEF Ended
<1>12. Quieted'
  <2>1. \A d \in Caller, k \in Job : Calling(d, k)' => Calling(d, k) /\ call'[d].todo = call[d].todo
    BY <1>2, CallIs DEF Calling
  <2>2. \A k \in Job : Quiet(k) => Quiet(k)'
    BY <1>1, <2>1 DEF Quiet
  <2>3. "finished" \in EndedTask
    BY DEF EndedTask
  <2>4. QED
    BY <1>1, <1>3, <2>2, <2>3, Parts DEF Quieted
<1>13. Zombies'
  <2>1. \A k \in job_map : Tests(c, k) => Tests(c, k)'
    BY <1>1, <1>2, CallIs DEF Tests
  <2>2. \A d \in Caller, k \in job_map : Tests(d, k) => Tests(d, k)'
    BY <1>1, <1>2, <2>1, OnwardTests DEF Shapes
  <2>3. call["scheduler"] = DeadThread => call'["scheduler"] = DeadThread
    BY <1>2, CallIs, Callers
  <2>4. QED
    BY <1>1, <2>2, <2>3, Parts DEF Zombies
<1>14. Charging'
  <2>1. ASSUME NEW k \in Job, NEW i \in Idx, Charge1(k, i), k # r.job \/ i # r.task PROVE Charge1(k, i)'
    <3>1. \A S : \A pc \in {"lookup", "update"} : At(k, i, pc, S)' <=> At(k, i, pc, S) /\ c # "scheduler"
      <4>1. c = "scheduler" => \A S : \A pc \in {"lookup", "update"} : ~ At(k, i, pc, S)'
        BY <1>1, <1>2, <2>1, CallIs DEF At
      <4>2. c # "scheduler" => call'["scheduler"] = call["scheduler"]
        BY <1>2, Callers
      <4>3. QED
        BY <4>1, <4>2 DEF At
    <3>2. c # "scheduler" => call'["scheduler"] = call["scheduler"]
      BY <1>2, Callers
    <3>3. \A S : c = "scheduler" => ~ At(k, i, "update", S)
      BY <1>1, <1>2 DEF At
    <3>4. charged'[k][i] = charged[k][i]
      BY <1>4, <2>1
    <3>5. CASE c # "scheduler"
      <4>1. \A S : \A pc \in {"lookup", "update"} : At(k, i, pc, S)' <=> At(k, i, pc, S)
        BY <3>1, <3>5
      <4>2. QED
        BY <1>1, <2>1, <3>2, <3>4, <3>5, <4>1 DEF Charge1
    <3>6. CASE c = "scheduler"
      <4>1. /\ ~ At(k, i, "lookup", {"failed", "finished"})' /\ ~ At(k, i, "update", {"failed", "finished"})'
            /\ ~ At(k, i, "update", {"stopped"})' /\ ~ At(k, i, "update", {"failed", "finished"})
        BY <3>1, <3>3, <3>6
      <4>2. QED
        BY <1>1, <2>1, <3>4, <4>1 DEF Charge1
    <3>7. QED
      BY <3>5, <3>6
  <2>2. ASSUME Charge1(r.job, r.task), c # "scheduler" PROVE Charge1(r.job, r.task)'
    <3>1. call'["scheduler"] = call["scheduler"] /\ ~ r.bill
      BY <1>2, <2>2, Callers DEF Coherent
    <3>2. charged'[r.job][r.task] = charged[r.job][r.task]
      BY <1>4, <3>1
    <3>3. \A pc, S : At(r.job, r.task, pc, S)' <=> At(r.job, r.task, pc, S)
      BY <3>1 DEF At
    <3>4. QED
      BY <1>1, <2>2, <3>1, <3>2, <3>3 DEF Charge1
  <2>3. ASSUME Charge1(r.job, r.task), c = "scheduler" PROVE Charge1(r.job, r.task)'
    <3>1. /\ \A S : ~ At(r.job, r.task, "update", S)
          /\ \A S : ~ At(r.job, r.task, "lookup", S)'
          /\ \A S : At(r.job, r.task, "update", S)' => r.job \in job_map /\ r.status \in S
          /\ r.job \in job_map => \A S : r.status \in S => At(r.job, r.task, "update", S)'
      BY <1>1, <1>2, <2>3, CallIs DEF At
    <3>2. r.bill /\ r.status \in {"failed", "finished"} => charged[r.job][r.task] = 0
      BY <1>1, <1>2, <2>3 DEF At, Charge1
    <3>3. r.status \in EndedTask => tm[r.job][r.task] \in Off
      BY <1>1, <1>2, Parts DEF Reported
    <3>4. charged[r.job][r.task] \in Nat
      BY <1>2 DEF Shapes
    <3>5. CASE r.bill /\ r.status \in {"failed", "finished"} /\ charged'[r.job][r.task] = charged[r.job][r.task] + 1
      <4>1. tm[r.job][r.task] \notin Live \union {"out"} /\ charged'[r.job][r.task] = 1
        BY <3>2, <3>3, <3>5, Stages DEF EndedTask
      <4>2. ~ At(r.job, r.task, "update", {"stopped"})'
        BY <3>1, <3>5
      <4>3. r.job \in job_map => At(r.job, r.task, "update", {"failed", "finished"})'
        BY <3>1, <3>5
      <4>4. QED
        BY <1>1, <3>1, <4>1, <4>2, <4>3 DEF Charge1
    <3>6. CASE charged'[r.job][r.task] = charged[r.job][r.task]
      BY <1>1, <2>3, <3>1, <3>6 DEF Charge1
    <3>7. QED
      BY <1>4, <3>5, <3>6
  <2>4. QED
    BY <1>1, <2>1, <2>2, <2>3, Parts DEF Charging
<1>15. CountersMatch'
  BY <1>1, Parts DEF CountersMatch
<1>16. QED
  BY <1>5, <1>6, <1>7, <1>8, <1>9, <1>10, <1>11, <1>12, <1>13, <1>14, <1>15 DEF IInv, OrderInv

\* The last test of a report.
LEMMA CheckForm ==
  ASSUME IInv, NEW c \in Caller, Check(c)
  PROVE  \E r, q :
    /\ Onward(c, r, q) /\ r.pc = "check" /\ call' \in [Caller -> Calls] /\ \A d \in Caller : Coherent(d, call'[d])
    /\ q \in Reports => q.pc \in {"add", "check"} /\ q.todo = r.todo
    /\ \/ job_map' = job_map /\ job_db[r.job] \notin EndedJob
       \/ job_map' = job_map \ {r.job}
    /\ UNCHANGED <<job_db, task_db, tasks, dependency, tasks_cnt, stopper, tm, lazy_delete_list, lazy_stop_list, sort,
                   handed, charged, revived>>
<1>1. PICK r, q : r = call[c] /\ q = call'[c]
  OBVIOUS
<1>2. /\ r.pc = "check" /\ phase' = phase
      /\ UNCHANGED <<job_db, task_db, tasks, dependency, tasks_cnt, stopper, tm, lazy_delete_list, lazy_stop_list, sort,
                     handed, charged, revived>>
  BY <1>1 DEF Check, mem_vars, tm_vars, db_vars, ghost_vars
<1>3. /\ Shapes /\ Coherent(c, r) /\ r \in Reports /\ r.job \in Job /\ r.task \in Idx /\ r.todo \subseteq Idx
  BY <1>1, <1>2, Parts, CallIs DEF Shapes, Calls, Reports
<1>4. phase.pc = "up" /\ phase.todo = {}
  BY <1>1, <1>3, Working
<1>5. PICK p : /\ p = (IF r.nested THEN Proceed(r) ELSE Idle) \/ p = Raised(c)
               /\ call' = [call EXCEPT ![c] = p]
               /\ \/ job_map' = job_map /\ job_db[r.job] \notin EndedJob
                  \/ job_map' = job_map \ {r.job}
  BY <1>1 DEF Check, Over
<1>6. p = Idle \/ (p = DeadThread /\ c = "scheduler") \/ Follows(p, r, r.todo)
  <2>1. r = [r EXCEPT !.todo = r.todo]
    BY <1>3 DEF Reports
  <2>2. QED
    BY <1>3, <1>5, <2>1, ProceedFollows DEF Raised
<1>7. p \in {Idle, DeadThread} \/ (p \in Reports /\ p.job = r.job /\ p.pc \in {"add", "check"} /\ p.todo = r.todo)
  BY <1>6 DEF Follows
<1>8. Coherent(c, p)
  <2>1. r.todo # {} => c # "handler"
    BY <1>2, <1>3, Stages DEF Coherent
  <2>2. QED
    BY <1>2, <1>3, <1>6, <2>1, FollowsCoherent, IdleCoherent
<1>9. Turns(c) /\ q = p
  BY <1>1, <1>3, <1>5, <1>8, CallTurns
<1>10. call' \in [Caller -> Calls] /\ \A d \in Caller : Coherent(d, call'[d])
  BY <1>3, <1>9, TurnsCoherent
<1>11. Onward(c, r, q)
  BY <1>1, <1>2, <1>3, <1>4, <1>7, <1>9 DEF Onward, Turns
<1>12. q \in Reports => q.pc \in {"add", "check"} /\ q.todo = r.todo
  BY <1>7, <1>9, CallIs
<1>13. QED
  BY <1>2, <1>5, <1>10, <1>11, <1>12

LEMMA CheckKeeps == ASSUME IInv, NEW c \in Caller, Check(c) PROVE IInv'
<1>1. PICK r, q :
    /\ Onward(c, r, q) /\ r.pc = "check" /\ call' \in [Caller -> Calls] /\ \A d \in Caller : Coherent(d, call'[d])
    /\ q \in Reports => q.pc \in {"add", "check"} /\ q.todo = r.todo
    /\ \/ job_map' = job_map /\ job_db[r.job] \notin EndedJob
       \/ job_map' = job_map \ {r.job}
    /\ UNCHANGED <<job_db, task_db, tasks, dependency, tasks_cnt, stopper, tm, lazy_delete_list, lazy_stop_list, sort,
                   handed, charged, revived>>
  BY CheckForm
<1>2. /\ Shapes /\ r = call[c] /\ r \in Reports /\ q = call'[c] /\ Coherent(c, r) /\ r.job \in Job /\ r.task \in Idx
      /\ phase.pc = "up" /\ phase.todo = {} /\ phase' = phase
      /\ \A d \in Caller : d # c => call'[d] = call[d]
      /\ q \in {Idle, DeadThread} \/ (q \in Reports /\ q.job = r.job /\ q.pc # "start" /\ q.todo = r.todo)
  BY <1>1 DEF Onward
<1>3. Shapes'
  BY <1>1, <1>2 DEF Shapes, Calls
<1>4. Sorted'
  BY <1>1, Parts DEF Sorted
<1>5. Recovering'
  BY <1>2 DEF Recovering
<1>6. Unstarted'
  <2>1. \A k \in Job : Fresh(k) => Fresh(k)'
    BY <1>1 DEF Fresh
  <2>2. \A k \in Job : call'[k] = call[k] \/ call'[k].pc # "start"
    BY <1>2, Callers, CallIs
  <2>3. QED
    BY <1>1, <1>2, <2>1, <2>2, Parts DEF Unstarted
<1>7. Reported'
  <2>1. ASSUME NEW d \in Caller, call'[d] \in Reports, call'[d].pc \in {"lookup", "update"} PROVE call'[d] = call[d]
    BY <1>1, <1>2, <2>1, CallIs
  <2>2. QED
    BY <1>1, <2>1, Parts DEF Reported
<1>8. \A d \in Caller, k \in Job : Calling(d, k)' => Calling(d, k) /\ call'[d].todo = call[d].todo
  BY <1>2, CallIs DEF Calling
<1>9. Unhanded'
  <2>1. \A k \in Job, i \in Idx : InOrder(k, i)'
    BY <1>1, Parts DEF Unhanded, InOrder, Finished
  <2>2. ASSUME NEW d \in Caller, NEW k \in Job, Calling(d, k)', NEW i \in call'[d].todo PROVE InHand(d, k, i)'
    <3>1. InHand(d, k, i)
      BY <1>8, <2>2, Parts DEF Unhanded
    <3>2. \A e \in Caller : Calling(e, k)' /\ i \in call'[e].todo => Calling(e, k) /\ i \in call[e].todo
      BY <1>8
    <3>3. QED
      BY <1>1, <3>1, <3>2 DEF InHand, Finished
  <2>3. QED
    BY <2>1, <2>2 DEF Unhanded
<1>10. Ended'
  BY <1>1, Parts DEF Ended
<1>11. Quieted'
  <2>1. \A k \in Job : Quiet(k) => Quiet(k)'
    BY <1>1, <1>8 DEF Quiet
  <2>2. QED
    BY <1>1, <2>1, Parts DEF Quieted
<1>12. Zombies'
  <2>1. \A d \in Caller, k \in Job : k # r.job /\ Tests(d, k) => Tests(d, k)'
    BY <1>1, OnwardCalls
  <2>2. call["scheduler"] = DeadThread => call'["scheduler"] = DeadThread
    BY <1>2, CallIs, Callers
  <2>3. \A k \in job_map' : k \in job_map /\ (job_db[k] \in EndedJob => k # r.job)
    BY <1>1
  <2>4. QED
    BY <1>1, <1>2, <2>1, <2>2, <2>3, Parts DEF Zombies, Shapes
<1>13. Charging'
  <2>1. ASSUME NEW k \in Job, NEW i \in Idx, NEW S PROVE /\ At(k, i, "lookup", S)' <=> At(k, i, "lookup", S)
                                                         /\ At(k, i, "update", S)' <=> At(k, i, "update", S)
    <3>1. CASE c = "scheduler"
      BY <1>1, <1>2, <3>1, CallIs DEF At
    <3>2. CASE c # "scheduler"
      BY <1>2, <3>2, Callers DEF At
    <3>3. QED
      BY <3>1, <3>2
  <2>2. \A k \in Job, i \in Idx : At(k, i, "lookup", {"failed", "finished"})' => call'["scheduler"].bill = call["scheduler"].bill
    BY <1>1, <1>2, Callers, CallIs DEF At
  <2>3. \A k \in job_map' : k \in job_map
    BY <1>1
  <2>4. QED
    BY <1>1, <2>1, <2>2, <2>3, Parts DEF Charging, Charge1
<1>14. CountersMatch'
  BY <1>1, Parts DEF CountersMatch
<1>15. QED
  BY <1>3, <1>4, <1>5, <1>6, <1>7, <1>9, <1>10, <1>11, <1>12, <1>13, <1>14 DEF IInv, OrderInv

\* A task is handed to TaskMgr.
LEMMA AddForm ==
  ASSUME IInv, NEW c \in Caller, AddNext(c)
  PROVE  \E r, q : \E i \in Idx, t \in {"append", "failed", "out"} :
    /\ Onward(c, r, q) /\ r.pc = "add" /\ i \in r.todo /\ handed[r.job][i] = 0 /\ tm[r.job][i] = "out"
    /\ call' \in [Caller -> Calls] /\ \A d \in Caller : Coherent(d, call'[d])
    /\ tm' = [tm EXCEPT ![r.job][i] = t] /\ handed' = [handed EXCEPT ![r.job][i] = 1]
    /\ r.report => q \in Reports \/ (c = "scheduler" /\ q = DeadThread)
    /\ q \in Reports =>
         /\ q.todo = r.todo \ {i} /\ q.report = r.report
         /\ \/ q.pc \in {"add", "check"}
            \/ q.pc = "lookup" /\ q.task = i /\ q.status = "failed" /\ ~ q.bill /\ t = "failed"
    /\ UNCHANGED <<job_db, task_db, job_map, tasks, dependency, tasks_cnt, stopper, lazy_delete_list, lazy_stop_list,
                   sort, charged, revived>>
<1>1. PICK r, q : r = call[c] /\ q = call'[c]
  OBVIOUS
<1>2. /\ r.pc = "add" /\ phase' = phase
      /\ UNCHANGED <<job_db, task_db, job_map, tasks, dependency, tasks_cnt, stopper, lazy_delete_list, lazy_stop_list,
                     sort, charged, revived>>
  BY <1>1 DEF AddNext, mem_vars, db_vars
<1>3. /\ Shapes /\ Coherent(c, r) /\ r \in Reports /\ r.job \in Job /\ r.task \in Idx /\ r.todo \subseteq Idx
  BY <1>1, <1>2, Parts, CallIs DEF Shapes, Calls, Reports
<1>4. phase.pc = "up" /\ phase.todo = {}
  BY <1>1, <1>3, Working
<1>5. PICK i \in r.todo : LET s == [r EXCEPT !.todo = @ \ {i}] IN
        /\ handed' = [handed EXCEPT ![s.job][i] = @ + 1]
        /\ \/ /\ tm' = [tm EXCEPT ![s.job][i] = "append"]
              /\ call' = [call EXCEPT ![c] = Proceed(s)]
           \/ /\ tm' = [tm EXCEPT ![s.job][i] = "failed"]
              /\ call' = [call EXCEPT ![c] = [s EXCEPT !.pc = "lookup", !.task = i, !.status = "failed",
                                                       !.bill = FALSE, !.nested = TRUE]]
           \/ call' = [call EXCEPT ![c] = Raised(c)] /\ tm' = tm
  BY <1>1 DEF AddNext
<1>6. i \in Idx /\ c # "handler"
  BY <1>2, <1>3, <1>5 DEF Coherent
<1>7. PICK T, s : T = r.todo \ {i} /\ s = [r EXCEPT !.todo = T]
  OBVIOUS
<1>8. s = [r EXCEPT !.todo = @ \ {i}] /\ T \in SUBSET Idx
  BY <1>3, <1>7
<1>9. /\ s \in Reports /\ s.job = r.job /\ s.report = r.report /\ s.todo = T
  BY <1>3, <1>7, <1>8 DEF Reports
<1>10. handed[r.job][i] = 0
  BY <1>1, <1>3, <1>5, Parts DEF Unhanded, InHand, Calling
<1>11. tm[r.job][i] = "out"
  BY <1>3, <1>6, <1>10, Parts DEF Unhanded, InOrder
<1>12. handed' = [handed EXCEPT ![r.job][i] = 1]
  <2>1. handed' = [handed EXCEPT ![r.job][i] = @ + 1]
    BY <1>5, <1>8, <1>9
  <2>2. handed[r.job][i] + 1 = 1
    BY <1>10
  <2>3. QED
    BY <2>1, <2>2
<1>13. ASSUME NEW p, call' = [call EXCEPT ![c] = p], Coherent(c, p),
              p \in {Idle, DeadThread} \/ (p \in Reports /\ p.job = r.job /\ p.pc # "start")
       PROVE  q = p /\ Onward(c, r, q) /\ call' \in [Caller -> Calls] /\ \A d \in Caller : Coherent(d, call'[d])
  <2>1. Turns(c) /\ q = p
    BY <1>1, <1>3, <1>13, CallTurns
  <2>2. call' \in [Caller -> Calls] /\ \A d \in Caller : Coherent(d, call'[d])
    BY <1>3, <2>1, TurnsCoherent
  <2>3. QED
    BY <1>1, <1>2, <1>3, <1>4, <1>13, <2>1, <2>2 DEF Onward, Turns
<1>14. CASE tm' = [tm EXCEPT ![r.job][i] = "append"] /\ call' = [call EXCEPT ![c] = Proceed(s)]
  <2>1. PICK p : p = Proceed(s)
    OBVIOUS
  <2>2. Follows(p, r, T)
    BY <1>3, <1>7, <1>8, <2>1, ProceedFollows
  <2>3. Coherent(c, p)
    BY <1>2, <1>3, <1>6, <1>8, <2>2, FollowsCoherent
  <2>4. p = Idle \/ (p \in Reports /\ p.job = r.job /\ p.pc # "start")
    BY <2>2 DEF Follows
  <2>5. q = p /\ Onward(c, r, q) /\ call' \in [Caller -> Calls] /\ \A d \in Caller : Coherent(d, call'[d])
    BY <1>13, <1>14, <2>1, <2>3, <2>4
  <2>6. /\ r.report => q \in Reports
        /\ q \in Reports => q.todo = r.todo \ {i} /\ q.report = r.report /\ q.pc \in {"add", "check"}
    BY <1>7, <2>2, <2>5, CallIs DEF Follows
  <2>7. QED
    BY <1>2, <1>5, <1>6, <1>10, <1>11, <1>12, <1>14, <2>5, <2>6
<1>15. CASE /\ tm' = [tm EXCEPT ![r.job][i] = "failed"]
            /\ call' = [call EXCEPT ![c] = [s EXCEPT !.pc = "lookup", !.task = i, !.status = "failed",
                                                     !.bill = FALSE, !.nested = TRUE]]
  <2>1. PICK p : p = [s EXCEPT !.pc = "lookup", !.task = i, !.status = "failed", !.bill = FALSE, !.nested = TRUE]
    OBVIOUS
  <2>2. "failed" \in TaskStatus /\ "failed" \in Told
    BY DEF TaskStatus, Told
  <2>3. /\ p \in Reports /\ p.pc = "lookup" /\ p.task = i /\ p.status = "failed" /\ p.bill = FALSE /\ p.nested = TRUE
        /\ p.job = r.job /\ p.todo = T /\ p.report = r.report
    BY <1>6, <1>9, <2>1, <2>2 DEF Reports
  <2>4. Coherent(c, p)
    BY <1>2, <1>3, <1>6, <2>2, <2>3, CallIs DEF Coherent
  <2>5. q = p /\ Onward(c, r, q) /\ call' \in [Caller -> Calls] /\ \A d \in Caller : Coherent(d, call'[d])
    BY <1>13, <1>15, <2>1, <2>3, <2>4
  <2>6. QED
    BY <1>2, <1>5, <1>6, <1>7, <1>10, <1>11, <1>12, <1>15, <2>3, <2>5
<1>16. CASE call' = [call EXCEPT ![c] = Raised(c)] /\ tm' = tm
  <2>1. tm' = [tm EXCEPT ![r.job][i] = "out"]
    BY <1>3, <1>6, <1>11, <1>16 DEF Shapes
  <2>2. PICK p : p = Raised(c)
    OBVIOUS
  <2>3. /\ p \in {Idle, DeadThread} /\ Coherent(c, p) /\ (p = DeadThread <=> c = "scheduler")
        /\ p \notin Reports
    BY <2>2, IdleCoherent, CallIs DEF Raised
  <2>4. q = p /\ Onward(c, r, q) /\ call' \in [Caller -> Calls] /\ \A d \in Caller : Coherent(d, call'[d])
    BY <1>13, <1>16, <2>2, <2>3
  <2>5. r.report => c = "scheduler"
    BY <1>3, <1>6, Callers DEF Coherent
  <2>6. QED
    BY <1>2, <1>5, <1>6, <1>10, <1>11, <1>12, <2>1, <2>3, <2>4, <2>5
<1>17. QED
  BY <1>5, <1>8, <1>9, <1>14, <1>15, <1>16

LEMMA AddKeeps == ASSUME IInv, NEW c \in Caller, AddNext(c) PROVE IInv'
<1>1. PICK r, q : \E i \in Idx, t \in {"append", "failed", "out"} :
    /\ Onward(c, r, q) /\ r.pc = "add" /\ i \in r.todo /\ handed[r.job][i] = 0 /\ tm[r.job][i] = "out"
    /\ call' \in [Caller -> Calls] /\ \A d \in Caller : Coherent(d, call'[d])
    /\ tm' = [tm EXCEPT ![r.job][i] = t] /\ handed' = [handed EXCEPT ![r.job][i] = 1]
    /\ r.report => q \in Reports \/ (c = "scheduler" /\ q = DeadThread)
    /\ q \in Reports =>
         /\ q.todo = r.todo \ {i} /\ q.report = r.report
         /\ \/ q.pc \in {"add", "check"}
            \/ q.pc = "lookup" /\ q.task = i /\ q.status = "failed" /\ ~ q.bill /\ t = "failed"
    /\ UNCHANGED <<job_db, task_db, job_map, tasks, dependency, tasks_cnt, stopper, lazy_delete_list, lazy_stop_list,
                   sort, charged, revived>>
  BY AddForm
<1>2. PICK i \in Idx, t \in {"append", "failed", "out"} :
    /\ i \in r.todo /\ handed[r.job][i] = 0 /\ tm[r.job][i] = "out"
    /\ tm' = [tm EXCEPT ![r.job][i] = t] /\ handed' = [handed EXCEPT ![r.job][i] = 1]
    /\ q \in Reports =>
         /\ q.todo = r.todo \ {i} /\ q.report = r.report
         /\ \/ q.pc \in {"add", "check"}
            \/ q.pc = "lookup" /\ q.task = i /\ q.status = "failed" /\ ~ q.bill /\ t = "failed"
  BY <1>1
<1>3. /\ Shapes /\ r = call[c] /\ r \in Reports /\ q = call'[c] /\ Coherent(c, r) /\ r.job \in Job
      /\ phase.pc = "up" /\ phase.todo = {} /\ phase' = phase
      /\ \A d \in Caller : d # c => call'[d] = call[d]
      /\ q \in {Idle, DeadThread} \/ (q \in Reports /\ q.job = r.job /\ q.pc # "start")
  BY <1>1 DEF Onward
<1>4. /\ tm' \in [Job -> [Idx -> Places]] /\ tm'[r.job][i] = t
      /\ \A k \in Job, l \in Idx : k # r.job \/ l # i => tm'[k][l] = tm[k][l]
  BY <1>2, <1>3, SetAt DEF Shapes, Places
<1>5. /\ handed' \in [Job -> [Idx -> Nat]] /\ handed'[r.job][i] = 1
      /\ \A k \in Job, l \in Idx : k # r.job \/ l # i => handed'[k][l] = handed[k][l]
  <2>1. 1 \in Nat
    OBVIOUS
  <2>2. QED
    BY <1>2, <1>3, <2>1, SetAt DEF Shapes
<1>6. \A k \in Job, l \in Idx : tm[k][l] # "out" => tm'[k][l] = tm[k][l]
  BY <1>2, <1>4
<1>7. t \notin {"queued", "waiting", "active"}
  BY <1>2
<1>8. Shapes'
  BY <1>1, <1>3, <1>4, <1>5 DEF Shapes, Calls
<1>9. Sorted'
  <2>1. \A p \in Pair : tm[p[1]][p[2]] # "out" => tm'[p[1]][p[2]] = tm[p[1]][p[2]]
    BY <1>6 DEF Pair
  <2>2. QED
    BY <1>1, <1>3, <2>1, Parts DEF Sorted, Shapes
<1>10. Recovering'
  BY <1>3 DEF Recovering
<1>11. Unstarted'
  <2>1. \A k \in Job : Fresh(k)' <=> Fresh(k)
    BY <1>1 DEF Fresh
  <2>2. \A k \in Job : call'[k] = call[k] \/ call'[k].pc # "start"
    BY <1>3, Callers, CallIs
  <2>3. QED
    BY <1>1, <1>3, <2>1, <2>2, Parts DEF Unstarted
<1>12. Reported'
  <2>1. ASSUME NEW d \in Caller, call'[d] \in Reports, call'[d].pc \in {"lookup", "update"}, d # c
        PROVE  LET u == tm'[call'[d].job][call'[d].task] IN
               /\ u # "out" /\ call'[d].status \in Told
               /\ call'[d].status \in EndedTask => u \in Off
               /\ call'[d].status = "finished" => u = "finished"
    <3>1. call'[d] = call[d]
      BY <1>3, <2>1
    <3>2. call[d].job \in Job /\ call[d].task \in Idx
      BY <2>1, <3>1 DEF Reports
    <3>3. /\ tm[call[d].job][call[d].task] # "out" /\ call[d].status \in Told
          /\ call[d].status \in EndedTask => tm[call[d].job][call[d].task] \in Off
          /\ call[d].status = "finished" => tm[call[d].job][call[d].task] = "finished"
      BY <2>1, <3>1, Parts DEF Reported
    <3>4. QED
      BY <1>6, <3>1, <3>2, <3>3
  <2>2. ASSUME q \in Reports, q.pc \in {"lookup", "update"}
        PROVE  /\ tm'[q.job][q.task] \in Off /\ tm'[q.job][q.task] # "out" /\ q.status \in Told
               /\ q.status # "finished"
    <3>1. q.task = i /\ q.status = "failed" /\ t = "failed" /\ q.job = r.job
      BY <1>2, <1>3, <2>2, CallIs
    <3>2. "failed" \in Off /\ "failed" \in Told
      BY Stages DEF Told
    <3>3. QED
      BY <1>4, <3>1, <3>2
  <2>3. QED
    BY <1>3, <2>1, <2>2 DEF Reported
<1>13. \A d \in Caller, k \in Job : Calling(d, k)' => Calling(d, k) /\ call'[d].todo \subseteq call[d].todo
  BY <1>2, <1>3, CallIs DEF Calling
<1>14. \A d \in Caller : Calling(d, r.job) /\ i \in call[d].todo => d = c
  BY <1>2, <1>3, Parts DEF Unhanded, InHand, Calling
<1>15. \A k \in Job, l \in Idx : Finished(k, l) => Finished(k, l)'
  <2>1. \A k \in Job, l \in Idx : tm[k][l] = "finished" => tm'[k][l] = "finished"
    BY <1>6
  <2>2. QED
    BY <2>1, DepAssumption DEF Finished
<1>16. Unhanded'
  <2>1. ASSUME NEW k \in Job, NEW l \in Idx, k # r.job \/ l # i PROVE InOrder(k, l)'
    <3>1. InOrder(k, l) /\ tm'[k][l] = tm[k][l] /\ handed'[k][l] = handed[k][l]
      BY <1>4, <1>5, <2>1, Parts DEF Unhanded
    <3>2. \A d \in Dep[l] : tm[k][d] = "finished" => tm'[k][d] = "finished"
      BY <1>6, DepAssumption
    <3>3. QED
      BY <1>1, <1>15, <3>1, <3>2 DEF InOrder
  <2>2. InOrder(r.job, i)'
    <3>1. InOrder(r.job, i) /\ InHand(c, r.job, i)
      BY <1>2, <1>3, Parts DEF Unhanded, Calling
    <3>2. \A d \in Dep[i] : tm[r.job][d] = "finished" => tm'[r.job][d] = "finished"
      BY <1>3, <1>6, DepAssumption
    <3>3. tasks'[r.job][i] # "pending" /\ Finished(r.job, i)'
      <4>1. Finished(r.job, i)
        BY <3>1 DEF InHand
      <4>2. \A d \in Dep[i] : tm'[r.job][d] = "finished"
        BY <3>2, <4>1 DEF Finished
      <4>3. PICK k \in Job : k = r.job
        BY <1>3
      <4>4. Finished(k, i)'
        BY <1>15, <4>1, <4>3
      <4>5. QED
        BY <1>1, <3>1, <4>2 DEF InHand, Finished
    <3>4. QED
      BY <1>1, <1>5, <3>1, <3>2, <3>3 DEF InOrder
  <2>3. ASSUME NEW d \in Caller, NEW k \in Job, Calling(d, k)', NEW l \in call'[d].todo PROVE InHand(d, k, l)'
    <3>1. Calling(d, k) /\ l \in call[d].todo
      BY <1>13, <2>3
    <3>2. InHand(d, k, l) /\ l \in Idx
      BY <3>1, Parts DEF Unhanded, Calling, Reports
    <3>3. k # r.job \/ l # i
      <4>1. CASE d = c
        BY <1>2, <1>3, <2>3, <4>1 DEF Calling
      <4>2. CASE d # c
        BY <1>14, <3>1, <4>2
      <4>3. QED
        BY <4>1, <4>2
    <3>4. \A e \in Caller : Calling(e, k)' /\ l \in call'[e].todo => Calling(e, k) /\ l \in call[e].todo
      BY <1>13
    <3>5. handed'[k][l] = handed[k][l] /\ Finished(k, l)'
      BY <1>5, <1>15, <3>2, <3>3 DEF InHand
    <3>6. QED
      BY <1>1, <3>2, <3>4, <3>5 DEF InHand
  <2>4. \A k \in Job, l \in Idx : InOrder(k, l)'
    BY <2>1, <2>2
  <2>5. QED
    BY <2>3, <2>4 DEF Unhanded
<1>17. Ended'
  <2>1. \A k \in Job, l \in Idx : tm[k][l] \in Off => tm'[k][l] = tm[k][l]
    BY <1>6, Stages
  <2>2. "finished" \in Off
    BY Stages
  <2>3. QED
    BY <1>1, <2>1, <2>2, Parts DEF Ended
<1>18. Quieted'
  <2>1. job_db[r.job] \notin {"done", "stopped"}
    BY <1>2, <1>3, Parts DEF Quieted, Quiet, Calling
  <2>2. ASSUME NEW k \in Job, k # r.job, Quiet(k) PROVE Quiet(k)'
    <3>1. \A l \in Idx : tm'[k][l] \notin Live
      BY <1>4, <2>2 DEF Quiet
    <3>2. QED
      BY <1>13, <2>2, <3>1 DEF Quiet
  <2>3. QED
    BY <1>1, <2>1, <2>2, Parts DEF Quieted
<1>19. Zombies'
  <2>1. call["scheduler"] = DeadThread => call'["scheduler"] = DeadThread
    BY <1>3, CallIs, Callers
  <2>2. ASSUME NEW k \in Job, Tests(c, k) PROVE Tests(c, k)' \/ call'["scheduler"] = DeadThread
    <3>1. r.job = k /\ r.report
      BY <1>1, <1>3, <2>2 DEF Tests
    <3>2. CASE q \in Reports
      BY <1>2, <1>3, <3>1, <3>2, CallIs DEF Tests
    <3>3. CASE q \notin Reports
      BY <1>1, <1>3, <3>1, <3>3
    <3>4. QED
      BY <3>2, <3>3
  <2>3. \A d \in Caller, k \in Job : Tests(d, k) => Tests(d, k)' \/ call'["scheduler"] = DeadThread
    BY <1>1, <2>2, OnwardTests
  <2>4. QED
    BY <1>1, <1>3, <2>1, <2>3, Parts DEF Zombies, Shapes
<1>20. Charging'
  <2>1. ASSUME NEW k \in Job, NEW l \in Idx PROVE
          /\ \A S : At(k, l, "update", S)' <=> At(k, l, "update", S)
          /\ \A S : At(k, l, "lookup", S)' /\ call'["scheduler"].bill =>
                      At(k, l, "lookup", S) /\ call["scheduler"].bill
    <3>1. CASE c = "scheduler"
      BY <1>1, <1>2, <1>3, <3>1, CallIs DEF At
    <3>2. CASE c # "scheduler"
      BY <1>3, <3>2, Callers DEF At
    <3>3. QED
      BY <3>1, <3>2
  <2>2. \A k \in Job, l \in Idx : tm'[k][l] \in Live \union {"out"} => tm[k][l] \in Live \union {"out"}
    BY <1>2, <1>4
  <2>3. ASSUME NEW k \in Job, NEW l \in Idx, Charge1(k, l) PROVE Charge1(k, l)'
    BY <1>1, <2>1, <2>2, <2>3 DEF Charge1
  <2>4. QED
    BY <1>1, <2>3, Parts DEF Charging
<1>21. CountersMatch'
  BY <1>1, Parts DEF CountersMatch
<1>22. QED
  BY <1>8, <1>9, <1>10, <1>11, <1>12, <1>16, <1>17, <1>18, <1>19, <1>20, <1>21 DEF IInv, OrderInv

\* What the new status of a job says of its tasks.
LEMMA StatusSays ==
  ASSUME NEW U \in [Idx -> TaskStatus], NEW cnt, Counted(cnt, U),
         NEW old \in {"pending", "running", "stopping"} \union EndedJob, NEW new, new = UpdateJobStatus(old, cnt)
  PROVE  /\ new \in {"pending", "running", "stopping"} \union EndedJob
         /\ new = "done" => \A i \in Idx : U[i] = "finished"
         /\ new = "stopped" => \A i \in Idx : U[i] \in {"pending", "finished", "stopped"}
<1>1. TaskStatus = {"pending", "scheduling", "running", "retrying", "failed", "finished", "stopped"}
  BY DEF TaskStatus
<1>2. /\ new \in {"pending", "running", "stopping"} \union EndedJob
      /\ new = "done" => cnt["finished"] = Cardinality(Idx)
      /\ new = "stopped" => cnt["failed"] = 0 /\ cnt["running"] = 0 /\ cnt["scheduling"] = 0 /\ cnt["retrying"] = 0
  <2>1. CASE cnt["failed"] # 0
    BY <2>1 DEF UpdateJobStatus, EndedJob
  <2>2. CASE cnt["failed"] = 0 /\ cnt["finished"] = Cardinality(Idx)
    BY <2>2 DEF UpdateJobStatus, EndedJob
  <2>3. CASE cnt["failed"] = 0 /\ cnt["finished"] # Cardinality(Idx)
    BY <2>3 DEF UpdateJobStatus, EndedJob
  <2>4. QED
    BY <2>1, <2>2, <2>3
<1>3. \A s \in TaskStatus : cnt[s] = 0 => \A i \in Idx : U[i] # s
  <2>1. ASSUME NEW s \in TaskStatus, cnt[s] = 0 PROVE Having(U, s) = {}
    BY <2>1, HavingFinite, FS_EmptySet DEF Counted
  <2>2. QED
    BY <2>1 DEF Having
<1>4. ASSUME new = "done" PROVE \A i \in Idx : U[i] = "finished"
  <2>1. Cardinality(Having(U, "finished")) = Cardinality(Idx)
    BY <1>1, <1>2, <1>4 DEF Counted
  <2>2. Having(U, "finished") = Idx
    BY <2>1, HavingFinite, SetAssumption, FS_Subset
  <2>3. QED
    BY <2>2 DEF Having
<1>5. ASSUME new = "stopped" PROVE \A i \in Idx : U[i] \in {"pending", "finished", "stopped"}
  <2>1. \A i \in Idx : U[i] # "failed" /\ U[i] # "running" /\ U[i] # "scheduling" /\ U[i] # "retrying"
    BY <1>1, <1>2, <1>3, <1>5
  <2>2. QED
    BY <1>1, <2>1
<1>6. QED
  BY <1>2, <1>4, <1>5

\* An update that is ignored.
LEMMA IgnoredKeeps ==
  ASSUME IInv, NEW c \in Caller, call[c].pc = "update", call' = [call EXCEPT ![c].pc = "check"],
         UNCHANGED <<job_db, task_db, job_map, tasks, dependency, tasks_cnt, stopper, tm, lazy_delete_list,
                     lazy_stop_list, sort, phase, handed, charged, revived>>,
         tasks[call[c].job][call[c].task] \in EndedTask
  PROVE  IInv'
<1>1. PICK r : r = call[c]
  OBVIOUS
<1>2. /\ Shapes /\ Coherent(c, r) /\ r \in Reports /\ r.job \in Job /\ r.task \in Idx /\ r.todo \subseteq Idx
  BY <1>1, Parts, CallIs DEF Shapes, Calls, Reports
<1>3. phase.pc = "up" /\ phase.todo = {}
  BY <1>1, <1>2, Working
<1>4. PICK p : p = [r EXCEPT !.pc = "check"]
  OBVIOUS
<1>5. /\ p \in Reports /\ p.pc = "check" /\ p.job = r.job /\ p.task = r.task /\ p.status = r.status /\ p.todo = r.todo
      /\ p.nested = r.nested /\ p.bill = r.bill /\ p.report = r.report
  BY <1>2, <1>4 DEF Reports
<1>6. Coherent(c, p)
  BY <1>1, <1>2, <1>5, CallIs DEF Coherent
<1>7. Turns(c) /\ call'[c] = p
  <2>1. call' = [call EXCEPT ![c] = p]
    BY <1>1, <1>4
  <2>2. QED
    BY <1>2, <1>6, <2>1, CallTurns
<1>8. call' \in [Caller -> Calls] /\ \A d \in Caller : Coherent(d, call'[d])
  BY <1>2, <1>7, TurnsCoherent
<1>9. \A d \in Caller : d # c => call'[d] = call[d]
  BY <1>7 DEF Turns
<1>10. Shapes'
  BY <1>2, <1>8 DEF Shapes, Calls
<1>11. Sorted'
  BY Parts DEF Sorted
<1>12. Recovering'
  BY <1>3 DEF Recovering
<1>13. Unstarted'
  <2>1. \A k \in Job : Fresh(k)' <=> Fresh(k)
    BY DEF Fresh
  <2>2. \A k \in Job : call'[k] = call[k] \/ call'[k].pc # "start"
    BY <1>5, <1>7, <1>9, Callers
  <2>3. QED
    BY <2>1, <2>2, Parts DEF Unstarted
<1>14. Reported'
  <2>1. ASSUME NEW d \in Caller, call'[d] \in Reports, call'[d].pc \in {"lookup", "update"} PROVE call'[d] = call[d]
    BY <1>5, <1>7, <1>9, <2>1
  <2>2. QED
    BY <2>1, Parts DEF Reported
<1>15. \A d \in Caller, k \in Job : Calling(d, k)' => Calling(d, k) /\ call'[d].todo = call[d].todo
  BY <1>1, <1>2, <1>5, <1>7, <1>9 DEF Calling
<1>16. Unhanded'
  <2>1. \A k \in Job, i \in Idx : InOrder(k, i)'
    BY Parts DEF Unhanded, InOrder, Finished
  <2>2. ASSUME NEW d \in Caller, NEW k \in Job, Calling(d, k)', NEW i \in call'[d].todo PROVE InHand(d, k, i)'
    <3>1. InHand(d, k, i)
      BY <1>15, <2>2, Parts DEF Unhanded
    <3>2. \A e \in Caller : Calling(e, k)' /\ i \in call'[e].todo => Calling(e, k) /\ i \in call[e].todo
      BY <1>15
    <3>3. QED
      BY <3>1, <3>2 DEF InHand, Finished
  <2>3. QED
    BY <2>1, <2>2 DEF Unhanded
<1>17. Ended'
  BY Parts DEF Ended
<1>18. Quieted'
  <2>1. \A k \in Job : Quiet(k) => Quiet(k)'
    BY <1>15 DEF Quiet
  <2>2. QED
    BY <2>1, Parts DEF Quieted
<1>19. Zombies'
  <2>1. \A d \in Caller, k \in Job : Tests(d, k) => Tests(d, k)'
    BY <1>1, <1>2, <1>5, <1>7, <1>9 DEF Tests
  <2>2. call["scheduler"] = DeadThread => call'["scheduler"] = DeadThread
    BY <1>1, <1>2, <1>9, CallIs, Callers
  <2>3. QED
    BY <2>1, <2>2, Parts DEF Zombies, Shapes
<1>20. Charging'
  <2>1. ASSUME NEW k \in Job, NEW l \in Idx PROVE
          /\ \A S : At(k, l, "lookup", S)' => At(k, l, "lookup", S) /\ call'["scheduler"] = call["scheduler"]
          /\ \A S : At(k, l, "update", S)' => At(k, l, "update", S)
          /\ \A S : At(k, l, "update", S) => At(k, l, "update", S)' \/ tasks[k][l] \in EndedTask
    <3>1. CASE c = "scheduler"
      BY <1>1, <1>2, <1>5, <1>7, <3>1 DEF At
    <3>2. CASE c # "scheduler"
      BY <1>9, <3>2, Callers DEF At
    <3>3. QED
      BY <3>1, <3>2
  <2>2. ASSUME NEW k \in Job, NEW l \in Idx, Charge1(k, l) PROVE Charge1(k, l)'
    BY <2>1, <2>2 DEF Charge1
  <2>3. QED
    BY <2>2, Parts DEF Charging
<1>21. CountersMatch'
  BY Parts DEF CountersMatch
<1>22. QED
  BY <1>10, <1>11, <1>12, <1>13, <1>14, <1>16, <1>17, <1>18, <1>19, <1>20, <1>21 DEF IInv, OrderInv

\* An update that is not: of task r.task, with the tasks R released.
Row(T, i, s, R) == [o \in Idx |-> IF o = i THEN s ELSE IF o \in R THEN "scheduling" ELSE T[o]]

Updated(c, r, q, R) ==
  LET j == r.job
      i == r.task
  IN
  /\ Onward(c, r, q) /\ r.pc = "update" /\ call' \in [Caller -> Calls] /\ \A d \in Caller : Coherent(d, call'[d])
  /\ tm[j][i] # "out" /\ r.status \in Told /\ tasks[j][i] # "pending" /\ ~ Fresh(j)
  /\ r.status \in EndedTask => tm[j][i] \in Off
  /\ r.status = "finished" => tm[j][i] = "finished"
  /\ R \subseteq Idx /\ \A o \in R : tasks[j][o] = "pending" /\ dependency[j][o] \subseteq {i}
  /\ R # {} => r.status = "finished"
  /\ tasks' = [tasks EXCEPT ![j] = Row(tasks[j], i, r.status, R)]
  /\ task_db' = [task_db EXCEPT ![j] = Row(task_db[j], i, r.status, R)]
  /\ tasks_cnt' = [tasks_cnt EXCEPT ![j] = Recount(tasks_cnt[j], tasks[j][i], r.status, R)]
  /\ job_db' = [job_db EXCEPT ![j] = UpdateJobStatus(job_db[j], Recount(tasks_cnt[j], tasks[j][i], r.status, R))]
  /\ \/ dependency' = dependency
     \/ r.status = "finished" /\ dependency' = [dependency EXCEPT ![j] = [o \in Idx |-> dependency[j][o] \ {i}]]
  /\ q \in Reports
  /\ R = {} => q.pc = "check" /\ q.todo = r.todo
  /\ R # {} => q.pc = "add" /\ q.todo = R /\ q.report
  /\ ~ (r.status = "stopped" /\ tasks[j][i] \in EndedTask)
  /\ \/ r.bill /\ r.status = "stopped" /\ charged' = [charged EXCEPT ![j][i] = @ + 1]
     \/ charged' = charged
  /\ revived' = IF tasks[j][i] \in EndedTask /\ r.status \notin EndedTask THEN revived \cup {<<j, i>>} ELSE revived
  /\ UNCHANGED <<job_map, stopper, tm, lazy_delete_list, lazy_stop_list, sort, handed>>

LEMMA UpdateForm ==
  ASSUME IInv, NEW c \in Caller, Update(c), ~ Ignored(call[c].job, call[c].task, call[c].status)
  PROVE  \E r, q, R : Updated(c, r, q, R)
<1>1. PICK r, q, j, i : r = call[c] /\ q = call'[c] /\ j = r.job /\ i = r.task
  OBVIOUS
<1>2. /\ r.pc = "update" /\ phase' = phase
      /\ UNCHANGED <<job_map, stopper, tm, lazy_delete_list, lazy_stop_list, sort, handed>>
  BY <1>1 DEF Update, tm_vars
<1>3. /\ Shapes /\ Coherent(c, r) /\ r \in Reports /\ r.job \in Job /\ r.task \in Idx /\ r.todo \subseteq Idx
  BY <1>1, <1>2, Parts, CallIs DEF Shapes, Calls, Reports
<1>4. phase.pc = "up" /\ phase.todo = {}
  BY <1>1, <1>3, Working
<1>5. /\ tm[j][i] # "out" /\ r.status \in Told
      /\ r.status \in EndedTask => tm[j][i] \in Off
      /\ r.status = "finished" => tm[j][i] = "finished"
  BY <1>1, <1>2, <1>3, Parts DEF Reported
<1>6. tasks[j][i] # "pending" /\ ~ Fresh(j)
  BY <1>1, <1>3, <1>5, Parts DEF Unhanded, InOrder, Fresh
<1> DEFINE R == IF r.status = "finished" THEN Released(j, i) ELSE {}
<1>7. /\ tasks' = [tasks EXCEPT ![j] = Row(@, i, r.status, R)]
      /\ task_db' = [task_db EXCEPT ![j] = Row(@, i, r.status, R)]
      /\ tasks_cnt' = [tasks_cnt EXCEPT ![j] = Recount(tasks_cnt[j], tasks[j][i], r.status, R)]
      /\ job_db' = [job_db EXCEPT ![j] = UpdateJobStatus(@, Recount(tasks_cnt[j], tasks[j][i], r.status, R))]
      /\ dependency' = IF r.status = "finished"
                       THEN [dependency EXCEPT ![j] = [o \in Idx |-> @[o] \ {i}]]
                       ELSE dependency
      /\ IF r.bill /\ r.status = "stopped" THEN Charge(j, i) ELSE UNCHANGED charged
      /\ revived' = IF tasks[j][i] \in EndedTask /\ r.status \notin EndedTask
                    THEN revived \cup {<<j, i>>} ELSE revived
      /\ call' = [call EXCEPT ![c] = IF R = {} THEN [@ EXCEPT !.pc = "check"]
                                     ELSE Proceed([@ EXCEPT !.todo = R])]
  <2>1. ~ Ignored(j, i, r.status)
    BY <1>1
  <2>2. QED
    BY <1>1, <2>1 DEF Update, Row
<1> HIDE DEF R
<1>8. /\ R \subseteq Idx /\ \A o \in R : tasks[j][o] = "pending" /\ dependency[j][o] \subseteq {i}
      /\ R # {} => r.status = "finished"
  BY DEF Released, R
<1>9. ~ (r.status = "stopped" /\ tasks[j][i] \in EndedTask)
  BY <1>1 DEF Ignored
<1>10. PICK p : p = IF R = {} THEN [r EXCEPT !.pc = "check"] ELSE Proceed([r EXCEPT !.todo = R])
  OBVIOUS
<1>11. /\ p \in Reports /\ p.job = r.job /\ p.pc # "start" /\ Coherent(c, p)
       /\ R = {} => p.pc = "check" /\ p.todo = r.todo
       /\ R # {} => p.pc = "add" /\ p.todo = R /\ p.report
  <2>1. CASE R = {}
    <3>1. PICK s : s = [r EXCEPT !.pc = "check"]
      OBVIOUS
    <3>2. /\ s \in Reports /\ s.pc = "check" /\ s.job = r.job /\ s.task = r.task /\ s.status = r.status /\ s.todo = r.todo
          /\ s.nested = r.nested /\ s.bill = r.bill /\ s.report = r.report
      BY <1>3, <3>1 DEF Reports
    <3>3. Coherent(c, s)
      BY <1>2, <1>3, <3>2, CallIs DEF Coherent
    <3>4. QED
      BY <1>10, <2>1, <3>1, <3>2, <3>3
  <2>2. CASE R # {}
    <3>1. r.status = "finished" /\ c # "handler" /\ c \notin Job /\ r.report
      BY <1>2, <1>3, <1>8, <2>2 DEF Coherent
    <3>2. PICK s : s = [r EXCEPT !.todo = R]
      OBVIOUS
    <3>3. p = Proceed(s)
      BY <1>10, <2>2, <3>2
    <3>4. Follows(p, r, R)
      BY <1>3, <1>8, <3>2, <3>3, ProceedFollows
    <3>5. Coherent(c, p)
      BY <1>2, <1>3, <1>8, <3>1, <3>4, FollowsCoherent
    <3>6. QED
      BY <2>2, <3>1, <3>4, <3>5 DEF Follows
  <2>3. QED
    BY <2>1, <2>2
<1>12. Turns(c) /\ q = p
  <2>1. call' = [call EXCEPT ![c] = p]
    BY <1>1, <1>7, <1>10
  <2>2. QED
    BY <1>1, <1>3, <1>11, <2>1, CallTurns
<1>13. call' \in [Caller -> Calls] /\ \A d \in Caller : Coherent(d, call'[d])
  BY <1>3, <1>12, TurnsCoherent
<1>14. Onward(c, r, q)
  BY <1>1, <1>2, <1>3, <1>4, <1>11, <1>12 DEF Onward, Turns
<1>15. \/ r.bill /\ r.status = "stopped" /\ charged' = [charged EXCEPT ![j][i] = @ + 1]
       \/ charged' = charged
  BY <1>7 DEF Charge
<1>16. Updated(c, r, q, R)
  BY <1>1, <1>2, <1>5, <1>6, <1>7, <1>8, <1>9, <1>11, <1>12, <1>13, <1>14, <1>15 DEF Updated
<1>17. QED
  BY <1>16

LEMMA UpdatedRows ==
  ASSUME IInv, NEW c \in Caller, NEW r, NEW q, NEW R, Updated(c, r, q, R)
  PROVE  /\ r.job \in Job /\ r.task \in Idx /\ r.task \notin R
         /\ tasks' \in [Job -> [Idx -> TaskStatus]] /\ task_db' \in [Job -> [Idx -> TaskStatus]]
         /\ \A k \in Job : k # r.job => tasks'[k] = tasks[k] /\ task_db'[k] = task_db[k]
         /\ \A o \in Idx : /\ tasks'[r.job][o] = IF o = r.task THEN r.status
                                                 ELSE IF o \in R THEN "scheduling" ELSE tasks[r.job][o]
                           /\ task_db'[r.job][o] = IF o = r.task THEN r.status
                                                   ELSE IF o \in R THEN "scheduling" ELSE task_db[r.job][o]
         /\ dependency' \in [Job -> [Idx -> SUBSET Idx]]
         /\ \A k \in Job : k # r.job => dependency'[k] = dependency[k]
         /\ \A o \in Idx : \/ dependency'[r.job][o] = dependency[r.job][o]
                           \/ /\ dependency'[r.job][o] = dependency[r.job][o] \ {r.task}
                              /\ r.status = "finished"
<1>1. Shapes /\ r.job \in Job /\ r.task \in Idx
  BY Parts DEF Updated, Onward
<1>2. r.task \notin R /\ r.status \in TaskStatus /\ "scheduling" \in TaskStatus /\ R \subseteq Idx
  BY Stages DEF Updated, TaskStatus
<1>3. \A T \in [Idx -> TaskStatus] :
        /\ Row(T, r.task, r.status, R) \in [Idx -> TaskStatus]
        /\ \A o \in Idx : Row(T, r.task, r.status, R)[o] =
             IF o = r.task THEN r.status ELSE IF o \in R THEN "scheduling" ELSE T[o]
  BY <1>2 DEF Row
<1>4. /\ tasks' = [tasks EXCEPT ![r.job] = Row(tasks[r.job], r.task, r.status, R)]
      /\ task_db' = [task_db EXCEPT ![r.job] = Row(task_db[r.job], r.task, r.status, R)]
      /\ \/ dependency' = dependency
         \/ /\ dependency' = [dependency EXCEPT ![r.job] = [o \in Idx |-> dependency[r.job][o] \ {r.task}]]
            /\ r.status = "finished"
  BY DEF Updated
<1>5. tasks \in [Job -> [Idx -> TaskStatus]] /\ task_db \in [Job -> [Idx -> TaskStatus]]
  BY <1>1 DEF Shapes
<1>6. /\ tasks' \in [Job -> [Idx -> TaskStatus]] /\ task_db' \in [Job -> [Idx -> TaskStatus]]
      /\ \A k \in Job : k # r.job => tasks'[k] = tasks[k] /\ task_db'[k] = task_db[k]
      /\ tasks'[r.job] = Row(tasks[r.job], r.task, r.status, R)
      /\ task_db'[r.job] = Row(task_db[r.job], r.task, r.status, R)
  BY <1>1, <1>3, <1>4, <1>5
<1>7. /\ dependency' \in [Job -> [Idx -> SUBSET Idx]]
      /\ \A k \in Job : k # r.job => dependency'[k] = dependency[k]
      /\ \A o \in Idx : \/ dependency'[r.job][o] = dependency[r.job][o]
                        \/ /\ dependency'[r.job][o] = dependency[r.job][o] \ {r.task}
                           /\ r.status = "finished"
  <2>1. dependency \in [Job -> [Idx -> SUBSET Idx]]
    BY <1>1 DEF Shapes
  <2>2. CASE dependency' = dependency
    BY <2>1, <2>2
  <2>3. CASE /\ dependency' = [dependency EXCEPT ![r.job] = [o \in Idx |-> dependency[r.job][o] \ {r.task}]]
             /\ r.status = "finished"
    BY <1>1, <2>1, <2>3
  <2>4. QED
    BY <1>4, <2>2, <2>3
<1>8. tasks[r.job] \in [Idx -> TaskStatus] /\ task_db[r.job] \in [Idx -> TaskStatus]
  BY <1>1, <1>5
<1>9. \A o \in Idx : /\ tasks'[r.job][o] = IF o = r.task THEN r.status
                                            ELSE IF o \in R THEN "scheduling" ELSE tasks[r.job][o]
                     /\ task_db'[r.job][o] = IF o = r.task THEN r.status
                                              ELSE IF o \in R THEN "scheduling" ELSE task_db[r.job][o]
  BY <1>3, <1>6, <1>8
<1>10. QED
  BY <1>1, <1>2, <1>6, <1>7, <1>9

LEMMA UpdatedCounts ==
  ASSUME IInv, NEW c \in Caller, NEW r, NEW q, NEW R, Updated(c, r, q, R)
  PROVE  /\ tasks_cnt' \in [Job -> [TaskStatus -> Int]] /\ CountersMatch'
         /\ job_db' \in [Job -> {"none", "pending", "running", "stopping"} \union EndedJob]
         /\ \A k \in Job : k # r.job => job_db'[k] = job_db[k]
         /\ job_db'[r.job] # "none"
         /\ job_db'[r.job] = "done" => \A i \in Idx : tasks'[r.job][i] = "finished"
         /\ job_db'[r.job] = "stopped" => \A i \in Idx : tasks'[r.job][i] \in {"pending", "finished", "stopped"}
<1>1. /\ Shapes /\ r.job \in Job /\ r.task \in Idx /\ tasks[r.job] \in [Idx -> TaskStatus]
      /\ tasks_cnt[r.job] \in [TaskStatus -> Int]
  BY Parts, UpdatedRows DEF Shapes
<1>2. \A k \in Job : Counted(tasks_cnt[k], tasks[k])
  BY Parts, CountersAre
<1>3. /\ tasks[r.job][r.task] # "pending" /\ r.status \in Told /\ R \in SUBSET Having(tasks[r.job], "pending")
  BY DEF Updated, Having
<1>4. PICK U, cnt : /\ U = Row(tasks[r.job], r.task, r.status, R)
                    /\ cnt = Recount(tasks_cnt[r.job], tasks[r.job][r.task], r.status, R)
  OBVIOUS
<1>5. U = [o \in Idx |-> IF o = r.task THEN r.status ELSE IF o \in R THEN "scheduling" ELSE tasks[r.job][o]]
  BY <1>4 DEF Row
<1>6. cnt \in [TaskStatus -> Int] /\ Counted(cnt, U)
  BY <1>1, <1>2, <1>3, <1>4, <1>5, RecountCounted
<1>7. /\ tasks' = [tasks EXCEPT ![r.job] = U] /\ tasks_cnt' = [tasks_cnt EXCEPT ![r.job] = cnt]
      /\ job_db' = [job_db EXCEPT ![r.job] = UpdateJobStatus(job_db[r.job], cnt)]
  BY <1>4 DEF Updated
<1>8. /\ tasks'[r.job] = U /\ tasks_cnt'[r.job] = cnt /\ tasks_cnt' \in [Job -> [TaskStatus -> Int]]
      /\ \A k \in Job : k # r.job => tasks'[k] = tasks[k] /\ tasks_cnt'[k] = tasks_cnt[k]
  BY <1>1, <1>6, <1>7 DEF Shapes
<1>9. CountersMatch'
  <2>1. \A k \in Job : Counted(tasks_cnt'[k], tasks'[k])
    BY <1>2, <1>6, <1>8
  <2>2. QED
    BY <2>1, CountersAre
<1>10. PICK old, new : old = job_db[r.job] /\ new = UpdateJobStatus(old, cnt)
  OBVIOUS
<1>11. old \in {"pending", "running", "stopping"} \union EndedJob
  <2>1. old # "none"
    BY <1>1, <1>10, Parts DEF Unstarted, Updated
  <2>2. QED
    BY <1>1, <1>10, <2>1 DEF Shapes
<1>12. U \in [Idx -> TaskStatus]
  BY <1>1, <1>8, UpdatedRows
<1>13. /\ new \in {"pending", "running", "stopping"} \union EndedJob
       /\ new = "done" => \A i \in Idx : U[i] = "finished"
       /\ new = "stopped" => \A i \in Idx : U[i] \in {"pending", "finished", "stopped"}
  BY <1>6, <1>10, <1>11, <1>12, StatusSays
<1>14. /\ job_db'[r.job] = new /\ \A k \in Job : k # r.job => job_db'[k] = job_db[k]
       /\ job_db' \in [Job -> {"none", "pending", "running", "stopping"} \union EndedJob]
  BY <1>1, <1>7, <1>10, <1>13 DEF Shapes
<1>15. new # "none"
  BY <1>13 DEF EndedJob
<1>16. QED
  BY <1>8, <1>9, <1>13, <1>14, <1>15

LEMMA UpdatedShapes ==
  ASSUME IInv, NEW c \in Caller, NEW r, NEW q, NEW R, Updated(c, r, q, R)
  PROVE  Shapes'
<1>1. /\ Shapes /\ r.job \in Job /\ r.task \in Idx /\ <<r.job, r.task>> \in Pair
  BY Parts, UpdatedRows DEF Pair
<1>2. charged' \in [Job -> [Idx -> Nat]]
  <2>1. charged \in [Job -> [Idx -> Nat]]
    BY <1>1 DEF Shapes
  <2>2. PICK v \in Nat : v = charged[r.job][r.task] + 1
    BY <1>1, <2>1
  <2>3. charged' = charged \/ charged' = [charged EXCEPT ![r.job][r.task] = v]
    BY <2>2 DEF Updated
  <2>4. CASE charged' = [charged EXCEPT ![r.job][r.task] = v]
    BY <1>1, <2>1, <2>2, <2>4, SetAt
  <2>5. QED
    BY <2>1, <2>3, <2>4
<1>3. revived' \subseteq Pair
  BY <1>1 DEF Updated, Shapes
<1>4. /\ call' \in [Caller -> Calls] /\ \A d \in Caller : Coherent(d, call'[d]) /\ phase' = phase
      /\ UNCHANGED <<job_map, stopper, tm, lazy_delete_list, lazy_stop_list, sort, handed>>
  BY DEF Updated, Onward
<1>5. QED
  BY <1>1, <1>2, <1>3, <1>4, UpdatedRows, UpdatedCounts DEF Shapes, Calls

LEMMA UpdatedUnhanded ==
  ASSUME IInv, NEW c \in Caller, NEW r, NEW q, NEW R, Updated(c, r, q, R)
  PROVE  Unhanded'
<1>1. /\ r.job \in Job /\ r.task \in Idx /\ tm' = tm /\ handed' = handed /\ R \subseteq Idx
      /\ \A o \in R : tasks[r.job][o] = "pending" /\ dependency[r.job][o] \subseteq {r.task}
      /\ R # {} => r.status = "finished" /\ tm[r.job][r.task] = "finished"
      /\ r.status = "finished" => tm[r.job][r.task] = "finished"
      /\ r = call[c] /\ r \in Reports /\ q = call'[c] /\ q \in Reports /\ q.job = r.job
      /\ R = {} => q.todo = r.todo
      /\ R # {} => q.todo = R
      /\ \A d \in Caller : d # c => call'[d] = call[d]
  BY UpdatedRows, CallIs DEF Updated, Onward
<1>2. tasks[r.job][r.task] # "pending" /\ r.status # "pending" /\ r.status \in Told
  BY Stages DEF Updated
<1>3. \A k \in Job, o \in Idx : /\ Finished(k, o)' <=> Finished(k, o)
                                /\ tasks'[k][o] = "pending" => tasks[k][o] = "pending"
                                /\ tasks[k][o] # "pending" => tasks'[k][o] # "pending"
  <2>1. \A o \in Idx : /\ tasks'[r.job][o] = "pending" => tasks[r.job][o] = "pending"
                       /\ tasks[r.job][o] # "pending" => tasks'[r.job][o] # "pending"
    BY <1>1, <1>2, UpdatedRows
  <2>2. \A k \in Job : k # r.job => tasks'[k] = tasks[k]
    BY UpdatedRows
  <2>3. QED
    BY <1>1, <2>1, <2>2 DEF Finished
<1>4. \A k \in Job, o \in Idx, d \in Idx : d \in dependency[k][o] => d \in dependency'[k][o] \/ tm[k][d] = "finished"
  <2>1. \A o \in Idx, d \in Idx : d \in dependency[r.job][o] => d \in dependency'[r.job][o] \/ tm[r.job][d] = "finished"
    BY <1>1, UpdatedRows
  <2>2. \A k \in Job : k # r.job => dependency'[k] = dependency[k]
    BY UpdatedRows
  <2>3. QED
    BY <2>1, <2>2
<1>5. ASSUME NEW k \in Job, NEW o \in Idx PROVE InOrder(k, o)'
  <2>1. InOrder(k, o)
    BY Parts DEF Unhanded
  <2>2. \A d \in Dep[o] \ dependency'[k][o] : tm[k][d] = "finished"
    <3>1. Dep[o] \subseteq Idx
      BY DepAssumption
    <3>2. QED
      BY <1>4, <2>1, <3>1 DEF InOrder
  <2>3. QED
    BY <1>1, <1>3, <2>1, <2>2 DEF InOrder
<1>6. \A o \in R : /\ handed[r.job][o] = 0 /\ Finished(r.job, o) /\ tasks'[r.job][o] # "pending"
                   /\ \A d \in Caller : Calling(d, r.job) => o \notin call[d].todo
  <2>1. TAKE o \in R
  <2>2. InOrder(r.job, o) /\ tasks[r.job][o] = "pending" /\ dependency[r.job][o] \subseteq {r.task} /\ o \in Idx
    BY <1>1, Parts DEF Unhanded
  <2>3. handed[r.job][o] = 0
    BY <2>2 DEF InOrder
  <2>4. tm[r.job][r.task] = "finished"
    BY <1>1
  <2>5. Finished(r.job, o)
    BY <2>2, <2>4 DEF InOrder, Finished
  <2>6. tasks'[r.job][o] = "scheduling"
    BY <1>1, <1>2, <2>2, UpdatedRows
  <2>7. \A d \in Caller : Calling(d, r.job) => o \notin call[d].todo
    BY <1>1, <2>2, Parts DEF Unhanded, InHand
  <2>8. QED
    BY <2>3, <2>5, <2>6, <2>7
<1>7. ASSUME NEW d \in Caller, NEW k \in Job, Calling(d, k)', NEW o \in call'[d].todo,
             ~ (d = c /\ R # {})
      PROVE  InHand(d, k, o)'
  <2>1. Calling(d, k) /\ o \in call[d].todo
    BY <1>1, <1>7 DEF Calling
  <2>2. InHand(d, k, o) /\ o \in Idx
    BY <2>1, Parts DEF Unhanded, Calling, Reports
  <2>3. \A e \in Caller : Calling(e, k)' /\ o \in call'[e].todo => Calling(e, k) /\ o \in call[e].todo
    <3>1. TAKE e \in Caller
    <3>2. CASE e # c \/ R = {}
      BY <1>1, <3>2 DEF Calling
    <3>3. CASE e = c /\ R # {} /\ Calling(e, k)' /\ o \in call'[e].todo
      <4>1. k = r.job /\ o \in R
        BY <1>1, <3>3 DEF Calling
      <4>2. QED
        BY <1>6, <2>1, <4>1
    <3>4. QED
      BY <3>2, <3>3
  <2>4. handed'[k][o] = 0 /\ tasks'[k][o] # "pending" /\ Finished(k, o)'
    BY <1>1, <1>3, <2>2 DEF InHand
  <2>5. QED
    BY <2>2, <2>3, <2>4 DEF InHand
<1>8. ASSUME NEW k \in Job, Calling(c, k)', NEW o \in call'[c].todo, R # {} PROVE InHand(c, k, o)'
  <2>1. k = r.job /\ o \in R /\ o \in Idx
    BY <1>1, <1>8 DEF Calling
  <2>2. handed'[k][o] = 0 /\ tasks'[k][o] # "pending" /\ Finished(k, o)'
    BY <1>1, <1>3, <1>6, <2>1
  <2>3. \A e \in Caller : Calling(e, k)' /\ o \in call'[e].todo => e = c
    BY <1>1, <1>6, <2>1 DEF Calling
  <2>4. QED
    BY <2>2, <2>3 DEF InHand
<1>9. \A d \in Caller, k \in Job : Calling(d, k)' => \A o \in call'[d].todo : InHand(d, k, o)'
  BY <1>7, <1>8
<1>10. QED
  BY <1>5, <1>9 DEF Unhanded

LEMMA UpdatedEnded ==
  ASSUME IInv, NEW c \in Caller, NEW r, NEW q, NEW R, Updated(c, r, q, R)
  PROVE  Ended'
<1>1. /\ r.job \in Job /\ r.task \in Idx /\ tm' = tm
      /\ r.status \in EndedTask => tm[r.job][r.task] \in Off
      /\ r.status = "finished" => tm[r.job][r.task] = "finished"
  BY UpdatedRows DEF Updated
<1>2. "scheduling" \notin EndedTask /\ "scheduling" # "finished" /\ "finished" \in EndedTask
  BY DEF EndedTask
<1>3. ASSUME NEW o \in Idx
      PROVE  /\ tasks'[r.job][o] \in EndedTask => tm[r.job][o] \in Off /\ task_db'[r.job][o] = tasks'[r.job][o]
             /\ tasks'[r.job][o] = "finished" => tm[r.job][o] = "finished"
  <2>1. CASE o = r.task
    BY <1>1, <2>1, UpdatedRows
  <2>2. CASE o # r.task /\ o \in R
    BY <1>2, <2>2, UpdatedRows
  <2>3. CASE o # r.task /\ o \notin R
    <3>1. tasks'[r.job][o] = tasks[r.job][o] /\ task_db'[r.job][o] = task_db[r.job][o]
      BY <2>3, UpdatedRows
    <3>2. QED
      BY <1>1, <3>1, Parts DEF Ended
  <2>4. QED
    BY <2>1, <2>2, <2>3
<1>4. \A k \in Job : k # r.job => tasks'[k] = tasks[k] /\ task_db'[k] = task_db[k]
  BY UpdatedRows
<1>5. QED
  BY <1>1, <1>3, <1>4, Parts DEF Ended

LEMMA UpdatedOver ==
  ASSUME IInv, NEW c \in Caller, NEW r, NEW q, NEW R, Updated(c, r, q, R)
  PROVE  Quieted'
<1>1. r.job \in Job /\ r.task \in Idx /\ tm' = tm /\ handed' = handed /\ Onward(c, r, q)
  BY UpdatedRows DEF Updated
<1>2. ASSUME NEW k \in Job, k # r.job PROVE Quiet(k) => Quiet(k)'
  BY <1>1, <1>2, OnwardCalls DEF Quiet, Calling
<1>3. \A k \in Job : k # r.job => job_db'[k] = job_db[k] /\ task_db'[k] = task_db[k]
  BY UpdatedCounts, UpdatedRows
<1>4. Unhanded' /\ Ended'
  BY UpdatedUnhanded, UpdatedEnded
<1>5. {"finished", "stopped"} \subseteq EndedTask
  BY DEF EndedTask
<1>6. ASSUME \A i \in Idx : tasks'[r.job][i] \in {"pending", "finished", "stopped"} PROVE Quiet(r.job)'
  <2>1. PICK j \in Job : j = r.job
    BY <1>1
  <2>2. \A i \in Idx : tm'[j][i] = "out" \/ tm'[j][i] \in Off
    <3>1. TAKE i \in Idx
    <3>2. tasks'[j][i] = "pending" \/ tasks'[j][i] \in EndedTask
      BY <1>5, <1>6, <2>1
    <3>3. tasks'[j][i] = "pending" => tm'[j][i] = "out"
      BY <1>4 DEF Unhanded, InOrder
    <3>4. tasks'[j][i] \in EndedTask => tm'[j][i] \in Off
      BY <1>4 DEF Ended
    <3>5. QED
      BY <3>2, <3>3, <3>4
  <2>3. \A i \in Idx : tm'[j][i] \notin Live
    BY <2>2, Stages
  <2>4. ASSUME NEW d \in Caller, Calling(d, j)', NEW i \in call'[d].todo PROVE FALSE
    <3>1. InHand(d, j, i)' /\ i \in Idx
      BY <1>4, <2>4 DEF Unhanded, Calling, Reports
    <3>2. tasks'[j][i] # "pending" /\ handed'[j][i] = 0 /\ tm'[j][i] = "out"
      BY <1>4, <3>1 DEF InHand, Unhanded, InOrder
    <3>3. tasks'[j][i] \in EndedTask
      BY <1>5, <1>6, <2>1, <3>1, <3>2
    <3>4. tm'[j][i] \in Off
      BY <1>4, <3>1, <3>3 DEF Ended
    <3>5. QED
      BY <3>2, <3>4, Stages
  <2>5. QED
    BY <1>1, <2>1, <2>3, <2>4 DEF Quiet, Calling
<1>7. job_db'[r.job] \in {"done", "stopped"} => \A i \in Idx : tasks'[r.job][i] \in {"pending", "finished", "stopped"}
  BY UpdatedCounts
<1>8. job_db'[r.job] = "done" => \A i \in Idx : task_db'[r.job][i] = "finished"
  BY <1>1, <1>4, <1>5, UpdatedCounts DEF Ended
<1>9. ASSUME NEW k \in Job, k = r.job
      PROVE  /\ job_db'[k] \in {"done", "stopped"} => Quiet(k)'
             /\ job_db'[k] = "done" => \A i \in Idx : task_db'[k][i] = "finished"
  BY <1>6, <1>7, <1>8, <1>9
<1>10. ASSUME NEW k \in Job, k # r.job
      PROVE  /\ job_db'[k] \in {"done", "stopped"} => Quiet(k)'
             /\ job_db'[k] = "done" => \A i \in Idx : task_db'[k][i] = "finished"
  BY <1>2, <1>3, <1>10, Parts DEF Quieted
<1>11. QED
  BY <1>9, <1>10 DEF Quieted

LEMMA UpdatedZombies ==
  ASSUME IInv, NEW c \in Caller, NEW r, NEW q, NEW R, Updated(c, r, q, R)
  PROVE  Zombies'
<1>1. /\ r.job \in Job /\ r = call[c] /\ r \in Reports /\ q = call'[c] /\ q \in Reports /\ q.job = r.job
      /\ q.pc = "check" \/ (q.pc = "add" /\ q.report)
      /\ \A d \in Caller : d # c => call'[d] = call[d]
      /\ Onward(c, r, q) /\ job_map' = job_map
  BY UpdatedRows, CallIs DEF Updated, Onward
<1>2. Tests(c, r.job)'
  BY <1>1 DEF Tests
<1>3. \A d \in Caller, k \in Job : k # r.job /\ Tests(d, k) => Tests(d, k)'
  BY <1>1, OnwardCalls
<1>4. call["scheduler"] = DeadThread => call'["scheduler"] = DeadThread
  BY <1>1, CallIs, Callers
<1>5. \A k \in Job : k # r.job => job_db'[k] = job_db[k]
  BY UpdatedCounts
<1>6. job_map \subseteq Job
  BY Parts DEF Shapes
<1>7. ASSUME NEW k \in job_map', job_db'[k] \in EndedJob
      PROVE  call'["scheduler"] = DeadThread \/ \E d \in Caller : Tests(d, k)'
  <2>1. CASE k = r.job
    BY <1>2, <2>1
  <2>2. CASE k # r.job
    BY <1>1, <1>3, <1>4, <1>5, <1>6, <1>7, <2>2, Parts DEF Zombies
  <2>3. QED
    BY <2>1, <2>2
<1>8. QED
  BY <1>7 DEF Zombies

LEMMA UpdatedCharging ==
  ASSUME IInv, NEW c \in Caller, NEW r, NEW q, NEW R, Updated(c, r, q, R)
  PROVE  Charging'
<1>1. /\ r.job \in Job /\ r.task \in Idx /\ r = call[c] /\ r \in Reports /\ q = call'[c] /\ q.pc \in {"check", "add"}
      /\ r.pc = "update" /\ q \in Reports /\ Coherent(c, r) /\ Shapes /\ r.status \in Told
      /\ \A d \in Caller : d # c => call'[d] = call[d]
      /\ tm' = tm /\ job_map' = job_map /\ revived \subseteq revived'
      /\ r.status \in EndedTask => tm[r.job][r.task] \in Off
      /\ ~ (r.status = "stopped" /\ tasks[r.job][r.task] \in EndedTask)
      /\ tasks[r.job][r.task] \in EndedTask /\ r.status \notin EndedTask => <<r.job, r.task>> \in revived'
  BY UpdatedRows DEF Updated, Onward
<1>2. /\ \A k \in Job, l \in Idx : k # r.job \/ l # r.task => charged'[k][l] = charged[k][l]
      /\ \/ /\ r.bill /\ r.status = "stopped" /\ charged'[r.job][r.task] = charged[r.job][r.task] + 1
         \/ charged'[r.job][r.task] = charged[r.job][r.task]
  <2>1. charged \in [Job -> [Idx -> Nat]]
    BY <1>1 DEF Shapes
  <2>2. PICK v \in Nat : v = charged[r.job][r.task] + 1
    BY <1>1, <2>1
  <2>3. CASE charged' = charged
    BY <2>3
  <2>4. CASE r.bill /\ r.status = "stopped" /\ charged' = [charged EXCEPT ![r.job][r.task] = v]
    BY <1>1, <2>1, <2>2, <2>4, SetAt
  <2>5. QED
    BY <2>2, <2>3, <2>4 DEF Updated
<1>3. \A k \in Job, l \in Idx : tasks[k][l] \in EndedTask /\ (k # r.job \/ l # r.task) => tasks'[k][l] \in EndedTask
  <2>1. \A l \in Idx : tasks[r.job][l] \in EndedTask /\ l # r.task => tasks'[r.job][l] = tasks[r.job][l]
    <3>1. \A l \in R : tasks[r.job][l] = "pending"
      BY DEF Updated
    <3>2. \A l \in Idx : tasks[r.job][l] \in EndedTask => l \notin R
      BY <3>1, Stages
    <3>3. QED
      BY <3>2, UpdatedRows
  <2>2. QED
    BY <2>1, UpdatedRows
<1>4. tasks'[r.job][r.task] = r.status
  BY UpdatedRows
<1>5. CASE c = "scheduler"
  <2>1. \A k \in Job, l \in Idx, pc \in {"lookup", "update"} : \A S : ~ At(k, l, pc, S)'
    BY <1>1, <1>5 DEF At
  <2>2. \A k \in Job, l \in Idx : k # r.job \/ l # r.task => \A S : ~ At(k, l, "update", S)
    BY <1>1, <1>5 DEF At
  <2>3. \A S : At(r.job, r.task, "update", S) <=> r.status \in S
    BY <1>1, <1>5 DEF At
  <2>4. ASSUME NEW k \in Job, NEW l \in Idx, k # r.job \/ l # r.task, Charge1(k, l) PROVE Charge1(k, l)'
    <3>1. charged'[k][l] = charged[k][l]
      BY <1>2, <2>4
    <3>2. ~ At(k, l, "update", {"failed", "finished"})
      BY <2>2, <2>4
    <3>3. /\ ~ At(k, l, "lookup", {"failed", "finished"})' /\ ~ At(k, l, "update", {"failed", "finished"})'
          /\ ~ At(k, l, "update", {"stopped"})'
      BY <2>1
    <3>4. tasks[k][l] \in EndedTask => tasks'[k][l] \in EndedTask
      BY <1>3, <2>4
    <3>5. QED
      BY <1>1, <2>4, <3>1, <3>2, <3>3, <3>4 DEF Charge1
  <2>5. ASSUME NEW k \in Job, NEW l \in Idx, k = r.job, l = r.task, Charge1(k, l), <<k, l>> \notin revived'
        PROVE  Charge1(k, l)'
    <3>1. /\ ~ At(k, l, "lookup", {"failed", "finished"})' /\ ~ At(k, l, "update", {"failed", "finished"})'
          /\ ~ At(k, l, "update", {"stopped"})'
      BY <2>1
    <3>2. charged[k][l] \in Nat
      BY <1>1 DEF Shapes
    <3>3. At(k, l, "update", {"failed", "finished"}) => r.status \in EndedTask
      BY <2>3, <2>5 DEF EndedTask
    <3>4. tasks[k][l] \in EndedTask => r.status \in EndedTask
      BY <1>1, <2>5
    <3>5. CASE r.bill /\ r.status = "stopped" /\ charged'[k][l] = charged[k][l] + 1
      <4>1. At(k, l, "update", {"stopped"}) /\ tasks[k][l] \notin EndedTask
        BY <1>1, <2>3, <2>5, <3>5
      <4>2. charged[k][l] = 0
        BY <2>5, <3>2, <4>1 DEF Charge1
      <4>3. r.status \in EndedTask /\ tm[k][l] \notin Live \union {"out"}
        BY <1>1, <2>5, <3>5, Stages DEF EndedTask
      <4>4. QED
        BY <1>1, <1>4, <2>5, <3>1, <3>5, <4>2, <4>3 DEF Charge1
    <3>6. CASE charged'[k][l] = charged[k][l]
      BY <1>1, <1>4, <2>5, <3>1, <3>3, <3>4, <3>6 DEF Charge1
    <3>7. QED
      BY <1>2, <2>5, <3>5, <3>6
  <2>6. QED
    BY <1>1, <2>4, <2>5, Parts DEF Charging
<1>6. CASE c # "scheduler"
  <2>1. call'["scheduler"] = call["scheduler"] /\ ~ r.bill
    BY <1>1, <1>6, Callers DEF Coherent
  <2>2. \A k \in Job, l \in Idx : charged'[k][l] = charged[k][l]
    BY <1>2, <2>1
  <2>3. \A k \in Job, l \in Idx, pc \in {"lookup", "update"} : \A S : At(k, l, pc, S)' <=> At(k, l, pc, S)
    BY <2>1 DEF At
  <2>4. \A k \in Job, l \in Idx : tasks[k][l] \in EndedTask /\ <<k, l>> \notin revived' => tasks'[k][l] \in EndedTask
    BY <1>1, <1>3, <1>4
  <2>5. ASSUME NEW k \in Job, NEW l \in Idx, Charge1(k, l), <<k, l>> \notin revived' PROVE Charge1(k, l)'
    BY <1>1, <2>1, <2>2, <2>3, <2>4, <2>5 DEF Charge1
  <2>6. QED
    BY <1>1, <2>5, Parts DEF Charging
<1>7. QED
  BY <1>5, <1>6

LEMMA UpdateKeeps == ASSUME IInv, NEW c \in Caller, Update(c) PROVE IInv'
<1>1. CASE Ignored(call[c].job, call[c].task, call[c].status)
  <2>1. /\ call[c].pc = "update" /\ call' = [call EXCEPT ![c].pc = "check"]
        /\ UNCHANGED <<job_db, task_db, job_map, tasks, dependency, tasks_cnt, stopper, tm, lazy_delete_list,
                       lazy_stop_list, sort, phase, handed, charged, revived>>
        /\ tasks[call[c].job][call[c].task] \in EndedTask
    BY <1>1 DEF Update, Ignored, db_vars, mem_vars, tm_vars
  <2>2. QED
    BY <2>1, IgnoredKeeps
<1>2. CASE ~ Ignored(call[c].job, call[c].task, call[c].status)
  <2>1. PICK r, q, R : Updated(c, r, q, R)
    BY <1>2, UpdateForm
  <2>2. /\ r.job \in Job /\ r = call[c] /\ r \in Reports /\ q = call'[c] /\ q.pc \in {"check", "add"} /\ q \in Reports
        /\ \A d \in Caller : d # c => call'[d] = call[d]
        /\ phase.pc = "up" /\ phase.todo = {} /\ phase' = phase
        /\ UNCHANGED <<job_map, tm, lazy_delete_list, sort>>
        /\ ~ Fresh(r.job)
    BY <2>1, UpdatedRows DEF Updated, Onward
  <2>3. Sorted' /\ Recovering'
    BY <2>2, Parts DEF Sorted, Recovering
  <2>4. Unstarted'
    <3>1. \A k \in Job : call'[k] = call[k] \/ call'[k].pc # "start"
      BY <2>2, Callers
    <3>2. ASSUME NEW k \in Job, k # r.job PROVE (Fresh(k) => Fresh(k)') /\ job_db'[k] = job_db[k]
      <4>1. tasks'[k] = tasks[k] /\ dependency'[k] = dependency[k]
        BY <2>1, <3>2, UpdatedRows
      <4>2. job_db'[k] = job_db[k]
        BY <2>1, <3>2, UpdatedCounts
      <4>3. QED
        BY <2>2, <4>1, <4>2 DEF Fresh
    <3>3. job_db'[r.job] # "none" /\ call[r.job].pc # "start"
      BY <2>1, <2>2, UpdatedCounts, Parts DEF Unstarted
    <3>4. QED
      BY <2>2, <3>1, <3>2, <3>3, Parts DEF Unstarted
  <2>5. Reported'
    <3>1. ASSUME NEW d \in Caller, call'[d] \in Reports, call'[d].pc \in {"lookup", "update"} PROVE call'[d] = call[d]
      BY <2>2, <3>1
    <3>2. QED
      BY <2>2, <3>1, Parts DEF Reported
  <2>6. Shapes' /\ Unhanded' /\ Ended' /\ Quieted' /\ Zombies' /\ Charging' /\ CountersMatch'
    BY <2>1, UpdatedShapes, UpdatedUnhanded, UpdatedEnded, UpdatedOver, UpdatedZombies, UpdatedCharging, UpdatedCounts
  <2>7. QED
    BY <2>3, <2>4, <2>5, <2>6 DEF IInv, OrderInv
<1>3. QED
  BY <1>1, <1>2

-----------------------------------------------------------------------------
(* The theorems.                                                           *)

LEMMA Inductive == IInv /\ [Next]_vars => IInv'
<1> SUFFICES ASSUME IInv, [Next]_vars PROVE IInv'
  OBVIOUS
<1>0. Shapes /\ Sorted /\ Recovering
  BY Parts
<1>1. ASSUME NEW j \in Job, CreateJob(j) \/ StartJob(j) PROVE IInv'
  BY <1>1, CreateKeeps, StartKeeps
<1>2. ASSUME NEW c \in Caller, InCall(c) PROVE IInv'
  BY <1>2, LookupKeeps, UpdateKeeps, AddKeeps, CheckKeeps DEF InCall
<1>3. ASSUME NEW j \in Job, StopJob(j) \/ Stopping(j) PROVE IInv'
  BY <1>0, <1>3, StopOutside, OutsideKeeps DEF Stopping
<1>4. CASE Sorting
  <2>1. CASE SortBegin
    BY <1>0, <2>1, BeginOutside, OutsideKeeps
  <2>2. CASE SortStop
    BY <1>0, <2>2, StopsOutside, OutsideKeeps
  <2>3. CASE SortDelete
    BY <1>0, <2>3, DeleteOutside, OutsideKeeps
  <2>4. CASE SortCancel
    BY <1>0, <2>4, CancelOutside, OutsideKeeps
  <2>5. CASE SortEnd
    BY <1>0, <2>5, EndOutside, OutsideKeeps
  <2>6. QED
    BY <1>4, <2>1, <2>2, <2>3, <2>4, <2>5 DEF Sorting
<1>5. ASSUME NEW j \in Job, NEW i \in Idx, Process(j, i) \/ EndTask(j, i) \/ StartFails(j, i) \/ ReportRetrying(j, i)
      PROVE  IInv'
  BY <1>0, <1>5, ScanOutside, OutsideKeeps
<1>6. CASE Crash
  BY <1>6, CrashKeeps
<1>7. ASSUME NEW j \in Job, RecoverJob(j) PROVE IInv'
  BY <1>7, RecoverKeeps
<1>8. CASE RecoverEnd \/ UNCHANGED vars
  BY <1>0, <1>8, RestOutside, OutsideKeeps
<1>9. ASSUME NEW j \in Job, NEW i \in Idx, Hang(j, i) PROVE IInv'
  BY <1>0, <1>9, HangOutside, OutsideKeeps
<1>10. QED
  BY <1>1, <1>2, <1>3, <1>4, <1>5, <1>6, <1>7, <1>8, <1>9 DEF Next

\* What the code of JobMgr keeps true of its jobs, threads and rows, step by step.
THEOREM JobsCorrect == Spec => []IInv
<1>1. Init => IInv
  BY Initially
<1>2. IInv /\ [Next]_vars => IInv'
  BY Inductive
<1>3. QED
  BY <1>1, <1>2, PTL DEF Spec

\* tasks_cnt agrees with the statuses of the tasks, so that _update_job_status sees a
\* job as done, failed or stopped just when its tasks are.
THEOREM CountersRight == Spec => []CountersMatch
<1>1. IInv => CountersMatch
  BY Parts
<1>2. QED
  BY <1>1, JobsCorrect, PTL

\* add_task_taskmgr hands each task to TaskMgr once at most while the master runs, and
\* not before the tasks in its dependency list have finished.
THEOREM TasksInOrder == Spec => []HandedInOrder
<1>1. IInv => HandedInOrder
  BY Parts DEF Unhanded, InOrder, HandedInOrder, Finished
<1>2. QED
  BY <1>1, JobsCorrect, PTL

\* A job is set to done or stopped by _update_job_status only when none of its tasks is
\* in TaskMgr, and no thread is about to hand one over.
THEOREM QuietWhenOver == Spec => []OverIsQuiet
<1>1. IInv => OverIsQuiet
  BY Parts DEF Quieted, Quiet, OverIsQuiet
<1>2. QED
  BY <1>1, JobsCorrect, PTL

\* report does not leave a job that is over in job_map, but where the scheduler thread
\* was ended by an exception.
THEOREM JobsLeave == Spec => []NoZombie
<1>1. IInv => NoZombie
  <2>1. \A c \in Caller, j \in Job : Tests(c, j) => call[c] \notin {Idle, DeadThread} /\ call[c].job = j
    BY CallIs DEF Tests
  <2>2. IInv => job_map \subseteq Job
    BY Parts DEF Shapes
  <2>3. QED
    BY <2>1, <2>2, Parts DEF Zombies, NoZombie
<1>2. QED
  BY <1>1, JobsCorrect, PTL

\* report and update_task_stopped charge for a task once at most, in spite of all the
\* reports on tasks that are over, unless one of those revived it.
THEOREM TasksChargedOnce == Spec => []ChargedOnce
<1>1. IInv => ChargedOnce
  BY Parts DEF Charging, Charge1, ChargedOnce, Pair, Shapes
<1>2. QED
  BY <1>1, JobsCorrect, PTL

=============================================================================
