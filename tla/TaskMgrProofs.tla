---------------------------- MODULE TaskMgrProofs ----------------------------
(***************************************************************************)
(* Proofs about TaskMgr, for every set of tasks and workers and every      *)
(* bound: its type, the queues and the nets (QueueInv), the vnodes on the  *)
(* workers (VnodeInv), and the executions of a subtask from the start of   *)
(* its command to the verdict (FreshInv).                                  *)
(***************************************************************************)
EXTENDS TaskMgr, FiniteSetTheorems, WellFoundedInduction, TLAPS

-----------------------------------------------------------------------------
(* The operators of the model.                                             *)

\* A nonempty set of numbers has a first member.
LEMMA FirstMember ==
  ASSUME NEW S, S \subseteq Nat, S # {}
  PROVE  First(S) \in S
<1> DEFINE Less == {p \in Nat \X Nat : p[1] < p[2]}
<1>1. IsWellFoundedOn(Less, Nat)
  <2>1. OpToRel(<, Nat) = Less
    BY DEF OpToRel
  <2> QED
    BY <2>1, NatLessThanWellFounded
<1> HIDE DEF Less
<1>2. PICK x \in S : \A y \in S : ~(<<y, x>> \in Less)
  BY <1>1, WFMin
<1>3. \A y \in S : x <= y
  <2> SUFFICES ASSUME NEW y \in S, y < x
               PROVE  FALSE
    BY SMT
  <2>1. <<y, x>> \in Nat \X Nat /\ <<y, x>>[1] < <<y, x>>[2]
    OBVIOUS
  <2>2. <<y, x>> \in Less
    BY <2>1, Zenon DEF Less
  <2> QED
    BY <1>2, <2>2
<1> QED
  BY <1>3 DEF First

\* The RPCs of a step add a number to the faults and a truth value to answer_lost.
LEMMA SpendOneType ==
  ASSUME NEW a, faults \in Nat, answer_lost \in BOOLEAN, Spend(<<a>>)
  PROVE  faults' \in Nat /\ answer_lost' \in BOOLEAN
<1> DEFINE B == {i \in DOMAIN <<a>> : <<a>>[i] # "ok"}
<1>1. IsFiniteSet(B)
  BY FS_Interval, FS_Subset
<1>2. Cardinality(B) \in Nat
  BY <1>1, FS_CardinalityType
<1> QED
  BY <1>2 DEF Spend

LEMMA SpendTwoType ==
  ASSUME NEW a, NEW b, faults \in Nat, answer_lost \in BOOLEAN, Spend(<<a, b>>)
  PROVE  faults' \in Nat /\ answer_lost' \in BOOLEAN
<1> DEFINE B == {i \in DOMAIN <<a, b>> : <<a, b>>[i] # "ok"}
<1>1. IsFiniteSet(B)
  <2>1. B \subseteq 1 .. 2
    OBVIOUS
  <2>2. 1 \in Int /\ 2 \in Int
    OBVIOUS
  <2>3. IsFiniteSet(1 .. 2)
    BY <2>2, FS_Interval, Zenon
  <2> QED
    BY <2>1, <2>3, FS_Subset
<1>2. Cardinality(B) \in Nat
  BY <1>1, FS_CardinalityType
<1> QED
  BY <1>2 DEF Spend

-----------------------------------------------------------------------------
(* Types.                                                                  *)

\* What the scheduler thread holds fits where it is: it has a task, the subtask it
\* works on, and a worker for every subtask it is to start.
Located ==
  /\ sched.pc \notin {"sort", "sorting", "scan", "dead"} => sched.task \in Task
  /\ sched.pc = "accepted" => sched.left # {}
  /\ sched.pc = "running" =>
       \A v \in sched.list : subtask[sched.task][v].worker \in Worker
  /\ sched.pc = "vnodes" =>
       \A v \in sched.left : subtask[sched.task][v].worker \in Worker
  /\ \A t \in Task, v \in Vnode :
       subtask[t][v].vnode_started => subtask[t][v].worker \in Worker

TypeInv == TypeOK /\ Located

LEMMA TypeInit == Init => TypeInv
<1> SUFFICES ASSUME Init
             PROVE  TypeInv
  OBVIOUS
<1> USE CountAssumption, WorkerAssumption DEF Init, AtSort, Vnode, Net, NoNet
<1>1. free_nets \in Seq(Net)
  <2>1. free_nets \in [1 .. NetCount -> Net]
    OBVIOUS
  <2> QED
    BY <2>1
<1>2. subtask \in [Task -> [Vnode -> SubTask]]
  BY DEF NewSubTask, SubTask
<1>3. sched \in Schedule
  BY DEF Schedule
<1>4. handler \in [Worker -> Handler]
  BY DEF Handler
<1>5. Located
  BY DEF Located, NewSubTask
<1> QED
  BY <1>1, <1>2, <1>3, <1>4, <1>5 DEF TypeInv, TypeOK

LEMMA TypeHttp ==
  ASSUME TypeInv, NEW t \in Task, AddTask(t) \/ LazyStopTask(t)
  PROVE  TypeInv'
<1> USE DEF TypeInv, TypeOK, Located, nets_vars, queue_vars, worker_vars, report_vars,
           env_vars, fault_vars
<1>1. CASE AddTask(t)
  BY <1>1 DEF AddTask
<1>2. CASE LazyStopTask(t)
  BY <1>2 DEF LazyStopTask
<1> QED
  BY <1>1, <1>2

\* The calls shared by the threads.
LEMMA ClearSubTaskType ==
  ASSUME TypeInv, NEW t \in Task, NEW v \in Vnode, ClearSubTask(t, v)
  PROVE  /\ subtask' \in [Task -> [Vnode -> SubTask]]
         /\ execs' \subseteq [worker: Worker, task: Task, vnode: Vnode, token: Nat,
                              killed: BOOLEAN]
         /\ containers' \subseteq Worker \X Task \X Vnode
         /\ faults' \in Nat /\ answer_lost' \in BOOLEAN
         /\ \A u \in Task, x \in Vnode :
              /\ subtask'[u][x].worker = subtask[u][x].worker
              /\ subtask'[u][x].token = subtask[u][x].token
              /\ subtask'[u][x].vnode_started => subtask[u][x].vnode_started
<1> DEFINE s == subtask[t][v]
<1>1. PICK kill, stop :
        /\ Spend(<<kill, stop>>)
        /\ subtask' = [subtask EXCEPT ![t][v] =
             [s EXCEPT !.task_started = s.task_started /\ kill # "ok",
                       !.status = IF kill = "ok" THEN @ ELSE "FAILED",
                       !.vnode_started = @ /\ ~(HasVnode(s) /\ stop = "ok")]]
        /\ execs' \in {execs, Kill(execs, s.worker, t, v)}
        /\ containers' \subseteq containers
  BY DEF ClearSubTask
<1>2. s \in SubTask
  BY DEF TypeInv, TypeOK
<1>3. faults' \in Nat /\ answer_lost' \in BOOLEAN
  BY <1>1, SpendTwoType DEF TypeInv, TypeOK
<1>4. execs' \subseteq [worker: Worker, task: Task, vnode: Vnode, token: Nat,
                       killed: BOOLEAN]
  <2> DEFINE E == [worker: Worker, task: Task, vnode: Vnode, token: Nat, killed: BOOLEAN]
  <2>1. execs \subseteq E
    BY DEF TypeInv, TypeOK
  <2>2. \A e \in E : [e EXCEPT !.killed = TRUE] \in E
    OBVIOUS
  <2> HIDE DEF E
  <2>3. Kill(execs, s.worker, t, v) \subseteq E
    BY <2>1, <2>2 DEF Kill
  <2> QED
    BY <1>1, <2>1, <2>3 DEF E
<1>5. containers' \subseteq Worker \X Task \X Vnode
  BY <1>1 DEF TypeInv, TypeOK
<1> DEFINE n == [s EXCEPT !.task_started = s.task_started /\ kill # "ok",
                          !.status = IF kill = "ok" THEN @ ELSE "FAILED",
                          !.vnode_started = @ /\ ~(HasVnode(s) /\ stop = "ok")]
<1>6. /\ n \in SubTask
      /\ n.worker = s.worker /\ n.token = s.token
      /\ n.vnode_started => s.vnode_started
  BY <1>2 DEF SubTask
<1>7. subtask' = [subtask EXCEPT ![t][v] = n]
  BY <1>1
<1> HIDE DEF n
<1>8. subtask \in [Task -> [Vnode -> SubTask]]
  BY DEF TypeInv, TypeOK
<1>9. subtask' \in [Task -> [Vnode -> SubTask]]
  BY <1>6, <1>7, <1>8
<1>10. ASSUME NEW u \in Task, NEW x \in Vnode
       PROVE  /\ subtask'[u][x].worker = subtask[u][x].worker
              /\ subtask'[u][x].token = subtask[u][x].token
              /\ subtask'[u][x].vnode_started => subtask[u][x].vnode_started
  BY <1>6, <1>7, <1>8
<1> QED
  BY <1>3, <1>4, <1>5, <1>9, <1>10

\* A step of another thread on the subtasks leaves the scheduler's place as it is.
LEMMA LocatedKept ==
  ASSUME TypeInv, sched' = sched,
         \A u \in Task, x \in Vnode :
           /\ subtask'[u][x].worker = subtask[u][x].worker
           /\ subtask'[u][x].vnode_started => subtask[u][x].vnode_started
  PROVE  Located'
<1>1. /\ sched.pc \notin {"sort", "sorting", "scan", "dead"} => sched.task \in Task
      /\ sched.list \subseteq Vnode /\ sched.left \subseteq Vnode
  BY DEF TypeInv, TypeOK, Located, Schedule
<1> QED
  BY <1>1 DEF TypeInv, Located

LEMMA SubtaskUpdate ==
  ASSUME TypeInv, NEW t \in Task, NEW v \in Vnode, NEW new \in SubTask,
         subtask' = [subtask EXCEPT ![t][v] = new],
         new.worker = subtask[t][v].worker, new.token = subtask[t][v].token,
         new.vnode_started => subtask[t][v].vnode_started
  PROVE  /\ subtask' \in [Task -> [Vnode -> SubTask]]
         /\ subtask'[t][v] = new
         /\ \A u \in Task, x \in Vnode :
              /\ subtask'[u][x].worker = subtask[u][x].worker
              /\ subtask'[u][x].token = subtask[u][x].token
              /\ subtask'[u][x].vnode_started => subtask[u][x].vnode_started
<1>1. subtask \in [Task -> [Vnode -> SubTask]]
  BY DEF TypeInv, TypeOK
<1>2. subtask' \in [Task -> [Vnode -> SubTask]] /\ subtask'[t][v] = new
  BY <1>1
<1>3. \A u \in Task, x \in Vnode : <<u, x>> # <<t, v>> => subtask'[u][x] = subtask[u][x]
  BY <1>1
<1> QED
  BY <1>2, <1>3

LEMMA ReleaseType ==
  ASSUME TypeInv, NEW t \in Task, ReleaseTaskIps(t)
  PROVE  /\ task_base_ip' \in [Task -> Net \cup {NoNet}]
         /\ free_nets' \in Seq(Net)
<1>1. task_base_ip \in [Task -> Net \cup {NoNet}] /\ free_nets \in Seq(Net)
  BY DEF TypeInv, TypeOK
<1>2. CASE task_base_ip[t] = NoNet
  BY <1>1, <1>2 DEF ReleaseTaskIps, nets_vars
<1>3. CASE task_base_ip[t] # NoNet
  <2>1. task_base_ip[t] \in Net
    BY <1>1, <1>3
  <2> QED
    BY <1>1, <1>3, <2>1 DEF ReleaseTaskIps
<1> QED
  BY <1>2, <1>3

LEMMA AcquireType ==
  ASSUME TypeInv, NEW t \in Task, AcquireTaskIps(t),
         task_base_ip[t] = NoNet => free_nets # <<>>
  PROVE  /\ task_base_ip' \in [Task -> Net \cup {NoNet}]
         /\ free_nets' \in Seq(Net)
<1>1. task_base_ip \in [Task -> Net \cup {NoNet}] /\ free_nets \in Seq(Net)
  BY DEF TypeInv, TypeOK
<1>2. CASE task_base_ip[t] = NoNet
  <2>1. Head(free_nets) \in Net /\ Tail(free_nets) \in Seq(Net)
    BY <1>1, <1>2
  <2> QED
    BY <1>1, <1>2, <2>1 DEF AcquireTaskIps
<1>3. CASE task_base_ip[t] # NoNet
  BY <1>1, <1>3 DEF AcquireTaskIps, nets_vars
<1> QED
  BY <1>2, <1>3

LEMMA RetryType ==
  ASSUME NEW s \in SubTask
  PROVE  /\ waiting_for_retry(s) \in SubTask
         /\ waiting_for_retry(s).worker = s.worker
         /\ waiting_for_retry(s).token = s.token
         /\ waiting_for_retry(s).vnode_started = s.vnode_started
<1>1. s.try_count \in Nat /\ MaxRetry \in Nat
  BY CountAssumption DEF SubTask
<1>2. s.try_count + 1 \in Nat
  BY <1>1
<1>3. CASE s.try_count + 1 <= MaxRetry
  BY <1>2, <1>3 DEF waiting_for_retry, SubTask
<1>4. CASE ~(s.try_count + 1 <= MaxRetry)
  BY <1>2, <1>4 DEF waiting_for_retry, SubTask
<1> QED
  BY <1>3, <1>4

LEMMA RestingType ==
  /\ AtSort \in Schedule /\ AtSort.pc = "sort"
  /\ Dead \in Schedule /\ Dead.pc = "dead"
<1>1. AtSort \in Schedule /\ AtSort.pc = "sort"
  BY DEF AtSort, Schedule
<1> QED
  BY <1>1 DEF Dead, Schedule

LEMMA RootStatusType ==
  ASSUME TypeInv, NEW t \in Task, NEW s
  PROVE  RootStatus(t, s) \in [Task -> {"WAITING", "RUNNING", "FAILED"}]
BY DEF RootStatus, TypeInv, TypeOK

-----------------------------------------------------------------------------
\* sort_out_task_queue
LEMMA TypeSort ==
  ASSUME TypeInv, SortBegin \/ SortStopNext \/ StopTask \/ SortEnd
  PROVE  TypeInv'
<1> USE DEF nets_vars, queue_vars, worker_vars, report_vars, env_vars, fault_vars
<1>1. CASE SortBegin
  BY <1>1 DEF SortBegin, TypeInv, TypeOK, Located, Schedule
<1>2. CASE SortStopNext
  <2>1. sched.todo \subseteq Task /\ sched.todo # {}
    BY <1>2 DEF SortStopNext, TypeInv, TypeOK, Schedule
  <2>2. First(sched.todo) \in Task
    BY <2>1, FirstMember, TaskAssumption
  <2> QED
    BY <1>2, <2>1, <2>2 DEF SortStopNext, TypeInv, TypeOK, Located, Schedule
<1>3. CASE StopTask
  <2>1. sched.task \in Task
    BY <1>3 DEF StopTask, TypeInv, Located
  <2>2. task_base_ip' \in [Task -> Net \cup {NoNet}] /\ free_nets' \in Seq(Net)
    BY <1>3, <2>1, ReleaseType DEF StopTask
  <2>3. sched' \in Schedule
    <3>1. sched' \in {Dead, [sched EXCEPT !.pc = "sorting", !.task = 0]}
      BY <1>3 DEF StopTask
    <3>2. [sched EXCEPT !.pc = "sorting", !.task = 0] \in Schedule
      BY DEF Schedule, TypeInv, TypeOK
    <3> QED
      BY <3>1, <3>2, RestingType
  <2>4. Located'
    <3>1. sched'.pc \in {"sorting", "dead"} /\ subtask' = subtask
      BY <1>3, RestingType DEF StopTask, TypeInv, TypeOK, Schedule
    <3> QED
      BY <3>1 DEF TypeInv, Located
  <2>5. TypeOK'
    BY <1>3, <2>1, <2>2, <2>3 DEF StopTask, TypeInv, TypeOK
  <2> QED
    BY <2>4, <2>5 DEF TypeInv
<1>4. CASE SortEnd
  BY <1>4 DEF SortEnd, Kept, Joining, AtSort, TypeInv, TypeOK, Located, Schedule
<1> QED
  BY <1>1, <1>2, <1>3, <1>4

LEMMA TypeSchedulerClear ==
  ASSUME TypeInv, SchedulerClear
  PROVE  TypeInv'
<1>1. sched.task \in Task /\ sched.left \subseteq Vnode /\ sched.left # {}
  BY DEF SchedulerClear, TypeInv, TypeOK, Located, Schedule
<1>2. First(sched.left) \in Vnode
  BY <1>1, FirstMember DEF Vnode
<1>3. ClearSubTask(sched.task, First(sched.left))
  BY DEF SchedulerClear
<1>4. sched' \in Schedule
  BY DEF SchedulerClear, TypeInv, TypeOK, Schedule
<1>5. TypeOK'
  BY <1>1, <1>2, <1>3, <1>4, ClearSubTaskType
     DEF SchedulerClear, TypeInv, TypeOK, nets_vars, queue_vars, report_vars, env_vars
<1>6. /\ sched'.pc = sched.pc /\ sched.pc \in {"stopping", "finishing"}
      /\ sched'.task = sched.task
  BY DEF SchedulerClear, TypeInv, TypeOK, Schedule
<1>7. Located'
  BY <1>1, <1>2, <1>3, <1>6, ClearSubTaskType DEF TypeInv, TypeOK, Located
<1> QED
  BY <1>5, <1>7 DEF TypeInv

-----------------------------------------------------------------------------
\* task_scheduler
LEMMA ExaminedType ==
  ASSUME TypeInv, sched.todo # {}
  PROVE  Examined \in Task /\ Examined \in sched.todo
BY FirstMember, TaskAssumption DEF Examined, TypeInv, TypeOK, Schedule

LEMMA TypeScan ==
  ASSUME TypeInv, ScanSkip \/ ScanCompleted \/ ScanNoPlace \/ ScanRaises \/ ScanEnd
  PROVE  TypeInv'
<1> USE DEF nets_vars, queue_vars, worker_vars, report_vars, env_vars, fault_vars
<1>1. /\ sched' \in Schedule
      /\ sched'.pc \in {"scan", "sort", "dead", "finishing"}
      /\ sched'.pc = "finishing" => sched'.task \in Task
  <2>1. CASE ScanSkip
    BY <2>1 DEF ScanSkip, TypeInv, TypeOK, Schedule
  <2>2. CASE ScanCompleted
    <3>1. Examined \in Task
      BY <2>2, ExaminedType DEF ScanCompleted
    <3> QED
      BY <2>2, <3>1 DEF ScanCompleted, TypeInv, TypeOK, Schedule
  <2>3. CASE ScanNoPlace
    <3>1. [sched EXCEPT !.todo = @ \ {Examined}, !.gpu_pending = TRUE] \in Schedule
      BY DEF Schedule, TypeInv, TypeOK
    <3> QED
      BY <2>3, <3>1, RestingType DEF ScanNoPlace, TypeInv, TypeOK, Schedule
  <2>4. CASE ScanRaises
    BY <2>4, RestingType DEF ScanRaises
  <2>5. CASE ScanEnd
    BY <2>5, RestingType DEF ScanEnd
  <2> QED
    BY <2>1, <2>2, <2>3, <2>4, <2>5
<1>2. UNCHANGED <<queue_vars, task_status, subtask, nets_vars, report_vars, worker_vars,
                  env_vars, job_view, billed, fault_vars>>
  BY DEF ScanSkip, ScanCompleted, ScanNoPlace, ScanRaises, ScanEnd
<1> QED
  BY <1>1, <1>2 DEF TypeInv, TypeOK, Located

LEMMA TypeFinish ==
  ASSUME TypeInv, FinishTask
  PROVE  TypeInv'
<1> USE DEF nets_vars, queue_vars, worker_vars, report_vars, env_vars, fault_vars
<1>1. sched.task \in Task
  BY DEF FinishTask, TypeInv, Located
<1>2. task_base_ip' \in [Task -> Net \cup {NoNet}] /\ free_nets' \in Seq(Net)
  BY <1>1, ReleaseType DEF FinishTask
<1>3. sched' \in Schedule /\ sched'.pc \in {"scan", "dead"}
  <2>1. sched' \in {Dead, [sched EXCEPT !.pc = "scan", !.task = 0]}
    BY DEF FinishTask
  <2>2. /\ [sched EXCEPT !.pc = "scan", !.task = 0] \in Schedule
        /\ [sched EXCEPT !.pc = "scan", !.task = 0].pc = "scan"
    BY DEF Schedule, TypeInv, TypeOK
  <2> QED
    BY <2>1, <2>2, RestingType
<1>4. Located'
  BY <1>3 DEF FinishTask, TypeInv, Located
<1>5. billed' \in [Task -> Nat]
  <2>1. \/ billed' = [billed EXCEPT ![sched.task] = @ + 1]
        \/ billed' = billed
    BY DEF FinishTask
  <2>2. billed \in [Task -> Nat]
    BY DEF TypeInv, TypeOK
  <2> QED
    BY <1>1, <2>1, <2>2
<1>6. /\ job_view' \in [Task -> {"none", "scheduling", "running", "retrying",
                                "finished", "failed", "stopped"}]
      /\ lazy_delete_list' \subseteq Task
  BY <1>1 DEF FinishTask, TypeInv, TypeOK
<1> QED
  BY <1>2, <1>3, <1>4, <1>5, <1>6 DEF FinishTask, TypeInv, TypeOK

\* A placement: the subtasks to start, and a worker for each.
PlaceLists == IF Examined \in AtSameTime THEN {Vnode} ELSE {{v} : v \in Waiting(Examined)}
Places(list) == [list -> {w \in Worker : nodes[w] = "on"}
                           \cup {subtask[Examined][v].worker : v \in Vnode}]
Placed(list, place) ==
  /\ \A v \in list :
       LET s == subtask[Examined][v]
       IN IF s.vnode_started THEN place[v] = s.worker
          ELSE place[v] \in Worker /\ nodes[place[v]] = "on"
  /\ \E w \in Worker : nodes[w] = "on"
  /\ subtask' = [subtask EXCEPT ![Examined] =
       [v \in Vnode |-> IF v \in list THEN [@[v] EXCEPT !.worker = place[v]] ELSE @[v]]]
  /\ sched' = [AtSort EXCEPT !.pc = "running", !.task = Examined, !.list = list]

LEMMA PlaceShape ==
  ASSUME ScanPlace
  PROVE  \E list \in PlaceLists : \E place \in Places(list) : Placed(list, place)
BY Zenon DEF ScanPlace, PlaceLists, Places, Placed

LEMMA TypePlace ==
  ASSUME TypeInv, ScanPlace
  PROVE  TypeInv'
<1> USE DEF nets_vars, queue_vars, worker_vars, report_vars, env_vars, fault_vars
<1> DEFINE t == Examined
<1>1. t \in Task
  BY ExaminedType DEF ScanPlace
<1> PICK list \in PlaceLists : \E place \in Places(list) : Placed(list, place)
  BY PlaceShape
<1> PICK place \in Places(list) : Placed(list, place)
  OBVIOUS
<1>3. /\ \A v \in list : IF subtask[t][v].vnode_started
                         THEN place[v] = subtask[t][v].worker
                         ELSE place[v] \in Worker
      /\ subtask' = [subtask EXCEPT ![t] =
           [v \in Vnode |-> IF v \in list THEN [@[v] EXCEPT !.worker = place[v]]
                            ELSE @[v]]]
      /\ sched' = [AtSort EXCEPT !.pc = "running", !.task = t, !.list = list]
  BY DEF Placed
<1>4. list \subseteq Vnode
  BY DEF PlaceLists, Waiting
<1>5. sched' \in Schedule /\ sched'.pc = "running" /\ sched'.task = t /\ sched'.list = list
  BY <1>1, <1>3, <1>4 DEF AtSort, Schedule
<1>6. \A v \in list : place[v] \in Worker
  BY <1>1, <1>3, <1>4 DEF TypeInv, Located
<1>7. subtask \in [Task -> [Vnode -> SubTask]]
  BY DEF TypeInv, TypeOK
<1> HIDE DEF t
<1> DEFINE row == [v \in Vnode |-> IF v \in list
                                   THEN [subtask[t][v] EXCEPT !.worker = place[v]]
                                   ELSE subtask[t][v]]
<1>8. subtask' = [subtask EXCEPT ![t] = row]
  BY <1>3
<1>9. \A v \in Vnode :
        /\ row[v] \in SubTask
        /\ v \in list => row[v].worker \in Worker
        /\ row[v].vnode_started => row[v].worker \in Worker
  <2> TAKE v \in Vnode
  <2>1. subtask[t][v] \in SubTask
    BY <1>1, <1>7
  <2>2. CASE v \in list
    BY <1>6, <2>1, <2>2 DEF SubTask
  <2>3. CASE v \notin list
    BY <1>1, <2>1, <2>3 DEF TypeInv, Located
  <2> QED
    BY <2>2, <2>3
<1>10. row \in [Vnode -> SubTask]
  BY <1>9
<1> HIDE DEF row
<1>11. subtask' \in [Task -> [Vnode -> SubTask]] /\ subtask'[t] = row
  BY <1>1, <1>7, <1>8, <1>10
<1>12. \A u \in Task \ {t} : subtask'[u] = subtask[u]
  BY <1>7, <1>8
<1>13. Located'
  BY <1>1, <1>4, <1>5, <1>9, <1>11, <1>12 DEF TypeInv, Located
<1> QED
  BY <1>5, <1>11, <1>13 DEF ScanPlace, TypeInv, TypeOK

-----------------------------------------------------------------------------
\* task_processor
LEMMA LeftType ==
  ASSUME TypeInv, sched.left # {}
  PROVE  First(sched.left) \in Vnode /\ First(sched.left) \in sched.left
<1>1. sched.left \subseteq Nat
  BY DEF TypeInv, TypeOK, Schedule, Vnode
<1>2. First(sched.left) \in sched.left
  BY <1>1, FirstMember
<1> QED
  BY <1>2 DEF TypeInv, TypeOK, Schedule

LEMMA RetryReportType ==
  ASSUME TypeInv, NEW t \in Task, NEW s, Retry(t, s)
  PROVE  /\ task_status' \in [Task -> {"WAITING", "RUNNING", "FAILED"}]
         /\ job_view' \in [Task -> {"none", "scheduling", "running", "retrying",
                                   "finished", "failed", "stopped"}]
<1>1. task_status' \in [Task -> {"WAITING", "RUNNING", "FAILED"}]
  BY RootStatusType DEF Retry
<1> QED
  BY <1>1 DEF Retry, TypeInv, TypeOK

LEMMA TypeProcess ==
  ASSUME TypeInv, ProcessTask \/ VnodesDone \/ CommandsDone
  PROVE  TypeInv'
<1> USE DEF nets_vars, queue_vars, worker_vars, report_vars, env_vars, fault_vars
<1>1. CASE ProcessTask
  <2>1. sched.task \in Task
    BY <1>1 DEF ProcessTask, TypeInv, Located
  <2>2. /\ task_base_ip' \in [Task -> Net \cup {NoNet}] /\ free_nets' \in Seq(Net)
        /\ sched' \in {Dead, [sched EXCEPT !.pc = "vnodes", !.left = sched.list]}
    <3>1. CASE task_base_ip[sched.task] = NoNet /\ free_nets = <<>>
      BY <1>1, <3>1 DEF ProcessTask, TypeInv, TypeOK
    <3>2. CASE ~(task_base_ip[sched.task] = NoNet /\ free_nets = <<>>)
      BY <1>1, <2>1, <3>2, AcquireType DEF ProcessTask
    <3> QED
      BY <3>1, <3>2
  <2>3. [sched EXCEPT !.pc = "vnodes", !.left = sched.list] \in Schedule
    BY DEF TypeInv, TypeOK, Schedule
  <2>4. TypeOK'
    BY <1>1, <2>1, <2>2, <2>3, RestingType DEF ProcessTask, TypeInv, TypeOK
  <2>5. \/ sched'.pc = "dead"
        \/ /\ sched.pc = "running" /\ sched'.pc = "vnodes"
           /\ sched'.task = sched.task /\ sched'.left = sched.list
    BY <1>1, <2>2, RestingType DEF ProcessTask, TypeInv, TypeOK, Schedule
  <2>6. Located'
    BY <1>1, <2>1, <2>5 DEF ProcessTask, TypeInv, Located
  <2> QED
    BY <2>4, <2>6 DEF TypeInv
<1>2. CASE VnodesDone \/ CommandsDone
  <2>1. sched' \in {AtSort, [sched EXCEPT !.pc = "commands", !.left = sched.list]}
    BY <1>2 DEF VnodesDone, CommandsDone
  <2>2. [sched EXCEPT !.pc = "commands", !.left = sched.list] \in Schedule
    BY DEF TypeInv, TypeOK, Schedule
  <2>3. sched.task \in Task
    BY <1>2 DEF VnodesDone, CommandsDone, TypeInv, Located
  <2>4. \/ sched'.pc = "sort"
        \/ sched'.pc = "commands" /\ sched'.task = sched.task
    BY <2>1, RestingType DEF TypeInv, TypeOK, Schedule
  <2> QED
    BY <1>2, <2>1, <2>2, <2>3, <2>4, RestingType
       DEF VnodesDone, CommandsDone, TypeInv, TypeOK, Located
<1> QED
  BY <1>1, <1>2

LEMMA TypeStartVnode ==
  ASSUME TypeInv, StartVnode
  PROVE  TypeInv'
<1> USE DEF nets_vars, queue_vars, worker_vars, report_vars, env_vars, fault_vars
<1> DEFINE t == sched.task
           v == First(sched.left)
           s == subtask[t][v]
           rest == [sched EXCEPT !.left = @ \ {v}]
<1>1. t \in Task /\ v \in Vnode /\ v \in sched.left /\ s \in SubTask
  BY LeftType DEF StartVnode, TypeInv, TypeOK, Located
<1>2. subtask \in [Task -> [Vnode -> SubTask]]
  BY DEF TypeInv, TypeOK
<1>3. s.worker \in Worker
  BY <1>1 DEF StartVnode, TypeInv, Located
<1>4. /\ rest \in Schedule /\ [rest EXCEPT !.ok = FALSE] \in Schedule
      /\ \A r \in {rest, [rest EXCEPT !.ok = FALSE]} :
           r.pc = "vnodes" /\ r.task = t /\ r.left = sched.left \ {v}
  BY DEF StartVnode, TypeInv, TypeOK, Schedule
<1>5. sched' \in {rest, [rest EXCEPT !.ok = FALSE]}
  BY DEF StartVnode
<1>6. \/ s.vnode_started /\ UNCHANGED <<subtask, containers, task_status, job_view, fault_vars>>
      \/ \E r \in RpcOutcome :
           /\ ~s.vnode_started
           /\ Spend(<<r>>)
           /\ containers' \in {containers, containers \cup {<<s.worker, t, v>>}}
           /\ \/ /\ subtask' = [subtask EXCEPT ![t][v].vnode_started = TRUE]
                 /\ UNCHANGED <<task_status, job_view>>
              \/ /\ subtask' = [subtask EXCEPT ![t][v] =
                       [waiting_for_retry(s) EXCEPT !.worker = NoWorker]]
                 /\ Retry(t, s)
  BY DEF StartVnode
<1>6a. faults' \in Nat /\ answer_lost' \in BOOLEAN
  BY <1>6, SpendOneType DEF TypeInv, TypeOK
<1>6b. /\ task_status' \in [Task -> {"WAITING", "RUNNING", "FAILED"}]
       /\ job_view' \in [Task -> {"none", "scheduling", "running", "retrying",
                                 "finished", "failed", "stopped"}]
  BY <1>1, <1>6, RetryReportType DEF TypeInv, TypeOK
<1>6c. containers' \subseteq Worker \X Task \X Vnode
  <2>1. <<s.worker, t, v>> \in Worker \X Task \X Vnode
    BY <1>1, <1>3
  <2>2. containers' \in {containers, containers \cup {<<s.worker, t, v>>}}
    BY <1>6
  <2> HIDE DEF s, t, v
  <2> QED
    BY <2>1, <2>2 DEF TypeInv, TypeOK
<1> DEFINE started == [s EXCEPT !.vnode_started = TRUE]
           refused == [waiting_for_retry(s) EXCEPT !.worker = NoWorker]
           News == {s, started} \cup (IF s.vnode_started THEN {} ELSE {refused})
<1>7. \E new \in News : subtask' = [subtask EXCEPT ![t][v] = new]
  <2>1. subtask = [subtask EXCEPT ![t][v] = s]
    BY <1>1, <1>2
  <2>2. [subtask EXCEPT ![t][v].vnode_started = TRUE] = [subtask EXCEPT ![t][v] = started]
    BY <1>1, <1>2
  <2>3. CASE s.vnode_started /\ subtask' = subtask
    BY <2>1, <2>3
  <2>4. CASE /\ ~s.vnode_started
             /\ subtask' = [subtask EXCEPT ![t][v].vnode_started = TRUE]
    BY <2>2, <2>4
  <2>5. CASE ~s.vnode_started /\ subtask' = [subtask EXCEPT ![t][v] = refused]
    BY <2>5
  <2> QED
    BY <1>6, <2>3, <2>4, <2>5
<1>8. \A new \in News :
        new \in SubTask /\ (new.vnode_started => new.worker \in Worker)
  <2>1. s \in SubTask /\ started \in SubTask /\ started.worker = s.worker
    BY <1>1 DEF SubTask
  <2>2. refused \in SubTask /\ refused.vnode_started = s.vnode_started
    BY <1>1, RetryType DEF SubTask
  <2> QED
    BY <1>3, <2>1, <2>2
<1> HIDE DEF started, refused, rest, News
<1> PICK new \in News : subtask' = [subtask EXCEPT ![t][v] = new]
  BY <1>7
<1>9. subtask' \in [Task -> [Vnode -> SubTask]] /\ subtask'[t][v] = new
  BY <1>1, <1>2, <1>8
<1>10. \A u \in Task, x \in Vnode : <<u, x>> # <<t, v>> => subtask'[u][x] = subtask[u][x]
  BY <1>1, <1>2
<1>11. Located'
  <2>1. \A u \in Task, x \in Vnode :
          subtask'[u][x].vnode_started => subtask'[u][x].worker \in Worker
    BY <1>8, <1>9, <1>10 DEF TypeInv, Located
  <2>2. sched'.pc = "vnodes" /\ sched'.task = t /\ sched'.left = sched.left \ {v}
    BY <1>4, <1>5
  <2>3. \A x \in sched'.left : subtask'[t][x].worker \in Worker
    BY <1>1, <1>10, <2>2 DEF StartVnode, TypeInv, TypeOK, Located, Schedule
  <2> QED
    BY <1>1, <2>1, <2>2, <2>3 DEF Located
<1> QED
  BY <1>4, <1>5, <1>6a, <1>6b, <1>6c, <1>9, <1>11 DEF StartVnode, TypeInv, TypeOK

LEMMA TypeStartCommand ==
  ASSUME TypeInv, StartCommand
  PROVE  TypeInv'
<1> USE DEF nets_vars, queue_vars, worker_vars, report_vars, env_vars, fault_vars
<1> DEFINE t == sched.task
           v == First(sched.left)
           s == subtask[t][v]
           tok == [s EXCEPT !.token = @ + 1]
           rest == [sched EXCEPT !.left = @ \ {v}]
           exec == [worker |-> s.worker, task |-> t, vnode |-> v, token |-> tok.token,
                    killed |-> FALSE]
<1>1. t \in Task /\ v \in Vnode /\ v \in sched.left /\ s \in SubTask
  BY LeftType DEF StartCommand, TypeInv, TypeOK, Located
<1>2. subtask \in [Task -> [Vnode -> SubTask]]
  BY DEF TypeInv, TypeOK
<1>3. /\ tok \in SubTask /\ tok.worker = s.worker
      /\ tok.vnode_started = s.vnode_started
  BY <1>1 DEF SubTask
<1>4. /\ rest \in Schedule /\ rest.pc = "commands" /\ rest.task = t
      /\ [sched EXCEPT !.pc = "accepted"] \in Schedule
      /\ [sched EXCEPT !.pc = "accepted"].pc = "accepted"
      /\ [sched EXCEPT !.pc = "accepted"].task = t
      /\ [sched EXCEPT !.pc = "accepted"].left = sched.left
  BY DEF StartCommand, TypeInv, TypeOK, Schedule
<1>5. \/ /\ subtask' = [subtask EXCEPT ![t][v].status = "RUNNING"]
         /\ sched' = rest
         /\ UNCHANGED <<execs, task_status, job_view, fault_vars>>
      \/ \E r \in RpcOutcome :
           /\ Spend(<<r>>)
           /\ execs' = IF Served(r) /\ <<s.worker, t, v>> \in containers
                       THEN execs \cup {exec} ELSE execs
           /\ \/ /\ subtask' = [subtask EXCEPT ![t][v] = tok]
                 /\ sched' = [sched EXCEPT !.pc = "accepted"]
                 /\ UNCHANGED <<task_status, job_view>>
              \/ /\ subtask' = [subtask EXCEPT ![t][v] = waiting_for_retry(tok)]
                 /\ sched' = rest
                 /\ Retry(t, tok)
  BY DEF StartCommand
<1>6. faults' \in Nat /\ answer_lost' \in BOOLEAN
  BY <1>5, SpendOneType DEF TypeInv, TypeOK
<1>7. /\ task_status' \in [Task -> {"WAITING", "RUNNING", "FAILED"}]
      /\ job_view' \in [Task -> {"none", "scheduling", "running", "retrying",
                                "finished", "failed", "stopped"}]
  BY <1>1, <1>5, RetryReportType DEF TypeInv, TypeOK
<1>8. execs' \subseteq [worker: Worker, task: Task, vnode: Vnode, token: Nat,
                       killed: BOOLEAN]
  <2>1. <<s.worker, t, v>> \in containers => s.worker \in Worker
    BY DEF TypeInv, TypeOK
  <2>2. tok.token \in Nat
    BY <1>3 DEF SubTask
  <2>3. <<s.worker, t, v>> \in containers =>
          exec \in [worker: Worker, task: Task, vnode: Vnode, token: Nat, killed: BOOLEAN]
    BY <1>1, <2>1, <2>2
  <2> HIDE DEF exec
  <2>4. \/ execs' = execs
        \/ <<s.worker, t, v>> \in containers /\ execs' = execs \cup {exec}
    BY <1>5
  <2> QED
    BY <2>3, <2>4 DEF TypeInv, TypeOK
<1> DEFINE run == [s EXCEPT !.status = "RUNNING"]
<1>9. \E new \in {run, tok, waiting_for_retry(tok)} : subtask' = [subtask EXCEPT ![t][v] = new]
  <2>1. [subtask EXCEPT ![t][v].status = "RUNNING"] = [subtask EXCEPT ![t][v] = run]
    BY <1>1, <1>2
  <2> HIDE DEF run, tok
  <2> QED
    BY <1>5, <2>1
<1>10. \A new \in {run, tok, waiting_for_retry(tok)} :
         new \in SubTask /\ (new.vnode_started => new.worker \in Worker)
  <2>1. s.vnode_started => s.worker \in Worker
    BY <1>1 DEF TypeInv, Located
  <2>2. run \in SubTask /\ run.worker = s.worker /\ run.vnode_started = s.vnode_started
    BY <1>1 DEF SubTask
  <2> HIDE DEF run, tok
  <2> QED
    BY <1>3, <2>1, <2>2, RetryType
<1>11. sched' \in {rest, [sched EXCEPT !.pc = "accepted"]}
  BY <1>5
<1>12. sched.left # {}
  BY DEF StartCommand
<1> HIDE DEF run, tok, rest
<1> PICK new \in {run, tok, waiting_for_retry(tok)} :
      subtask' = [subtask EXCEPT ![t][v] = new]
  BY <1>9
<1>13. subtask' \in [Task -> [Vnode -> SubTask]] /\ subtask'[t][v] = new
  BY <1>1, <1>2, <1>10
<1>14. \A u \in Task, x \in Vnode : <<u, x>> # <<t, v>> => subtask'[u][x] = subtask[u][x]
  BY <1>1, <1>2
<1>15. Located'
  BY <1>1, <1>4, <1>10, <1>11, <1>12, <1>13, <1>14 DEF TypeInv, Located
<1> QED
  BY <1>4, <1>6, <1>7, <1>8, <1>11, <1>13, <1>15 DEF StartCommand, TypeInv, TypeOK

LEMMA TypeCommandAccepted ==
  ASSUME TypeInv, CommandAccepted
  PROVE  TypeInv'
<1> USE DEF nets_vars, queue_vars, worker_vars, report_vars, env_vars, fault_vars
<1> DEFINE t == sched.task
           v == First(sched.left)
           new == [subtask[t][v] EXCEPT !.task_started = TRUE, !.status = "RUNNING"]
<1>1. t \in Task /\ v \in Vnode /\ subtask[t][v] \in SubTask
  BY LeftType DEF CommandAccepted, TypeInv, TypeOK, Located
<1>2. subtask \in [Task -> [Vnode -> SubTask]]
  BY DEF TypeInv, TypeOK
<1>3. /\ new \in SubTask
      /\ new.worker = subtask[t][v].worker
      /\ new.vnode_started = subtask[t][v].vnode_started
  BY <1>1 DEF SubTask
<1>4. subtask' = [subtask EXCEPT ![t][v] = new]
  BY <1>1, <1>2 DEF CommandAccepted
<1>5. sched' \in Schedule /\ sched'.pc = "commands" /\ sched'.task = t
  BY DEF CommandAccepted, TypeInv, TypeOK, Schedule
<1> HIDE DEF new
<1>6. subtask' \in [Task -> [Vnode -> SubTask]]
  BY <1>1, <1>2, <1>3, <1>4
<1>7. Located'
  BY <1>1, <1>2, <1>3, <1>4, <1>5 DEF TypeInv, Located
<1> QED
  BY <1>5, <1>6, <1>7 DEF CommandAccepted, TypeInv, TypeOK

-----------------------------------------------------------------------------
\* The report threads.
LEMMA TypeReporting ==
  ASSUME TypeInv, NEW w \in Worker, Reporting(w) \/ ReportLost(w)
  PROVE  /\ TypeInv'
         /\ \A u \in Task, x \in Vnode : subtask'[u][x].token = subtask[u][x].token
<1> USE DEF nets_vars, queue_vars, worker_vars, report_vars, env_vars, fault_vars
<1>1. CASE ReportMsg(w)
  BY <1>1 DEF ReportMsg, TypeInv, TypeOK, Located
<1>2. CASE ReportLost(w)
  BY <1>2, SpendOneType DEF ReportLost, TypeInv, TypeOK, Located
<1>3. CASE OnTaskReport(w)
  <2>1. PICK m \in batch[w] :
          LET s == subtask[m.task][m.vnode]
          IN /\ batch' = [batch EXCEPT ![w] = @ \ {m}]
             /\ IF m.task \in task_queue /\ s.token = m.token
                THEN /\ subtask' = [subtask EXCEPT ![m.task][m.vnode] = Heard(s, m)]
                     /\ handler' = [handler EXCEPT ![w] =
                          [pc |-> "clear", msg |-> m, found |-> s.status]]
                ELSE UNCHANGED <<subtask, handler>>
    BY <1>3 DEF OnTaskReport
  <2> DEFINE s == subtask[m.task][m.vnode]
             hand == [pc |-> "clear", msg |-> m, found |-> s.status]
  <2>2. m \in TaskMsg /\ m.task \in Task /\ m.vnode \in Vnode
    BY DEF TypeInv, TypeOK, TaskMsg
  <2>3. subtask \in [Task -> [Vnode -> SubTask]] /\ s \in SubTask
    BY <2>2 DEF TypeInv, TypeOK
  <2>4. /\ Heard(s, m) \in SubTask
        /\ Heard(s, m).worker = s.worker
        /\ Heard(s, m).token = s.token
        /\ Heard(s, m).vnode_started = s.vnode_started
    BY <2>3 DEF Heard, SubTask
  <2>5. hand \in Handler
    BY <2>2, <2>3 DEF Handler, SubTask
  <2>6. /\ batch' \in [Worker -> SUBSET TaskMsg]
        /\ \/ /\ subtask' = [subtask EXCEPT ![m.task][m.vnode] = Heard(s, m)]
              /\ handler' = [handler EXCEPT ![w] = hand]
           \/ UNCHANGED <<subtask, handler>>
    BY <2>1 DEF TypeInv, TypeOK
  <2> HIDE DEF hand
  <2>7. handler' \in [Worker -> Handler]
    BY <2>5, <2>6 DEF TypeInv, TypeOK
  <2>8. /\ subtask' \in [Task -> [Vnode -> SubTask]]
        /\ \A u \in Task, x \in Vnode :
             /\ subtask'[u][x].worker = subtask[u][x].worker
             /\ subtask'[u][x].token = subtask[u][x].token
             /\ subtask'[u][x].vnode_started => subtask[u][x].vnode_started
    <3>1. CASE subtask' = subtask
      BY <2>3, <3>1
    <3>2. CASE subtask' = [subtask EXCEPT ![m.task][m.vnode] = Heard(s, m)]
      <4> DEFINE t == m.task
                 v == m.vnode
                 new == Heard(s, m)
      <4>1. /\ t \in Task /\ v \in Vnode /\ new \in SubTask
            /\ subtask' = [subtask EXCEPT ![t][v] = new]
            /\ new.worker = subtask[t][v].worker
            /\ new.token = subtask[t][v].token
            /\ new.vnode_started => subtask[t][v].vnode_started
        BY <2>2, <2>4, <3>2
      <4> HIDE DEF t, v, new
      <4> QED
        BY <4>1, SubtaskUpdate
    <3> QED
      BY <2>6, <3>1, <3>2
  <2>9. Located'
    BY <1>3, <2>8, LocatedKept DEF OnTaskReport
  <2> QED
    BY <1>3, <2>6, <2>7, <2>8, <2>9 DEF OnTaskReport, TypeInv, TypeOK
<1>4. CASE HandlerClear(w)
  <2> DEFINE m == handler[w].msg
  <2>1. handler[w] \in Handler /\ handler[w].pc = "clear"
    BY <1>4 DEF HandlerClear, TypeInv, TypeOK
  <2>2. /\ m.task \in Task /\ m.vnode \in Vnode
        /\ [handler[w] EXCEPT !.pc = "verdict"] \in Handler
    BY <2>1 DEF Handler, NoHandler, TaskMsg
  <2>3. ClearSubTask(m.task, m.vnode)
    BY <1>4 DEF HandlerClear
  <2>4. handler' \in [Worker -> Handler]
    <3>1. NoHandler \in Handler /\ handler \in [Worker -> Handler]
      BY DEF Handler, TypeInv, TypeOK
    <3>2. \E h \in {NoHandler, [handler[w] EXCEPT !.pc = "verdict"]} :
            handler' = [handler EXCEPT ![w] = h]
      BY <1>4 DEF HandlerClear
    <3> QED
      BY <2>2, <3>1, <3>2
  <2>5. Located'
    BY <1>4, <2>2, <2>3, ClearSubTaskType, LocatedKept DEF HandlerClear
  <2> HIDE DEF m
  <2>6. TypeOK'
    BY <1>4, <2>2, <2>3, <2>4, ClearSubTaskType DEF HandlerClear, TypeInv, TypeOK
  <2> QED
    BY <2>2, <2>3, <2>5, <2>6, ClearSubTaskType DEF TypeInv
<1>5. CASE HandlerVerdict(w)
  <2> DEFINE m == handler[w].msg
             s == subtask[m.task][m.vnode]
             new == IF m.status = "FAILED" THEN waiting_for_retry(s)
                    ELSE [s EXCEPT !.status = "FAILED"]
  <2>1. handler[w] \in Handler /\ handler[w].pc = "verdict"
    BY <1>5 DEF HandlerVerdict, TypeInv, TypeOK
  <2>2. /\ m.task \in Task /\ m.vnode \in Vnode
        /\ [handler[w] EXCEPT !.pc = "tell"] \in Handler
    BY <2>1 DEF Handler, NoHandler, TaskMsg
  <2>3. s \in SubTask
    BY <2>2 DEF TypeInv, TypeOK
  <2>4. /\ new \in SubTask
        /\ new.worker = s.worker
        /\ new.token = s.token
        /\ new.vnode_started = s.vnode_started
    <3>1. CASE m.status = "FAILED"
      BY <2>3, <3>1, RetryType
    <3>2. CASE m.status # "FAILED"
      BY <2>3, <3>2 DEF SubTask
    <3> QED
      BY <3>1, <3>2
  <2>5. /\ subtask' = [subtask EXCEPT ![m.task][m.vnode] = new]
        /\ task_status' = RootStatus(m.task, new)
        /\ \E h \in {NoHandler, [handler[w] EXCEPT !.pc = "tell"]} :
             handler' = [handler EXCEPT ![w] = h]
    BY <1>5 DEF HandlerVerdict
  <2> HIDE DEF new
  <2>6. handler' \in [Worker -> Handler]
    <3>1. NoHandler \in Handler /\ handler \in [Worker -> Handler]
      BY DEF Handler, TypeInv, TypeOK
    <3> QED
      BY <2>2, <2>5, <3>1
  <2>7. task_status' \in [Task -> {"WAITING", "RUNNING", "FAILED"}]
    BY <2>2, <2>5, RootStatusType
  <2>8. /\ subtask' \in [Task -> [Vnode -> SubTask]]
        /\ \A u \in Task, x \in Vnode :
             /\ subtask'[u][x].worker = subtask[u][x].worker
             /\ subtask'[u][x].token = subtask[u][x].token
             /\ subtask'[u][x].vnode_started => subtask[u][x].vnode_started
    <3> DEFINE t == m.task
               v == m.vnode
    <3>1. /\ t \in Task /\ v \in Vnode /\ new \in SubTask
          /\ subtask' = [subtask EXCEPT ![t][v] = new]
          /\ new.worker = subtask[t][v].worker
          /\ new.token = subtask[t][v].token
          /\ new.vnode_started => subtask[t][v].vnode_started
      BY <2>2, <2>4, <2>5
    <3> HIDE DEF t, v
    <3> QED
      BY <3>1, SubtaskUpdate
  <2>9. Located'
    BY <1>5, <2>8, LocatedKept DEF HandlerVerdict
  <2> QED
    BY <1>5, <2>6, <2>7, <2>8, <2>9 DEF HandlerVerdict, TypeInv, TypeOK
<1>6. CASE HandlerTell(w)
  <2>1. NoHandler \in Handler
    BY DEF Handler
  <2> QED
    BY <1>6, <2>1 DEF HandlerTell, TypeInv, TypeOK, Located
<1> QED
  BY <1>1, <1>2, <1>3, <1>4, <1>5, <1>6 DEF Reporting

-----------------------------------------------------------------------------
\* The workers.
LEMMA TypeCommandEnds ==
  ASSUME TypeInv, NEW e \in execs, CommandEnds(e)
  PROVE  TypeInv'
<1>1. PICK st \in {"COMPLETED", "FAILED", "OUTPUTERROR"} :
        taskmsgs' = [taskmsgs EXCEPT ![e.worker] = @ \cup
          {[task |-> e.task, vnode |-> e.vnode, token |-> e.token, status |-> st]}]
  BY DEF CommandEnds
<1>2. e.worker \in Worker /\ e.task \in Task /\ e.vnode \in Vnode /\ e.token \in Nat
  BY DEF TypeInv, TypeOK
<1>3. [task |-> e.task, vnode |-> e.vnode, token |-> e.token, status |-> st] \in TaskMsg
  BY <1>2 DEF TaskMsg
<1>4. taskmsgs' \in [Worker -> SUBSET TaskMsg]
  BY <1>1, <1>2, <1>3 DEF TypeInv, TypeOK
<1> QED
  BY <1>4 DEF CommandEnds, TypeInv, TypeOK, Located, nets_vars, queue_vars, report_vars,
              env_vars, fault_vars

LEMMA TypeEnvironment ==
  ASSUME TypeInv, NEW w \in Worker, WorkerRestart(w) \/ NodeChange(w)
  PROVE  TypeInv'
<1> USE DEF nets_vars, queue_vars, worker_vars, report_vars, env_vars, fault_vars
<1>1. CASE WorkerRestart(w)
  BY <1>1, SpendOneType DEF WorkerRestart, TypeInv, TypeOK, Located
<1>2. CASE NodeChange(w)
  BY <1>2 DEF NodeChange, TypeInv, TypeOK, Located
<1> QED
  BY <1>1, <1>2

\* The types of all the state, from any number of tasks, workers, vnodes and faults.
THEOREM TypeCorrect == Spec => []TypeInv
<1>1. Init => TypeInv
  BY TypeInit
<1>2. TypeInv /\ [Next]_vars => TypeInv'
  <2> SUFFICES ASSUME TypeInv, [Next]_vars
               PROVE  TypeInv'
    OBVIOUS
  <2>1. ASSUME NEW t \in Task, AddTask(t) \/ LazyStopTask(t)
        PROVE  TypeInv'
    BY <2>1, TypeHttp
  <2>2. CASE Scheduler
    BY <2>2, TypeSort, TypeSchedulerClear, TypeScan, TypeFinish, TypePlace, TypeProcess,
       TypeStartVnode, TypeStartCommand, TypeCommandAccepted DEF Scheduler
  <2>3. ASSUME NEW w \in Worker, Reporting(w) \/ ReportLost(w)
        PROVE  TypeInv'
    BY <2>3, TypeReporting
  <2>4. ASSUME NEW w \in Worker, WorkerRestart(w) \/ NodeChange(w)
        PROVE  TypeInv'
    BY <2>4, TypeEnvironment
  <2>5. ASSUME NEW e \in execs, CommandEnds(e)
        PROVE  TypeInv'
    BY <2>5, TypeCommandEnds
  <2>6. CASE UNCHANGED vars
    BY <2>6 DEF vars, TypeInv, TypeOK, Located
  <2> QED
    BY <2>1, <2>2, <2>3, <2>4, <2>5, <2>6 DEF Next
<1> QED
  BY <1>1, <1>2, PTL DEF Spec

THEOREM TypeSafe == Spec => []TypeOK
<1>1. TypeInv => TypeOK
  BY DEF TypeInv
<1> QED
  BY <1>1, TypeCorrect, PTL

-----------------------------------------------------------------------------
(* Nets, bills and tasks that are done. A task the scheduler works on is in  *)
(* the queue and not lazily deleted; only such a task holds a net.           *)

Queued(t) == t \in task_queue \ lazy_delete_list

InHand == {"finishing", "running", "vnodes", "commands", "accepted"}

\* Where the scheduler is with the queue.
SchedInv ==
  /\ sched.pc \in InHand => Queued(sched.task)
  /\ sched.pc \in {"scan", "finishing"} => sched.todo \subseteq task_queue

\* How the lists of tasks, the job's view, the nets and the bills go together.
ListsInv ==
  /\ task_queue \cap lazy_append_list = {}
  /\ \A t \in task_queue \cup lazy_append_list : job_view[t] # "none"
  /\ \A t \in Task : task_base_ip[t] # NoNet => Queued(t)
  /\ \A t \in Task : billed[t] <= 1 /\ (billed[t] # 0 => Retired(t))

\* The nets are shared by nobody.
NetsInv ==
  /\ \A i, j \in DOMAIN free_nets : free_nets[i] = free_nets[j] => i = j
  /\ \A t \in Task : task_base_ip[t] # NoNet =>
       /\ \A i \in DOMAIN free_nets : free_nets[i] # task_base_ip[t]
       /\ \A u \in Task \ {t} : task_base_ip[u] # task_base_ip[t]

QueueInv == SchedInv /\ ListsInv /\ NetsInv

LEMMA QueueInit == Init => QueueInv
<1> SUFFICES ASSUME Init
             PROVE  QueueInv
  OBVIOUS
<1>1. sched.pc = "sort"
  BY RestingType DEF Init
<1>2. SchedInv
  BY <1>1 DEF SchedInv, InHand
<1>3. ListsInv
  BY DEF Init, ListsInv
<1>4. NetsInv
  BY DEF Init, NetsInv, Net
<1> QED
  BY <1>2, <1>3, <1>4 DEF QueueInv

\* release_task_ips and acquire_task_ips keep the nets apart.
LEMMA ReleaseKeeps ==
  ASSUME TypeInv, NetsInv, NEW t \in Task, ReleaseTaskIps(t)
  PROVE  /\ NetsInv'
         /\ task_base_ip'[t] = NoNet
         /\ \A u \in Task \ {t} : task_base_ip'[u] = task_base_ip[u]
<1>1. task_base_ip \in [Task -> Net \cup {NoNet}] /\ free_nets \in Seq(Net)
  BY DEF TypeInv, TypeOK
<1>2. CASE task_base_ip[t] = NoNet
  BY <1>2 DEF ReleaseTaskIps, nets_vars, NetsInv
<1>3. CASE task_base_ip[t] # NoNet
  <2>1. /\ free_nets' = Append(free_nets, task_base_ip[t])
        /\ task_base_ip' = [task_base_ip EXCEPT ![t] = NoNet]
    BY <1>3 DEF ReleaseTaskIps
  <2>2. /\ DOMAIN free_nets' = 1 .. Len(free_nets) + 1
        /\ DOMAIN free_nets = 1 .. Len(free_nets) /\ Len(free_nets) \in Nat
        /\ free_nets'[Len(free_nets) + 1] = task_base_ip[t]
        /\ \A i \in 1 .. Len(free_nets) : free_nets'[i] = free_nets[i]
    BY <1>1, <1>3, <2>1
  <2>3. /\ task_base_ip'[t] = NoNet
        /\ \A u \in Task \ {t} : task_base_ip'[u] = task_base_ip[u]
    BY <1>1, <2>1
  <2>4. \A i, j \in DOMAIN free_nets' : free_nets'[i] = free_nets'[j] => i = j
    BY <1>3, <2>2 DEF NetsInv
  <2>5. ASSUME NEW u \in Task, task_base_ip'[u] # NoNet
        PROVE  /\ \A i \in DOMAIN free_nets' : free_nets'[i] # task_base_ip'[u]
               /\ \A x \in Task \ {u} : task_base_ip'[x] # task_base_ip'[u]
    <3>1. u # t /\ task_base_ip[u] # NoNet /\ task_base_ip'[u] = task_base_ip[u]
      BY <2>3, <2>5
    <3>2. \A i \in DOMAIN free_nets' : i = Len(free_nets) + 1 \/ i \in DOMAIN free_nets
      BY <2>2
    <3> QED
      BY <1>3, <2>2, <2>3, <2>5, <3>1, <3>2 DEF NetsInv
  <2> QED
    BY <2>3, <2>4, <2>5 DEF NetsInv
<1> QED
  BY <1>2, <1>3

LEMMA AcquireKeeps ==
  ASSUME TypeInv, NetsInv, NEW t \in Task, AcquireTaskIps(t),
         task_base_ip[t] = NoNet => free_nets # <<>>
  PROVE  /\ NetsInv'
         /\ \A u \in Task \ {t} : task_base_ip'[u] = task_base_ip[u]
<1>1. task_base_ip \in [Task -> Net \cup {NoNet}] /\ free_nets \in Seq(Net)
  BY DEF TypeInv, TypeOK
<1>2. CASE task_base_ip[t] # NoNet
  BY <1>2 DEF AcquireTaskIps, nets_vars, NetsInv
<1>3. CASE task_base_ip[t] = NoNet
  <2>1. /\ task_base_ip' = [task_base_ip EXCEPT ![t] = Head(free_nets)]
        /\ free_nets' = Tail(free_nets)
        /\ free_nets # <<>>
    BY <1>3 DEF AcquireTaskIps
  <2>2. /\ Len(free_nets) \in Nat \ {0}
        /\ DOMAIN free_nets = 1 .. Len(free_nets)
        /\ DOMAIN free_nets' = 1 .. Len(free_nets) - 1
        /\ \A i \in 1 .. Len(free_nets) - 1 : free_nets'[i] = free_nets[i + 1]
        /\ Head(free_nets) = free_nets[1]
    BY <1>1, <2>1
  <2>3. /\ task_base_ip'[t] = free_nets[1]
        /\ \A u \in Task \ {t} : task_base_ip'[u] = task_base_ip[u]
    BY <1>1, <2>1, <2>2
  <2>4. \A i \in DOMAIN free_nets' :
          i + 1 \in DOMAIN free_nets /\ i + 1 # 1 /\ free_nets'[i] = free_nets[i + 1]
    BY <2>2
  <2>5. \A i, j \in DOMAIN free_nets' : free_nets'[i] = free_nets'[j] => i = j
    <3> SUFFICES ASSUME NEW i \in DOMAIN free_nets', NEW j \in DOMAIN free_nets',
                        free_nets'[i] = free_nets'[j]
                 PROVE  i = j
      OBVIOUS
    <3>1. i + 1 = j + 1
      BY <2>4 DEF NetsInv
    <3>2. i \in Nat /\ j \in Nat
      BY <2>2
    <3> QED
      BY <3>1, <3>2
  <2>6. 1 \in DOMAIN free_nets
    BY <2>2
  <2>7. ASSUME NEW u \in Task, task_base_ip'[u] # NoNet
        PROVE  /\ \A i \in DOMAIN free_nets' : free_nets'[i] # task_base_ip'[u]
               /\ \A x \in Task \ {u} : task_base_ip'[x] # task_base_ip'[u]
    <3>1. CASE u = t
      BY <2>3, <2>4, <2>6, <2>7, <3>1 DEF NetsInv, Net, NoNet
    <3>2. CASE u # t
      BY <2>3, <2>4, <2>6, <2>7, <3>2 DEF NetsInv
    <3> QED
      BY <3>1, <3>2
  <2> QED
    BY <2>3, <2>5, <2>7 DEF NetsInv
<1> QED
  BY <1>2, <1>3

\* What a step does to the tasks that are done.
Down ==
  \A t \in Task : Retired(t) =>
    /\ Retired(t)'
    /\ \A v \in Vnode : subtask'[t][v].token = subtask[t][v].token
    /\ \A c \in containers' \ containers : c[2] # t

\* A step that leaves the lists, the nets and the bills alone.
Calm ==
  /\ UNCHANGED <<task_queue, lazy_append_list, lazy_delete_list, task_base_ip, free_nets,
                 billed>>
  /\ \A t \in Task : job_view[t] # "none" => job_view'[t] # "none"

\* A step that starts nothing.
Idle ==
  /\ \A t \in Task, v \in Vnode : subtask'[t][v].token = subtask[t][v].token
  /\ containers' \subseteq containers

LEMMA CalmKeeps ==
  ASSUME TypeInv, QueueInv, Calm
  PROVE  ListsInv' /\ NetsInv' /\ \A t \in Task : Retired(t) => Retired(t)'
<1>1. task_queue \subseteq Task /\ lazy_append_list \subseteq Task
  BY DEF TypeInv, TypeOK
<1>2. \A t \in Task : Retired(t) => Retired(t)'
  BY <1>1 DEF Calm, Retired
<1>3. ListsInv'
  <2>1. \A t \in task_queue \cup lazy_append_list : job_view'[t] # "none"
    BY <1>1 DEF Calm, QueueInv, ListsInv
  <2>2. \A t \in Task : task_base_ip'[t] # NoNet => Queued(t)'
    BY DEF Calm, QueueInv, ListsInv, Queued
  <2>3. \A t \in Task : billed'[t] <= 1 /\ (billed'[t] # 0 => Retired(t)')
    BY <1>2 DEF Calm, QueueInv, ListsInv
  <2>4. /\ task_queue' = task_queue /\ lazy_append_list' = lazy_append_list
        /\ task_queue \cap lazy_append_list = {}
    BY DEF Calm, QueueInv, ListsInv
  <2> QED
    BY <2>1, <2>2, <2>3, <2>4 DEF ListsInv
<1>4. NetsInv'
  BY DEF Calm, QueueInv, NetsInv
<1> QED
  BY <1>2, <1>3, <1>4

LEMMA CalmIdle ==
  ASSUME TypeInv, QueueInv, Calm, Idle, SchedInv'
  PROVE  QueueInv' /\ Down
BY CalmKeeps DEF QueueInv, Down, Idle

\* The other threads: what they do to lists the scheduler works on.
LEMMA OthersKeep ==
  ASSUME TypeInv, QueueInv,
         \/ \E t \in Task : LazyStopTask(t)
         \/ \E w \in Worker : Reporting(w) \/ ReportLost(w) \/ WorkerRestart(w) \/ NodeChange(w)
         \/ \E e \in execs : CommandEnds(e)
         \/ UNCHANGED vars
  PROVE  QueueInv' /\ Down
<1> USE DEF nets_vars, queue_vars, worker_vars, report_vars, env_vars, fault_vars
<1>1. CASE \E t \in Task : LazyStopTask(t)
  <2>1. sched' = sched /\ Calm /\ Idle
    BY <1>1 DEF LazyStopTask, Calm, Idle
  <2>2. SchedInv'
    BY <2>1 DEF Calm, QueueInv, SchedInv, Queued
  <2> QED
    BY <2>1, <2>2, CalmIdle
<1>2. ASSUME NEW w \in Worker, Reporting(w) \/ ReportLost(w)
      PROVE  QueueInv' /\ Down
  <2>1. /\ sched' = sched
        /\ UNCHANGED <<task_queue, lazy_append_list, lazy_delete_list, task_base_ip,
                       free_nets, billed>>
    BY <1>2 DEF Reporting, ReportMsg, OnTaskReport, HandlerClear, HandlerVerdict,
                HandlerTell, ReportLost
  <2>2. \A t \in Task : job_view[t] # "none" => job_view'[t] # "none"
    BY <1>2 DEF Reporting, ReportMsg, OnTaskReport, HandlerClear, HandlerVerdict,
                HandlerTell, ReportLost, TypeInv, TypeOK
  <2>3. containers' \subseteq containers
    BY <1>2 DEF Reporting, ReportMsg, OnTaskReport, HandlerClear, HandlerVerdict,
                HandlerTell, ReportLost, ClearSubTask
  <2>4. Calm /\ Idle
    BY <1>2, <2>1, <2>2, <2>3, TypeReporting DEF Calm, Idle
  <2>5. SchedInv'
    BY <2>1 DEF QueueInv, SchedInv, Queued
  <2> QED
    BY <2>4, <2>5, CalmIdle
<1>3. CASE \/ \E w \in Worker : WorkerRestart(w) \/ NodeChange(w)
           \/ \E e \in execs : CommandEnds(e)
           \/ UNCHANGED vars
  <2>1. sched' = sched /\ Calm /\ Idle
    BY <1>3 DEF WorkerRestart, NodeChange, CommandEnds, vars, Calm, Idle
  <2>2. SchedInv'
    BY <2>1 DEF Calm, QueueInv, SchedInv, Queued
  <2> QED
    BY <2>1, <2>2, CalmIdle
<1> QED
  BY <1>1, <1>2, <1>3

LEMMA AddKeeps ==
  ASSUME TypeInv, QueueInv, NEW t \in Task, AddTask(t)
  PROVE  QueueInv' /\ Down
<1> USE DEF nets_vars, queue_vars, worker_vars, report_vars, env_vars, fault_vars
<1>1. /\ UNCHANGED <<task_queue, lazy_delete_list, sched, subtask, containers, task_base_ip,
                     free_nets, billed>>
      /\ job_view[t] = "none"
      /\ lazy_append_list' \subseteq lazy_append_list \cup {t}
      /\ job_view'[t] # "none"
      /\ \A u \in Task \ {t} : job_view'[u] = job_view[u]
  BY DEF AddTask, TypeInv, TypeOK
<1>2. task_queue \subseteq Task /\ lazy_append_list \subseteq Task
  BY DEF TypeInv, TypeOK
<1>3. t \notin task_queue
  BY <1>1 DEF QueueInv, ListsInv
<1>4. \A u \in Task : Retired(u) => u # t /\ Retired(u)'
  BY <1>1 DEF Retired
<1>5. ListsInv'
  BY <1>1, <1>2, <1>3, <1>4 DEF QueueInv, ListsInv, Queued
<1>6. SchedInv' /\ NetsInv'
  BY <1>1 DEF QueueInv, SchedInv, NetsInv, Queued
<1>7. Down
  BY <1>1, <1>4 DEF Down
<1> QED
  BY <1>5, <1>6, <1>7 DEF QueueInv

\* The steps of the scheduler that only move it on.
LEMMA MovesKeep ==
  ASSUME TypeInv, QueueInv,
         \/ SortBegin \/ SortStopNext \/ ScanSkip \/ ScanCompleted \/ ScanPlace
         \/ ScanNoPlace \/ ScanRaises \/ ScanEnd \/ VnodesDone \/ CommandAccepted
         \/ CommandsDone
  PROVE  QueueInv' /\ Down
<1> USE DEF nets_vars, queue_vars, worker_vars, report_vars, env_vars, fault_vars
<1>1. UNCHANGED <<queue_vars, nets_vars, containers, job_view, billed>>
  BY DEF SortBegin, SortStopNext, ScanSkip, ScanCompleted, ScanPlace, ScanNoPlace,
         ScanRaises, ScanEnd, VnodesDone, CommandAccepted, CommandsDone
<1>2. \A u \in Task, x \in Vnode : subtask'[u][x].token = subtask[u][x].token
  <2>1. subtask \in [Task -> [Vnode -> SubTask]]
    BY DEF TypeInv, TypeOK
  <2>2. CASE ScanPlace
    <3> PICK list \in PlaceLists : \E place \in Places(list) : Placed(list, place)
      BY <2>2, PlaceShape
    <3> PICK place \in Places(list) : Placed(list, place)
      OBVIOUS
    <3>1. subtask' = [subtask EXCEPT ![Examined] =
            [v \in Vnode |-> IF v \in list THEN [@[v] EXCEPT !.worker = place[v]]
                             ELSE @[v]]]
      BY DEF Placed
    <3> DEFINE row == [v \in Vnode |-> IF v \in list
                                       THEN [subtask[Examined][v] EXCEPT !.worker = place[v]]
                                       ELSE subtask[Examined][v]]
    <3>2. subtask' = [subtask EXCEPT ![Examined] = row]
      BY <3>1
    <3>3. Examined \in Task
      BY <2>2, ExaminedType DEF ScanPlace
    <3>4. \A x \in Vnode : row[x].token = subtask[Examined][x].token
      BY <2>1, <3>3 DEF SubTask
    <3> HIDE DEF row
    <3> QED
      BY <2>1, <3>2, <3>3, <3>4
  <2>3. CASE CommandAccepted
    <3> DEFINE t == sched.task
               v == First(sched.left)
               new == [subtask[t][v] EXCEPT !.task_started = TRUE, !.status = "RUNNING"]
    <3>1. t \in Task /\ v \in Vnode
      BY <2>3, LeftType DEF CommandAccepted, TypeInv, Located
    <3>2. subtask' = [subtask EXCEPT ![t][v] = new]
      BY <2>1, <2>3, <3>1 DEF CommandAccepted
    <3>3. new.token = subtask[t][v].token
      BY <2>1, <3>1 DEF SubTask
    <3> HIDE DEF new
    <3> QED
      BY <2>1, <3>1, <3>2, <3>3
  <2>4. CASE \/ SortBegin \/ SortStopNext \/ ScanSkip \/ ScanCompleted
             \/ ScanNoPlace \/ ScanRaises \/ ScanEnd \/ VnodesDone \/ CommandsDone
    BY <2>4 DEF SortBegin, SortStopNext, ScanSkip, ScanCompleted, ScanNoPlace,
                ScanRaises, ScanEnd, VnodesDone, CommandsDone
  <2> QED
    BY <2>2, <2>3, <2>4
<1>3. Calm /\ Idle
  BY <1>1, <1>2 DEF Calm, Idle
<1>4. SchedInv'
  <2> USE DEF TypeInv, TypeOK, Schedule, SchedInv, QueueInv, Queued, InHand
  <2>1. CASE SortBegin \/ SortStopNext
    BY <1>1, <2>1 DEF SortBegin, SortStopNext
  <2>2. CASE ScanSkip \/ ScanCompleted
    <3>3. sched.pc = "scan" /\ sched.todo # {}
      BY <2>2 DEF ScanSkip, ScanCompleted
    <3>1. /\ Examined \in task_queue
          /\ sched.todo \subseteq task_queue
          /\ sched'.todo \subseteq sched.todo
      <4>1. Examined \in sched.todo
        BY <3>3, ExaminedType
      <4>2. sched'.todo \subseteq sched.todo
        <5>1. CASE ScanSkip
          BY <5>1 DEF ScanSkip
        <5>2. CASE ScanCompleted
          BY <5>2 DEF ScanCompleted
        <5> QED
          BY <2>2, <5>1, <5>2
      <4> QED
        BY <3>3, <4>1, <4>2
    <3>2. \/ sched'.pc = "scan"
          \/ /\ sched'.pc = "finishing" /\ sched'.task = Examined
             /\ Examined \notin lazy_delete_list
      BY <2>2 DEF ScanSkip, ScanCompleted
    <3> QED
      BY <1>1, <3>1, <3>2
  <2>3. CASE ScanPlace
    <3>1. /\ Examined \in task_queue
          /\ Examined \notin lazy_delete_list
      BY <2>3, ExaminedType DEF ScanPlace, Schedulable
    <3>2. PICK list : sched' = [AtSort EXCEPT !.pc = "running", !.task = Examined,
                                              !.list = list]
      BY <2>3, PlaceShape DEF Placed
    <3>3. sched'.pc = "running" /\ sched'.task = Examined
      BY <3>2 DEF AtSort
    <3> QED
      BY <1>1, <3>1, <3>3
  <2>4. CASE ScanNoPlace
    <3>1. \/ sched'.pc = "sort"
          \/ sched.pc = "scan" /\ sched'.pc = "scan" /\ sched'.todo \subseteq sched.todo
      BY <2>4, RestingType DEF ScanNoPlace
    <3> QED
      BY <1>1, <3>1
  <2>5. CASE ScanRaises \/ ScanEnd \/ CommandsDone
    BY <2>5, RestingType DEF ScanRaises, ScanEnd, CommandsDone
  <2>6. CASE VnodesDone
    <3>1. \/ sched'.pc = "sort"
          \/ sched.pc = "vnodes" /\ sched'.pc = "commands" /\ sched'.task = sched.task
      BY <2>6, RestingType DEF VnodesDone
    <3> QED
      BY <1>1, <3>1
  <2>7. CASE CommandAccepted
    BY <1>1, <2>7 DEF CommandAccepted
  <2> QED
    BY <2>1, <2>2, <2>3, <2>4, <2>5, <2>6, <2>7
<1> QED
  BY <1>3, <1>4, CalmIdle

LEMMA SchedulerClearKeeps ==
  ASSUME TypeInv, QueueInv, SchedulerClear
  PROVE  QueueInv' /\ Down
<1> USE DEF nets_vars, queue_vars, worker_vars, report_vars, env_vars, fault_vars
<1>1. sched.task \in Task /\ First(sched.left) \in Vnode
  BY LeftType DEF SchedulerClear, TypeInv, Located
<1>2. ClearSubTask(sched.task, First(sched.left))
  BY DEF SchedulerClear
<1>3. containers' \subseteq containers
  BY <1>2 DEF ClearSubTask
<1>4. Calm /\ Idle
  BY <1>1, <1>2, <1>3, ClearSubTaskType DEF SchedulerClear, Calm, Idle
<1>5. SchedInv'
  BY DEF SchedulerClear, TypeInv, TypeOK, Schedule, QueueInv, SchedInv, Queued, InHand
<1> QED
  BY <1>4, <1>5, CalmIdle

\* The steps that start something, for the task in hand.
LEMMA StartsKeep ==
  ASSUME TypeInv, QueueInv, StartVnode \/ StartCommand
  PROVE  QueueInv' /\ Down
<1> USE DEF nets_vars, queue_vars, worker_vars, report_vars, env_vars, fault_vars
<1> DEFINE t == sched.task
           v == First(sched.left)
           s == subtask[t][v]
<1>1. t \in Task /\ v \in Vnode /\ s \in SubTask /\ subtask \in [Task -> [Vnode -> SubTask]]
  <2>1. sched.left # {} /\ sched.pc \in {"vnodes", "commands"}
    BY DEF StartVnode, StartCommand
  <2>2. t \in Task /\ v \in Vnode
    BY <2>1, LeftType DEF TypeInv, Located
  <2>3. subtask \in [Task -> [Vnode -> SubTask]]
    BY DEF TypeInv, TypeOK
  <2> QED
    BY <2>2, <2>3
<1>2. Queued(t)
  BY DEF StartVnode, StartCommand, QueueInv, SchedInv, InHand
<1>3. ~Retired(t)
  BY <1>2 DEF Retired, Queued
<1>4. \E new : subtask' = [subtask EXCEPT ![t][v] = new]
  <2>1. subtask = [subtask EXCEPT ![t][v] = s]
    BY <1>1
  <2>2. /\ [subtask EXCEPT ![t][v].vnode_started = TRUE]
              = [subtask EXCEPT ![t][v] = [s EXCEPT !.vnode_started = TRUE]]
        /\ [subtask EXCEPT ![t][v].status = "RUNNING"]
              = [subtask EXCEPT ![t][v] = [s EXCEPT !.status = "RUNNING"]]
    BY <1>1
  <2>3. CASE StartVnode
    <3>1. \/ subtask' = subtask
          \/ subtask' = [subtask EXCEPT ![t][v].vnode_started = TRUE]
          \/ subtask' = [subtask EXCEPT ![t][v] =
                           [waiting_for_retry(s) EXCEPT !.worker = NoWorker]]
      BY <2>3 DEF StartVnode
    <3> QED
      BY <2>1, <2>2, <3>1
  <2>4. CASE StartCommand
    <3> DEFINE new == [s EXCEPT !.token = @ + 1]
    <3>1. \/ subtask' = [subtask EXCEPT ![t][v].status = "RUNNING"]
          \/ subtask' = [subtask EXCEPT ![t][v] = new]
          \/ subtask' = [subtask EXCEPT ![t][v] = waiting_for_retry(new)]
      BY <2>4 DEF StartCommand
    <3> QED
      BY <2>2, <3>1
  <2> QED
    BY <2>3, <2>4
<1>5. \A u \in Task \ {t} : subtask'[u] = subtask[u]
  BY <1>1, <1>4
<1>6. containers' \subseteq containers \cup {<<s.worker, t, v>>}
  BY DEF StartVnode, StartCommand
<1>7. UNCHANGED <<queue_vars, nets_vars, billed>>
  BY DEF StartVnode, StartCommand
<1>8. \A u \in Task : job_view[u] # "none" => job_view'[u] # "none"
  <2>1. \A x : Retry(t, x) => \/ job_view' = job_view
                              \/ job_view' = [job_view EXCEPT ![t] = "retrying"]
    BY DEF Retry
  <2>2. \/ job_view' = job_view
        \/ job_view' = [job_view EXCEPT ![t] = "retrying"]
    BY <2>1 DEF StartVnode, StartCommand
  <2> QED
    BY <1>1, <2>2 DEF TypeInv, TypeOK
<1>9. Calm
  BY <1>7, <1>8 DEF Calm
<1>10. SchedInv'
  <2>1. sched'.pc \in {"vnodes", "commands", "accepted"} /\ sched'.task = t
    BY DEF StartVnode, StartCommand, TypeInv, TypeOK, Schedule
  <2> QED
    BY <1>2, <1>7, <2>1 DEF SchedInv, Queued
<1>11. Down
  BY <1>3, <1>5, <1>6, <1>9, CalmKeeps DEF Down
<1> QED
  BY <1>9, <1>10, <1>11, CalmKeeps DEF QueueInv

\* The scheduler is done with a task: the net goes back, the task is lazily deleted.
LEMMA StopKeeps ==
  ASSUME TypeInv, QueueInv, StopTask
  PROVE  QueueInv' /\ Down
<1> USE DEF nets_vars, queue_vars, worker_vars, report_vars, env_vars, fault_vars
<1> DEFINE t == sched.task
<1>1. t \in Task
  BY DEF StopTask, TypeInv, Located
<1>2. /\ NetsInv'
      /\ task_base_ip'[t] = NoNet
      /\ \A u \in Task \ {t} : task_base_ip'[u] = task_base_ip[u]
  BY <1>1, ReleaseKeeps DEF StopTask, QueueInv
<1>3. /\ UNCHANGED <<task_queue, lazy_append_list, subtask, containers, billed>>
      /\ lazy_delete_list' = lazy_delete_list \cup {t}
      /\ \A u \in Task : job_view[u] # "none" => job_view'[u] # "none"
  BY <1>1 DEF StopTask, TypeInv, TypeOK
<1>4. \A u \in Task : Retired(u) => Retired(u)'
  BY <1>3 DEF Retired
<1>5. ListsInv'
  <2>1. task_queue \subseteq Task /\ lazy_append_list \subseteq Task
    BY DEF TypeInv, TypeOK
  <2>2. \A u \in Task : task_base_ip'[u] # NoNet => Queued(u)'
    BY <1>2, <1>3 DEF QueueInv, ListsInv, Queued
  <2>3. \A u \in Task : billed'[u] <= 1 /\ (billed'[u] # 0 => Retired(u)')
    BY <1>3, <1>4 DEF QueueInv, ListsInv
  <2> QED
    BY <1>3, <2>1, <2>2, <2>3 DEF QueueInv, ListsInv
<1>6. SchedInv'
  <2>1. sched'.pc \in {"sorting", "dead"}
    BY RestingType DEF StopTask, TypeInv, TypeOK, Schedule
  <2> QED
    BY <2>1 DEF SchedInv, InHand
<1>7. Down
  BY <1>3, <1>4 DEF Down
<1> QED
  BY <1>2, <1>5, <1>6, <1>7 DEF QueueInv

LEMMA FinishKeeps ==
  ASSUME TypeInv, QueueInv, FinishTask
  PROVE  QueueInv' /\ Down
<1> USE DEF nets_vars, queue_vars, worker_vars, report_vars, env_vars, fault_vars
<1> PICK t \in Task : t = sched.task
  BY DEF FinishTask, TypeInv, Located
<1>1. t \in Task /\ Queued(t)
  BY DEF FinishTask, QueueInv, SchedInv, InHand
<1>2. /\ NetsInv'
      /\ task_base_ip'[t] = NoNet
      /\ \A u \in Task \ {t} : task_base_ip'[u] = task_base_ip[u]
  BY <1>1, ReleaseKeeps DEF FinishTask, QueueInv
<1>3. /\ UNCHANGED <<task_queue, lazy_append_list, subtask, containers>>
      /\ lazy_delete_list' = lazy_delete_list \cup {t}
      /\ \A u \in Task : job_view[u] # "none" => job_view'[u] # "none"
  BY <1>1 DEF FinishTask, TypeInv, TypeOK
<1>4. \A u \in Task : Retired(u) => Retired(u)'
  BY <1>3 DEF Retired
<1>5. Retired(t)' /\ ~Retired(t)
  <2>1. job_view[t] # "none" /\ t \notin lazy_append_list
    BY <1>1 DEF QueueInv, ListsInv, Queued
  <2> QED
    BY <1>1, <1>3, <2>1 DEF Retired, Queued
<1>6. billed[t] = 0
  BY <1>1, <1>5 DEF QueueInv, ListsInv
<1>7. billed'[t] <= 1 /\ \A u \in Task \ {t} : billed'[u] = billed[u]
  BY <1>1, <1>6 DEF FinishTask, TypeInv, TypeOK
<1>8. ListsInv'
  <2>1. task_queue \subseteq Task /\ lazy_append_list \subseteq Task
    BY DEF TypeInv, TypeOK
  <2>2. \A u \in Task : task_base_ip'[u] # NoNet => Queued(u)'
    BY <1>2, <1>3 DEF QueueInv, ListsInv, Queued
  <2>3. \A u \in Task : billed'[u] <= 1 /\ (billed'[u] # 0 => Retired(u)')
    <3>1. ASSUME NEW u \in Task \ {t}
          PROVE  billed'[u] <= 1 /\ (billed'[u] # 0 => Retired(u)')
      BY <1>4, <1>7 DEF QueueInv, ListsInv
    <3> QED
      BY <1>5, <1>7, <3>1
  <2> QED
    BY <1>3, <2>1, <2>2, <2>3 DEF QueueInv, ListsInv
<1>9. SchedInv'
  <2>1. \/ sched'.pc = "dead"
        \/ sched.pc = "finishing" /\ sched'.pc = "scan" /\ sched'.todo = sched.todo
    BY RestingType DEF FinishTask, TypeInv, TypeOK, Schedule
  <2> QED
    BY <1>3, <2>1 DEF QueueInv, SchedInv, InHand
<1>10. Down
  BY <1>3, <1>4 DEF Down
<1> QED
  BY <1>2, <1>8, <1>9, <1>10 DEF QueueInv

LEMMA ProcessKeeps ==
  ASSUME TypeInv, QueueInv, ProcessTask
  PROVE  QueueInv' /\ Down
<1> USE DEF nets_vars, queue_vars, worker_vars, report_vars, env_vars, fault_vars
<1> DEFINE t == sched.task
<1>1. t \in Task /\ Queued(t)
  BY DEF ProcessTask, TypeInv, Located, QueueInv, SchedInv, InHand
<1>2. /\ NetsInv'
      /\ \A u \in Task \ {t} : task_base_ip'[u] = task_base_ip[u]
  <2>1. CASE task_base_ip[t] = NoNet /\ free_nets = <<>>
    BY <2>1 DEF ProcessTask, QueueInv, NetsInv
  <2>2. CASE ~(task_base_ip[t] = NoNet /\ free_nets = <<>>)
    BY <1>1, <2>2, AcquireKeeps DEF ProcessTask, QueueInv
  <2> QED
    BY <2>1, <2>2
<1>3. /\ UNCHANGED <<queue_vars, subtask, containers, billed>>
      /\ \A u \in Task : job_view[u] # "none" => job_view'[u] # "none"
  BY <1>1 DEF ProcessTask, TypeInv, TypeOK
<1>4. \A u \in Task : Retired(u) => Retired(u)'
  BY <1>3 DEF Retired
<1>5. ListsInv'
  <2>1. task_queue \subseteq Task /\ lazy_append_list \subseteq Task
    BY DEF TypeInv, TypeOK
  <2>2. \A u \in Task : task_base_ip'[u] # NoNet => Queued(u)'
    BY <1>1, <1>2, <1>3 DEF QueueInv, ListsInv, Queued
  <2>3. \A u \in Task : billed'[u] <= 1 /\ (billed'[u] # 0 => Retired(u)')
    BY <1>3, <1>4 DEF QueueInv, ListsInv
  <2> QED
    BY <1>3, <2>1, <2>2, <2>3 DEF QueueInv, ListsInv
<1>6. SchedInv'
  <2>1. \/ sched'.pc = "dead"
        \/ sched'.pc = "vnodes" /\ sched'.task = t
    BY RestingType DEF ProcessTask, TypeInv, TypeOK, Schedule
  <2> QED
    BY <1>1, <1>3, <2>1 DEF SchedInv, InHand, Queued
<1>7. Down
  BY <1>3, <1>4 DEF Down
<1> QED
  BY <1>2, <1>5, <1>6, <1>7 DEF QueueInv

\* The lazy lists are worked off: what is deleted leaves, what was added joins.
LEMMA SortEndKeeps ==
  ASSUME TypeInv, QueueInv, SortEnd
  PROVE  QueueInv' /\ Down
<1> USE DEF nets_vars, queue_vars, worker_vars, report_vars, env_vars, fault_vars
<1>1. /\ task_queue' \subseteq (task_queue \ lazy_delete_list) \cup lazy_append_list
      /\ task_queue \ lazy_delete_list \subseteq task_queue'
      /\ lazy_delete_list' = {} /\ lazy_append_list' = {}
      /\ UNCHANGED <<nets_vars, subtask, containers, billed>>
  BY DEF SortEnd, Kept, Joining
<1>2. task_queue \subseteq Task /\ lazy_append_list \subseteq Task
  BY DEF TypeInv, TypeOK
<1>3. \A u \in Task : job_view[u] # "none" => job_view'[u] # "none"
  BY DEF SortEnd
<1>4. \A u \in Task : Retired(u) => Retired(u)'
  BY <1>1, <1>3 DEF Retired
<1>5. ListsInv'
  BY <1>1, <1>2, <1>3, <1>4 DEF QueueInv, ListsInv, Queued
<1>6. SchedInv'
  <2>1. sched'.pc = "scan" /\ sched'.todo = task_queue'
    BY DEF SortEnd, AtSort
  <2> QED
    BY <2>1 DEF SchedInv, InHand
<1>7. NetsInv' /\ Down
  BY <1>1, <1>4 DEF QueueInv, NetsInv, Down
<1> QED
  BY <1>5, <1>6, <1>7 DEF QueueInv

LEMMA QueueStep ==
  ASSUME TypeInv, QueueInv, [Next]_vars
  PROVE  QueueInv' /\ Down
<1>1. CASE Scheduler
  BY <1>1, MovesKeep, SchedulerClearKeeps, StartsKeep, StopKeeps, FinishKeeps,
     ProcessKeeps, SortEndKeeps DEF Scheduler
<1>2. ASSUME NEW t \in Task, AddTask(t)
      PROVE  QueueInv' /\ Down
  BY <1>2, AddKeeps
<1> QED
  BY <1>1, <1>2, OthersKeep DEF Next

\* The inductive invariant of the queue, the nets and the bills.
THEOREM QueueCorrect == Spec => [](TypeInv /\ QueueInv)
<1>1. Init => QueueInv
  BY QueueInit
<1>2. TypeInv /\ QueueInv /\ [Next]_vars => QueueInv'
  BY QueueStep
<1> QED
  BY <1>1, <1>2, TypeCorrect, PTL DEF Spec

\* No net is held by two tasks, lost or put back twice, however many tasks and nets
\* there are.
THEOREM NetsSafe == Spec => []NetsExclusive
<1>1. QueueInv => NetsExclusive
  BY DEF QueueInv, NetsInv, ListsInv, NetsExclusive, Retired, Queued
<1> QED
  BY <1>1, QueueCorrect, PTL

\* No task is charged for twice.
THEOREM BilledSafe == Spec => []BilledOnce
<1>1. QueueInv => BilledOnce
  BY DEF QueueInv, ListsInv, BilledOnce
<1> QED
  BY <1>1, QueueCorrect, PTL

\* A task that is done gets no net, no vnode and no token any more.
THEOREM DownSafe == Spec => RetiredStaysDown
<1>1. TypeInv /\ QueueInv /\ [Next]_vars =>
        [\A t \in Task : Retired(t) =>
           /\ Retired(t)'
           /\ \A v \in Vnode : subtask'[t][v].token = subtask[t][v].token
           /\ task_base_ip'[t] = NoNet
           /\ \A c \in containers' \ containers : c[2] # t]_vars
  <2> SUFFICES ASSUME TypeInv, QueueInv, [Next]_vars, NEW t \in Task, Retired(t)
               PROVE  /\ Retired(t)'
                      /\ \A v \in Vnode : subtask'[t][v].token = subtask[t][v].token
                      /\ task_base_ip'[t] = NoNet
                      /\ \A c \in containers' \ containers : c[2] # t
    OBVIOUS
  <2>1. QueueInv' /\ Down
    BY QueueStep
  <2>2. Retired(t)'
    BY <2>1 DEF Down
  <2>3. task_base_ip'[t] = NoNet
    BY <2>1, <2>2 DEF QueueInv, ListsInv, Queued, Retired
  <2> QED
    BY <2>1, <2>2, <2>3 DEF Down
<1> QED
  BY <1>1, QueueCorrect, PTL DEF Spec, RetiredStaysDown
-----------------------------------------------------------------------------
(* Vnodes. When no RPC failed, a container belongs to a subtask that knows   *)
(* it, of a task the scheduler is not done with.                             *)

Known(c) ==
  /\ Queued(c[2])
  /\ subtask[c[2]][c[3]].vnode_started
  /\ subtask[c[2]][c[3]].worker = c[1]

\* The subtasks the scheduler has cleared on its way to the end of a task.
Cleared ==
  sched.pc \in {"stopping", "finishing"} =>
    \A v \in Vnode \ sched.left : ~subtask[sched.task][v].vnode_started

VnodeInv == faults = 0 => Cleared /\ \A c \in containers : Known(c)

\* While no RPC fails, each is answered.
LEMMA SpendOneNone ==
  ASSUME NEW a, faults \in Nat, Spend(<<a>>), faults' = 0
  PROVE  faults = 0 /\ a = "ok"
<1> DEFINE B == {i \in DOMAIN <<a>> : <<a>>[i] # "ok"}
<1>1. IsFiniteSet(B)
  BY FS_Interval, FS_Subset
<1>2. Cardinality(B) \in Nat
  BY <1>1, FS_CardinalityType
<1>3. faults = 0 /\ Cardinality(B) = 0
  BY <1>2 DEF Spend
<1>4. B = {}
  BY <1>1, <1>3, FS_EmptySet
<1> QED
  BY <1>3, <1>4

LEMMA SpendTwoNone ==
  ASSUME NEW a, NEW b, faults \in Nat, Spend(<<a, b>>), faults' = 0
  PROVE  faults = 0 /\ a = "ok" /\ b = "ok"
<1> DEFINE B == {i \in DOMAIN <<a, b>> : <<a, b>>[i] # "ok"}
<1>1. IsFiniteSet(B)
  <2>1. B \subseteq 1 .. 2
    OBVIOUS
  <2>2. 1 \in Int /\ 2 \in Int
    OBVIOUS
  <2>3. IsFiniteSet(1 .. 2)
    BY <2>2, FS_Interval, Zenon
  <2> QED
    BY <2>1, <2>3, FS_Subset
<1>2. Cardinality(B) \in Nat
  BY <1>1, FS_CardinalityType
<1>3. faults = 0 /\ Cardinality(B) = 0
  BY <1>2 DEF Spend
<1>4. B = {}
  BY <1>1, <1>3, FS_EmptySet
<1>5. 1 \in DOMAIN <<a, b>> /\ 2 \in DOMAIN <<a, b>> /\ <<a, b>>[1] = a /\ <<a, b>>[2] = b
  OBVIOUS
<1> QED
  BY <1>3, <1>4, <1>5

\* What the calls of clear_sub_task do when they are answered.
LEMMA ClearAnswered ==
  ASSUME TypeInv, NEW t \in Task, NEW v \in Vnode, ClearSubTask(t, v), faults' = 0
  PROVE  /\ faults = 0
         /\ ~subtask'[t][v].vnode_started
         /\ \A u \in Task, x \in Vnode :
              /\ subtask'[u][x].worker = subtask[u][x].worker
              /\ <<u, x>> # <<t, v>> => subtask'[u][x] = subtask[u][x]
         /\ containers' \subseteq containers
         /\ subtask[t][v].vnode_started => <<subtask[t][v].worker, t, v>> \notin containers'
<1> DEFINE s == subtask[t][v]
<1>1. PICK kill, stop :
        /\ Spend(<<kill, stop>>)
        /\ subtask' = [subtask EXCEPT ![t][v] =
             [s EXCEPT !.task_started = s.task_started /\ kill # "ok",
                       !.status = IF kill = "ok" THEN @ ELSE "FAILED",
                       !.vnode_started = @ /\ ~(HasVnode(s) /\ stop = "ok")]]
        /\ containers' = IF HasVnode(s) /\ Served(stop)
                         THEN containers \ {<<s.worker, t, v>>} ELSE containers
  BY DEF ClearSubTask
<1>2. faults = 0 /\ stop = "ok"
  BY <1>1, SpendTwoNone DEF TypeInv, TypeOK
<1>3. subtask \in [Task -> [Vnode -> SubTask]] /\ s \in SubTask
  BY DEF TypeInv, TypeOK
<1>4. PICK r \in SubTask :
        r = [s EXCEPT !.task_started = s.task_started /\ kill # "ok",
                      !.status = IF kill = "ok" THEN @ ELSE "FAILED",
                      !.vnode_started = @ /\ ~(HasVnode(s) /\ stop = "ok")]
  BY <1>3 DEF SubTask
<1>5. ~r.vnode_started
  BY <1>2, <1>3, <1>4 DEF HasVnode, SubTask
<1>6. subtask'[t][v] = r /\ \A u \in Task, x \in Vnode : <<u, x>> # <<t, v>> => subtask'[u][x] = subtask[u][x]
  BY <1>1, <1>3, <1>4
<1>7. \A u \in Task, x \in Vnode : subtask'[u][x].worker = subtask[u][x].worker
  BY ClearSubTaskType
<1>8. /\ containers' \subseteq containers
      /\ s.vnode_started => <<s.worker, t, v>> \notin containers'
  BY <1>1, <1>2 DEF HasVnode, Served
<1> QED
  BY <1>2, <1>5, <1>6, <1>7, <1>8

\* A task that is queued stays so, unless the scheduler is done with it.
LEMMA QueuedKept ==
  ASSUME TypeInv, [Next]_vars, ~StopTask, ~FinishTask
  PROVE  \A t \in Task : Queued(t) => Queued(t)'
<1> USE DEF queue_vars, Queued
<1>1. CASE Scheduler
  <2>1. CASE SortEnd
    BY <2>1 DEF SortEnd, Kept
  <2>2. CASE ~SortEnd
    BY <1>1, <2>2 DEF Scheduler, SortBegin, SortStopNext, SchedulerClear, ScanSkip,
       ScanCompleted, ScanPlace, ScanNoPlace, ScanRaises, ScanEnd, ProcessTask, StartVnode,
       VnodesDone, StartCommand, CommandAccepted, CommandsDone
  <2> QED
    BY <2>1, <2>2
<1>2. ASSUME NEW w \in Worker, Reporting(w) \/ ReportLost(w) \/ WorkerRestart(w) \/ NodeChange(w)
      PROVE  UNCHANGED queue_vars
  BY <1>2 DEF Reporting, ReportMsg, OnTaskReport, HandlerClear, HandlerVerdict, HandlerTell,
     ReportLost, WorkerRestart, NodeChange
<1>3. ASSUME NEW t \in Task, AddTask(t) \/ LazyStopTask(t)
      PROVE  UNCHANGED <<task_queue, lazy_delete_list>>
  BY <1>3 DEF AddTask, LazyStopTask
<1>4. ASSUME NEW e \in execs, CommandEnds(e)
      PROVE  UNCHANGED queue_vars
  BY <1>4 DEF CommandEnds
<1> QED
  BY <1>1, <1>2, <1>3, <1>4 DEF Next, vars

VnodesKnown == Cleared /\ \A c \in containers : Known(c)

\* A step that leaves the vnodes alone.
LEMMA VnodesAside ==
  ASSUME TypeInv, VnodesKnown, containers' = containers,
         \A t \in Task, v \in Vnode :
           /\ subtask'[t][v].vnode_started = subtask[t][v].vnode_started
           /\ subtask'[t][v].vnode_started => subtask'[t][v].worker = subtask[t][v].worker,
         \A t \in Task : Queued(t) => Queued(t)',
         sched'.pc \in {"stopping", "finishing"} => sched' = sched \/ sched'.left = Vnode
  PROVE  VnodesKnown'
<1>1. \A c \in containers : c[1] \in Worker /\ c[2] \in Task /\ c[3] \in Vnode
  BY DEF TypeInv, TypeOK
<1>2. \A c \in containers' : Known(c)'
  BY <1>1 DEF VnodesKnown, Known
<1>3. Cleared'
  <2>1. CASE sched' = sched
    <3>1. sched.pc \in {"stopping", "finishing"} => sched.task \in Task
      BY DEF TypeInv, Located
    <3> QED
      BY <2>1, <3>1 DEF VnodesKnown, Cleared
  <2>2. CASE sched' # sched
    BY <2>2 DEF Cleared
  <2> QED
    BY <2>1, <2>2
<1> QED
  BY <1>2, <1>3 DEF VnodesKnown

\* Faults are never forgotten, and a restart is one.
LEMMA FaultsGrow ==
  ASSUME TypeInv, [Next]_vars, faults' = 0
  PROVE  faults = 0 /\ ~(\E w \in Worker : WorkerRestart(w))
<1> USE DEF fault_vars
<1>1. faults \in Nat
  BY DEF TypeInv, TypeOK
<1>2. ASSUME NEW w \in Worker
      PROVE  ~WorkerRestart(w) /\ ~ReportLost(w)
  <2>1. ~Spend(<<"refused">>)
    <3> SUFFICES ASSUME Spend(<<"refused">>)
                 PROVE  FALSE
      OBVIOUS
    <3> QED
      BY <1>1, SpendOneNone
  <2> QED
    BY <2>1 DEF WorkerRestart, ReportLost
<1>3. ASSUME NEW t, NEW v, ClearSubTask(t, v)
      PROVE  faults = 0
  <2>1. PICK kill, stop : Spend(<<kill, stop>>)
    BY <1>3 DEF ClearSubTask
  <2> QED
    BY <1>1, <2>1, SpendTwoNone
<1>4. ASSUME NEW r, Spend(<<r>>)
      PROVE  faults = 0
  BY <1>1, <1>4, SpendOneNone
<1>5. ASSUME Scheduler
      PROVE  faults = 0
  <2>1. CASE SchedulerClear
    <3>1. ClearSubTask(sched.task, First(sched.left))
      BY <2>1 DEF SchedulerClear
    <3> QED
      BY <1>3, <3>1, Zenon
  <2>2. CASE StartVnode \/ StartCommand
    <3>1. faults' = faults \/ \E r \in RpcOutcome : Spend(<<r>>)
      BY <2>2 DEF StartVnode, StartCommand
    <3>2. CASE \E r \in RpcOutcome : Spend(<<r>>)
      BY <1>4, <3>2, Zenon
    <3> QED
      BY <3>1, <3>2
  <2>3. CASE ~(SchedulerClear \/ StartVnode \/ StartCommand)
    <3>1. faults' = faults
      BY <1>5, <2>3 DEF Scheduler, SortBegin, SortStopNext, StopTask, SortEnd, ScanSkip,
         ScanCompleted, FinishTask, ScanPlace, ScanNoPlace, ScanRaises, ScanEnd,
         ProcessTask, VnodesDone, CommandAccepted, CommandsDone
    <3> QED
      BY <3>1
  <2> QED
    BY <2>1, <2>2, <2>3
<1>6. ASSUME NEW w \in Worker, Reporting(w) \/ NodeChange(w)
      PROVE  faults = 0
  <2>1. CASE HandlerClear(w)
    BY <1>3, <2>1 DEF HandlerClear
  <2>2. CASE ~HandlerClear(w)
    BY <1>6, <2>2 DEF Reporting, ReportMsg, OnTaskReport, HandlerVerdict, HandlerTell, NodeChange
  <2> QED
    BY <2>1, <2>2
<1>7. ASSUME \/ \E t \in Task : AddTask(t) \/ LazyStopTask(t)
             \/ \E e \in execs : CommandEnds(e)
             \/ UNCHANGED vars
      PROVE  faults = 0
  BY <1>7 DEF AddTask, LazyStopTask, CommandEnds, vars
<1> QED
  BY <1>2, <1>5, <1>6, <1>7 DEF Next

\* What a report writes into a subtask has nothing to do with its vnode.
LEMMA ReportLeavesVnode ==
  ASSUME TypeInv, NEW w \in Worker, OnTaskReport(w) \/ HandlerVerdict(w)
  PROVE  \A u \in Task, x \in Vnode :
           /\ subtask'[u][x].vnode_started = subtask[u][x].vnode_started
           /\ subtask'[u][x].worker = subtask[u][x].worker
<1>1. subtask \in [Task -> [Vnode -> SubTask]]
  BY DEF TypeInv, TypeOK
<1>2. CASE OnTaskReport(w)
  <2>1. PICK m \in batch[w] :
          \/ subtask' = subtask
          \/ subtask' = [subtask EXCEPT ![m.task][m.vnode] = Heard(subtask[m.task][m.vnode], m)]
    BY <1>2 DEF OnTaskReport
  <2>2. m \in TaskMsg /\ m.task \in Task /\ m.vnode \in Vnode
    BY DEF TypeInv, TypeOK, TaskMsg
  <2>3. subtask[m.task][m.vnode] \in SubTask
    BY <1>1, <2>2
  <2>4. PICK r : r = Heard(subtask[m.task][m.vnode], m)
    OBVIOUS
  <2>5. /\ r.vnode_started = subtask[m.task][m.vnode].vnode_started
        /\ r.worker = subtask[m.task][m.vnode].worker
    BY <2>3, <2>4 DEF Heard, SubTask
  <2> QED
    BY <1>1, <2>1, <2>2, <2>4, <2>5
<1>3. CASE HandlerVerdict(w)
  <2> DEFINE m == handler[w].msg
             s == subtask[m.task][m.vnode]
  <2>1. m.task \in Task /\ m.vnode \in Vnode
    <3>1. handler[w] \in Handler /\ handler[w].pc = "verdict"
      BY <1>3 DEF HandlerVerdict, TypeInv, TypeOK
    <3> QED
      BY <3>1 DEF Handler, NoHandler, TaskMsg
  <2>2. s \in SubTask
    BY <1>1, <2>1
  <2>3. PICK r : /\ r = IF m.status = "FAILED" THEN waiting_for_retry(s) ELSE [s EXCEPT !.status = "FAILED"]
                 /\ subtask' = [subtask EXCEPT ![m.task][m.vnode] = r]
    BY <1>3 DEF HandlerVerdict
  <2>4. r.vnode_started = s.vnode_started /\ r.worker = s.worker
    <3>1. CASE m.status = "FAILED"
      BY <2>2, <2>3, <3>1, RetryType
    <3>2. CASE m.status # "FAILED"
      BY <2>2, <2>3, <3>2 DEF SubTask
    <3> QED
      BY <3>1, <3>2
  <2> QED
    BY <1>1, <2>1, <2>3, <2>4
<1> QED
  BY <1>2, <1>3

\* The steps of the scheduler that change no vnode, and those of the other threads.
LEMMA VnodesRest ==
  ASSUME TypeInv, QueueInv, VnodesKnown, [Next]_vars,
         ~SchedulerClear, ~StopTask, ~FinishTask, ~ScanPlace, ~StartVnode,
         ~(\E w \in Worker : HandlerClear(w) \/ WorkerRestart(w))
  PROVE  VnodesKnown'
<1> USE DEF worker_vars
<1>1. \A t \in Task : Queued(t) => Queued(t)'
  BY QueuedKept
<1>2. CASE /\ containers' = containers /\ subtask' = subtask
           /\ sched'.pc \in {"stopping", "finishing"} => sched' = sched \/ sched'.left = Vnode
  BY <1>1, <1>2, VnodesAside
<1>3. ASSUME NEW t \in Task, AddTask(t) \/ LazyStopTask(t)
      PROVE  VnodesKnown'
  BY <1>2, <1>3 DEF AddTask, LazyStopTask
<1>4. CASE Scheduler
  <2>1. sched \in Schedule
    BY DEF TypeInv, TypeOK
  <2>2. CASE SortBegin \/ SortEnd \/ ScanSkip \/ ScanNoPlace \/ ScanRaises \/ ScanEnd
             \/ ProcessTask \/ VnodesDone \/ CommandsDone
    <3>1. containers' = containers /\ subtask' = subtask
      BY <2>2 DEF SortBegin, SortEnd, ScanSkip, ScanNoPlace, ScanRaises, ScanEnd, ProcessTask,
                  VnodesDone, CommandsDone
    <3>2. sched'.pc \notin {"stopping", "finishing"}
      BY <2>1, <2>2, RestingType
         DEF Schedule, SortBegin, SortEnd, ScanSkip, ScanNoPlace, ScanRaises, ScanEnd,
             ProcessTask, VnodesDone, CommandsDone, AtSort
    <3> QED
      BY <1>2, <3>1, <3>2
  <2>3. CASE SortStopNext \/ ScanCompleted
    <3>1. containers' = containers /\ subtask' = subtask
      BY <2>3 DEF SortStopNext, ScanCompleted
    <3>2. sched'.left = Vnode
      BY <2>1, <2>3 DEF Schedule, SortStopNext, ScanCompleted
    <3> QED
      BY <1>2, <3>1, <3>2
  <2>4. CASE StartCommand \/ CommandAccepted
    <3>1. /\ sched.task \in Task /\ First(sched.left) \in Vnode /\ containers' = containers
          /\ sched'.pc \notin {"stopping", "finishing"}
      <4>1. sched.task \in Task /\ sched.left \subseteq Vnode /\ sched.left # {}
        BY <2>1, <2>4 DEF StartCommand, CommandAccepted, TypeInv, Located, Schedule
      <4>2. First(sched.left) \in Vnode
        BY <4>1, FirstMember DEF Vnode
      <4>3. containers' = containers
        BY <2>4 DEF StartCommand, CommandAccepted
      <4>4. ASSUME StartCommand
            PROVE  sched'.pc \notin {"stopping", "finishing"}
        <5>1. /\ sched.pc = "commands"
              /\ sched' \in {[sched EXCEPT !.left = @ \ {First(sched.left)}], [sched EXCEPT !.pc = "accepted"]}
          BY <4>4 DEF StartCommand
        <5> QED
          BY <2>1, <5>1 DEF Schedule
      <4>5. ASSUME CommandAccepted
            PROVE  sched'.pc \notin {"stopping", "finishing"}
        <5>1. sched' = [sched EXCEPT !.pc = "commands", !.left = @ \ {First(sched.left)}]
          BY <4>5 DEF CommandAccepted
        <5> QED
          BY <2>1, <5>1 DEF Schedule
      <4> QED
        BY <2>4, <4>1, <4>2, <4>3, <4>4, <4>5
    <3> DEFINE t == sched.task
               v == First(sched.left)
    <3>2. subtask \in [Task -> [Vnode -> SubTask]] /\ subtask[t][v] \in SubTask
      BY <3>1 DEF TypeInv, TypeOK
    <3>3. PICK r : /\ subtask' = [subtask EXCEPT ![t][v] = r]
                   /\ r.vnode_started = subtask[t][v].vnode_started
                   /\ r.worker = subtask[t][v].worker
      <4>1. CASE CommandAccepted
        <5>1. subtask' = [subtask EXCEPT ![t][v] = [@ EXCEPT !.task_started = TRUE, !.status = "RUNNING"]]
          BY <4>1 DEF CommandAccepted
        <5>2. PICK r : r = [subtask[t][v] EXCEPT !.task_started = TRUE, !.status = "RUNNING"]
          OBVIOUS
        <5>3. r.vnode_started = subtask[t][v].vnode_started /\ r.worker = subtask[t][v].worker
          BY <3>2, <5>2 DEF SubTask
        <5>4. subtask' = [subtask EXCEPT ![t][v] = r]
          BY <5>1, <5>2
        <5> QED
          BY <5>3, <5>4
      <4>2. CASE StartCommand
        <5> DEFINE new == [subtask[t][v] EXCEPT !.token = @ + 1]
        <5>1. \/ subtask' = [subtask EXCEPT ![t][v].status = "RUNNING"]
              \/ subtask' = [subtask EXCEPT ![t][v] = new]
              \/ subtask' = [subtask EXCEPT ![t][v] = waiting_for_retry(new)]
          BY <4>2 DEF StartCommand
        <5>2. new \in SubTask /\ new.vnode_started = subtask[t][v].vnode_started
              /\ new.worker = subtask[t][v].worker
          BY <3>2 DEF SubTask
        <5>3. CASE subtask' = [subtask EXCEPT ![t][v].status = "RUNNING"]
          <6>1. PICK r : r = [subtask[t][v] EXCEPT !.status = "RUNNING"]
            OBVIOUS
          <6>2. r.vnode_started = subtask[t][v].vnode_started /\ r.worker = subtask[t][v].worker
            BY <3>2, <6>1 DEF SubTask
          <6>3. subtask' = [subtask EXCEPT ![t][v] = r]
            BY <5>3, <6>1
          <6> QED
            BY <6>2, <6>3
        <5>4. CASE subtask' = [subtask EXCEPT ![t][v] = new]
          BY <5>2, <5>4
        <5>5. CASE subtask' = [subtask EXCEPT ![t][v] = waiting_for_retry(new)]
          <6> HIDE DEF new
          <6>1. /\ waiting_for_retry(new).vnode_started = new.vnode_started
                /\ waiting_for_retry(new).worker = new.worker
            BY <5>2, RetryType
          <6> QED
            BY <5>2, <5>5, <6>1
        <5> QED
          BY <5>1, <5>3, <5>4, <5>5
      <4> QED
        BY <2>4, <4>1, <4>2
    <3>4. \A u \in Task, x \in Vnode :
            /\ subtask'[u][x].vnode_started = subtask[u][x].vnode_started
            /\ subtask'[u][x].worker = subtask[u][x].worker
      BY <3>1, <3>2, <3>3
    <3> QED
      BY <1>1, <3>1, <3>4, VnodesAside
  <2> QED
    BY <1>4, <2>2, <2>3, <2>4 DEF Scheduler
<1>5. ASSUME NEW w \in Worker, Reporting(w) \/ ReportLost(w) \/ NodeChange(w)
      PROVE  VnodesKnown'
  <2>1. CASE ReportMsg(w) \/ HandlerTell(w) \/ ReportLost(w) \/ NodeChange(w)
    BY <1>2, <2>1 DEF ReportMsg, HandlerTell, ReportLost, NodeChange
  <2>2. CASE OnTaskReport(w) \/ HandlerVerdict(w)
    <3>1. containers' = containers /\ sched' = sched
      BY <2>2 DEF OnTaskReport, HandlerVerdict
    <3>2. \A u \in Task, x \in Vnode :
            /\ subtask'[u][x].vnode_started = subtask[u][x].vnode_started
            /\ subtask'[u][x].worker = subtask[u][x].worker
      BY <2>2, ReportLeavesVnode
    <3> QED
      BY <1>1, <3>1, <3>2, VnodesAside
  <2> QED
    BY <1>5, <2>1, <2>2 DEF Reporting
<1>6. ASSUME NEW e \in execs, CommandEnds(e)
      PROVE  VnodesKnown'
  BY <1>2, <1>6 DEF CommandEnds
<1> QED
  BY <1>2, <1>3, <1>4, <1>5, <1>6 DEF Next, vars

LEMMA VnodesPlaced ==
  ASSUME TypeInv, VnodesKnown, ScanPlace
  PROVE  VnodesKnown'
<1>1. containers' = containers /\ sched'.pc = "running"
  BY DEF ScanPlace, worker_vars, AtSort
<1>2. \A t \in Task : Queued(t) => Queued(t)'
  BY DEF ScanPlace, queue_vars, Queued
<1>3. subtask \in [Task -> [Vnode -> SubTask]]
  BY DEF TypeInv, TypeOK
<1>4. sched.todo # {}
  BY DEF ScanPlace
<1>5. Examined \in Task
  BY <1>4, ExaminedType
<1>6. PICK list, place : Placed(list, place)
  BY PlaceShape
<1>7. \A v \in Vnode :
        LET r == [subtask[Examined][v] EXCEPT !.worker = place[v]] IN
        r.worker = place[v] /\ r.vnode_started = subtask[Examined][v].vnode_started
  BY <1>3, <1>5 DEF SubTask
<1>8. \A t \in Task, v \in Vnode :
        /\ subtask'[t][v].vnode_started = subtask[t][v].vnode_started
        /\ subtask'[t][v].vnode_started => subtask'[t][v].worker = subtask[t][v].worker
  BY <1>3, <1>5, <1>6, <1>7 DEF Placed
<1> QED
  BY <1>1, <1>2, <1>8, VnodesAside

LEMMA VnodesStarted ==
  ASSUME TypeInv, QueueInv, VnodesKnown, StartVnode, faults' = 0
  PROVE  VnodesKnown'
<1>1. sched \in Schedule /\ subtask \in [Task -> [Vnode -> SubTask]]
  BY DEF TypeInv, TypeOK
<1>2. /\ sched.task \in Task /\ sched.left \subseteq Vnode /\ sched.left # {}
      /\ sched.pc = "vnodes"
  BY <1>1 DEF StartVnode, TypeInv, Located, Schedule
<1> DEFINE t == sched.task
           v == First(sched.left)
           s == subtask[t][v]
<1>3. v \in Vnode /\ t \in Task
  BY <1>2, FirstMember DEF Vnode
<1>4. Queued(t)
  BY <1>2 DEF QueueInv, SchedInv, InHand
<1>5. \A u \in Task : Queued(u) => Queued(u)'
  BY DEF StartVnode, queue_vars, Queued
<1>6. sched'.pc = "vnodes"
  BY <1>1, <1>2 DEF StartVnode, Schedule
<1>7. CASE s.vnode_started
  <2>1. containers' = containers /\ subtask' = subtask
    BY <1>7 DEF StartVnode
  <2> QED
    BY <1>5, <1>6, <2>1, VnodesAside
<1>8. CASE ~s.vnode_started
  <2>1. PICK r : /\ Spend(<<r>>)
                 /\ r = "ok" => subtask' = [subtask EXCEPT ![t][v].vnode_started = TRUE]
                 /\ containers' \subseteq containers \cup {<<s.worker, t, v>>}
    BY <1>8 DEF StartVnode
  <2>2. r = "ok"
    BY <2>1, SpendOneNone DEF TypeInv, TypeOK
  <2>3. /\ subtask'[t][v].vnode_started /\ subtask'[t][v].worker = s.worker
        /\ \A u \in Task, x \in Vnode : <<u, x>> # <<t, v>> => subtask'[u][x] = subtask[u][x]
    BY <1>1, <1>3, <2>1, <2>2 DEF SubTask
  <2>4. \A c \in containers : c[1] \in Worker /\ c[2] \in Task /\ c[3] \in Vnode
    BY DEF TypeInv, TypeOK
  <2>5. ASSUME NEW c \in containers'
        PROVE  Known(c)'
    <3>1. CASE c \in containers
      <4>1. Known(c) /\ <<c[2], c[3]>> # <<t, v>>
        BY <1>8, <3>1 DEF VnodesKnown, Known
      <4> QED
        BY <1>5, <2>3, <2>4, <3>1, <4>1 DEF Known
    <3>2. CASE c = <<s.worker, t, v>>
      BY <1>3, <1>4, <1>5, <2>3, <3>2 DEF Known
    <3> QED
      BY <2>1, <3>1, <3>2
  <2>6. Cleared'
    BY <1>6 DEF Cleared
  <2> QED
    BY <2>5, <2>6 DEF VnodesKnown
<1> QED
  BY <1>7, <1>8

\* A subtask that is cleared has no container left.
LEMMA VnodesCleared ==
  ASSUME TypeInv, VnodesKnown, NEW t \in Task, NEW v \in Vnode, ClearSubTask(t, v), faults' = 0,
         UNCHANGED queue_vars
  PROVE  /\ \A c \in containers' : Known(c)'
         /\ \A u \in Task, x \in Vnode :
              ~subtask[u][x].vnode_started => ~subtask'[u][x].vnode_started
         /\ ~subtask'[t][v].vnode_started
<1>1. \A c \in containers : c[1] \in Worker /\ c[2] \in Task /\ c[3] \in Vnode /\ c = <<c[1], c[2], c[3]>>
  BY DEF TypeInv, TypeOK
<1>2. ASSUME NEW c \in containers'
      PROVE  Known(c)'
  <2>1. c \in containers /\ Known(c)
    BY <1>2, ClearAnswered DEF VnodesKnown
  <2>2. CASE <<c[2], c[3]>> = <<t, v>>
    <3>1. c = <<subtask[t][v].worker, t, v>> /\ subtask[t][v].vnode_started
      BY <1>1, <2>1, <2>2 DEF Known
    <3> QED
      BY <1>2, <3>1, ClearAnswered
  <2>3. CASE <<c[2], c[3]>> # <<t, v>>
    <3>1. subtask'[c[2]][c[3]] = subtask[c[2]][c[3]]
      BY <1>1, <2>1, <2>3, ClearAnswered
    <3> QED
      BY <2>1, <3>1 DEF Known, Queued, queue_vars
  <2> QED
    BY <2>2, <2>3
<1> QED
  BY <1>2, ClearAnswered

LEMMA VnodesGo ==
  ASSUME TypeInv, VnodesKnown, faults' = 0,
         SchedulerClear \/ \E w \in Worker : HandlerClear(w)
  PROVE  VnodesKnown'
<1>1. sched \in Schedule
  BY DEF TypeInv, TypeOK
<1>2. CASE SchedulerClear
  <2> DEFINE t == sched.task
             v == First(sched.left)
  <2>1. /\ sched.task \in Task /\ sched.left \subseteq Vnode /\ sched.left # {}
        /\ sched.pc \in {"stopping", "finishing"}
    BY <1>1, <1>2 DEF SchedulerClear, TypeInv, Located, Schedule
  <2>2. t \in Task /\ v \in Vnode
    BY <2>1, FirstMember DEF Vnode
  <2>3. ClearSubTask(t, v) /\ UNCHANGED queue_vars /\ sched'.left = sched.left \ {v} /\ sched'.task = t
    BY <1>1, <1>2 DEF SchedulerClear, Schedule
  <2>4. Cleared'
    BY <2>1, <2>2, <2>3, VnodesCleared DEF VnodesKnown, Cleared
  <2> QED
    BY <2>2, <2>3, <2>4, VnodesCleared DEF VnodesKnown
<1>3. ASSUME NEW w \in Worker, HandlerClear(w)
      PROVE  VnodesKnown'
  <2> DEFINE m == handler[w].msg
  <2>1. m.task \in Task /\ m.vnode \in Vnode
    <3>1. handler[w] \in Handler /\ handler[w].pc = "clear"
      BY <1>3 DEF HandlerClear, TypeInv, TypeOK
    <3> QED
      BY <3>1 DEF Handler, NoHandler, TaskMsg
  <2>2. ClearSubTask(m.task, m.vnode) /\ UNCHANGED queue_vars /\ sched' = sched
    BY <1>3 DEF HandlerClear
  <2>3. sched.pc \in {"stopping", "finishing"} => sched.task \in Task
    BY DEF TypeInv, Located
  <2>4. Cleared'
    BY <2>1, <2>2, <2>3, VnodesCleared DEF VnodesKnown, Cleared
  <2> QED
    BY <2>1, <2>2, <2>4, VnodesCleared DEF VnodesKnown
<1> QED
  BY <1>2, <1>3

\* The scheduler is done with a task that has no vnode left.
LEMMA VnodesDown ==
  ASSUME TypeInv, VnodesKnown, StopTask \/ FinishTask
  PROVE  VnodesKnown'
<1>1. /\ sched.pc \in {"stopping", "finishing"} /\ sched.left = {}
      /\ containers' = containers /\ subtask' = subtask
      /\ task_queue' = task_queue /\ lazy_delete_list' = lazy_delete_list \cup {sched.task}
  BY DEF StopTask, FinishTask, worker_vars
<1>2. sched'.pc \notin {"stopping", "finishing"}
  BY RestingType DEF StopTask, FinishTask, TypeInv, TypeOK, Schedule
<1>3. \A c \in containers : c[3] \in Vnode
  BY DEF TypeInv, TypeOK
<1>4. \A c \in containers : c[2] # sched.task
  BY <1>1, <1>3 DEF VnodesKnown, Cleared, Known
<1>5. \A c \in containers' : Known(c)'
  BY <1>1, <1>4 DEF VnodesKnown, Known, Queued
<1>6. Cleared'
  BY <1>2 DEF Cleared
<1> QED
  BY <1>5, <1>6 DEF VnodesKnown

LEMMA VnodeStep ==
  ASSUME TypeInv, QueueInv, VnodeInv, [Next]_vars
  PROVE  VnodeInv'
<1> SUFFICES ASSUME faults' = 0
             PROVE  VnodesKnown'
  BY DEF VnodeInv, VnodesKnown
<1>1. faults = 0 /\ ~(\E w \in Worker : WorkerRestart(w))
  BY FaultsGrow
<1>2. VnodesKnown
  BY <1>1 DEF VnodeInv, VnodesKnown
<1> QED
  BY <1>1, <1>2, VnodesRest, VnodesPlaced, VnodesStarted, VnodesGo, VnodesDown

THEOREM VnodesCorrect == Spec => []VnodeInv
<1>1. Init => VnodeInv
  <2> SUFFICES ASSUME Init
               PROVE  VnodeInv
    OBVIOUS
  <2>1. sched.pc = "sort" /\ containers = {}
    BY RestingType DEF Init
  <2> QED
    BY <2>1 DEF VnodeInv, Cleared
<1>2. TypeInv /\ QueueInv /\ VnodeInv /\ [Next]_vars => VnodeInv'
  BY VnodeStep
<1> QED
  BY <1>1, <1>2, QueueCorrect, PTL DEF Spec

\* As long as every call to a worker is answered, no container runs that its subtask does
\* not know, or whose task the scheduler is done with: for any number of reports handled
\* while the scheduler starts, stops or finishes the task.
THEOREM VnodesSafe == Spec => []NoOrphanVnode
<1>1. TypeInv /\ VnodeInv => NoOrphanVnode
  BY DEF VnodeInv, Known, NoOrphanVnode, Retired, Queued, TypeInv, TypeOK
<1> QED
  BY <1>1, VnodesCorrect, TypeCorrect, PTL

-----------------------------------------------------------------------------
(* Executions. What is on its way from the start of a command to the verdict *)
(* on it: a command, a message not sent, a message not handled, or a report  *)
(* that is being handled.                                                    *)

Handled(w) == handler[w].pc \in {"clear", "verdict"}

Signals ==
  {<<"exec", e.worker, e>> : e \in execs}
  \cup (UNION {{<<"told", w, m>> : m \in taskmsgs[w]} : w \in Worker})
  \cup (UNION {{<<"heard", w, m>> : m \in batch[w]} : w \in Worker})
  \cup {<<"handled", w, handler[w].msg>> : w \in {w \in Worker : Handled(w)}}

\* Which execution it is about.
About(p) == <<p[3].task, p[3].vnode, p[3].token>>

\* Each execution is under way once, and its token was given out.
Once ==
  /\ \A p, q \in Signals : About(p) = About(q) => p = q
  /\ \A p \in Signals : p[3].token <= subtask[p[3].task][p[3].vnode].token

\* The last execution of a subtask is under way.
Current(t, v) == \E p \in Signals : About(p) = <<t, v, subtask[t][v].token>>

\* The scheduler has the subtask on its list, and has not started its command yet.
ToStart(t, v) ==
  /\ sched.task = t
  /\ \/ sched.pc \in {"running", "vnodes"} /\ v \in sched.list
     \/ sched.pc = "commands" /\ v \in sched.left
     \/ sched.pc = "accepted" /\ v \in sched.left \ {First(sched.left)}

\* Its command was accepted, and the scheduler is to note that.
Accepted(t, v) == sched.pc = "accepted" /\ sched.task = t /\ v = First(sched.left)

\* Each attempt but the last one ended in waiting_for_retry.
AttemptsOf(t, v) ==
  LET s == subtask[t][v] IN
  /\ s.token <= MaxRetry + 1 /\ s.token <= s.try_count + 1
  /\ s.status = "WAITING" => s.try_count <= MaxRetry /\ (s.token <= s.try_count \/ Accepted(t, v))
  /\ ToStart(t, v) => s.token <= MaxRetry /\ s.token <= s.try_count

Attempts == \A t \in Task \ AtSameTime, v \in Vnode : AttemptsOf(t, v)

\* A subtask whose execution is under way is not about to be started again.
SettledAt(t, v) ==
  Current(t, v) => \/ Accepted(t, v)
                   \/ subtask[t][v].status # "WAITING" /\ ~ToStart(t, v)

Settled == ~answer_lost => \A t \in Task \ AtSameTime, v \in Vnode : SettledAt(t, v)

\* A report is handled while its execution is the last one of the subtask.
HandledFresh ==
  ~answer_lost =>
    \A w \in Worker : Handled(w) /\ handler[w].msg.task \notin AtSameTime =>
      subtask[handler[w].msg.task][handler[w].msg.vnode].token = handler[w].msg.token

Listed == sched.pc = "vnodes" => sched.left \subseteq sched.list

FreshInv == Listed /\ Once /\ Attempts /\ Settled /\ HandledFresh

SignalPlaces == {"exec", "told", "heard", "handled"}

\* Where signals are, place by place.
At(a, w, x) ==
  \/ a = "exec" /\ x \in execs /\ x.worker = w
  \/ a = "told" /\ x \in taskmsgs[w]
  \/ a = "heard" /\ x \in batch[w]
  \/ a = "handled" /\ Handled(w) /\ x = handler[w].msg

LEMMA SignalShape ==
  TypeOK =>
    /\ \A p \in Signals : \E a \in SignalPlaces : \E w \in Worker : \E x : p = <<a, w, x>> /\ At(a, w, x)
    /\ \A a \in SignalPlaces : \A w \in Worker : \A x : At(a, w, x) => <<a, w, x>> \in Signals
<1> SUFFICES ASSUME TypeOK
             PROVE  /\ \A p \in Signals : \E a \in SignalPlaces : \E w \in Worker : \E x :
                         p = <<a, w, x>> /\ At(a, w, x)
                    /\ \A a \in SignalPlaces : \A w \in Worker : \A x :
                         At(a, w, x) => <<a, w, x>> \in Signals
  OBVIOUS
<1>1. \A e \in execs : e.worker \in Worker
  BY DEF TypeOK
<1> DEFINE Run == {<<"exec", e.worker, e>> : e \in execs}
           Told == UNION {{<<"told", w, m>> : m \in taskmsgs[w]} : w \in Worker}
           Received == UNION {{<<"heard", w, m>> : m \in batch[w]} : w \in Worker}
           Hand == {<<"handled", w, handler[w].msg>> : w \in {w \in Worker : Handled(w)}}
<1>2. \A p : p \in Run <=> \E e \in execs : p = <<"exec", e.worker, e>>
  BY Zenon
<1>3. \A p : p \in Told <=> \E w \in Worker : \E m \in taskmsgs[w] : p = <<"told", w, m>>
  OBVIOUS
<1>4. \A p : p \in Received <=> \E w \in Worker : \E m \in batch[w] : p = <<"heard", w, m>>
  OBVIOUS
<1>5. \A p : p \in Hand <=> \E w \in Worker : Handled(w) /\ p = <<"handled", w, handler[w].msg>>
  BY Zenon
<1>6. Signals = Run \cup Told \cup Received \cup Hand
  BY Zenon DEF Signals
<1> HIDE DEF Run, Told, Received, Hand
<1>7. ASSUME NEW p \in Signals
      PROVE  \E a \in SignalPlaces : \E w \in Worker : \E x : p = <<a, w, x>> /\ At(a, w, x)
  <2>1. CASE p \in Run
    BY <1>1, <1>2, <2>1 DEF SignalPlaces, At
  <2>2. CASE p \in Told
    BY <1>3, <2>2 DEF SignalPlaces, At
  <2>3. CASE p \in Received
    BY <1>4, <2>3 DEF SignalPlaces, At
  <2>4. CASE p \in Hand
    BY <1>5, <2>4 DEF SignalPlaces, At
  <2> QED
    BY <1>6, <1>7, <2>1, <2>2, <2>3, <2>4
<1>8. ASSUME NEW a \in SignalPlaces, NEW w \in Worker, NEW x, At(a, w, x)
      PROVE  <<a, w, x>> \in Signals
  <2>1. CASE a = "exec"
    BY <1>2, <1>6, <1>8, <2>1 DEF At
  <2>2. CASE a = "told"
    BY <1>3, <1>6, <1>8, <2>2 DEF At
  <2>3. CASE a = "heard"
    BY <1>4, <1>6, <1>8, <2>3 DEF At
  <2>4. CASE a = "handled"
    BY <1>5, <1>6, <1>8, <2>4 DEF At
  <2> QED
    BY <1>8, <2>1, <2>2, <2>3, <2>4 DEF SignalPlaces
<1> QED
  BY <1>7, <1>8

\* A signal is about a subtask.
LEMMA SignalType ==
  TypeOK => \A a, x : \A w \in Worker :
    At(a, w, x) => x.task \in Task /\ x.vnode \in Vnode /\ x.token \in Nat
<1> SUFFICES ASSUME TypeOK, NEW a, NEW x, NEW w \in Worker, At(a, w, x)
             PROVE  x.task \in Task /\ x.vnode \in Vnode /\ x.token \in Nat
  OBVIOUS
<1>1. CASE x \in execs
  BY <1>1 DEF TypeOK
<1>2. CASE x \in taskmsgs[w] \/ x \in batch[w]
  <2>1. x \in TaskMsg
    BY <1>2 DEF TypeOK
  <2> QED
    BY <2>1 DEF TaskMsg
<1>3. CASE Handled(w) /\ x = handler[w].msg
  <2>1. handler[w] \in Handler
    BY DEF TypeOK
  <2>2. x \in TaskMsg
    BY <1>3, <2>1 DEF Handler, NoHandler, Handled
  <2> QED
    BY <2>2 DEF TaskMsg
<1> QED
  BY <1>1, <1>2, <1>3 DEF At

LEMMA SignalsNow ==
  ASSUME TypeInv
  PROVE  /\ \A p \in Signals : \E a \in SignalPlaces : \E w \in Worker : \E x : p = <<a, w, x>> /\ At(a, w, x)
         /\ \A a \in SignalPlaces : \A w \in Worker : \A x : At(a, w, x) => <<a, w, x>> \in Signals
         /\ \A a, x : \A w \in Worker :
              At(a, w, x) => x.task \in Task /\ x.vnode \in Vnode /\ x.token \in Nat
BY SignalShape, SignalType DEF TypeInv

LEMMA SignalsNext ==
  ASSUME TypeInv'
  PROVE  /\ \A p \in Signals' : \E a \in SignalPlaces : \E w \in Worker : \E x : p = <<a, w, x>> /\ At(a, w, x)'
         /\ \A a \in SignalPlaces : \A w \in Worker : \A x : At(a, w, x)' => <<a, w, x>> \in Signals'
         /\ \A a, x : \A w \in Worker :
              At(a, w, x)' => x.task \in Task /\ x.vnode \in Vnode /\ x.token \in Nat
<1>1. (TypeOK =>
        /\ \A p \in Signals : \E a \in SignalPlaces : \E w \in Worker : \E x : p = <<a, w, x>> /\ At(a, w, x)
        /\ \A a \in SignalPlaces : \A w \in Worker : \A x : At(a, w, x) => <<a, w, x>> \in Signals)'
  BY SignalShape, PTL
<1>2. (TypeOK => \A a, x : \A w \in Worker :
         At(a, w, x) => x.task \in Task /\ x.vnode \in Vnode /\ x.token \in Nat)'
  BY SignalType, PTL
<1>3. TypeOK'
  BY DEF TypeInv
<1> QED
  BY <1>1, <1>2, <1>3

\* The signals after a step come from different ones before it.
Descends ==
  \A p, r \in Signals' : \E q, s \in Signals :
    About(p) = About(q) /\ About(r) = About(s) /\ (q = s => p = r)

Same(x, y) == x.task = y.task /\ x.vnode = y.vnode /\ x.token = y.token

\* Where each signal after a step comes from.
Traces(f) ==
  \A a \in SignalPlaces : \A w \in Worker : \A x : At(a, w, x)' =>
    \E b \in SignalPlaces : \E y :
      At(b, w, y) /\ Same(x, y) /\ f[<<b, w, y>>] = <<a, w, x>>

LEMMA DescendsBy ==
  ASSUME TypeInv, TypeInv', NEW f, Traces(f)
  PROVE  Descends
<1>1. ASSUME NEW p \in Signals'
      PROVE  \E q \in Signals : About(p) = About(q) /\ f[q] = p
  <2>1. PICK a \in SignalPlaces : \E w \in Worker : \E x : p = <<a, w, x>> /\ At(a, w, x)'
    BY <1>1, SignalsNext
  <2>2. PICK w \in Worker : \E x : p = <<a, w, x>> /\ At(a, w, x)'
    BY <2>1
  <2>6. PICK x : p = <<a, w, x>> /\ At(a, w, x)'
    BY <2>2
  <2>7. PICK b \in SignalPlaces :
          \E y : At(b, w, y) /\ Same(x, y) /\ f[<<b, w, y>>] = <<a, w, x>>
    BY <2>6 DEF Traces
  <2>3. PICK y : At(b, w, y) /\ Same(x, y) /\ f[<<b, w, y>>] = <<a, w, x>>
    BY <2>7
  <2>4. <<b, w, y>> \in Signals
    BY <2>3, SignalsNow
  <2>5. About(p) = About(<<b, w, y>>)
    BY <2>3, <2>6 DEF About, Same
  <2> QED
    BY <2>3, <2>4, <2>5, <2>6
<1> QED
  BY <1>1, Zenon DEF Descends

\* No signal appears.
LEMMA DescendsFewer ==
  ASSUME TypeInv, TypeInv',
         \A a \in SignalPlaces : \A w \in Worker : \A x : At(a, w, x)' => At(a, w, x)
  PROVE  Descends
<1>1. ASSUME NEW p \in Signals'
      PROVE  p \in Signals
  <2>1. PICK a \in SignalPlaces : \E w \in Worker : \E x : p = <<a, w, x>> /\ At(a, w, x)'
    BY <1>1, SignalsNext
  <2> QED
    BY <2>1, SignalsNow
<1> QED
  BY <1>1 DEF Descends

\* Each execution stays under way once.
LEMMA OnceKept ==
  ASSUME TypeInv, TypeInv', Once, Descends,
         \A t \in Task, v \in Vnode : subtask'[t][v].token >= subtask[t][v].token
  PROVE  Once'
<1>1. ASSUME NEW p \in Signals', NEW r \in Signals', About(p) = About(r)
      PROVE  p = r
  BY <1>1 DEF Descends, Once
<1>2. ASSUME NEW p \in Signals'
      PROVE  p[3].token <= subtask'[p[3].task][p[3].vnode].token
  <2>1. PICK q \in Signals : About(p) = About(q)
    BY <1>2 DEF Descends
  <2>2. p[3].task = q[3].task /\ p[3].vnode = q[3].vnode /\ p[3].token = q[3].token
    BY <2>1 DEF About
  <2>3. q[3].task \in Task /\ q[3].vnode \in Vnode /\ q[3].token \in Nat
    BY <2>1, SignalsNow
  <2>4. q[3].token <= subtask[q[3].task][q[3].vnode].token
    BY <2>1 DEF Once
  <2>5. /\ subtask'[q[3].task][q[3].vnode].token \in Nat
        /\ subtask[q[3].task][q[3].vnode].token \in Nat
    BY <2>3 DEF TypeInv, TypeOK, SubTask
  <2>6. subtask'[q[3].task][q[3].vnode].token >= subtask[q[3].task][q[3].vnode].token
    BY <2>3
  <2> QED
    BY <2>2, <2>3, <2>4, <2>5, <2>6
<1> QED
  BY <1>1, <1>2 DEF Once

\* Commands that are killed stay under way.
LEMMA DescendsKilled ==
  ASSUME TypeInv, TypeInv', NEW k \in Worker \cup {NoWorker}, NEW t \in Task, NEW v \in Vnode,
         execs' = execs \/ execs' = Kill(execs, k, t, v),
         taskmsgs' = taskmsgs, batch' = batch,
         \A w \in Worker : Handled(w)' => Handled(w) /\ handler'[w].msg = handler[w].msg
  PROVE  Descends
<1>1. CASE execs' = execs
  <2>1. \A a \in SignalPlaces : \A w \in Worker : \A x : At(a, w, x)' => At(a, w, x)
    BY <1>1 DEF At, SignalPlaces
  <2> QED
    BY <2>1, DescendsFewer
<1>2. CASE execs' = Kill(execs, k, t, v)
  <2> DEFINE Mark(e) == IF e.worker = k /\ e.task = t /\ e.vnode = v
                        THEN [e EXCEPT !.killed = TRUE] ELSE e
             f == [p \in Signals |-> IF p[1] = "exec" THEN <<"exec", p[2], Mark(p[3])>> ELSE p]
  <2>1. ASSUME NEW e \in execs
        PROVE  Same(Mark(e), e) /\ Mark(e).worker = e.worker
    BY DEF TypeInv, TypeOK, Same
  <2>2. execs' = {Mark(e) : e \in execs}
    BY <1>2 DEF Kill
  <2>3. ASSUME NEW a \in SignalPlaces, NEW w \in Worker, NEW x, At(a, w, x)'
        PROVE  \E b \in SignalPlaces : \E y :
                 At(b, w, y) /\ Same(x, y) /\ f[<<b, w, y>>] = <<a, w, x>>
    <3>1. CASE a = "exec"
      <4>1. PICK e \in execs : x = Mark(e)
        BY <2>2, <2>3, <3>1 DEF At
      <4>2. e.worker = w /\ Same(x, e)
        BY <2>1, <2>3, <3>1, <4>1 DEF At
      <4>3. At("exec", w, e)
        BY <4>2 DEF At
      <4>4. <<"exec", w, e>> \in Signals
        BY <4>3, SignalsNow DEF SignalPlaces
      <4> HIDE DEF Mark
      <4>5. f[<<"exec", w, e>>] = <<"exec", w, x>>
        BY <4>1, <4>4
      <4> QED
        BY <3>1, <4>2, <4>3, <4>5 DEF SignalPlaces
    <3>2. CASE a # "exec"
      <4>1. At(a, w, x)
        BY <2>3, <3>2 DEF At
      <4>2. <<a, w, x>> \in Signals
        BY <4>1, SignalsNow
      <4>3. f[<<a, w, x>>] = <<a, w, x>>
        BY <3>2, <4>2
      <4> QED
        BY <4>1, <4>3 DEF Same
    <3> QED
      BY <3>1, <3>2
  <2> HIDE DEF f
  <2>4. PICK g : g = f
    OBVIOUS
  <2>5. Traces(g)
    BY <2>3, <2>4, Zenon DEF Traces
  <2> QED
    BY <2>5, DescendsBy
<1> QED
  BY <1>1, <1>2

\* What clear_sub_task does to what is under way, and to the subtasks.
LEMMA ClearSignals ==
  ASSUME TypeInv, NEW t \in Task, NEW v \in Vnode, ClearSubTask(t, v)
  PROVE  /\ \E k \in Worker \cup {NoWorker} : execs' = execs \/ execs' = Kill(execs, k, t, v)
         /\ ~answer_lost' => ~answer_lost
         /\ \A u \in Task, x \in Vnode :
              /\ subtask'[u][x].token = subtask[u][x].token
              /\ subtask'[u][x].try_count = subtask[u][x].try_count
              /\ subtask'[u][x].status \in {subtask[u][x].status, "FAILED"}
<1> DEFINE s == subtask[t][v]
<1>1. PICK kill, stop :
        /\ Spend(<<kill, stop>>)
        /\ subtask' = [subtask EXCEPT ![t][v] =
             [s EXCEPT !.task_started = s.task_started /\ kill # "ok",
                       !.status = IF kill = "ok" THEN @ ELSE "FAILED",
                       !.vnode_started = @ /\ ~(HasVnode(s) /\ stop = "ok")]]
        /\ execs' \in {execs, Kill(execs, s.worker, t, v)}
  BY DEF ClearSubTask
<1>2. subtask \in [Task -> [Vnode -> SubTask]] /\ s \in SubTask
  BY DEF TypeInv, TypeOK
<1>3. ~answer_lost' => ~answer_lost
  BY <1>1 DEF Spend
<1>4. s.worker \in Worker \cup {NoWorker}
  BY <1>2 DEF SubTask
<1>5. PICK r : r = [s EXCEPT !.task_started = s.task_started /\ kill # "ok",
                             !.status = IF kill = "ok" THEN @ ELSE "FAILED",
                             !.vnode_started = @ /\ ~(HasVnode(s) /\ stop = "ok")]
  OBVIOUS
<1>6. r.token = s.token /\ r.try_count = s.try_count /\ r.status \in {s.status, "FAILED"}
  BY <1>2, <1>5 DEF SubTask
<1>7. subtask' = [subtask EXCEPT ![t][v] = r]
  BY <1>1, <1>5
<1> HIDE DEF s
<1>8. \A u \in Task, x \in Vnode : subtask'[u][x] = IF u = t /\ x = v THEN r ELSE subtask[u][x]
  BY <1>2, <1>7
<1>9. \A u \in Task, x \in Vnode :
        /\ subtask'[u][x].token = subtask[u][x].token
        /\ subtask'[u][x].try_count = subtask[u][x].try_count
        /\ subtask'[u][x].status \in {subtask[u][x].status, "FAILED"}
  BY <1>6, <1>8 DEF s
<1>10. \E k \in Worker \cup {NoWorker} : execs' = execs \/ execs' = Kill(execs, k, t, v)
  BY <1>1, <1>4 DEF s
<1> QED
  BY <1>3, <1>9, <1>10

\* The report that a call of on_task_report is about.
LEMMA HandlerShape ==
  ASSUME TypeInv, NEW w \in Worker, handler[w].pc \in {"clear", "verdict", "tell"}
  PROVE  /\ handler[w].msg \in TaskMsg
         /\ handler[w].msg.task \in Task /\ handler[w].msg.vnode \in Vnode
         /\ handler[w].msg.token \in Nat
<1>1. handler[w] \in Handler
  BY DEF TypeInv, TypeOK
<1>2. handler[w].msg \in TaskMsg
  BY <1>1 DEF Handler, NoHandler
<1> QED
  BY <1>2 DEF TaskMsg

\* The messages of a worker are sent.
LEMMA DescendsSent ==
  ASSUME TypeInv, TypeInv', NEW w0 \in Worker, ReportMsg(w0)
  PROVE  Descends
<1> DEFINE f == [p \in Signals |-> IF p[1] = "told" /\ p[2] = w0 THEN <<"heard", w0, p[3]>> ELSE p]
<1>1. ASSUME NEW a \in SignalPlaces, NEW w \in Worker, NEW x, At(a, w, x)'
      PROVE  \E b \in SignalPlaces : \E y :
               At(b, w, y) /\ Same(x, y) /\ f[<<b, w, y>>] = <<a, w, x>>
  <2>1. /\ taskmsgs'[w0] = {} /\ batch'[w0] = taskmsgs[w0] /\ execs' = execs /\ handler' = handler
        /\ \A u \in Worker \ {w0} : taskmsgs'[u] = taskmsgs[u] /\ batch'[u] = batch[u]
    BY DEF ReportMsg, TypeInv, TypeOK
  <2>2. CASE a = "heard" /\ w = w0
    <3>1. At("told", w, x)
      BY <1>1, <2>1, <2>2 DEF At
    <3>2. <<"told", w, x>> \in Signals
      BY <3>1, SignalsNow DEF SignalPlaces
    <3>3. f[<<"told", w, x>>] = <<a, w, x>>
      BY <2>2, <3>2
    <3> QED
      BY <3>1, <3>3 DEF SignalPlaces, Same
  <2>3. CASE ~(a = "heard" /\ w = w0)
    <3>1. At(a, w, x) /\ ~(a = "told" /\ w = w0)
      BY <1>1, <2>1, <2>3 DEF At, SignalPlaces, Handled
    <3>2. <<a, w, x>> \in Signals
      BY <3>1, SignalsNow
    <3>3. f[<<a, w, x>>] = <<a, w, x>>
      BY <3>1, <3>2
    <3> QED
      BY <3>1, <3>3 DEF Same
  <2> QED
    BY <2>2, <2>3
<1> HIDE DEF f
<1>2. PICK g : g = f
  OBVIOUS
<1>3. Traces(g)
  BY <1>1, <1>2, Zenon DEF Traces
<1> QED
  BY <1>3, DescendsBy

\* A message is handled, or dropped.
LEMMA DescendsHeard ==
  ASSUME TypeInv, TypeInv', NEW w0 \in Worker, OnTaskReport(w0)
  PROVE  Descends
<1>1. PICK m \in batch[w0] :
        /\ batch' = [batch EXCEPT ![w0] = @ \ {m}]
        /\ \/ handler' = [handler EXCEPT ![w0] =
                [pc |-> "clear", msg |-> m, found |-> subtask[m.task][m.vnode].status]]
           \/ handler' = handler
  BY DEF OnTaskReport
<1>2. /\ taskmsgs' = taskmsgs /\ execs' = execs /\ m \notin batch'[w0]
      /\ \A u \in Worker : batch'[u] \subseteq batch[u]
      /\ \A u \in Worker \ {w0} : handler'[u] = handler[u]
  BY <1>1 DEF OnTaskReport, worker_vars, TypeInv, TypeOK
<1>3. CASE handler' = handler
  <2>1. \A a \in SignalPlaces : \A w \in Worker : \A x : At(a, w, x)' => At(a, w, x)
    BY <1>2, <1>3 DEF At, Handled
  <2> QED
    BY <2>1, DescendsFewer
<1>4. CASE handler'[w0].pc = "clear" /\ handler'[w0].msg = m
  <2> DEFINE f == [p \in Signals |-> IF p[1] = "heard" /\ p[2] = w0 /\ p[3] = m
                                     THEN <<"handled", w0, m>> ELSE p]
  <2>1. ASSUME NEW a \in SignalPlaces, NEW w \in Worker, NEW x, At(a, w, x)'
        PROVE  \E b \in SignalPlaces : \E y :
                 At(b, w, y) /\ Same(x, y) /\ f[<<b, w, y>>] = <<a, w, x>>
    <3>1. CASE a = "handled" /\ w = w0
      <4>1. x = m /\ At("heard", w0, m)
        BY <1>4, <2>1, <3>1 DEF At
      <4>2. <<"heard", w0, m>> \in Signals
        BY <4>1, SignalsNow DEF SignalPlaces
      <4>3. f[<<"heard", w0, m>>] = <<a, w, x>>
        BY <3>1, <4>1, <4>2
      <4> QED
        BY <3>1, <4>1, <4>3 DEF SignalPlaces, Same
    <3>2. CASE ~(a = "handled" /\ w = w0)
      <4>1. At(a, w, x)
        BY <1>2, <2>1, <3>2 DEF At, SignalPlaces, Handled
      <4>4. ~(a = "heard" /\ w = w0 /\ x = m)
        BY <1>2, <2>1 DEF At
      <4>2. <<a, w, x>> \in Signals
        BY <4>1, SignalsNow
      <4>3. f[<<a, w, x>>] = <<a, w, x>>
        BY <4>2, <4>4
      <4> QED
        BY <4>1, <4>3 DEF Same
    <3> QED
      BY <3>1, <3>2
  <2> HIDE DEF f
  <2>2. PICK g : g = f
    OBVIOUS
  <2>3. Traces(g)
    BY <2>1, <2>2, Zenon DEF Traces
  <2> QED
    BY <2>3, DescendsBy
<1> QED
  BY <1>1, <1>3, <1>4 DEF TypeInv, TypeOK

\* A command ends, and its end is to be told.
LEMMA DescendsEnded ==
  ASSUME TypeInv, TypeInv', NEW e \in execs, CommandEnds(e)
  PROVE  Descends
<1> DEFINE w0 == e.worker
<1>1. w0 \in Worker
  BY DEF TypeInv, TypeOK
<1>2. PICK st : taskmsgs' = [taskmsgs EXCEPT ![w0] = @ \cup
        {[task |-> e.task, vnode |-> e.vnode, token |-> e.token, status |-> st]}]
  BY DEF CommandEnds
<1>3. PICK m : m = [task |-> e.task, vnode |-> e.vnode, token |-> e.token, status |-> st]
  OBVIOUS
<1>4. Same(m, e)
  BY <1>3 DEF Same
<1>5. /\ batch' = batch /\ handler' = handler /\ execs' = execs \ {e}
      /\ taskmsgs'[w0] = taskmsgs[w0] \cup {m}
      /\ \A u \in Worker \ {w0} : taskmsgs'[u] = taskmsgs[u]
  BY <1>1, <1>2, <1>3 DEF CommandEnds, report_vars, TypeInv, TypeOK
<1> DEFINE f == [p \in Signals |-> IF p[1] = "exec" /\ p[3] = e THEN <<"told", p[2], m>> ELSE p]
<1>6. ASSUME NEW a \in SignalPlaces, NEW w \in Worker, NEW x, At(a, w, x)'
      PROVE  \E b \in SignalPlaces : \E y :
               At(b, w, y) /\ Same(x, y) /\ f[<<b, w, y>>] = <<a, w, x>>
  <2>1. CASE a = "told" /\ w = w0 /\ x = m
    <3>1. At("exec", w, e)
      BY <2>1 DEF At
    <3>2. <<"exec", w, e>> \in Signals
      BY <3>1, SignalsNow DEF SignalPlaces
    <3> HIDE DEF w0
    <3>3. f[<<"exec", w, e>>] = <<a, w, x>>
      BY <2>1, <3>2
    <3> QED
      BY <1>4, <2>1, <3>1, <3>3 DEF SignalPlaces
  <2>2. CASE ~(a = "told" /\ w = w0 /\ x = m)
    <3>1. At(a, w, x) /\ ~(a = "exec" /\ x = e)
      BY <1>5, <1>6, <2>2 DEF At, SignalPlaces, Handled
    <3>2. <<a, w, x>> \in Signals
      BY <3>1, SignalsNow
    <3>3. f[<<a, w, x>>] = <<a, w, x>>
      BY <3>1, <3>2
    <3> QED
      BY <3>1, <3>3 DEF Same
  <2> QED
    BY <2>1, <2>2
<1> HIDE DEF f
<1>7. PICK g : g = f
  OBVIOUS
<1>8. Traces(g)
  BY <1>6, <1>7, Zenon DEF Traces
<1> QED
  BY <1>8, DescendsBy

\* Every other step makes no new execution.
LEMMA DescendsStep ==
  ASSUME TypeInv, TypeInv', [Next]_vars, ~StartCommand
  PROVE  Descends
<1> USE DEF report_vars, worker_vars
<1>1. CASE UNCHANGED <<execs, taskmsgs, batch, handler>>
  <2>1. \A a \in SignalPlaces : \A w \in Worker : \A x : At(a, w, x)' => At(a, w, x)
    BY <1>1 DEF At, Handled
  <2> QED
    BY <2>1, DescendsFewer
<1>2. CASE Scheduler
  <2>1. CASE SchedulerClear
    <3>1. sched.task \in Task /\ sched.left # {} /\ ClearSubTask(sched.task, First(sched.left))
          /\ UNCHANGED <<batch, handler, taskmsgs>>
      BY <2>1 DEF SchedulerClear, TypeInv, Located
    <3>2. First(sched.left) \in Vnode
      BY <3>1, LeftType
    <3>3. PICK k \in Worker \cup {NoWorker} :
            execs' = execs \/ execs' = Kill(execs, k, sched.task, First(sched.left))
      BY <3>1, <3>2, ClearSignals
    <3>4. \A w \in Worker : Handled(w)' => Handled(w) /\ handler'[w].msg = handler[w].msg
      BY <3>1 DEF Handled
    <3> QED
      BY <3>1, <3>2, <3>3, <3>4, DescendsKilled
  <2>2. CASE ~SchedulerClear
    <3>1. UNCHANGED <<execs, taskmsgs, batch, handler>>
      BY <1>2, <2>2 DEF Scheduler, SortBegin, SortStopNext, StopTask, SortEnd, ScanSkip,
         ScanCompleted, FinishTask, ScanPlace, ScanNoPlace, ScanRaises, ScanEnd,
         ProcessTask, StartVnode, VnodesDone, CommandAccepted, CommandsDone
    <3> QED
      BY <1>1, <3>1
  <2> QED
    BY <2>1, <2>2
<1>3. ASSUME NEW w0 \in Worker, HandlerClear(w0)
      PROVE  Descends
  <2> DEFINE m == handler[w0].msg
  <2>1. m.task \in Task /\ m.vnode \in Vnode /\ ClearSubTask(m.task, m.vnode)
        /\ UNCHANGED <<batch, taskmsgs>>
    BY <1>3, HandlerShape DEF HandlerClear
  <2>2. PICK k \in Worker \cup {NoWorker} :
          execs' = execs \/ execs' = Kill(execs, k, m.task, m.vnode)
    BY <2>1, ClearSignals
  <2>3. handler \in [Worker -> Handler]
    BY DEF TypeInv, TypeOK
  <2>4. PICK h : /\ handler' = [handler EXCEPT ![w0] = h]
                 /\ h \in {NoHandler, [handler[w0] EXCEPT !.pc = "verdict"]}
    BY <1>3 DEF HandlerClear
  <2>5. h = NoHandler \/ (h.pc = "verdict" /\ h.msg = m)
    <3>1. handler[w0].pc = "clear" /\ handler[w0] \in Handler
      BY <1>3, <2>3 DEF HandlerClear
    <3>2. handler[w0] \in [pc: {"clear", "verdict", "tell"}, msg: TaskMsg,
                           found: {"WAITING", "RUNNING", "COMPLETED", "FAILED"}]
      BY <3>1 DEF Handler, NoHandler
    <3>3. CASE h = [handler[w0] EXCEPT !.pc = "verdict"]
      BY <3>2, <3>3
    <3>4. CASE h = NoHandler
      BY <3>4
    <3> QED
      BY <2>4, <3>3, <3>4, Zenon
  <2>6. \A w \in Worker : Handled(w)' => Handled(w) /\ handler'[w].msg = handler[w].msg
    BY <1>3, <2>3, <2>4, <2>5 DEF Handled, NoHandler, HandlerClear
  <2> HIDE DEF m
  <2> QED
    BY <2>1, <2>2, <2>6, DescendsKilled
<1>4. ASSUME NEW w0 \in Worker, HandlerVerdict(w0) \/ HandlerTell(w0)
      PROVE  Descends
  <2>1. PICK h : /\ handler' = [handler EXCEPT ![w0] = h]
                 /\ h \in {NoHandler, [handler[w0] EXCEPT !.pc = "tell"]}
    BY <1>4 DEF HandlerVerdict, HandlerTell
  <2>2. handler \in [Worker -> Handler] /\ handler[w0].pc \in {"verdict", "tell"}
    BY <1>4 DEF HandlerVerdict, HandlerTell, TypeInv, TypeOK
  <2>3. h.pc \notin {"clear", "verdict"}
    BY <2>1, <2>2 DEF NoHandler, Handler
  <2>4. UNCHANGED <<execs, taskmsgs, batch>>
    BY <1>4 DEF HandlerVerdict, HandlerTell
  <2>5. \A a \in SignalPlaces : \A w \in Worker : \A x : At(a, w, x)' => At(a, w, x)
    BY <2>1, <2>2, <2>3, <2>4 DEF At, Handled
  <2> QED
    BY <2>5, DescendsFewer
<1>5. ASSUME NEW w0 \in Worker, ReportLost(w0) \/ WorkerRestart(w0)
      PROVE  Descends
  <2>1. /\ UNCHANGED <<batch, handler>> /\ execs' \subseteq execs
        /\ \A w \in Worker : taskmsgs'[w] \subseteq taskmsgs[w]
    BY <1>5 DEF ReportLost, WorkerRestart, TypeInv, TypeOK
  <2>2. \A a \in SignalPlaces : \A w \in Worker : \A x : At(a, w, x)' => At(a, w, x)
    BY <2>1 DEF At, Handled
  <2> QED
    BY <2>2, DescendsFewer
<1>6. ASSUME \/ \E t \in Task : AddTask(t) \/ LazyStopTask(t)
             \/ \E w \in Worker : NodeChange(w)
             \/ UNCHANGED vars
      PROVE  Descends
  BY <1>1, <1>6 DEF AddTask, LazyStopTask, NodeChange, vars
<1> QED
  BY <1>2, <1>3, <1>4, <1>5, <1>6, DescendsSent, DescendsHeard, DescendsEnded DEF Next, Reporting

LEMMA RetryCount ==
  ASSUME NEW s \in SubTask
  PROVE  /\ waiting_for_retry(s).try_count = s.try_count + 1
         /\ waiting_for_retry(s).status = IF s.try_count + 1 <= MaxRetry THEN "WAITING" ELSE "FAILED"
<1>1. s.try_count + 1 \in Nat
  BY DEF SubTask
<1>2. PICK x : x = IF s.try_count + 1 <= MaxRetry THEN "WAITING" ELSE "FAILED"
  OBVIOUS
<1>3. waiting_for_retry(s) = [s EXCEPT !.try_count = s.try_count + 1, !.status = x]
  BY <1>2 DEF waiting_for_retry
<1> QED
  BY <1>1, <1>2, <1>3 DEF SubTask

-----------------------------------------------------------------------------
(* What the steps do to tokens, attempts and states.                       *)

NewExec(t, v) ==
  [worker |-> subtask[t][v].worker, task |-> t, vnode |-> v,
   token |-> subtask[t][v].token + 1, killed |-> FALSE]

\* The three ways through start_subtask.
NoLaunch(t, v) ==
  /\ execs' = execs
  /\ subtask'[t][v].token = subtask[t][v].token
  /\ subtask'[t][v].try_count = subtask[t][v].try_count
  /\ subtask'[t][v].status = "RUNNING"
  /\ sched'.pc = "commands" /\ sched'.left = sched.left \ {v}

Launch(t, v) ==
  /\ execs' = execs \/ execs' = execs \cup {NewExec(t, v)}
  /\ subtask'[t][v].token = subtask[t][v].token + 1
  /\ subtask'[t][v].try_count = subtask[t][v].try_count
  /\ subtask'[t][v].status = subtask[t][v].status
  /\ sched'.pc = "accepted" /\ sched'.left = sched.left

NoAnswer(t, v) ==
  /\ execs' = execs \/ (answer_lost' /\ execs' = execs \cup {NewExec(t, v)})
  /\ subtask'[t][v].token = subtask[t][v].token + 1
  /\ subtask'[t][v].try_count = subtask[t][v].try_count + 1
  /\ subtask'[t][v].status = IF subtask'[t][v].try_count <= MaxRetry THEN "WAITING" ELSE "FAILED"
  /\ sched'.pc = "commands" /\ sched'.left = sched.left \ {v}

LEMMA StartCommandShape ==
  ASSUME TypeInv, StartCommand, NEW t, t = sched.task, NEW v, v = First(sched.left)
  PROVE  /\ t \in Task /\ v \in Vnode /\ v \in sched.left
         /\ sched.pc = "commands" /\ sched'.task = t
         /\ UNCHANGED <<taskmsgs, batch, handler>>
         /\ ~answer_lost' => ~answer_lost
         /\ \A u \in Task, x \in Vnode : <<u, x>> # <<t, v>> => subtask'[u][x] = subtask[u][x]
         /\ (NoLaunch(t, v) \/ Launch(t, v) \/ NoAnswer(t, v))
<1> DEFINE s == subtask[t][v]
           rest == [sched EXCEPT !.left = @ \ {v}]
           new == [s EXCEPT !.token = @ + 1]
<1>1. sched \in Schedule /\ sched.pc = "commands" /\ sched.left # {}
  BY DEF StartCommand, TypeInv, TypeOK
<1>2. t \in Task /\ v \in Vnode /\ v \in sched.left
  BY <1>1, LeftType DEF TypeInv, Located
<1>3. subtask \in [Task -> [Vnode -> SubTask]] /\ s \in SubTask
  BY <1>2 DEF TypeInv, TypeOK
<1>4. UNCHANGED <<taskmsgs, batch, handler>>
  BY DEF StartCommand, report_vars
<1>5. /\ rest.pc = "commands" /\ rest.left = sched.left \ {v} /\ rest.task = t
      /\ [sched EXCEPT !.pc = "accepted"].pc = "accepted"
      /\ [sched EXCEPT !.pc = "accepted"].left = sched.left
      /\ [sched EXCEPT !.pc = "accepted"].task = t
  BY <1>1 DEF Schedule
<1>6. /\ new \in SubTask /\ new.token = s.token + 1 /\ new.try_count = s.try_count
      /\ new.status = s.status
  BY <1>3 DEF SubTask
<1> HIDE DEF rest
<1>7. CASE /\ subtask' = [subtask EXCEPT ![t][v].status = "RUNNING"]
           /\ sched' = rest
           /\ UNCHANGED <<execs, task_status, job_view, fault_vars>>
  <2>1. PICK r : r = [s EXCEPT !.status = "RUNNING"]
    OBVIOUS
  <2>2. r.token = s.token /\ r.try_count = s.try_count /\ r.status = "RUNNING"
    BY <1>3, <2>1 DEF SubTask
  <2>3. subtask' = [subtask EXCEPT ![t][v] = r]
    BY <1>7, <2>1
  <2>4. /\ subtask'[t][v] = r
        /\ \A u \in Task, x \in Vnode : <<u, x>> # <<t, v>> => subtask'[u][x] = subtask[u][x]
    BY <1>2, <1>3, <2>3
  <2>5. NoLaunch(t, v)
    BY <1>5, <1>7, <2>2, <2>4 DEF NoLaunch
  <2> QED
    BY <1>1, <1>2, <1>4, <1>5, <1>7, <2>4, <2>5 DEF fault_vars
<1>8. ASSUME NEW r \in RpcOutcome,
             Spend(<<r>>),
             execs' = IF Served(r) /\ <<s.worker, t, v>> \in containers
                      THEN execs \cup {NewExec(t, v)} ELSE execs,
             IF r = "ok"
             THEN /\ subtask' = [subtask EXCEPT ![t][v] = new]
                  /\ sched' = [sched EXCEPT !.pc = "accepted"]
             ELSE /\ subtask' = [subtask EXCEPT ![t][v] = waiting_for_retry(new)]
                  /\ sched' = rest
      PROVE  /\ sched'.task = t /\ (~answer_lost' => ~answer_lost)
             /\ \A u \in Task, x \in Vnode : <<u, x>> # <<t, v>> => subtask'[u][x] = subtask[u][x]
             /\ Launch(t, v) \/ NoAnswer(t, v)
  <2>1. /\ ~answer_lost' => ~answer_lost
        /\ r = "lost" => answer_lost'
    <3>1. 1 \in DOMAIN <<r>> /\ <<r>>[1] = r
      OBVIOUS
    <3>2. answer_lost' = (answer_lost \/ \E i \in DOMAIN <<r>> : <<r>>[i] = "lost")
      BY <1>8 DEF Spend
    <3> QED
      BY <3>1, <3>2, Zenon
  <2>2. CASE r = "ok"
    <3>1. /\ subtask'[t][v] = new
          /\ \A u \in Task, x \in Vnode : <<u, x>> # <<t, v>> => subtask'[u][x] = subtask[u][x]
      <4> HIDE DEF new
      <4> QED
        BY <1>2, <1>3, <1>8, <2>2
    <3>2. sched'.task = t /\ sched'.pc = "accepted" /\ sched'.left = sched.left
      BY <1>5, <1>8, <2>2
    <3> HIDE DEF new
    <3>3. Launch(t, v)
      BY <1>6, <1>8, <3>1, <3>2 DEF Launch
    <3> QED
      BY <2>1, <3>1, <3>2, <3>3
  <2>3. CASE r # "ok"
    <3> HIDE DEF new
    <3>1. PICK n : n = waiting_for_retry(new)
      OBVIOUS
    <3>2. /\ n.token = s.token + 1 /\ n.try_count = s.try_count + 1
          /\ n.status = IF n.try_count <= MaxRetry THEN "WAITING" ELSE "FAILED"
      BY <1>6, <3>1, RetryType, RetryCount
    <3>3. /\ subtask'[t][v] = n
          /\ \A u \in Task, x \in Vnode : <<u, x>> # <<t, v>> => subtask'[u][x] = subtask[u][x]
      BY <1>2, <1>3, <1>8, <2>3, <3>1
    <3>4. sched'.task = t /\ sched'.pc = "commands" /\ sched'.left = sched.left \ {v}
      BY <1>5, <1>8, <2>3
    <3>5. execs' = execs \/ (answer_lost' /\ execs' = execs \cup {NewExec(t, v)})
      BY <1>8, <2>1, <2>3 DEF Served
    <3>6. NoAnswer(t, v)
      BY <3>2, <3>3, <3>4, <3>5 DEF NoAnswer
    <3> QED
      BY <2>1, <3>3, <3>4, <3>6
  <2> QED
    BY <2>2, <2>3
<1>9. \/ /\ subtask' = [subtask EXCEPT ![t][v].status = "RUNNING"]
         /\ sched' = rest
         /\ UNCHANGED <<execs, task_status, job_view, fault_vars>>
      \/ \E r \in RpcOutcome :
           /\ Spend(<<r>>)
           /\ execs' = IF Served(r) /\ <<s.worker, t, v>> \in containers
                       THEN execs \cup {NewExec(t, v)} ELSE execs
           /\ IF r = "ok"
              THEN /\ subtask' = [subtask EXCEPT ![t][v] = new]
                   /\ sched' = [sched EXCEPT !.pc = "accepted"]
              ELSE /\ subtask' = [subtask EXCEPT ![t][v] = waiting_for_retry(new)]
                   /\ sched' = rest
  <2>1. NewExec(t, v) = [worker |-> s.worker, task |-> t, vnode |-> v, token |-> new.token,
                         killed |-> FALSE]
    BY <1>6 DEF NewExec
  <2> QED
    BY <2>1, Zenon DEF StartCommand, rest
<1> HIDE DEF new, s
<1> QED
  BY <1>1, <1>2, <1>4, <1>7, <1>8, <1>9, Zenon

Alike(t, v) ==
  /\ subtask'[t][v].token = subtask[t][v].token
  /\ subtask'[t][v].try_count = subtask[t][v].try_count
  /\ subtask'[t][v].status = subtask[t][v].status \/ subtask'[t][v].status # "WAITING"

Retried(t, v) ==
  /\ subtask'[t][v].token = subtask[t][v].token
  /\ subtask'[t][v].try_count = subtask[t][v].try_count + 1
  /\ subtask'[t][v].status = IF subtask'[t][v].try_count <= MaxRetry THEN "WAITING" ELSE "FAILED"

LEMMA StartVnodeShape ==
  ASSUME TypeInv, StartVnode, NEW t, t = sched.task, NEW v, v = First(sched.left)
  PROVE  /\ t \in Task /\ v \in Vnode /\ v \in sched.left
         /\ sched.pc = "vnodes" /\ sched'.pc = "vnodes" /\ sched'.task = t
         /\ sched'.list = sched.list /\ sched'.left = sched.left \ {v}
         /\ (~answer_lost' => ~answer_lost)
         /\ \A u \in Task, x \in Vnode : <<u, x>> # <<t, v>> => subtask'[u][x] = subtask[u][x]
         /\ (Alike(t, v) \/ Retried(t, v))
<1> DEFINE s == subtask[t][v]
           rest == [sched EXCEPT !.left = @ \ {v}]
           back == [waiting_for_retry(s) EXCEPT !.worker = NoWorker]
<1>1. sched \in Schedule /\ sched.pc = "vnodes" /\ sched.left # {}
  BY DEF StartVnode, TypeInv, TypeOK
<1>2. t \in Task /\ v \in Vnode /\ v \in sched.left
  BY <1>1, LeftType DEF TypeInv, Located
<1>3. subtask \in [Task -> [Vnode -> SubTask]] /\ s \in SubTask
  BY <1>2 DEF TypeInv, TypeOK
<1>4. sched' = rest \/ sched' = [rest EXCEPT !.ok = FALSE]
  BY DEF StartVnode
<1>5. /\ sched'.pc = "vnodes" /\ sched'.task = t
      /\ sched'.list = sched.list /\ sched'.left = sched.left \ {v}
  BY <1>1, <1>4 DEF Schedule
<1>6. ~answer_lost' => ~answer_lost
  BY DEF StartVnode, Spend, fault_vars
<1>7. \E n \in SubTask :
        /\ subtask' = [subtask EXCEPT ![t][v] = n]
        /\ \/ n.token = s.token /\ n.try_count = s.try_count /\ n.status = s.status
           \/ /\ n.token = s.token /\ n.try_count = s.try_count + 1
              /\ n.status = IF n.try_count <= MaxRetry THEN "WAITING" ELSE "FAILED"
  <2>1. CASE subtask' = subtask
    BY <1>2, <1>3, <2>1
  <2>2. CASE subtask' = [subtask EXCEPT ![t][v].vnode_started = TRUE]
    <3>1. PICK n : n = [s EXCEPT !.vnode_started = TRUE]
      OBVIOUS
    <3>2. n \in SubTask /\ n.token = s.token /\ n.try_count = s.try_count /\ n.status = s.status
      BY <1>3, <3>1 DEF SubTask
    <3>3. subtask' = [subtask EXCEPT ![t][v] = n]
      BY <2>2, <3>1
    <3> QED
      BY <3>2, <3>3
  <2>3. CASE subtask' = [subtask EXCEPT ![t][v] = back]
    <3>1. PICK r : r = waiting_for_retry(s)
      OBVIOUS
    <3>2. /\ r \in SubTask /\ r.token = s.token /\ r.try_count = s.try_count + 1
          /\ r.status = IF r.try_count <= MaxRetry THEN "WAITING" ELSE "FAILED"
      BY <1>3, <3>1, RetryType, RetryCount
    <3>3. PICK n : n = [r EXCEPT !.worker = NoWorker]
      OBVIOUS
    <3>4. /\ n \in SubTask /\ n.token = r.token /\ n.try_count = r.try_count
          /\ n.status = r.status
      BY <3>2, <3>3 DEF SubTask
    <3>5. subtask' = [subtask EXCEPT ![t][v] = n]
      BY <2>3, <3>1, <3>3
    <3> QED
      BY <3>2, <3>4, <3>5
  <2>4. \/ subtask' = subtask
        \/ subtask' = [subtask EXCEPT ![t][v].vnode_started = TRUE]
        \/ subtask' = [subtask EXCEPT ![t][v] = back]
    BY DEF StartVnode
  <2> QED
    BY <2>1, <2>2, <2>3, <2>4
<1>8. PICK n \in SubTask :
        /\ subtask' = [subtask EXCEPT ![t][v] = n]
        /\ \/ n.token = s.token /\ n.try_count = s.try_count /\ n.status = s.status
           \/ /\ n.token = s.token /\ n.try_count = s.try_count + 1
              /\ n.status = IF n.try_count <= MaxRetry THEN "WAITING" ELSE "FAILED"
  BY <1>7
<1>9. /\ subtask'[t][v] = n
      /\ \A u \in Task, x \in Vnode : <<u, x>> # <<t, v>> => subtask'[u][x] = subtask[u][x]
  <2> HIDE DEF s
  <2> QED
    BY <1>2, <1>3, <1>8
<1>10. Alike(t, v) \/ Retried(t, v)
  BY <1>8, <1>9 DEF Alike, Retried
<1> HIDE DEF s, rest, back
<1> QED
  BY <1>1, <1>2, <1>5, <1>6, <1>9, <1>10

LEMMA VerdictShape ==
  ASSUME TypeInv, NEW w \in Worker, HandlerVerdict(w), NEW m, m = handler[w].msg
  PROVE  /\ m \in TaskMsg /\ m.task \in Task /\ m.vnode \in Vnode /\ Handled(w)
         /\ sched' = sched /\ answer_lost' = answer_lost
         /\ UNCHANGED <<execs, taskmsgs, batch>>
         /\ handler'[w].pc \notin {"clear", "verdict"}
         /\ \A u \in Worker \ {w} : handler'[u] = handler[u]
         /\ \A u \in Task, x \in Vnode :
              <<u, x>> # <<m.task, m.vnode>> => subtask'[u][x] = subtask[u][x]
         /\ (Alike(m.task, m.vnode) \/ Retried(m.task, m.vnode))
<1> DEFINE t == m.task
           v == m.vnode
           s == subtask[t][v]
<1>1. handler[w].pc = "verdict" /\ handler[w] \in Handler /\ handler \in [Worker -> Handler]
  BY DEF HandlerVerdict, TypeInv, TypeOK
<1>2. m \in TaskMsg /\ t \in Task /\ v \in Vnode
  BY <1>1, HandlerShape
<1>3. subtask \in [Task -> [Vnode -> SubTask]] /\ s \in SubTask
  BY <1>2 DEF TypeInv, TypeOK
<1>4. PICK n : /\ n = IF m.status = "FAILED" THEN waiting_for_retry(s) ELSE [s EXCEPT !.status = "FAILED"]
               /\ subtask' = [subtask EXCEPT ![t][v] = n]
  BY DEF HandlerVerdict
<1>5. \/ n.token = s.token /\ n.try_count = s.try_count /\ n.status = "FAILED"
      \/ /\ n.token = s.token /\ n.try_count = s.try_count + 1
         /\ n.status = IF n.try_count <= MaxRetry THEN "WAITING" ELSE "FAILED"
  <2>1. CASE m.status = "FAILED"
    BY <1>3, <1>4, <2>1, RetryType, RetryCount
  <2>2. CASE m.status # "FAILED"
    BY <1>3, <1>4, <2>2 DEF SubTask
  <2> QED
    BY <2>1, <2>2
<1>6. /\ subtask'[t][v] = n
      /\ \A u \in Task, x \in Vnode : <<u, x>> # <<t, v>> => subtask'[u][x] = subtask[u][x]
  <2> HIDE DEF s, t, v
  <2> QED
    BY <1>2, <1>3, <1>4
<1>7. Alike(t, v) \/ Retried(t, v)
  <2> HIDE DEF t, v
  <2> QED
    BY <1>5, <1>6 DEF Alike, Retried
<1>8. /\ handler'[w].pc \notin {"clear", "verdict"}
      /\ \A u \in Worker \ {w} : handler'[u] = handler[u]
  <2>1. PICK h : /\ handler' = [handler EXCEPT ![w] = h]
                 /\ h \in {NoHandler, [handler[w] EXCEPT !.pc = "tell"]}
    BY DEF HandlerVerdict
  <2>2. h.pc \notin {"clear", "verdict"}
    BY <1>1, <2>1 DEF NoHandler, Handler
  <2> QED
    BY <1>1, <2>1, <2>2
<1>9. sched' = sched /\ answer_lost' = answer_lost /\ UNCHANGED <<execs, taskmsgs, batch>>
  BY DEF HandlerVerdict, fault_vars, worker_vars
<1> QED
  BY <1>1, <1>2, <1>6, <1>7, <1>8, <1>9 DEF Handled

\* The other steps give out no token, count no attempt and make no subtask wait.
LEMMA AlikeStep ==
  ASSUME TypeInv, [Next]_vars, ~StartCommand, ~StartVnode,
         ~(\E w \in Worker : HandlerVerdict(w))
  PROVE  /\ \A t \in Task, v \in Vnode : Alike(t, v)
         /\ (~answer_lost' => ~answer_lost)
<1> USE DEF fault_vars
<1>1. subtask \in [Task -> [Vnode -> SubTask]]
  BY DEF TypeInv, TypeOK
<1>2. CASE subtask' = subtask
  <2>1. \A t \in Task, v \in Vnode : Alike(t, v)
    BY <1>2 DEF Alike
  <2>2. ~answer_lost' => ~answer_lost
    <3>1. \/ answer_lost' = answer_lost
          \/ \E w \in Worker : HandlerClear(w) \/ WorkerRestart(w) \/ ReportLost(w)
          \/ SchedulerClear
      BY DEF Next, Scheduler, SortBegin, SortStopNext, StopTask, SortEnd, ScanSkip,
         ScanCompleted, FinishTask, ScanPlace, ScanNoPlace, ScanRaises, ScanEnd,
         ProcessTask, VnodesDone, CommandAccepted, CommandsDone, Reporting, ReportMsg,
         OnTaskReport, HandlerTell, NodeChange, CommandEnds, AddTask, LazyStopTask, vars
    <3>2. ASSUME NEW w \in Worker, HandlerClear(w) \/ WorkerRestart(w) \/ ReportLost(w)
          PROVE  ~answer_lost' => ~answer_lost
      BY <3>2 DEF HandlerClear, ClearSubTask, WorkerRestart, ReportLost, Spend
    <3>3. ASSUME SchedulerClear
          PROVE  ~answer_lost' => ~answer_lost
      BY <3>3 DEF SchedulerClear, ClearSubTask, Spend
    <3> QED
      BY <3>1, <3>2, <3>3
  <2> QED
    BY <2>1, <2>2
<1>3. CASE SchedulerClear
  <2>1. sched.task \in Task /\ sched.left # {} /\ ClearSubTask(sched.task, First(sched.left))
    BY <1>3 DEF SchedulerClear, TypeInv, Located
  <2>2. First(sched.left) \in Vnode
    BY <2>1, LeftType
  <2> QED
    BY <2>1, <2>2, ClearSignals DEF Alike
<1>4. ASSUME NEW w \in Worker, HandlerClear(w)
      PROVE  /\ \A t \in Task, v \in Vnode : Alike(t, v)
             /\ (~answer_lost' => ~answer_lost)
  <2>1. /\ handler[w].msg.task \in Task /\ handler[w].msg.vnode \in Vnode
        /\ ClearSubTask(handler[w].msg.task, handler[w].msg.vnode)
    BY <1>4, HandlerShape DEF HandlerClear
  <2> QED
    BY <2>1, ClearSignals DEF Alike
<1>5. CASE ScanPlace
  <2>1. PICK list, place : Placed(list, place)
    BY <1>5, PlaceShape
  <2>2. Examined \in Task
    BY <1>5, ExaminedType DEF ScanPlace
  <2>3. answer_lost' = answer_lost
    BY <1>5 DEF ScanPlace
  <2>4. ASSUME NEW v \in Vnode
        PROVE  /\ subtask'[Examined][v].token = subtask[Examined][v].token
               /\ subtask'[Examined][v].try_count = subtask[Examined][v].try_count
               /\ subtask'[Examined][v].status = subtask[Examined][v].status
    <3>1. PICK n : n = [subtask[Examined][v] EXCEPT !.worker = place[v]]
      OBVIOUS
    <3>2. /\ n.token = subtask[Examined][v].token
          /\ n.try_count = subtask[Examined][v].try_count
          /\ n.status = subtask[Examined][v].status
      BY <1>1, <2>2, <3>1 DEF SubTask
    <3>3. subtask'[Examined][v] = IF v \in list THEN n ELSE subtask[Examined][v]
      BY <1>1, <2>1, <2>2, <3>1 DEF Placed
    <3> QED
      BY <3>2, <3>3
  <2>5. \A t \in Task \ {Examined} : subtask'[t] = subtask[t]
    BY <1>1, <2>1 DEF Placed
  <2>6. \A t \in Task, v \in Vnode : Alike(t, v)
    BY <2>4, <2>5 DEF Alike
  <2> QED
    BY <2>3, <2>6
<1>6. CASE CommandAccepted
  <2>1. sched.task \in Task /\ sched.left # {} /\ answer_lost' = answer_lost
    BY <1>6 DEF CommandAccepted, TypeInv, Located
  <2>2. PICK v : v = First(sched.left)
    OBVIOUS
  <2>3. v \in Vnode
    BY <2>1, <2>2, LeftType
  <2>4. PICK n : n = [subtask[sched.task][v] EXCEPT !.task_started = TRUE, !.status = "RUNNING"]
    OBVIOUS
  <2>5. /\ n.token = subtask[sched.task][v].token
        /\ n.try_count = subtask[sched.task][v].try_count
        /\ n.status = "RUNNING"
    BY <1>1, <2>1, <2>3, <2>4 DEF SubTask
  <2>6. subtask' = [subtask EXCEPT ![sched.task][v] = n]
    BY <1>6, <2>2, <2>4 DEF CommandAccepted
  <2>7. \A t \in Task, x \in Vnode : Alike(t, x)
    BY <1>1, <2>1, <2>3, <2>5, <2>6 DEF Alike
  <2> QED
    BY <2>1, <2>7
<1>7. ASSUME NEW w \in Worker, OnTaskReport(w)
      PROVE  /\ \A t \in Task, v \in Vnode : Alike(t, v)
             /\ (~answer_lost' => ~answer_lost)
  <2>1. PICK m \in batch[w] :
          \/ subtask' = subtask
          \/ subtask' = [subtask EXCEPT ![m.task][m.vnode] = Heard(subtask[m.task][m.vnode], m)]
    BY <1>7 DEF OnTaskReport
  <2>2. m \in TaskMsg /\ m.task \in Task /\ m.vnode \in Vnode
    BY DEF TypeInv, TypeOK, TaskMsg
  <2>3. PICK n : n = Heard(subtask[m.task][m.vnode], m)
    OBVIOUS
  <2>4. /\ n.token = subtask[m.task][m.vnode].token
        /\ n.try_count = subtask[m.task][m.vnode].try_count
        /\ n.status \in {subtask[m.task][m.vnode].status, "COMPLETED"}
    BY <1>1, <2>2, <2>3 DEF Heard, SubTask
  <2>5. \A t \in Task, x \in Vnode : Alike(t, x)
    BY <1>1, <2>1, <2>2, <2>3, <2>4 DEF Alike
  <2>6. answer_lost' = answer_lost
    BY <1>7 DEF OnTaskReport
  <2> QED
    BY <2>5, <2>6
<1>8. \/ subtask' = subtask
      \/ SchedulerClear \/ ScanPlace \/ CommandAccepted
      \/ \E w \in Worker : HandlerClear(w) \/ OnTaskReport(w)
  BY DEF Next, Scheduler, SortBegin, SortStopNext, StopTask, SortEnd, ScanSkip,
     ScanCompleted, FinishTask, ScanNoPlace, ScanRaises, ScanEnd, ProcessTask, VnodesDone,
     CommandsDone, Reporting, ReportMsg, HandlerTell, NodeChange, CommandEnds, AddTask,
     LazyStopTask, WorkerRestart, ReportLost, vars
<1> QED
  BY <1>2, <1>3, <1>4, <1>5, <1>6, <1>7, <1>8

\* Only a placement puts a subtask on the scheduler's list.
LEMMA ToStartStep ==
  ASSUME TypeInv, [Next]_vars, ~ScanPlace
  PROVE  \A t \in Task, v \in Vnode : ToStart(t, v)' => ToStart(t, v)
<1> SUFFICES ASSUME NEW t \in Task, NEW v \in Vnode, ToStart(t, v)'
             PROVE  ToStart(t, v)
  OBVIOUS
<1>1. sched \in Schedule
  BY DEF TypeInv, TypeOK
<1>2. CASE sched' = sched
  BY <1>2 DEF ToStart
<1>3. CASE \/ SortBegin \/ SortStopNext \/ SchedulerClear \/ StopTask \/ SortEnd
           \/ ScanSkip \/ ScanCompleted \/ FinishTask \/ ScanNoPlace \/ ScanRaises \/ ScanEnd
           \/ CommandsDone
  <2>1. sched'.pc \notin {"running", "vnodes", "commands", "accepted"}
    BY <1>1, <1>3, RestingType
       DEF SortBegin, SortStopNext, SchedulerClear, StopTask, SortEnd, ScanSkip, ScanCompleted,
           FinishTask, ScanNoPlace, ScanRaises, ScanEnd, CommandsDone, Schedule, AtSort
  <2> QED
    BY <2>1 DEF ToStart
<1>4. CASE ProcessTask
  <2>1. sched.pc = "running"
    BY <1>4 DEF ProcessTask
  <2>2. \/ sched' = Dead
        \/ sched' = [sched EXCEPT !.pc = "vnodes", !.left = sched.list]
    BY <1>4 DEF ProcessTask
  <2>3. sched'.pc \notin {"commands", "accepted"}
    BY <1>1, <2>2, RestingType DEF Schedule
  <2>4. sched'.pc = "vnodes" => sched'.task = sched.task /\ sched'.list = sched.list
    BY <1>1, <2>2, RestingType DEF Schedule
  <2>5. sched'.pc # "running"
    BY <1>1, <2>2, RestingType DEF Schedule
  <2> QED
    BY <2>1, <2>3, <2>4, <2>5 DEF ToStart
<1>5. CASE StartVnode
  BY <1>5, StartVnodeShape DEF ToStart
<1>6. CASE VnodesDone
  <2>1. sched.pc = "vnodes"
    BY <1>6 DEF VnodesDone
  <2>2. \/ sched' = AtSort
        \/ sched' = [sched EXCEPT !.pc = "commands", !.left = sched.list]
    BY <1>6 DEF VnodesDone
  <2>3. sched'.pc \notin {"running", "vnodes", "accepted"}
    BY <1>1, <2>2, RestingType DEF Schedule
  <2>4. sched'.pc = "commands" => sched'.task = sched.task /\ sched'.left = sched.list
    BY <1>1, <2>2, RestingType DEF Schedule
  <2> QED
    BY <2>1, <2>3, <2>4 DEF ToStart
<1>7. CASE StartCommand
  BY <1>7, StartCommandShape DEF ToStart, NoLaunch, Launch, NoAnswer
<1>8. CASE CommandAccepted
  <2>1. sched.pc = "accepted"
    BY <1>8 DEF CommandAccepted
  <2>2. sched' = [sched EXCEPT !.pc = "commands", !.left = @ \ {First(sched.left)}]
    BY <1>8 DEF CommandAccepted
  <2>3. /\ sched'.pc = "commands" /\ sched'.task = sched.task
        /\ sched'.left = sched.left \ {First(sched.left)}
    BY <1>1, <2>2 DEF Schedule
  <2> QED
    BY <2>1, <2>3 DEF ToStart
<1>9. CASE ~Scheduler
  <2>1. sched' = sched
    BY <1>9 DEF Next, Reporting, ReportMsg, OnTaskReport, HandlerClear, HandlerVerdict,
       HandlerTell, NodeChange, CommandEnds, AddTask, LazyStopTask, WorkerRestart, ReportLost,
       vars
  <2> QED
    BY <1>2, <2>1
<1> QED
  BY <1>3, <1>4, <1>5, <1>6, <1>7, <1>8, <1>9 DEF Scheduler

\* Only a placement, of subtasks that wait, comes before that.
LEMMA PlacedWaits ==
  ASSUME TypeInv, ScanPlace, NEW t \in Task \ AtSameTime, NEW v \in Vnode, ToStart(t, v)'
  PROVE  subtask[t][v].status = "WAITING" /\ sched.pc = "scan"
<1>1. PICK list \in PlaceLists : \E place \in Places(list) : Placed(list, place)
  BY PlaceShape
<1>2. sched' = [AtSort EXCEPT !.pc = "running", !.task = Examined, !.list = list]
  BY <1>1 DEF Placed
<1>3. sched'.pc = "running" /\ sched'.task = Examined /\ sched'.list = list
  BY <1>2 DEF AtSort
<1>4. t = Examined /\ v \in list
  BY <1>3 DEF ToStart
<1>5. v \in Waiting(t)
  BY <1>1, <1>4 DEF PlaceLists
<1> QED
  BY <1>5 DEF Waiting, ScanPlace

\* The scheduler notes a command that was accepted before anything else.
LEMMA AcceptedStep ==
  ASSUME TypeInv, [Next]_vars, NEW t \in Task, NEW v \in Vnode, Accepted(t, v)
  PROVE  Accepted(t, v)' \/ subtask'[t][v].status = "RUNNING"
<1>1. sched \in Schedule /\ sched.pc = "accepted" /\ sched.task = t /\ v = First(sched.left)
  BY DEF Accepted, TypeInv, TypeOK
<1>2. CASE sched' = sched
  BY <1>2 DEF Accepted
<1>3. CASE CommandAccepted
  <2>1. subtask \in [Task -> [Vnode -> SubTask]] /\ subtask[t][v] \in SubTask
    BY DEF TypeInv, TypeOK
  <2>2. PICK n : n = [subtask[t][v] EXCEPT !.task_started = TRUE, !.status = "RUNNING"]
    OBVIOUS
  <2>3. n.status = "RUNNING"
    BY <2>1, <2>2 DEF SubTask
  <2>4. subtask' = [subtask EXCEPT ![t][v] = n]
    BY <1>1, <1>3, <2>2 DEF CommandAccepted
  <2> QED
    BY <2>1, <2>3, <2>4
<1>4. sched' = sched \/ CommandAccepted
  BY <1>1 DEF Next, Scheduler, SortBegin, SortStopNext, SchedulerClear, StopTask, SortEnd,
     ScanSkip, ScanCompleted, FinishTask, ScanPlace, ScanNoPlace, ScanRaises, ScanEnd,
     ProcessTask, StartVnode, VnodesDone, StartCommand, CommandsDone, Reporting, ReportMsg,
     OnTaskReport, HandlerClear, HandlerVerdict, HandlerTell, NodeChange, CommandEnds,
     AddTask, LazyStopTask, WorkerRestart, ReportLost, vars
<1> QED
  BY <1>2, <1>3, <1>4

LEMMA TokensStep ==
  ASSUME TypeInv, [Next]_vars, ~StartCommand
  PROVE  /\ \A t \in Task, v \in Vnode : subtask'[t][v].token = subtask[t][v].token
         /\ (~answer_lost' => ~answer_lost)
<1>1. CASE StartVnode
  <2>1. \A t \in Task, v \in Vnode : <<t, v>> # <<sched.task, First(sched.left)>> =>
          subtask'[t][v] = subtask[t][v]
    BY <1>1, StartVnodeShape
  <2>2. subtask'[sched.task][First(sched.left)].token = subtask[sched.task][First(sched.left)].token
    BY <1>1, StartVnodeShape DEF Alike, Retried
  <2>3. ~answer_lost' => ~answer_lost
    BY <1>1, StartVnodeShape
  <2> QED
    BY <2>1, <2>2, <2>3
<1>2. ASSUME NEW w \in Worker, HandlerVerdict(w)
      PROVE  /\ \A t \in Task, v \in Vnode : subtask'[t][v].token = subtask[t][v].token
             /\ (~answer_lost' => ~answer_lost)
  <2>1. PICK m : m = handler[w].msg
    OBVIOUS
  <2>2. \A t \in Task, v \in Vnode : <<t, v>> # <<m.task, m.vnode>> =>
          subtask'[t][v] = subtask[t][v]
    BY <1>2, <2>1, VerdictShape
  <2>3. subtask'[m.task][m.vnode].token = subtask[m.task][m.vnode].token
    BY <1>2, <2>1, VerdictShape DEF Alike, Retried
  <2>4. answer_lost' = answer_lost
    BY <1>2, VerdictShape
  <2> QED
    BY <2>2, <2>3, <2>4
<1> QED
  BY <1>1, <1>2, AlikeStep DEF Alike

\* start_subtask: what is new under way is the execution with the next token.
LEMMA LaunchSignals ==
  ASSUME TypeInv, TypeInv', StartCommand, NEW t, t = sched.task, NEW v, v = First(sched.left),
         NEW p \in Signals', p \notin Signals
  PROVE  /\ p = <<"exec", subtask[t][v].worker, NewExec(t, v)>>
         /\ About(p) = <<t, v, subtask[t][v].token + 1>>
         /\ (Launch(t, v) \/ answer_lost')
<1>1. PICK a \in SignalPlaces : \E w \in Worker : \E x : p = <<a, w, x>> /\ At(a, w, x)'
  BY SignalsNext
<1>2. PICK w \in Worker : \E x : p = <<a, w, x>> /\ At(a, w, x)'
  BY <1>1
<1>3. PICK x : p = <<a, w, x>> /\ At(a, w, x)'
  BY <1>2
<1>4. ~At(a, w, x)
  <2> SUFFICES ASSUME At(a, w, x)
               PROVE  <<a, w, x>> \in Signals
    BY <1>3
  <2> QED
    BY SignalsNow
<1>5. /\ UNCHANGED <<taskmsgs, batch, handler>>
      /\ (NoLaunch(t, v) \/ Launch(t, v) \/ NoAnswer(t, v))
  BY StartCommandShape
<1>6. a = "exec" /\ x \in execs' /\ x.worker = w /\ x \notin execs
  BY <1>3, <1>4, <1>5 DEF At, Handled
<1>7. x = NewExec(t, v) /\ (Launch(t, v) \/ answer_lost')
  BY <1>5, <1>6 DEF NoLaunch, Launch, NoAnswer
<1>8. /\ x.worker = subtask[t][v].worker /\ x.task = t /\ x.vnode = v
      /\ x.token = subtask[t][v].token + 1
  BY <1>7 DEF NewExec
<1>9. p = <<"exec", subtask[t][v].worker, NewExec(t, v)>>
  BY <1>3, <1>6, <1>7, <1>8, Zenon
<1> QED
  BY <1>3, <1>7, <1>8, <1>9 DEF About

LEMMA OnceStep ==
  ASSUME TypeInv, TypeInv', Once, [Next]_vars
  PROVE  Once'
<1>1. CASE ~StartCommand
  <2>1. \A t \in Task, v \in Vnode : subtask'[t][v].token >= subtask[t][v].token
    <3>1. \A t \in Task, v \in Vnode : subtask[t][v].token \in Nat
      BY DEF TypeInv, TypeOK, SubTask
    <3> QED
      BY <1>1, <3>1, TokensStep
  <2> QED
    BY <1>1, <2>1, DescendsStep, OnceKept
<1>2. CASE StartCommand
  <2>1. PICK t : t = sched.task
    OBVIOUS
  <2>2. PICK v : v = First(sched.left)
    OBVIOUS
  <2>3. t \in Task /\ v \in Vnode
    BY <1>2, <2>1, <2>2, StartCommandShape
  <2>4. subtask[t][v].token \in Nat
    BY <2>3 DEF TypeInv, TypeOK, SubTask
  <2>5. ASSUME NEW p \in Signals
        PROVE  About(p) # <<t, v, subtask[t][v].token + 1>>
    <3>1. p[3].task \in Task /\ p[3].vnode \in Vnode /\ p[3].token \in Nat
      BY SignalsNow
    <3>2. p[3].token <= subtask[p[3].task][p[3].vnode].token
      BY DEF Once
    <3> QED
      BY <2>4, <3>1, <3>2 DEF About
  <2>6. ASSUME NEW p \in Signals', NEW q \in Signals', About(p) = About(q)
        PROVE  p = q
    <3>1. CASE p \in Signals /\ q \in Signals
      BY <2>6, <3>1 DEF Once
    <3>2. CASE p \in Signals /\ q \notin Signals
      <4>1. About(q) = <<t, v, subtask[t][v].token + 1>>
        BY <1>2, <2>1, <2>2, <3>2, LaunchSignals
      <4> QED
        BY <2>5, <2>6, <3>2, <4>1
    <3>3. CASE p \notin Signals /\ q \in Signals
      <4>1. About(p) = <<t, v, subtask[t][v].token + 1>>
        BY <1>2, <2>1, <2>2, <3>3, LaunchSignals
      <4> QED
        BY <2>5, <2>6, <3>3, <4>1
    <3>4. CASE p \notin Signals /\ q \notin Signals
      BY <1>2, <2>1, <2>2, <3>4, LaunchSignals
    <3> QED
      BY <3>1, <3>2, <3>3, <3>4
  <2>7. ASSUME NEW u \in Task, NEW x \in Vnode
        PROVE  /\ subtask'[u][x].token >= subtask[u][x].token
               /\ subtask'[u][x].token \in Nat /\ subtask[u][x].token \in Nat
    <3>1. subtask'[u][x].token \in Nat /\ subtask[u][x].token \in Nat
      BY DEF TypeInv, TypeOK, SubTask
    <3>2. CASE <<u, x>> = <<t, v>>
      <4>1. NoLaunch(t, v) \/ Launch(t, v) \/ NoAnswer(t, v)
        BY <1>2, <2>1, <2>2, StartCommandShape
      <4> QED
        BY <3>1, <3>2, <4>1 DEF NoLaunch, Launch, NoAnswer
    <3>3. CASE <<u, x>> # <<t, v>>
      BY <1>2, <2>1, <2>2, <3>1, <3>3, StartCommandShape
    <3> QED
      BY <3>1, <3>2, <3>3
  <2>8. ASSUME NEW p \in Signals'
        PROVE  p[3].token <= subtask'[p[3].task][p[3].vnode].token
    <3>1. CASE p \in Signals
      <4>1. p[3].task \in Task /\ p[3].vnode \in Vnode /\ p[3].token \in Nat
        BY <3>1, SignalsNow
      <4>2. p[3].token <= subtask[p[3].task][p[3].vnode].token
        BY <3>1 DEF Once
      <4> QED
        BY <2>7, <4>1, <4>2
    <3>2. CASE p \notin Signals
      <4>1. p[3].task = t /\ p[3].vnode = v /\ p[3].token = subtask[t][v].token + 1
        BY <1>2, <2>1, <2>2, <3>2, LaunchSignals DEF About
      <4>2. execs' # execs
        <5>1. p = <<"exec", subtask[t][v].worker, NewExec(t, v)>>
          BY <1>2, <2>1, <2>2, <3>2, LaunchSignals
        <5> SUFFICES ASSUME execs' = execs
                     PROVE  p \in Signals
          BY <3>2
        <5>2. UNCHANGED <<taskmsgs, batch, handler>>
          BY <1>2, <2>1, <2>2, StartCommandShape
        <5> QED
          BY <2>8, <5>2 DEF Signals, Handled
      <4>3. Launch(t, v) \/ NoAnswer(t, v)
        BY <1>2, <2>1, <2>2, <4>2, StartCommandShape DEF NoLaunch
      <4> QED
        BY <2>4, <4>1, <4>3 DEF Launch, NoAnswer
    <3> QED
      BY <3>1, <3>2
  <2> QED
    BY <2>6, <2>8 DEF Once
<1> QED
  BY <1>1, <1>2

-----------------------------------------------------------------------------
\* The invariant of the executions is kept: the list, and the attempts.
LEMMA ListedStep ==
  ASSUME TypeInv, Listed, [Next]_vars
  PROVE  Listed'
<1>1. sched \in Schedule
  BY DEF TypeInv, TypeOK
<1>2. CASE ProcessTask
  <2>1. \/ sched' = Dead
        \/ sched' = [sched EXCEPT !.pc = "vnodes", !.left = sched.list]
    BY <1>2 DEF ProcessTask
  <2>2. sched'.pc = "vnodes" => sched'.left = sched'.list
    BY <1>1, <2>1, RestingType DEF Schedule
  <2> QED
    BY <2>2 DEF Listed
<1>3. CASE StartVnode
  BY <1>3, StartVnodeShape DEF Listed
<1>4. CASE sched' = sched
  BY <1>4 DEF Listed
<1>5. CASE Scheduler /\ ~ProcessTask /\ ~StartVnode
  <2>1. CASE StartCommand
    BY <2>1, StartCommandShape DEF Listed, NoLaunch, Launch, NoAnswer
  <2>2. CASE ScanPlace
    <3>1. sched'.pc = "running"
      BY <2>2 DEF ScanPlace, AtSort
    <3> QED
      BY <3>1 DEF Listed
  <2>3. CASE ~StartCommand /\ ~ScanPlace
    <3>1. sched'.pc # "vnodes"
      BY <1>1, <1>5, <2>3, RestingType
         DEF Scheduler, SortBegin, SortStopNext, SchedulerClear, StopTask, SortEnd, ScanSkip,
             ScanCompleted, FinishTask, ScanNoPlace, ScanRaises, ScanEnd, VnodesDone,
             CommandAccepted, CommandsDone, Schedule, AtSort
    <3> QED
      BY <3>1 DEF Listed
  <2> QED
    BY <2>1, <2>2, <2>3
<1>6. sched' = sched \/ Scheduler
  BY DEF Next, Reporting, ReportMsg, OnTaskReport, HandlerClear, HandlerVerdict, HandlerTell,
     NodeChange, CommandEnds, AddTask, LazyStopTask, WorkerRestart, ReportLost, vars
<1> QED
  BY <1>2, <1>3, <1>4, <1>5, <1>6

LEMMA AttemptsAlike ==
  ASSUME TypeInv, TypeInv', NEW t \in Task, NEW v \in Vnode, AttemptsOf(t, v), Alike(t, v),
         ToStart(t, v)' => ToStart(t, v),
         Accepted(t, v) => Accepted(t, v)' \/ subtask'[t][v].status = "RUNNING"
  PROVE  AttemptsOf(t, v)'
BY DEF AttemptsOf, Alike

LEMMA AttemptsRetried ==
  ASSUME TypeInv, TypeInv', NEW t \in Task, NEW v \in Vnode, AttemptsOf(t, v), Retried(t, v),
         ToStart(t, v)' => ToStart(t, v)
  PROVE  AttemptsOf(t, v)'
<1>1. subtask[t][v].token \in Nat /\ subtask[t][v].try_count \in Nat /\ MaxRetry \in Nat
  BY CountAssumption DEF TypeInv, TypeOK, SubTask
<1>2. PICK st : st = subtask'[t][v].status
  OBVIOUS
<1>3. st = "WAITING" => subtask'[t][v].try_count <= MaxRetry
  BY <1>2 DEF Retried
<1> QED
  BY <1>1, <1>2, <1>3 DEF AttemptsOf, Retried

LEMMA AttemptsStep ==
  ASSUME TypeInv, TypeInv', Listed, Attempts, [Next]_vars
  PROVE  Attempts'
<1> SUFFICES ASSUME NEW t \in Task \ AtSameTime, NEW v \in Vnode
             PROVE  AttemptsOf(t, v)'
  BY DEF Attempts
<1>1. t \in Task /\ AttemptsOf(t, v)
  BY DEF Attempts
<1>2. /\ subtask[t][v].token \in Nat /\ subtask[t][v].try_count \in Nat /\ MaxRetry \in Nat
      /\ subtask'[t][v].token \in Nat /\ subtask'[t][v].try_count \in Nat
  BY <1>1, CountAssumption DEF TypeInv, TypeOK, SubTask
<1>3. Accepted(t, v) => Accepted(t, v)' \/ subtask'[t][v].status = "RUNNING"
  BY <1>1, AcceptedStep
<1>4. ~ScanPlace => (ToStart(t, v)' => ToStart(t, v))
  BY <1>1, ToStartStep
<1>5. CASE ScanPlace
  <2>1. Alike(t, v)
    <3>1. ~StartCommand /\ ~StartVnode
      BY <1>5 DEF ScanPlace, StartCommand, StartVnode
    <3>2. ~(\E w \in Worker : HandlerVerdict(w))
      <4>1. sched'.pc = "running" /\ sched.pc = "scan"
        BY <1>5 DEF ScanPlace, AtSort
      <4> QED
        BY <4>1 DEF HandlerVerdict
    <3> QED
      BY <1>1, <3>1, <3>2, AlikeStep
  <2>2. CASE ToStart(t, v)'
    <3>1. subtask[t][v].status = "WAITING" /\ ~Accepted(t, v)
      BY <1>5, <2>2, PlacedWaits DEF Accepted
    <3>2. subtask[t][v].try_count <= MaxRetry /\ subtask[t][v].token <= subtask[t][v].try_count
      BY <1>1, <3>1 DEF AttemptsOf
    <3> QED
      BY <1>1, <1>2, <2>1, <3>2 DEF AttemptsOf, Alike
  <2>3. CASE ~ToStart(t, v)'
    BY <1>1, <1>3, <2>1, <2>3, AttemptsAlike
  <2> QED
    BY <2>2, <2>3
<1>6. CASE StartVnode
  <2>1. /\ sched.pc = "vnodes" /\ First(sched.left) \in sched.left
        /\ \/ subtask'[t][v] = subtask[t][v]
           \/ t = sched.task /\ v = First(sched.left) /\ (Alike(t, v) \/ Retried(t, v))
    BY <1>1, <1>6, StartVnodeShape
  <2>2. Alike(t, v) \/ Retried(t, v)
    BY <2>1 DEF Alike
  <2>3. ~ScanPlace
    BY <2>1 DEF ScanPlace
  <2> QED
    BY <1>1, <1>3, <1>4, <2>2, <2>3, AttemptsAlike, AttemptsRetried
<1>7. CASE StartCommand
  <2>1. PICK t0 : t0 = sched.task
    OBVIOUS
  <2>2. PICK v0 : v0 = First(sched.left)
    OBVIOUS
  <2>3. /\ sched.pc = "commands" /\ v0 \in sched.left /\ sched'.task = t0
        /\ (NoLaunch(t0, v0) \/ Launch(t0, v0) \/ NoAnswer(t0, v0))
        /\ <<t, v>> # <<t0, v0>> => subtask'[t][v] = subtask[t][v]
    BY <1>1, <1>7, <2>1, <2>2, StartCommandShape
  <2>4. ~ScanPlace /\ ~Accepted(t, v)
    BY <2>3 DEF ScanPlace, Accepted
  <2>5. CASE <<t, v>> # <<t0, v0>>
    <3>1. Alike(t, v)
      BY <2>3, <2>5 DEF Alike
    <3> QED
      BY <1>1, <1>3, <1>4, <2>4, <3>1, AttemptsAlike
  <2>6. CASE t = t0 /\ v = v0
    <3>1. ToStart(t, v)
      BY <2>1, <2>3, <2>6 DEF ToStart
    <3>2. subtask[t][v].token <= MaxRetry /\ subtask[t][v].token <= subtask[t][v].try_count
      BY <1>1, <3>1 DEF AttemptsOf
    <3>3. CASE NoLaunch(t0, v0)
      BY <1>1, <1>2, <1>4, <2>4, <2>6, <3>2, <3>3 DEF AttemptsOf, NoLaunch
    <3>4. CASE Launch(t0, v0)
      <4>1. ~ToStart(t, v)' /\ Accepted(t, v)'
        BY <2>2, <2>3, <2>6, <3>4 DEF Launch, ToStart, Accepted
      <4>2. subtask[t][v].status = "WAITING" => subtask[t][v].try_count <= MaxRetry
        BY <1>1 DEF AttemptsOf
      <4> QED
        BY <1>2, <2>6, <3>2, <3>4, <4>1, <4>2 DEF AttemptsOf, Launch
    <3>5. CASE NoAnswer(t0, v0)
      <4>1. ~ToStart(t, v)'
        BY <2>3, <2>6, <3>5 DEF NoAnswer, ToStart
      <4>2. subtask'[t][v].status = "WAITING" => subtask'[t][v].try_count <= MaxRetry
        BY <2>6, <3>5 DEF NoAnswer
      <4> QED
        BY <1>2, <2>6, <3>2, <3>5, <4>1, <4>2 DEF AttemptsOf, NoAnswer
    <3> QED
      BY <2>3, <3>3, <3>4, <3>5
  <2> QED
    BY <2>5, <2>6
<1>8. ASSUME NEW w \in Worker, HandlerVerdict(w)
      PROVE  AttemptsOf(t, v)'
  <2>1. PICK m : m = handler[w].msg
    OBVIOUS
  <2>2. /\ sched' = sched /\ (Alike(m.task, m.vnode) \/ Retried(m.task, m.vnode))
        /\ <<t, v>> # <<m.task, m.vnode>> => subtask'[t][v] = subtask[t][v]
    BY <1>1, <1>8, <2>1, VerdictShape
  <2>3. Alike(t, v) \/ Retried(t, v)
    BY <2>2 DEF Alike
  <2>4. ToStart(t, v)' => ToStart(t, v)
    BY <2>2 DEF ToStart
  <2> QED
    BY <1>1, <1>3, <2>3, <2>4, AttemptsAlike, AttemptsRetried
<1>9. CASE ~StartCommand /\ ~StartVnode /\ ~ScanPlace /\ ~(\E w \in Worker : HandlerVerdict(w))
  BY <1>1, <1>3, <1>4, <1>9, AlikeStep, AttemptsAlike
<1> QED
  BY <1>5, <1>6, <1>7, <1>8, <1>9

\* What is under way for a subtask was so before, unless a command of it is started.
LEMMA CurrentKept ==
  ASSUME TypeInv, TypeInv', Descends, NEW t \in Task, NEW v \in Vnode,
         subtask'[t][v].token = subtask[t][v].token, Current(t, v)'
  PROVE  Current(t, v)
BY DEF Current, Descends

LEMMA SettledAlike ==
  ASSUME NEW t \in Task, NEW v \in Vnode, SettledAt(t, v), Alike(t, v),
         Current(t, v)' => Current(t, v),
         ToStart(t, v)' => ToStart(t, v),
         Accepted(t, v) => Accepted(t, v)' \/ (subtask'[t][v].status = "RUNNING" /\ ~ToStart(t, v)')
  PROVE  SettledAt(t, v)'
BY DEF SettledAt, Alike

\* CommandAccepted takes the subtask off the list.
LEMMA AcceptedLeaves ==
  ASSUME TypeInv, [Next]_vars, NEW t \in Task, NEW v \in Vnode, Accepted(t, v)
  PROVE  Accepted(t, v)' \/ (subtask'[t][v].status = "RUNNING" /\ ~ToStart(t, v)')
<1>1. sched.pc = "accepted" /\ v = First(sched.left)
  BY DEF Accepted
<1>2. ~ToStart(t, v)
  BY <1>1 DEF ToStart
<1>3. ~ScanPlace
  BY <1>1 DEF ScanPlace
<1> QED
  BY <1>2, <1>3, AcceptedStep, ToStartStep

\* When the verdict is written, the execution it is on is over.
LEMMA VerdictEnds ==
  ASSUME TypeInv, TypeInv', Once, HandledFresh, ~answer_lost, NEW w \in Worker, HandlerVerdict(w),
         NEW t \in Task \ AtSameTime, NEW v \in Vnode,
         t = handler[w].msg.task, v = handler[w].msg.vnode
  PROVE  ~Current(t, v)'
<1> SUFFICES ASSUME Current(t, v)'
             PROVE  FALSE
  OBVIOUS
<1>1. PICK m : m = handler[w].msg
  OBVIOUS
<1>2. /\ Handled(w) /\ UNCHANGED <<execs, taskmsgs, batch>>
      /\ handler'[w].pc \notin {"clear", "verdict"}
      /\ \A u \in Worker \ {w} : handler'[u] = handler[u]
      /\ (Alike(t, v) \/ Retried(t, v))
  BY <1>1, VerdictShape
<1>3. m.token = subtask[t][v].token /\ subtask'[t][v].token = subtask[t][v].token
  BY <1>1, <1>2 DEF HandledFresh, Alike, Retried
<1>4. <<"handled", w, m>> \in Signals
  <2>1. At("handled", w, m)
    BY <1>1, <1>2 DEF At
  <2> QED
    BY <2>1, SignalsNow DEF SignalPlaces
<1>5. PICK p \in Signals' : About(p) = <<t, v, subtask[t][v].token>>
  BY <1>3 DEF Current
<1>6. PICK a \in SignalPlaces : \E u \in Worker : \E x : p = <<a, u, x>> /\ At(a, u, x)'
  BY SignalsNext
<1>7. PICK u \in Worker : \E x : p = <<a, u, x>> /\ At(a, u, x)'
  BY <1>6
<1>8. PICK x : p = <<a, u, x>> /\ At(a, u, x)'
  BY <1>7
<1>9. At(a, u, x) /\ ~(a = "handled" /\ u = w)
  BY <1>2, <1>8 DEF At, Handled
<1>10. p \in Signals
  BY <1>8, <1>9, SignalsNow
<1>11. About(<<"handled", w, m>>) = <<t, v, subtask[t][v].token>>
  BY <1>1, <1>3 DEF About
<1>12. p = <<"handled", w, m>>
  BY <1>4, <1>5, <1>10, <1>11 DEF Once
<1> QED
  BY <1>8, <1>9, <1>12

LEMMA SettledStep ==
  ASSUME TypeInv, TypeInv', FreshInv, [Next]_vars
  PROVE  Settled'
<1> SUFFICES ASSUME ~answer_lost', NEW t \in Task \ AtSameTime, NEW v \in Vnode
             PROVE  SettledAt(t, v)'
  BY DEF Settled
<1>1. ~answer_lost
  BY TokensStep, StartCommandShape
<1>2. t \in Task /\ SettledAt(t, v)
  BY <1>1 DEF FreshInv, Settled
<1>3. Accepted(t, v) => Accepted(t, v)' \/ (subtask'[t][v].status = "RUNNING" /\ ~ToStart(t, v)')
  BY <1>2, AcceptedLeaves
<1>4. ~ScanPlace => (ToStart(t, v)' => ToStart(t, v))
  BY <1>2, ToStartStep
<1>5. ~StartCommand => (Current(t, v)' => Current(t, v))
  BY <1>2, TokensStep, DescendsStep, CurrentKept
<1>6. CASE StartCommand
  <2>1. PICK t0 : t0 = sched.task
    OBVIOUS
  <2>2. PICK v0 : v0 = First(sched.left)
    OBVIOUS
  <2>3. /\ sched.pc = "commands" /\ v0 \in sched.left /\ sched'.task = t0
        /\ t0 \in Task /\ v0 \in Vnode
        /\ (NoLaunch(t0, v0) \/ Launch(t0, v0) \/ NoAnswer(t0, v0))
        /\ <<t, v>> # <<t0, v0>> => subtask'[t][v] = subtask[t][v]
    BY <1>2, <1>6, <2>1, <2>2, StartCommandShape
  <2>4. ~ScanPlace /\ ~Accepted(t, v)
    BY <2>3 DEF ScanPlace, Accepted
  <2>5. CASE <<t, v>> # <<t0, v0>>
    <3>1. Alike(t, v)
      BY <2>3, <2>5 DEF Alike
    <3>2. Current(t, v)' => Current(t, v)
      <4> SUFFICES ASSUME Current(t, v)'
                   PROVE  Current(t, v)
        OBVIOUS
      <4>1. PICK p \in Signals' : About(p) = <<t, v, subtask'[t][v].token>>
        BY DEF Current
      <4>2. p \in Signals
        <5> SUFFICES ASSUME p \notin Signals
                     PROVE  FALSE
          OBVIOUS
        <5>1. About(p) = <<t0, v0, subtask[t0][v0].token + 1>>
          BY <1>6, <2>1, <2>2, LaunchSignals
        <5> QED
          BY <2>5, <4>1, <5>1
      <4> QED
        BY <2>3, <2>5, <4>1, <4>2 DEF Current
    <3> QED
      BY <1>2, <1>3, <1>4, <2>4, <3>1, <3>2, SettledAlike
  <2>6. CASE t = t0 /\ v = v0
    <3>1. CASE NoLaunch(t0, v0)
      <4>1. ~ToStart(t, v)' /\ subtask'[t][v].status = "RUNNING"
        BY <2>3, <2>6, <3>1 DEF NoLaunch, ToStart
      <4> QED
        BY <4>1 DEF SettledAt
    <3>2. CASE Launch(t0, v0)
      <4>1. Accepted(t, v)'
        BY <2>2, <2>3, <2>6, <3>2 DEF Launch, Accepted
      <4> QED
        BY <4>1 DEF SettledAt
    <3>3. CASE NoAnswer(t0, v0)
      <4>1. ~Current(t, v)'
        <5> SUFFICES ASSUME NEW p \in Signals', About(p) = <<t, v, subtask'[t][v].token>>
                     PROVE  FALSE
          BY DEF Current
        <5>1. subtask'[t][v].token = subtask[t][v].token + 1 /\ subtask[t][v].token \in Nat
          BY <2>3, <2>6, <3>3 DEF NoAnswer, TypeInv, TypeOK, SubTask
        <5>2. CASE p \in Signals
          <6>1. p[3].task = t /\ p[3].vnode = v /\ p[3].token = subtask[t][v].token + 1
            BY <5>1 DEF About
          <6>2. p[3].token <= subtask[t][v].token
            BY <5>2, <6>1 DEF FreshInv, Once
          <6> QED
            BY <5>1, <6>1, <6>2
        <5>3. CASE p \notin Signals
          <6>1. Launch(t0, v0)
            BY <1>6, <2>1, <2>2, <5>3, LaunchSignals
          <6> QED
            BY <3>3, <6>1 DEF Launch, NoAnswer
        <5> QED
          BY <5>2, <5>3
      <4> QED
        BY <4>1 DEF SettledAt
    <3> QED
      BY <2>3, <3>1, <3>2, <3>3
  <2> QED
    BY <2>5, <2>6
<1>7. CASE StartVnode
  <2>1. /\ sched.pc = "vnodes" /\ First(sched.left) \in sched.left
        /\ \/ subtask'[t][v] = subtask[t][v]
           \/ t = sched.task /\ v = First(sched.left)
    BY <1>2, <1>7, StartVnodeShape
  <2>2. ~ScanPlace /\ ~StartCommand /\ ~Accepted(t, v)
    BY <2>1 DEF ScanPlace, StartCommand, Accepted
  <2>3. CASE subtask'[t][v] = subtask[t][v]
    <3>1. Alike(t, v)
      BY <2>3 DEF Alike
    <3> QED
      BY <1>2, <1>3, <1>4, <1>5, <2>2, <3>1, SettledAlike
  <2>4. CASE t = sched.task /\ v = First(sched.left)
    <3>1. ToStart(t, v)
      BY <2>1, <2>4 DEF ToStart, FreshInv, Listed
    <3>2. ~Current(t, v)
      BY <1>2, <2>2, <3>1 DEF SettledAt
    <3> QED
      BY <1>5, <2>2, <3>2 DEF SettledAt
  <2> QED
    BY <2>1, <2>3, <2>4
<1>8. ASSUME NEW w \in Worker, HandlerVerdict(w)
      PROVE  SettledAt(t, v)'
  <2>1. PICK m : m = handler[w].msg
    OBVIOUS
  <2>2. /\ sched' = sched
        /\ <<t, v>> # <<m.task, m.vnode>> => subtask'[t][v] = subtask[t][v]
    BY <1>2, <1>8, <2>1, VerdictShape
  <2>3. CASE <<t, v>> = <<m.task, m.vnode>>
    <3>1. ~Current(t, v)'
      BY <1>1, <1>8, <2>1, <2>3, VerdictEnds DEF FreshInv
    <3> QED
      BY <3>1 DEF SettledAt
  <2>4. CASE <<t, v>> # <<m.task, m.vnode>>
    <3>1. Alike(t, v)
      BY <2>2, <2>4 DEF Alike
    <3>2. ToStart(t, v)' => ToStart(t, v)
      BY <2>2 DEF ToStart
    <3>3. CASE ~StartCommand
      BY <1>2, <1>3, <1>5, <3>1, <3>2, <3>3, SettledAlike
    <3> QED
      BY <1>6, <3>3
  <2> QED
    BY <2>3, <2>4
<1>9. CASE ScanPlace
  <2>1. sched.pc = "scan"
    BY <1>9 DEF ScanPlace
  <2>2. ~StartCommand /\ ~StartVnode /\ ~Accepted(t, v)
    BY <2>1 DEF StartCommand, StartVnode, Accepted
  <2>3. CASE ToStart(t, v)'
    <3>1. subtask[t][v].status = "WAITING"
      BY <1>9, <2>3, PlacedWaits
    <3>2. ~Current(t, v)
      BY <1>2, <2>2, <3>1 DEF SettledAt
    <3> QED
      BY <1>5, <2>2, <3>2 DEF SettledAt
  <2>4. CASE ~ToStart(t, v)'
    <3>1. CASE ~(\E w \in Worker : HandlerVerdict(w))
      <4>1. Alike(t, v)
        BY <1>2, <2>2, <3>1, AlikeStep
      <4> QED
        BY <1>2, <1>3, <1>5, <2>2, <2>4, <4>1, SettledAlike
    <3> QED
      BY <1>8, <3>1
  <2> QED
    BY <2>3, <2>4
<1>10. CASE ~StartCommand /\ ~StartVnode /\ ~ScanPlace /\ ~(\E w \in Worker : HandlerVerdict(w))
  <2>1. Alike(t, v)
    BY <1>2, <1>10, AlikeStep
  <2> QED
    BY <1>2, <1>3, <1>4, <1>5, <1>10, <2>1, SettledAlike
<1> QED
  BY <1>6, <1>7, <1>8, <1>9, <1>10

\* A report that is handled was being handled before, or has just passed the token check.
LEMMA HandledStep ==
  ASSUME TypeInv, [Next]_vars, NEW w \in Worker, Handled(w)'
  PROVE  \/ Handled(w) /\ handler'[w].msg = handler[w].msg
         \/ LET m == handler'[w].msg IN
            m.task \in Task /\ m.vnode \in Vnode /\ subtask[m.task][m.vnode].token = m.token
<1> USE DEF report_vars
<1>1. handler \in [Worker -> Handler]
  BY DEF TypeInv, TypeOK
<1>2. CASE handler' = handler
  BY <1>2 DEF Handled
<1>3. ASSUME NEW w0 \in Worker, HandlerClear(w0)
      PROVE  Handled(w) /\ handler'[w].msg = handler[w].msg
  <2>1. handler[w0].pc = "clear" /\ handler[w0] \in Handler
    BY <1>1, <1>3 DEF HandlerClear
  <2>2. PICK h : /\ handler' = [handler EXCEPT ![w0] = h]
                 /\ h \in {NoHandler, [handler[w0] EXCEPT !.pc = "verdict"]}
    BY <1>3 DEF HandlerClear
  <2>3. CASE w = w0
    <3>1. handler'[w] = h
      BY <1>1, <2>2, <2>3
    <3>2. h # NoHandler
      BY <3>1 DEF Handled, NoHandler
    <3>3. h = [handler[w0] EXCEPT !.pc = "verdict"]
      BY <2>2, <3>2, Zenon
    <3>4. h.msg = handler[w0].msg
      BY <2>1, <3>3 DEF Handler, NoHandler
    <3> QED
      BY <2>1, <2>3, <3>1, <3>4 DEF Handled
  <2>4. CASE w # w0
    BY <1>1, <2>2, <2>4 DEF Handled
  <2> QED
    BY <2>3, <2>4
<1>4. ASSUME NEW w0 \in Worker, HandlerVerdict(w0) \/ HandlerTell(w0)
      PROVE  Handled(w) /\ handler'[w].msg = handler[w].msg
  <2>1. PICK h : /\ handler' = [handler EXCEPT ![w0] = h]
                 /\ h \in {NoHandler, [handler[w0] EXCEPT !.pc = "tell"]}
    BY <1>4 DEF HandlerVerdict, HandlerTell
  <2>2. handler[w0].pc \in {"verdict", "tell"} /\ handler[w0] \in Handler
    BY <1>1, <1>4 DEF HandlerVerdict, HandlerTell
  <2>3. h.pc \notin {"clear", "verdict"}
    BY <2>1, <2>2 DEF NoHandler, Handler
  <2>4. w # w0
    BY <1>1, <2>1, <2>3 DEF Handled
  <2> QED
    BY <1>1, <2>1, <2>4 DEF Handled
<1>5. ASSUME NEW w0 \in Worker, OnTaskReport(w0)
      PROVE  \/ Handled(w) /\ handler'[w].msg = handler[w].msg
             \/ LET m == handler'[w].msg IN
                m.task \in Task /\ m.vnode \in Vnode /\ subtask[m.task][m.vnode].token = m.token
  <2>1. PICK m \in batch[w0] :
          \/ handler' = handler
          \/ /\ subtask[m.task][m.vnode].token = m.token
             /\ handler' = [handler EXCEPT ![w0] =
                  [pc |-> "clear", msg |-> m, found |-> subtask[m.task][m.vnode].status]]
    BY <1>5 DEF OnTaskReport
  <2>2. m.task \in Task /\ m.vnode \in Vnode
    BY DEF TypeInv, TypeOK, TaskMsg
  <2>3. CASE w = w0 /\ handler' # handler
    <3>1. handler'[w].msg = m
      BY <1>1, <2>1, <2>3
    <3> QED
      BY <2>1, <2>2, <2>3, <3>1
  <2>4. CASE w # w0 \/ handler' = handler
    BY <1>1, <2>1, <2>4 DEF Handled
  <2> QED
    BY <2>3, <2>4
<1>6. \/ handler' = handler
      \/ \E w0 \in Worker : HandlerClear(w0) \/ HandlerVerdict(w0) \/ HandlerTell(w0)
                            \/ OnTaskReport(w0)
  BY DEF Next, Scheduler, SortBegin, SortStopNext, SchedulerClear, StopTask, SortEnd, ScanSkip,
     ScanCompleted, FinishTask, ScanPlace, ScanNoPlace, ScanRaises, ScanEnd, ProcessTask,
     StartVnode, VnodesDone, StartCommand, CommandAccepted, CommandsDone, Reporting, ReportMsg,
     NodeChange, CommandEnds, AddTask, LazyStopTask, WorkerRestart, ReportLost, vars
<1> QED
  BY <1>2, <1>3, <1>4, <1>5, <1>6

LEMMA HandledFreshStep ==
  ASSUME TypeInv, TypeInv', FreshInv, [Next]_vars
  PROVE  HandledFresh'
<1> SUFFICES ASSUME ~answer_lost', NEW w \in Worker, Handled(w)',
                    handler'[w].msg.task \notin AtSameTime
             PROVE  LET m == handler'[w].msg IN subtask'[m.task][m.vnode].token = m.token
  BY DEF HandledFresh
<1>1. ~answer_lost
  BY TokensStep, StartCommandShape
<1>2. PICK m : m = handler'[w].msg
  OBVIOUS
<1>3. CASE ~StartCommand
  <2>1. m.task \in Task /\ m.vnode \in Vnode /\ subtask[m.task][m.vnode].token = m.token
    <3>1. CASE Handled(w) /\ handler'[w].msg = handler[w].msg
      <4>1. m.task \in Task /\ m.vnode \in Vnode
        BY <1>2, <3>1, HandlerShape DEF Handled
      <4> QED
        BY <1>1, <1>2, <3>1, <4>1 DEF FreshInv, HandledFresh
    <3> QED
      BY <1>2, <3>1, HandledStep
  <2> QED
    BY <1>2, <1>3, <2>1, TokensStep
<1>4. CASE StartCommand
  <2>1. PICK t0 : t0 = sched.task
    OBVIOUS
  <2>2. PICK v0 : v0 = First(sched.left)
    OBVIOUS
  <2>3. /\ sched.pc = "commands" /\ v0 \in sched.left /\ t0 \in Task /\ v0 \in Vnode
        /\ UNCHANGED <<taskmsgs, batch, handler>>
        /\ (NoLaunch(t0, v0) \/ Launch(t0, v0) \/ NoAnswer(t0, v0))
        /\ \A u \in Task, x \in Vnode : <<u, x>> # <<t0, v0>> => subtask'[u][x] = subtask[u][x]
    BY <1>4, <2>1, <2>2, StartCommandShape
  <2>4. Handled(w) /\ m = handler[w].msg
    BY <1>2, <2>3 DEF Handled
  <2>5. m.task \in Task /\ m.vnode \in Vnode
    BY <2>4, HandlerShape DEF Handled
  <2>6. subtask[m.task][m.vnode].token = m.token
    BY <1>1, <1>2, <2>4 DEF FreshInv, HandledFresh
  <2>7. CASE <<m.task, m.vnode>> # <<t0, v0>>
    BY <1>2, <2>3, <2>5, <2>6, <2>7
  <2>8. CASE m.task = t0 /\ m.vnode = v0
    <3>1. <<"handled", w, m>> \in Signals
      <4>1. At("handled", w, m)
        BY <2>4 DEF At
      <4> QED
        BY <4>1, SignalsNow DEF SignalPlaces
    <3>2. About(<<"handled", w, m>>) = <<t0, v0, subtask[t0][v0].token>>
      BY <2>6, <2>8 DEF About
    <3>3. Current(t0, v0)
      BY <3>1, <3>2 DEF Current
    <3>4. ToStart(t0, v0) /\ ~Accepted(t0, v0) /\ t0 \notin AtSameTime
      BY <1>2, <2>1, <2>3, <2>8 DEF ToStart, Accepted
    <3>5. SettledAt(t0, v0)
      BY <1>1, <2>3, <3>4 DEF FreshInv, Settled
    <3> QED
      BY <3>3, <3>4, <3>5 DEF SettledAt
  <2> QED
    BY <2>7, <2>8
<1> QED
  BY <1>3, <1>4

LEMMA FreshInit == Init => FreshInv
<1> SUFFICES ASSUME Init
             PROVE  FreshInv
  OBVIOUS
<1>1. sched.pc = "sort" /\ ~answer_lost
  BY RestingType DEF Init
<1>2. TypeInv
  BY TypeInit
<1>3. \A a \in SignalPlaces : \A w \in Worker : \A x : ~At(a, w, x)
  BY DEF Init, At, Handled, NoHandler
<1>4. Signals = {}
  <2>1. \A p \in Signals : FALSE
    BY <1>2, <1>3, SignalsNow
  <2> QED
    BY <2>1
<1>5. Once /\ Settled
  BY <1>4 DEF Once, Settled, SettledAt, Current
<1>6. HandledFresh
  BY DEF Init, HandledFresh, Handled, NoHandler
<1>7. Attempts
  <2>1. ASSUME NEW t \in Task, NEW v \in Vnode
        PROVE  AttemptsOf(t, v)
    <3>1. subtask[t][v].token = 0 /\ subtask[t][v].try_count = 0
      BY DEF Init, NewSubTask
    <3>2. ~ToStart(t, v)
      BY <1>1 DEF ToStart
    <3> QED
      BY <3>1, <3>2, CountAssumption DEF AttemptsOf
  <2> QED
    BY <2>1 DEF Attempts
<1> QED
  BY <1>1, <1>5, <1>6, <1>7 DEF FreshInv, Listed

\* The inductive invariant of the executions.
THEOREM FreshCorrect == Spec => []FreshInv
<1>1. Init => FreshInv
  BY FreshInit
<1>2. TypeInv /\ TypeInv' /\ FreshInv /\ [Next]_vars => FreshInv'
  <2> SUFFICES ASSUME TypeInv, TypeInv', FreshInv, [Next]_vars
               PROVE  FreshInv'
    OBVIOUS
  <2>1. Listed'
    BY ListedStep DEF FreshInv
  <2>2. Once'
    BY OnceStep DEF FreshInv
  <2>3. Attempts'
    BY AttemptsStep DEF FreshInv
  <2>4. Settled'
    BY SettledStep
  <2>5. HandledFresh'
    BY HandledFreshStep
  <2> QED
    BY <2>1, <2>2, <2>3, <2>4, <2>5 DEF FreshInv
<1> QED
  BY <1>1, <1>2, TypeCorrect, PTL DEF Spec

\* A verdict is written on the execution it was sent for, and a subtask is not started more
\* often than its retries allow: for any number of tasks, vnodes, workers and retries.
THEOREM VerdictsSafe == Spec => []FreshVerdict
<1>1. FreshInv => FreshVerdict
  BY DEF FreshInv, HandledFresh, Handled, Attempts, AttemptsOf, FreshVerdict
<1> QED
  BY <1>1, FreshCorrect, PTL

=============================================================================
