------------------------------ MODULE TaskWorker ------------------------------
(***************************************************************************)
(* The batch worker, src/src/worker/taskworker.py: the calls of the        *)
(* master's TaskMgr, each in a thread of the gRPC server, the threads that *)
(* execute commands, and the one that reports their ends every two         *)
(* seconds. One worker.                                                    *)
(*                                                                         *)
(* A vnode is the container of that name, so each try to run it uses the   *)
(* name again. The master's side is what TaskMgr.tla does with one vnode:  *)
(* start_vnode, start_task with a new token, stop_vnode, and then perhaps  *)
(* another try. The handlers are the threads of the gRPC server. A handler *)
(* goes on when the master does not wait for it any more, because it was   *)
(* restarted (it runs its jobs again at once) or the connection broke.     *)
(* Mounts of object storage fail without an effect here and are left out.  *)
(***************************************************************************)
EXTENDS Naturals, FiniteSets

CONSTANTS
  Vnode, Gpu, Handler,
  GpuNeed,  \* of each vnode
  MaxTry,   \* bound: commands of each vnode
  MaxFault  \* bound: failures and restarts

ASSUME TaskWorkerAssumption ==
  Gpu \subseteq Nat /\ GpuNeed \in [Vnode -> Nat] /\ MaxTry \in [Vnode -> Nat] /\ MaxFault \in Nat /\ "" \notin Vnode

VARIABLES
  box,        \* a container: none, made, running
  devices,    \* GPUs that were added to a running container
  gpu_status, \* the name each GPU is marked with, or ""
  call,       \* what a handler does: for which vnode, where, and is it waited for
  phase,      \* what the master knows of a vnode: idle, calling, accepted, running, stopping
  vnode_started,
  try,        \* the token of the last command of a vnode
  thread,     \* commands being executed: before or after the script is written
  taskmsgs,   \* ends to report
  told,       \* ends the master was told
  mishap, used

box_vars == <<box, devices, gpu_status>>
master_vars == <<phase, vnode_started, try>>
report_vars == <<thread, taskmsgs, told>>
vars == <<box_vars, call, master_vars, report_vars, mishap, used>>

Token == UNION {{v} \X (1..MaxTry[v]) : v \in Vnode}
Cause == {"device", \* adding a GPU to a container failed half-way
          "ssh",    \* ssh did not start in a container
          "again",  \* a vnode is started that runs, or that another call is still about
          "parted", \* the master was restarted between stop_task and stop_vnode
          "late",   \* a command is sent to a vnode that is being stopped, or is not there
          "left",   \* a restarted worker left a container running
          "script", \* the script of a command could not be written
          "rpc",    \* a report did not get through
          "restart"}\* the worker was restarted

Free == [v |-> "", at |-> "none", heard |-> FALSE]

Init ==
  /\ box = [v \in Vnode |-> "none"] /\ devices = {} /\ gpu_status = [g \in Gpu |-> ""]
  /\ call = [c \in Handler |-> Free]
  /\ phase = [v \in Vnode |-> "idle"] /\ vnode_started = {} /\ try = [v \in Vnode |-> 0]
  /\ thread = {} /\ taskmsgs = {} /\ told = {} /\ mishap = {} /\ used = 0

NoFault == UNCHANGED <<mishap, used>>
Fault(causes) == used < MaxFault /\ used' = used + 1 /\ mishap' = mishap \union causes
At(c, v, at) == call[c].v = v /\ call[c].at = at
To(c, at) == call' = [call EXCEPT ![c].at = at] /\ UNCHANGED <<phase, vnode_started>>
Served(v) == \E c \in Handler : call[c].v = v
Waiting(v) == \E c \in Handler : call[c].v = v /\ call[c].heard

Call(v, at) ==
  \E c \in Handler : call[c] = Free /\ call' = [call EXCEPT ![c] = [v |-> v, at |-> at, heard |-> TRUE]]

\* The handler answers: the vnode is accepted, or idle.
Answer(c, v, reply) ==
  /\ call' = [call EXCEPT ![c] = Free]
  /\ IF call[c].heard
       THEN /\ phase' = [phase EXCEPT ![v] = IF @ = "running" THEN @ ELSE reply]
            /\ vnode_started' = IF reply = "accepted" THEN vnode_started \union {v}
                                ELSE vnode_started \ {v}
       ELSE UNCHANGED <<phase, vnode_started>>

\* What runs in a container ends with it, and its devices are free for others.
Becomes(v, state) ==
  /\ box' = [box EXCEPT ![v] = state]
  /\ devices' = IF state = "running" THEN devices ELSE {d \in devices : d[1] # v}

-----------------------------------------------------------------------------
(* start_vnode                                                             *)

StartVnode(v) ==
  /\ phase[v] = "idle" /\ v \notin vnode_started /\ try[v] < MaxTry[v]
  /\ Call(v, "create") /\ phase' = [phase EXCEPT ![v] = "calling"]
  /\ mishap' = IF box[v] = "running" \/ Served(v) THEN mishap \union {"again"} ELSE mishap
  /\ UNCHANGED <<box_vars, vnode_started, try, report_vars, used>>

\* A new file system and configuration, under a container that may run. When
\* that fails the call is refused, and what was made stays.
CreateContainer(c, v) ==
  /\ At(c, v, "create") /\ Becomes(v, IF box[v] = "running" THEN "running" ELSE "made")
  /\ (To(c, "run") /\ NoFault) \/ (Answer(c, v, "idle") /\ Fault({}))
  /\ UNCHANGED <<gpu_status, try, report_vars>>

\* lxc-start, which fails for one that runs or is not there; deleteFS kills that.
RunContainer(c, v) ==
  /\ At(c, v, "run")
  /\ \/ box[v] = "made" /\ Becomes(v, "running") /\ To(c, "gpu") /\ NoFault
     \/ box[v] = "made" /\ Becomes(v, "none") /\ Answer(c, v, "idle") /\ Fault({})
     \/ box[v] # "made" /\ Becomes(v, "none") /\ Answer(c, v, "idle") /\ NoFault
  /\ UNCHANGED <<gpu_status, try, report_vars>>

FreeGpus_mutant == Gpu
FreeGpus == {g \in Gpu : gpu_status[g] = ""}
Choices(v) == {S \in SUBSET FreeGpus : /\ Cardinality(S) = GpuNeed[v]
                                       /\ \A g \in S, rest \in FreeGpus \ S : g < rest}
Marked(S, name) == [g \in Gpu |-> IF g \in S THEN name ELSE gpu_status[g]]

Added(v, S) == IF box[v] = "running" THEN devices \union ({v} \X S) ELSE devices

\* Under gpu_lock. When adding raises the marks are undone, not the devices that
\* were added before. (That a device was not added without raising is not noticed;
\* it counts as added here.)
AddGpuDevice(c, v) ==
  /\ At(c, v, "gpu")
  /\ \/ \E S \in Choices(v) :
          gpu_status' = Marked(S, v) /\ devices' = Added(v, S) /\ To(c, "ssh") /\ NoFault
     \/ \E S \in Choices(v) : \E T \in SUBSET S :
          /\ S # {} /\ Fault({"device"}) /\ gpu_status' = Marked(S, "")
          /\ devices' = Added(v, T) /\ To(c, "undo")
     \/ Choices(v) = {} /\ To(c, "undo") /\ NoFault /\ UNCHANGED <<gpu_status, devices>>
  /\ UNCHANGED <<box, try, report_vars>>

\* lxc-attach fails in a container that does not run.
StartSsh(c, v) ==
  /\ At(c, v, "ssh")
  /\ \/ box[v] = "running" /\ Answer(c, v, "accepted") /\ NoFault
     \/ box[v] = "running" /\ To(c, "undo") /\ Fault({"ssh"})
     \/ box[v] # "running" /\ To(c, "undo") /\ NoFault
  /\ UNCHANGED <<box_vars, try, report_vars>>

\* The container is stopped and deleted, and the call refused. No GPU is released.
Undo(c, v) ==
  /\ At(c, v, "undo") /\ Becomes(v, "none") /\ Answer(c, v, "idle")
  /\ UNCHANGED <<gpu_status, try, report_vars, mishap, used>>

-----------------------------------------------------------------------------
(* stop_task and stop_vnode: after an end was told, or because the user    *)
(* stops the job. The master makes the first call only for a command that  *)
(* has not ended; the lock of the subtask keeps its calls apart.           *)

ClearSubTask(v) ==
  LET ended == phase[v] = "accepted" \/ <<v, try[v]>> \in told IN
  /\ phase[v] \in {"accepted", "running"} /\ ~Waiting(v)
  /\ \/ v \in vnode_started /\ ended /\ Call(v, "stop") /\ phase' = [phase EXCEPT ![v] = "stopping"]
     \/ v \notin vnode_started /\ ended /\ UNCHANGED call /\ phase' = [phase EXCEPT ![v] = "idle"]
     \/ ~ended /\ Call(v, "kill") /\ phase' = [phase EXCEPT ![v] = "stopping"]
  /\ UNCHANGED <<box_vars, vnode_started, try, report_vars, mishap, used>>

\* What is not running is not stopped.
Stopped(v) == Becomes(v, IF box[v] = "running" THEN "made" ELSE box[v])

\* Then stop_vnode is called, if the master knows the vnode, and still is there.
StopTask(c, v) ==
  /\ At(c, v, "kill") /\ Stopped(v)
  /\ IF call[c].heard /\ v \in vnode_started THEN To(c, "stop") ELSE Answer(c, v, "idle")
  /\ mishap' = IF call[c].heard THEN mishap ELSE mishap \union {"parted"}
  /\ UNCHANGED <<gpu_status, try, report_vars, used>>

StopVnode(c, v) ==
  /\ At(c, v, "stop") /\ To(c, "delete") /\ Stopped(v)
  /\ UNCHANGED <<gpu_status, try, report_vars, mishap, used>>

DeleteBox(c, v) ==
  /\ At(c, v, "delete") /\ Becomes(v, "none") /\ To(c, "release")
  /\ UNCHANGED <<gpu_status, try, report_vars, mishap, used>>

ReleaseGpuDevice(c, v) ==
  /\ At(c, v, "release") /\ Answer(c, v, "idle")
  /\ gpu_status' = Marked({g \in Gpu : gpu_status[g] = v}, "")
  /\ UNCHANGED <<box, devices, try, report_vars, mishap, used>>

-----------------------------------------------------------------------------
(* start_task, its thread, and the reports.                                *)

\* A task whose vnodes start at the same time is sent as a whole: to a vnode that
\* is being stopped after its end, too; and to one whose stop got no answer.
StartTask(v) ==
  /\ phase[v] = "accepted" \/ (phase[v] = "stopping" /\ <<v, try[v]>> \in told)
  /\ try[v] < MaxTry[v] /\ try' = [try EXCEPT ![v] = @ + 1]
  /\ phase' = [phase EXCEPT ![v] = "running"]
  /\ thread' = thread \union {<<v, try'[v], "script">>}
  /\ mishap' = IF box[v] # "running" \/ Served(v) THEN mishap \union {"late"} ELSE mishap
  /\ UNCHANGED <<box_vars, call, vnode_started, taskmsgs, told, used>>

\* Without a file system there is no script: the thread ends, and tells nobody.
WriteScript(v, t) ==
  /\ <<v, t, "script">> \in thread
  /\ LET rest == thread \ {<<v, t, "script">>} IN
       \/ box[v] # "none" /\ thread' = rest \union {<<v, t, "attach">>} /\ NoFault
       \/ box[v] = "none" /\ thread' = rest /\ NoFault
       \/ box[v] # "none" /\ thread' = rest /\ Fault({"script"})
  /\ UNCHANGED <<box_vars, call, master_vars, taskmsgs, told>>

Kept_mutant(token) == {token}
Kept(token) == taskmsgs \union {token}

\* The command is over, or its time is, or its container is gone.
EndCommand(v, t) ==
  /\ <<v, t, "attach">> \in thread /\ thread' = thread \ {<<v, t, "attach">>}
  /\ taskmsgs' = Kept(<<v, t>>)
  /\ UNCHANGED <<box_vars, call, master_vars, told, mishap, used>>

\* The messages are dropped, also when the master did not get them.
ReportMsg ==
  /\ taskmsgs # {} /\ taskmsgs' = {}
  /\ \/ told' = told \union taskmsgs /\ NoFault
     \/ Fault({"rpc"}) /\ UNCHANGED told
  /\ UNCHANGED <<box_vars, call, master_vars, thread>>

-----------------------------------------------------------------------------

\* What a vnode is for the master when a call for it got no answer.
Unanswered(v) == IF phase[v] \notin {"calling", "stopping"} THEN phase[v]
                 ELSE IF v \in vnode_started THEN "accepted" ELSE "idle"

\* The connection of a call breaks. After stop_task stop_vnode is called anyway.
LoseAnswer(c) ==
  /\ Fault({}) /\ call[c].heard /\ call[c].at # "kill"
  /\ call' = [call EXCEPT ![c].heard = FALSE]
  /\ phase' = [phase EXCEPT ![call[c].v] = Unanswered(call[c].v)]
  /\ UNCHANGED <<box_vars, vnode_started, try, report_vars>>

\* A worker that starts stops and deletes the batch containers of before, those
\* of users with a '-' in their name excepted, and those lxc-stop fails for. The
\* calls raise.
WorkerRestart ==
  /\ \E kept \in SUBSET {v \in Vnode : box[v] # "none"} :
       /\ box' = [v \in Vnode |-> IF v \in kept THEN box[v] ELSE "none"]
       /\ devices' = {d \in devices : d[1] \in kept}
       /\ Fault({"restart"} \union IF \E v \in kept : box[v] = "running" THEN {"left"} ELSE {})
  /\ gpu_status' = [g \in Gpu |-> ""] /\ call' = [c \in Handler |-> Free]
  /\ thread' = {} /\ taskmsgs' = {} /\ phase' = [v \in Vnode |-> Unanswered(v)]
  /\ UNCHANGED <<vnode_started, try, told>>

\* The jobs of before are added anew.
MasterRestart ==
  /\ Fault({}) /\ phase' = [v \in Vnode |-> "idle"] /\ vnode_started' = {}
  /\ call' = [c \in Handler |-> [call[c] EXCEPT !.heard = FALSE]]
  /\ UNCHANGED <<box_vars, try, report_vars>>

Start(c, v) == \/ CreateContainer(c, v) \/ RunContainer(c, v) \/ AddGpuDevice(c, v)
               \/ StartSsh(c, v) \/ Undo(c, v)
Stop(c, v) == StopTask(c, v) \/ StopVnode(c, v) \/ DeleteBox(c, v) \/ ReleaseGpuDevice(c, v)

Next ==
  \/ \E v \in Vnode : StartVnode(v) \/ StartTask(v) \/ ClearSubTask(v)
  \/ \E c \in Handler, v \in Vnode : Start(c, v) \/ Stop(c, v)
  \/ \E m \in Token : WriteScript(m[1], m[2]) \/ EndCommand(m[1], m[2])
  \/ \E c \in Handler : LoseAnswer(c)
  \/ ReportMsg \/ WorkerRestart \/ MasterRestart

\* A command ends because its time is limited (MAX_RUNNING_TIME), and the threads go on.
Spec ==
  /\ Init /\ [][Next]_vars
  /\ \A m \in Token : WF_vars(WriteScript(m[1], m[2])) /\ WF_vars(EndCommand(m[1], m[2]))
  /\ WF_vars(ReportMsg)

-----------------------------------------------------------------------------

Unless(causes, P) == causes \intersect mishap # {} \/ P

\* gpu_status tells the truth, whatever starts and stops side by side: a GPU that
\* a running container has is marked with its name, and so no other's; and a mark
\* is that of a container that runs, or is on its way down.
GpuTable ==
  /\ Unless({"device", "again", "left"}, \A d \in devices : gpu_status[d[2]] = d[1])
  /\ Unless({"ssh", "again", "parted"},
       \A g \in Gpu : LET v == gpu_status[g] IN
         v # "" => box[v] = "running" \/ \E c \in Handler : /\ call[c].v = v
                                                           /\ call[c].at \in {"stop", "delete", "release"})

\* While the master waits for a command, its end gets told to it some day, and
\* with the token of this try.
EndTold ==
  \A m \in Token :
    phase[m[1]] = "running" /\ try[m[1]] = m[2] ~>
      \/ m \in told \/ phase[m[1]] # "running"
      \/ mishap \intersect {"script", "rpc", "restart", "late"} # {}
=============================================================================
