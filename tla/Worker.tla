-------------------------------- MODULE Worker --------------------------------
(***************************************************************************)
(* The nodes of docklet and what they store: the start of a worker         *)
(* (worker.py), its announcement in etcd and its heartbeat, the master's   *)
(* thread that watches etcd (NodeMgr), the file systems of containers      *)
(* (container.py, imagemgr.py, lvmtool.py), and the operations of the      *)
(* master that move a container's data: create, save, migrate, delete.     *)
(* Images.tla has the images they make and read. The containers are of one *)
(* user, whose lock each operation holds (op). Clusters, addresses and     *)
(* whether a container runs are in Vcluster.tla.                           *)
(*                                                                         *)
(* A daemon may die at any time, and its host restart: then the mounts are *)
(* gone. A call to a worker that does not serve raises, and the handler    *)
(* answers with an error where it is. lost, mishap and used are history    *)
(* and bounds.                                                             *)
(***************************************************************************)
EXTENDS Images, Sequences

CONSTANTS Node, Container

VARIABLES
  key,      \* etcd machines/runnodes
  ttl,      \* nodes whose key expires
  allnodes, \* etcd machines/allnodes
  known,    \* NodeMgr.allnodes
  run,      \* NodeMgr.runnodes
  seen,     \* the runnodes NodeMgr has listed and not looked at, or NoList
  queue,    \* NodeMgr.recover_queue
  watching, \* whether the thread that watches etcd lives
  pc,       \* of a worker: down, mode, wipe, ready, serve
  beating,  \* workers whose heartbeat thread lives
  lost,     \* containers whose host was restarted, not recovered since
  host,     \* of a container: its row
  disk,     \* the logical volume of a container on a node
  mounted,  \* the volumes that are mounted
  job       \* the container and the nodes op is about

member_vars == <<key, ttl, allnodes, known, run, seen, queue, watching>>
node_vars == <<pc, beating, lost>>
disk_vars == <<host, disk, mounted>>
vars == <<member_vars, node_vars, disk_vars, job, image_vars, op, mishap, used>>

NoNode == "none"
ASSUME WorkerAssumption == NoNode \notin Node /\ IsFiniteSet(Node)

NoList == [n \in Node |-> "unread"]
NoJob == [c |-> CHOOSE c \in Container : TRUE, old |-> NoNode, new |-> NoNode]
NodeCause == {"etcd",    \* etcd failed a request
              "lapsed",  \* the key of a worker that served ran out
             "unseen",  \* a worker was back before the master saw that it went
              "mount",   \* a volume was not mounted
              "group",   \* the volume group was not recovered
              "tar",     \* an image was not written, and that was reported as success
              "untar",   \* an image was not unpacked, likewise
              "between", \* a host restarted between a creation and its commit
              "died",    \* a worker died while it made an image
              "deleted", \* a container was deleted by a call that then raised
              "crash"}   \* the master was restarted in an operation

Init ==
  /\ key = [n \in Node |-> "none"] /\ ttl = {} /\ allnodes = {} /\ known = {} /\ run = {}
  /\ seen = NoList /\ queue = <<>> /\ watching = TRUE
  /\ pc = [n \in Node |-> "down"] /\ beating = {} /\ lost = {}
  /\ host = [c \in Container |-> NoNode]
  /\ disk = [d \in Node \X Container |-> "none"] /\ mounted = {}
  /\ job = NoJob /\ ImageInit /\ mishap = {} /\ used = 0

Fault(causes) == Spend(2) /\ Blame(causes)

-----------------------------------------------------------------------------
(* The start of a worker, and its heartbeat.                               *)

\* Its key, and the token that shows the global directory is shared.
WorkerStart(n) ==
  /\ pc[n] = "down" /\ pc' = [pc EXCEPT ![n] = "mode"]
  /\ key' = [key EXCEPT ![n] = "waiting"] /\ ttl' = ttl \ {n}
  /\ UNCHANGED <<allnodes, known, run, seen, queue, watching, beating, lost, disk_vars, job,
                 image_vars, op, mishap, used>>

HostsOf(n) == {c \in Container : host[c] = n}

\* A node that was never seen starts empty; it exits if the database has
\* containers of it.
InitNew(n) == pc' = [pc EXCEPT ![n] = IF HostsOf(n) = {} THEN "wipe" ELSE "down"]

\* new_group, and a recover_group that finds no group and makes one.
EmptyGroup(n) ==
  /\ disk' = [d \in DOMAIN disk |-> IF d[1] = n THEN "none" ELSE disk[d]]
  /\ mounted' = {d \in mounted : d[1] # n}

\* check_allcontainers: of the containers that are here and in the database.
Both(n) == {c \in HostsOf(n) : disk[n, c] # "none"}
CheckAll(n) ==
  \/ mounted' = mounted \union ({n} \X Both(n)) /\ UNCHANGED <<disk, mishap, used>>
  \/ Both(n) # {} /\ Fault({"mount"}) /\ UNCHANGED <<disk, mounted>>

\* Whatever comes of it, the worker goes on.
InitRecovery(n) ==
  /\ pc' = [pc EXCEPT ![n] = "ready"]
  /\ CheckAll(n) \/ (Both(n) # {} /\ EmptyGroup(n) /\ Fault({"group"}))

ChooseMode(n) ==
  /\ pc[n] = "mode"
  /\ \/ n \in allnodes /\ InitRecovery(n)
     \/ n \notin allnodes /\ InitNew(n) /\ UNCHANGED <<disk, mounted, mishap, used>>
  /\ UNCHANGED <<member_vars, beating, lost, host, job, image_vars, op>>

\* delete_allcontainers, new_group.
Wipe(n) ==
  /\ pc[n] = "wipe" /\ pc' = [pc EXCEPT ![n] = "ready"] /\ EmptyGroup(n)
  /\ UNCHANGED <<member_vars, beating, lost, host, job, image_vars, op, mishap, used>>

\* It serves, whether or not etcd has taken what it wrote.
Announce(n) ==
  /\ pc[n] = "ready" /\ pc' = [pc EXCEPT ![n] = "serve"] /\ beating' = beating \union {n}
  /\ LET quick == IF n \in run \/ seen[n] = "ok" THEN {"unseen"} ELSE {} IN
       \/ key' = [key EXCEPT ![n] = "work"] /\ Blame(quick) /\ UNCHANGED used
       \/ Fault(quick \union {"etcd"}) /\ UNCHANGED key
  /\ UNCHANGED <<ttl, allnodes, known, run, seen, queue, watching, lost, disk_vars, job,
                 image_vars, op>>

Beats(n) == key[n] \in {"ok", "none"}

\* The key is kept for a minute more, or made if it is gone.
Heartbeat(n) ==
  /\ pc[n] = "serve" /\ n \in beating /\ Beats(n)
  /\ key' = [key EXCEPT ![n] = "ok"] /\ ttl' = ttl \union {n}
  /\ UNCHANGED <<allnodes, known, run, seen, queue, watching, node_vars, disk_vars, job,
                 image_vars, op, mishap, used>>

\* An etcd that does not answer ends the thread; the worker serves on.
HeartbeatDies(n) ==
  /\ n \in beating /\ beating' = beating \ {n} /\ Fault({"etcd"})
  /\ UNCHANGED <<member_vars, pc, lost, disk_vars, job, image_vars, op>>

\* Of a worker that is dead, or that was held up for a minute.
Expire(n) ==
  /\ n \in ttl
  /\ IF pc[n] = "serve" THEN Fault({"lapsed"}) ELSE UNCHANGED <<mishap, used>>
  /\ key' = [key EXCEPT ![n] = "none"] /\ ttl' = ttl \ {n}
  /\ UNCHANGED <<allnodes, known, run, seen, queue, watching, node_vars, disk_vars, job,
                 image_vars, op>>

\* The calls of the operation that n may be in the middle of.
Saving(n) == op.at \in {"tar", "info"} /\ job.old = n
Dropping(n) == op.at = "drop" /\ job.old = n

\* A deletion's data is gone and its call raises: the row stays.
Deleted == IF op.do = "delete" THEN {"deleted"} ELSE {}

\* The daemon ends: its containers go on. A call it was in raises; a deletion may
\* have come as far as the volume.
Die(n) ==
  /\ pc' = [pc EXCEPT ![n] = "down"] /\ beating' = beating \ {n}
  /\ IF Saving(n) \/ Dropping(n) THEN op' = Idle /\ job' = NoJob ELSE UNCHANGED <<op, job>>
DiesOf(n, gone) ==
  (IF Saving(n) THEN {"died"} ELSE {}) \union (IF gone THEN Deleted ELSE {})
Erase(n, gone) ==
  /\ gone => Dropping(n)
  /\ disk' = IF gone THEN [disk EXCEPT ![<<n, job.c>>] = "none"] ELSE disk

Killed(n) ==
  /\ pc[n] # "down" /\ Die(n)
  /\ \E gone \in BOOLEAN :
       /\ Erase(n, gone) /\ Fault(DiesOf(n, gone))
       /\ mounted' = IF gone THEN mounted \ {<<n, job.c>>} ELSE mounted
  /\ UNCHANGED <<member_vars, lost, host, image_vars>>

\* The host restarts: nothing is mounted and no container runs.
HostRestarts(n) ==
  /\ pc[n] # "down" /\ Die(n)
  /\ mounted' = {d \in mounted : d[1] # n} /\ lost' = lost \union HostsOf(n)
  /\ \E gone \in BOOLEAN :
       /\ Erase(n, gone)
       /\ Fault(DiesOf(n, gone)
                \union (IF op.at = "commit" /\ job.new = n THEN {"between"} ELSE {}))
  /\ UNCHANGED <<member_vars, host, image_vars>>

-----------------------------------------------------------------------------
(* The master's view of the nodes.                                         *)

\* It lists the keys. One that is "waiting" means nothing to it.
Poll ==
  /\ watching /\ seen = NoList
  /\ seen' = [n \in Node |-> IF key[n] = "waiting" THEN "none" ELSE key[n]]
  /\ UNCHANGED <<key, ttl, allnodes, known, run, queue, watching, node_vars, disk_vars, job,
                 image_vars, op, mishap, used>>

\* Nodes that are back are to be recovered, in the order they are listed in; new ones
\* are recorded, in etcd too.
Joining == {n \in Node \ run : seen[n] = "work"}
ToRecover_mutant == {}
ToRecover == Joining \cap known
Orders(S) == {s \in [1..Cardinality(S) -> S] : \A n \in S : \E i \in DOMAIN s : s[i] = n}

PollApply ==
  /\ watching /\ seen # NoList /\ seen' = NoList
  /\ key' = [n \in Node |-> IF seen[n] = "work" THEN "ok" ELSE key[n]]
  /\ ttl' = {n \in ttl : seen[n] # "work"}
  /\ run' = {n \in Node : seen[n] \in {"work", "ok"}}
  /\ (\E s \in Orders(ToRecover) : queue' = queue \o s)
  /\ known' = known \union Joining
  /\ \/ allnodes' = allnodes \union (Joining \ known) /\ UNCHANGED <<mishap, used>>
     \/ Joining \ known # {} /\ Fault({"etcd"}) /\ UNCHANGED allnodes
  /\ UNCHANGED <<watching, node_vars, disk_vars, job, image_vars, op>>

WatchDies ==
  /\ watching /\ watching' = FALSE /\ Fault({"etcd"})
  /\ UNCHANGED <<key, ttl, allnodes, known, run, seen, queue, node_vars, disk_vars, job,
                 image_vars, op>>

Reach(n) == CASE n \notin run -> "absent"
              [] n \in run /\ pc[n] = "serve" -> "ok"
              [] OTHER -> "raise"

\* recover_container on every container of these nodes: checkFS, start.
Recovered(S) ==
  LET up == {n \in S : Reach(n) = "ok"} IN
  /\ mounted' = mounted \union {d \in up \X Container : host[d[2]] = d[1] /\ disk[d] # "none"}
  /\ lost' = {c \in lost : host[c] \notin up}

RecoverNode ==
  /\ queue # <<>> /\ queue' = Tail(queue) /\ Recovered({Head(queue)})
  /\ UNCHANGED <<key, ttl, allnodes, known, run, seen, watching, pc, beating, host, disk, job,
                 image_vars, op, mishap, used>>

\* The master is restarted, and recovers all clusters before it serves.
MasterRestart ==
  /\ known' = allnodes /\ run' = {n \in Node : key[n] = "ok"}
  /\ seen' = NoList /\ queue' = <<>> /\ watching' = TRUE /\ op' = Idle /\ job' = NoJob
  /\ Fault(IF op = Idle THEN {} ELSE {"crash"})
  /\ LET up == {n \in Node : key[n] = "ok" /\ pc[n] = "serve"} IN
       /\ mounted' = mounted \union {d \in up \X Container : host[d[2]] = d[1] /\ disk[d] # "none"}
       /\ lost' = {c \in lost : host[c] \notin up}
  /\ UNCHANGED <<key, ttl, allnodes, pc, beating, host, disk, image_vars>>

-----------------------------------------------------------------------------
(* Containers and their data.                                              *)

Begin(do, i, at, j) == op = Idle /\ op' = [do |-> do, i |-> i, at |-> at] /\ job' = j
End == op' = Idle /\ job' = NoJob
Quiet == UNCHANGED <<member_vars, node_vars>>

\* A container is made from the base, or from a private image whose file is there.
CreateEnter(c, n, i) ==
  /\ host[c] = NoNode /\ n \in run /\ (i = Tmp \/ file[i] # "none")
  /\ Begin("create", i, "build", [c |-> c, old |-> NoNode, new |-> n])
  /\ Quiet /\ UNCHANGED <<disk_vars, image_vars, mishap, used>>

SaveEnter(c, i) ==
  /\ host[c] \in run /\ Requested
  /\ Begin("save", i, "tar", [c |-> c, old |-> host[c], new |-> NoNode])
  /\ Quiet /\ UNCHANGED <<disk_vars, image_vars, mishap>>

MigrateEnter(c, n) ==
  /\ host[c] \in run \ {n} /\ Requested
  /\ Begin("migrate", Tmp, "tar", [c |-> c, old |-> host[c], new |-> n])
  /\ Quiet /\ UNCHANGED <<disk_vars, image_vars, mishap>>

DeleteEnter(c) ==
  /\ host[c] \in run /\ Requested
  /\ Begin("delete", Tmp, "drop", [c |-> c, old |-> host[c], new |-> NoNode])
  /\ Quiet /\ UNCHANGED <<disk_vars, image_vars, mishap>>

\* A worker that does not serve: the call raises, and the handler ends there.
Raises ==
  /\ \/ op.at = "tar" /\ pc[job.old] # "serve"
     \/ op.at = "drop" /\ pc[job.old] # "serve"
     \/ op.at = "build" /\ Reach(job.new) = "raise"
  /\ End /\ Quiet /\ UNCHANGED <<disk_vars, image_vars, mishap, used>>

\* What is under the mount point of a container.
Visible(n, c) ==
  CASE disk[n, c] = "none" -> "none"
    [] disk[n, c] # "none" /\ <<n, c>> \in mounted -> disk[n, c]
    [] OTHER -> "empty"

\* createImage archives it; when tar fails it goes on all the same.
Tar ==
  LET found == Visible(job.old, job.c) IN
  /\ op.at = "tar" /\ pc[job.old] = "serve" /\ To("info")
  /\ \/ found # "none" /\ file' = [file EXCEPT ![op.i] = found] /\ UNCHANGED <<mishap, used>>
     \/ /\ found # "none" /\ Fault({"tar"})
        /\ \E left \in {file[op.i], "empty"} : file' = [file EXCEPT ![op.i] = left]
     \/ found = "none" /\ Blame({"tar"}) /\ UNCHANGED <<file, used>>
  /\ Quiet /\ UNCHANGED <<disk_vars, shown, pub, coming, job>>

\* and writes its row.
Info ==
  /\ op.at = "info" /\ UpdateInfo(op.i)
  /\ IF op.do = "migrate" THEN To("build") /\ UNCHANGED job ELSE End
  /\ Quiet /\ UNCHANGED <<disk_vars, file, pub, coming, used>>

Source == IF op.do = "create" /\ op.i = Tmp THEN "data" ELSE file[op.i]
Refused_mutant == IF op.do = "migrate" THEN To("commit") /\ UNCHANGED job ELSE End
Refused == IF op.do = "migrate" THEN To("untmp") /\ UNCHANGED job ELSE End

\* A volume as it is after new_volume, mkfs, mount and tar.
Volume(d, content) ==
  /\ disk' = [disk EXCEPT ![d] = content]
  /\ mounted' = IF content = "none" THEN mounted \ {d} ELSE mounted \union {d}

\* prepareFS: there may be no space; errors after that are logged and no more.
PrepareFS(d) ==
  \/ Volume(d, IF Source = "data" THEN "data" ELSE "empty") /\ UNCHANGED <<mishap, used>>
  \/ Volume(d, "empty") /\ Fault({"untar"})
NoSpace(d) == Volume(d, "none") /\ Fault({})

\* create_container may also fail when the volume is there, which stays.
Build ==
  LET d == <<job.new, job.c>> IN
  /\ op.at = "build"
  /\ \/ Reach(job.new) = "absent" /\ Refused /\ UNCHANGED <<disk, mounted, mishap, used>>
     \/ Reach(job.new) = "ok" /\ NoSpace(d) /\ Refused
     \/ Reach(job.new) = "ok" /\ PrepareFS(d) /\ To("commit") /\ UNCHANGED job
     \/ Reach(job.new) = "ok" /\ Volume(d, "empty") /\ Fault({}) /\ Refused
  /\ Quiet /\ UNCHANGED <<host, image_vars>>

\* The row gets its host; the old one still has its copy.
Commit ==
  /\ op.at = "commit" /\ host' = [host EXCEPT ![job.c] = job.new] /\ lost' = lost \ {job.c}
  /\ IF op.do = "create" THEN End ELSE To("drop") /\ UNCHANGED job
  /\ UNCHANGED <<member_vars, pc, beating, disk, mounted, image_vars, mishap, used>>

Dropped(n, c) ==
  /\ disk' = [disk EXCEPT ![<<n, c>>] = "none"] /\ mounted' = mounted \ {<<n, c>>}

\* The commit of a migration fails: the new copy is deleted, or the call raises.
CommitFails ==
  /\ op.at = "commit" /\ op.do = "migrate" /\ Fault({})
  /\ \/ pc[job.new] = "serve" /\ Dropped(job.new, job.c) /\ (End \/ (To("untmp") /\ UNCHANGED job))
     \/ pc[job.new] # "serve" /\ End /\ UNCHANGED <<disk, mounted>>
  /\ Quiet /\ UNCHANGED <<host, image_vars>>

\* deleteFS on the host, or on the one the container has left. The container is
\* then billed, which raises when the database or the user service fails it.
Drop ==
  /\ op.at = "drop" /\ pc[job.old] = "serve" /\ Dropped(job.old, job.c)
  /\ \/ To(IF op.do = "migrate" THEN "untmp" ELSE "forget") /\ UNCHANGED <<job, mishap, used>>
     \/ Fault(Deleted) /\ End
  /\ Quiet /\ UNCHANGED <<host, image_vars>>

DeleteCommit ==
  /\ op.at = "forget" /\ host' = [host EXCEPT ![job.c] = NoNode] /\ End
  /\ lost' = lost \ {job.c}
  /\ UNCHANGED <<member_vars, pc, beating, disk, mounted, image_vars, mishap, used>>

\* The image of a migration is removed.
Untmp ==
  /\ op.at = "untmp" /\ shown' = Without(Tmp, "private") /\ To("rm") /\ job' = NoJob
  /\ Quiet /\ UNCHANGED <<disk_vars, file, pub, coming, mishap, used>>

-----------------------------------------------------------------------------

NodeStep(n) ==
  \/ WorkerStart(n) \/ ChooseMode(n) \/ Wipe(n) \/ Announce(n) \/ Heartbeat(n)
  \/ HeartbeatDies(n) \/ Expire(n) \/ Killed(n) \/ HostRestarts(n)

MasterStep == Poll \/ PollApply \/ WatchDies \/ RecoverNode \/ MasterRestart

Request(c) ==
  \/ DeleteEnter(c)
  \/ \E n \in Node : MigrateEnter(c, n) \/ \E i \in AnyImage : CreateEnter(c, n, i)
  \/ \E i \in Image : SaveEnter(c, i)

OperationStep ==
  \/ Raises \/ Tar \/ Info \/ Build \/ Commit \/ CommitFails \/ Drop \/ DeleteCommit \/ Untmp
  \/ ImageStep /\ Quiet /\ UNCHANGED <<disk_vars, job>>

Next ==
  \/ \E n \in Node : NodeStep(n)
  \/ MasterStep
  \/ \E c \in Container : Request(c)
  \/ OperationStep

Spec == Init /\ [][Next]_vars

-----------------------------------------------------------------------------

Unless(causes, P) == causes \cap mishap # {} \/ P

\* The list of images tells the truth when nothing is done to an image: what is
\* listed has a row that says so, and the row of an image that is not listed does
\* not mark it (listimages, and the handlers of /image/).
ImageTold ==
  Unless({"copy", "again", "crossed", "scp", "tar", "died", "crash"},
    \A i \in AnyImage \ coming :
      (op = Idle \/ op.i # i) =>
        /\ ListImages(i).private <=> "private" \in shown[i]
        /\ ListImages(i).public <=> ListImages(i).isshared)

\* The containers of a host that was restarted are recovered: while they are not,
\* and the host serves, the master is on its way to it (_watchnewnode).
RejoinSeen ==
  Unless({"unseen", "lapsed", "etcd"},
    \A c \in lost : LET n == host[c] IN pc[n] = "serve" =>
      key[n] = "work" \/ seen[n] = "work" \/ n \in {queue[i] : i \in DOMAIN queue})

\* A container of the database has its data on its host, through migrations,
\* deaths of workers and their restarts in the mode "new", which wipes a node.
\* A deletion that deletes the data and then raises keeps the row ("deleted").
DataKept ==
  Unless({"tar", "untar", "group", "mount", "between", "etcd", "deleted", "crash"},
    \A c \in Container :
      host[c] = NoNode \/ disk[host[c], c] = "data" \/ (op.at \in {"forget"} /\ job.c = c))
=============================================================================
