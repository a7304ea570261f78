----------------------------- MODULE WorkerProofs -----------------------------
(***************************************************************************)
(* Proofs about Worker.tla, for any nodes, containers, images and bounds:  *)
(* RejoinSeen, DataKept and ImageTold.                                     *)
(*                                                                         *)
(* Jobs is what an operation knows of its container in each phase. That a  *)
(* node's data is not wiped rests on Recorded: a node that has a           *)
(* container, or whose key is kept, is in allnodes, so that it starts in   *)
(* the mode "recovery". Data follows the data from the volume to the       *)
(* image and on to the new volume, Rejoins a node from its announcement to *)
(* the recovery queue, and Listed each image through the two steps of what *)
(* changes it. Each holds unless mishap names a fault that breaks it:      *)
(* these are Enrolled, Stored, Missed and Told.                            *)
(***************************************************************************)
EXTENDS Worker, FiniteSetTheorems, TLAPS

Dos == {"none", "share", "unshare", "remove", "create", "save", "migrate", "delete"}
Ats == {"none", "copy", "rm", "tar", "info", "build", "commit", "drop", "untmp", "forget"}

PhasesOf(do) ==
  CASE do = "none" -> {"none"}
    [] do = "share" -> {"copy"}
    [] do \in {"unshare", "remove"} -> {"rm"}
    [] do = "create" -> {"build", "commit"}
    [] do = "save" -> {"tar", "info"}
    [] do = "migrate" -> {"tar", "info", "build", "commit", "drop", "untmp", "rm"}
    [] do = "delete" -> {"drop", "forget"}

Shapes ==
  /\ key \in [Node -> {"none", "waiting", "work", "ok"}]
  /\ ttl \subseteq Node /\ allnodes \subseteq Node /\ known \subseteq Node /\ run \subseteq Node
  /\ seen \in [Node -> {"unread", "none", "work", "ok"}]
  /\ seen = NoList \/ \A n \in Node : seen[n] # "unread"
  /\ queue \in Seq(Node)
  /\ pc \in [Node -> {"down", "mode", "wipe", "ready", "serve"}]
  /\ lost \subseteq Container
  /\ host \in [Container -> Node \union {NoNode}]
  /\ disk \in [Node \X Container -> {"none", "empty", "data"}]
  /\ mounted \subseteq Node \X Container
  /\ shown \in [AnyImage -> SUBSET {"private", "public"}]
  /\ file \in [AnyImage -> {"none", "empty", "data"}]
  /\ pub \in [AnyImage -> {"none", "empty", "data"}]
  /\ coming \subseteq Image

\* The operation, and what it knows of its container.
Jobs ==
  /\ op \in [do: Dos, i: AnyImage, at: Ats] /\ op.at \in PhasesOf(op.do)
  /\ op.do = "none" => op = Idle
  /\ op.do \in {"migrate", "delete"} => op.i = Tmp
  /\ op.do \in {"share", "unshare", "remove", "save"} => op.i \in Image
  /\ op.do = "create" => job.c \in Container /\ job.new \in Node /\ host[job.c] = NoNode
  /\ op.do \in {"save", "delete"} => job.c \in Container /\ job.old \in Node /\ host[job.c] = job.old
  /\ op.do = "migrate" /\ op.at \in {"tar", "info", "build", "commit"} =>
       job.c \in Container /\ job.old \in Node /\ host[job.c] = job.old /\ job.new \in Node \ {job.old}
  /\ op.do = "migrate" /\ op.at = "drop" =>
       job.c \in Container /\ job.old \in Node /\ host[job.c] = job.new /\ job.new \in Node \ {job.old}

\* A node that has a container, or whose key is kept, has been recorded.
Present(n) ==
  \/ key[n] = "ok" \/ seen[n] = "ok" \/ n \in ttl
  \/ key[n] = "none" /\ pc[n] # "down"
  \/ HostsOf(n) # {}
  \/ op.at = "commit" /\ job.new = n
Recorded ==
  /\ known = allnodes /\ run \subseteq allnodes
  /\ \A n \in Node : Present(n) => n \in allnodes
  /\ \A n \in Node : pc[n] = "wipe" => HostsOf(n) = {} /\ ~(op.at = "commit" /\ job.new = n)
Enrolled == Unless({"etcd"}, Recorded)

\* Where the data is: on the host, mounted while the worker serves, and in the
\* image and the new volume of an operation.
Safe(c) == host[c] # NoNode /\ ~(op.at = "forget" /\ job.c = c) =>
             /\ disk[<<host[c], c>>] = "data"
             /\ pc[host[c]] \in {"ready", "serve"} => <<host[c], c>> \in mounted
Made == op.at = "commit" => disk[<<job.new, job.c>>] = "data" /\ <<job.new, job.c>> \in mounted
Filed ==
  /\ \A i \in AnyImage : file[i] # "empty"
  /\ op.do = "migrate" /\ op.at \in {"info", "build"} => file[Tmp] = "data"
  /\ op.do = "create" /\ op.at = "build" /\ op.i # Tmp => file[op.i] = "data"
Data == (\A c \in Container : Safe(c)) /\ Made /\ Filed
Stored == Unless({"tar", "untar", "group", "mount", "between", "etcd", "deleted", "crash"}, Data)

\* The recovery of a node that is back: to be noticed, or in the queue.
Unnoticed(n) == n \notin run /\ seen[n] # "ok" /\ (key[n] = "work" \/ seen[n] = "work")
Queued(n) == n \in run /\ seen[n] # "none" /\ \E j \in DOMAIN queue : queue[j] = n
Rejoins ==
  /\ \A n \in Node : /\ pc[n] \in {"mode", "wipe", "ready"} => n \notin ttl
                     /\ pc[n] = "serve" => key[n] \in {"work", "ok"}
  /\ \A c \in lost : host[c] \in Node /\ (pc[host[c]] = "serve" => Unnoticed(host[c]) \/ Queued(host[c]))
Missed == Unless({"unseen", "lapsed", "etcd"}, Rejoins)

\* An image that nothing is done to has its file if, and only if, its row says so.
Busy(i, dos) == op.i = i /\ op.do \in dos
Public(i) ==
  /\ Busy(i, {"share"}) => "public" \in shown[i]
  /\ Busy(i, {"unshare"}) => "public" \notin shown[i]
  /\ ~Busy(i, {"share", "unshare"}) => (pub[i] # "none" <=> "public" \in shown[i])
Removing(i) == Busy(i, {"remove", "migrate"}) /\ op.at = "rm"
Writing(i) == Busy(i, {"save", "migrate"}) /\ op.at = "info"
Private(i) ==
  /\ i \in coming \/ Writing(i) => file[i] # "none"
  /\ Removing(i) => "private" \notin shown[i] /\ i \notin coming
  /\ i \notin coming /\ ~Writing(i) /\ ~Removing(i) => (file[i] # "none" <=> "private" \in shown[i])
Listed == \A i \in AnyImage : Public(i) /\ Private(i)
Told == Unless({"copy", "again", "crossed", "scp", "tar", "died", "crash"}, Listed)

-----------------------------------------------------------------------------
(* The shape of the state.                                                 *)

LEMMA Named == NoNode \notin Node /\ Tmp \notin Image /\ Tmp \in AnyImage /\ Image \subseteq AnyImage
BY WorkerAssumption, ImagesAssumption DEF AnyImage

\* The nodes that PollApply has recovered are in the order's range.
LEMMA OrderIs ==
  ASSUME NEW s \in Orders(ToRecover)
  PROVE  s \in Seq(Node) /\ \A n \in ToRecover : \E j \in DOMAIN s : s[j] = n
<1>1. ToRecover \subseteq Node
  BY DEF ToRecover, Joining
<1>2. Cardinality(ToRecover) \in Nat
  <2>1. IsFiniteSet(ToRecover)
    BY <1>1, WorkerAssumption, FS_Subset
  <2> QED BY <2>1, FS_CardinalityType
<1> DEFINE k == Cardinality(ToRecover)
<1>3. s \in [1..k -> ToRecover] /\ \A n \in ToRecover : \E j \in DOMAIN s : s[j] = n
  BY DEF Orders
<1> HIDE DEF k
<1>4. k \in Nat
  BY <1>2 DEF k
<1> QED BY <1>1, <1>3, <1>4

LEMMA ShapesNode ==
  ASSUME Shapes, NEW n \in Node, NodeStep(n)
  PROVE  Shapes'
<1>1. CASE WorkerStart(n)
  BY <1>1 DEF WorkerStart, Shapes, disk_vars, image_vars
<1>2. CASE ChooseMode(n)
  <2>1. UNCHANGED <<key, ttl, allnodes, known, run, seen, queue, lost, host, image_vars>>
    BY <1>2 DEF ChooseMode, member_vars
  <2>2. pc' \in [Node -> {"down", "mode", "wipe", "ready", "serve"}]
    BY <1>2 DEF ChooseMode, InitRecovery, InitNew, Shapes
  <2>3. disk' \in [Node \X Container -> {"none", "empty", "data"}] /\ mounted' \subseteq Node \X Container
    <3>1. CASE EmptyGroup(n)
      BY <3>1 DEF EmptyGroup, Shapes
    <3>2. CASE CheckAll(n)
      <4>1. /\ disk' = disk /\ Both(n) \subseteq Container
            /\ mounted' = mounted \/ mounted' = mounted \union ({n} \X Both(n))
        BY <3>2 DEF CheckAll, Both, HostsOf
      <4> QED BY <4>1 DEF Shapes
    <3>3. CASE UNCHANGED <<disk, mounted>>
      BY <3>3 DEF Shapes
    <3> QED BY <1>2, <3>1, <3>2, <3>3 DEF ChooseMode, InitRecovery
  <2> QED BY <2>1, <2>2, <2>3 DEF Shapes, image_vars
<1>3. CASE Wipe(n)
  BY <1>3 DEF Wipe, EmptyGroup, Shapes, member_vars, image_vars
<1>4. CASE Announce(n)
  BY <1>4 DEF Announce, Shapes, disk_vars, image_vars
<1>5. CASE Heartbeat(n) \/ Expire(n)
  BY <1>5 DEF Heartbeat, Expire, Shapes, node_vars, disk_vars, image_vars
<1>6. CASE HeartbeatDies(n)
  BY <1>6 DEF HeartbeatDies, Shapes, member_vars, disk_vars, image_vars
<1>7. CASE Killed(n)
  <2>1. disk' \in [Node \X Container -> {"none", "empty", "data"}] /\ mounted' \subseteq Node \X Container
    BY <1>7 DEF Killed, Erase, Shapes
  <2> QED BY <1>7, <2>1 DEF Killed, Die, Shapes, member_vars, image_vars
<1>8. CASE HostRestarts(n)
  <2>1. disk' \in [Node \X Container -> {"none", "empty", "data"}] /\ mounted' \subseteq Node \X Container
    BY <1>8 DEF HostRestarts, Erase, Shapes
  <2> QED BY <1>8, <2>1 DEF HostRestarts, Die, HostsOf, Shapes, member_vars, image_vars
<1> QED BY <1>1, <1>2, <1>3, <1>4, <1>5, <1>6, <1>7, <1>8 DEF NodeStep

LEMMA ShapesMaster ==
  ASSUME Shapes, MasterStep
  PROVE  Shapes'
<1>1. CASE Poll
  BY <1>1 DEF Poll, Shapes, node_vars, disk_vars, image_vars
<1>2. CASE PollApply
  <2>1. \E s \in Orders(ToRecover) : queue' = queue \o s
    BY <1>2 DEF PollApply
  <2>2. queue' \in Seq(Node)
    BY <2>1, OrderIs DEF Shapes
  <2>3. /\ key' \in [Node -> {"none", "waiting", "work", "ok"}]
        /\ seen' = NoList /\ seen' \in [Node -> {"unread", "none", "work", "ok"}]
    BY <1>2 DEF PollApply, Shapes, NoList
  <2>4. ttl' \subseteq Node /\ allnodes' \subseteq Node /\ known' \subseteq Node /\ run' \subseteq Node
    BY <1>2 DEF PollApply, Shapes, Joining
  <2>5. UNCHANGED <<node_vars, disk_vars, image_vars>>
    BY <1>2 DEF PollApply
  <2> QED BY <2>2, <2>3, <2>4, <2>5 DEF Shapes, node_vars, disk_vars, image_vars
<1>3. CASE WatchDies
  BY <1>3 DEF WatchDies, Shapes, node_vars, disk_vars, image_vars
<1>4. CASE RecoverNode
  <2>1. queue' \in Seq(Node)
    BY <1>4 DEF RecoverNode, Shapes
  <2>2. mounted' \subseteq Node \X Container /\ lost' \subseteq Container
    BY <1>4 DEF RecoverNode, Recovered, Shapes
  <2> QED BY <1>4, <2>1, <2>2 DEF RecoverNode, Shapes, image_vars
<1>5. CASE MasterRestart
  <2>1. mounted' \subseteq Node \X Container /\ lost' \subseteq Container
    BY <1>5 DEF MasterRestart, Shapes
  <2>2. seen' = NoList /\ seen' \in [Node -> {"unread", "none", "work", "ok"}] /\ queue' \in Seq(Node)
    BY <1>5 DEF MasterRestart, NoList
  <2> QED BY <1>5, <2>1, <2>2 DEF MasterRestart, Shapes, image_vars
<1> QED BY <1>1, <1>2, <1>3, <1>4, <1>5 DEF MasterStep

\* A volume is made with one of the contents there are, or not at all.
Contents == {"none", "empty", "data"}
Volumes(d) == \E content \in Contents : Volume(d, content)

LEMMA BuildIs ==
  ASSUME Shapes, Jobs, Build
  PROVE  /\ op.at = "build" /\ op.do \in {"create", "migrate"} /\ job.c \in Container /\ job.new \in Node
         /\ Quiet /\ UNCHANGED <<host, image_vars>>
         /\ \/ UNCHANGED <<disk, mounted>> /\ Refused
            \/ Volumes(<<job.new, job.c>>) /\ Refused
            \/ /\ Reach(job.new) = "ok" /\ PrepareFS(<<job.new, job.c>>) /\ To("commit") /\ job' = job
               /\ Volumes(<<job.new, job.c>>)
<1>1. op.at = "build" /\ op.do \in {"create", "migrate"}
  BY DEF Build, Jobs, PhasesOf, Dos
<1>2. job.c \in Container /\ job.new \in Node
  BY <1>1 DEF Jobs
<1>3. Quiet /\ UNCHANGED <<host, image_vars>>
  BY DEF Build
<1>4. ASSUME NEW d, NoSpace(d) \/ PrepareFS(d) \/ Volume(d, "empty") PROVE Volumes(d)
  BY <1>4 DEF NoSpace, PrepareFS, Volumes, Contents
<1> QED BY <1>1, <1>2, <1>3, <1>4 DEF Build

LEMMA VolumesType ==
  ASSUME Shapes, NEW n \in Node, NEW c \in Container, Volumes(<<n, c>>)
  PROVE  /\ disk' \in [Node \X Container -> {"none", "empty", "data"}]
         /\ mounted' \subseteq Node \X Container
BY DEF Volumes, Volume, Shapes, Contents

LEMMA ShapesRest ==
  ASSUME Shapes, Jobs, OperationStep \/ \E c \in Container : Request(c)
  PROVE  Shapes'
<1>1. ASSUME Quiet, UNCHANGED <<disk_vars, image_vars>> PROVE Shapes'
  BY <1>1 DEF Quiet, member_vars, node_vars, disk_vars, image_vars, Shapes
<1>2. CASE \E c \in Container : Request(c)
  BY <1>1, <1>2 DEF Request, DeleteEnter, MigrateEnter, CreateEnter, SaveEnter
<1>3. CASE Raises
  BY <1>1, <1>3 DEF Raises
<1>4. ASSUME Quiet, UNCHANGED disk_vars, shown' \in [AnyImage -> SUBSET {"private", "public"}],
             file' \in [AnyImage -> {"none", "empty", "data"}], pub' \in [AnyImage -> {"none", "empty", "data"}],
             coming' \subseteq Image
      PROVE  Shapes'
  BY <1>4 DEF Quiet, member_vars, node_vars, disk_vars, Shapes
<1>5. op.i \in AnyImage
  BY DEF Jobs
<1>6. CASE Tar
  <2>1. Visible(job.old, job.c) \in {"none", "empty", "data"}
    <3>1. op.do \in {"save", "migrate"}
      BY <1>6 DEF Tar, Jobs, PhasesOf, Dos
    <3>2. job.c \in Container /\ job.old \in Node
      BY <1>6, <3>1 DEF Tar, Jobs
    <3> QED BY <3>2 DEF Visible, Shapes
  <2>2. \E v \in {"none", "empty", "data"} : file' = [file EXCEPT ![op.i] = v] \/ file' = file
    BY <1>5, <1>6, <2>1 DEF Tar, Shapes
  <2>3. file' \in [AnyImage -> {"none", "empty", "data"}]
    BY <2>2 DEF Shapes
  <2> QED BY <1>4, <1>6, <2>3 DEF Tar, Shapes
<1>7. CASE Info
  <2>1. shown' \in [AnyImage -> SUBSET {"private", "public"}]
    BY <1>7 DEF Info, UpdateInfo, Shapes
  <2> QED BY <1>4, <1>7, <2>1 DEF Info, Shapes
<1>8. ASSUME Quiet, host' = host, UNCHANGED image_vars,
             disk' \in [Node \X Container -> {"none", "empty", "data"}], mounted' \subseteq Node \X Container
      PROVE  Shapes'
  BY <1>8 DEF Quiet, member_vars, node_vars, image_vars, Shapes
<1>9. CASE Build
  <2>1. disk' \in [Node \X Container -> {"none", "empty", "data"}] /\ mounted' \subseteq Node \X Container
    BY <1>9, BuildIs, VolumesType DEF Shapes
  <2> QED BY <1>8, <1>9, <2>1, BuildIs
<1>10. CASE Commit
  <2>1. job.new \in Node
    BY <1>10 DEF Commit, Jobs, PhasesOf, Dos
  <2>2. host' \in [Container -> Node \union {NoNode}] /\ lost' \subseteq Container
    BY <1>10, <2>1 DEF Commit, Shapes
  <2> QED BY <1>10, <2>2 DEF Commit, member_vars, image_vars, Shapes
<1>11. ASSUME NEW n, NEW c, Dropped(n, c)
       PROVE  disk' \in [Node \X Container -> {"none", "empty", "data"}] /\ mounted' \subseteq Node \X Container
  BY <1>11 DEF Dropped, Shapes
<1>12. CASE CommitFails
  BY <1>8, <1>11, <1>12 DEF CommitFails, Shapes
<1>13. CASE Drop
  BY <1>8, <1>11, <1>13 DEF Drop
<1>14. CASE DeleteCommit
  <2>1. host' \in [Container -> Node \union {NoNode}] /\ lost' \subseteq Container
    BY <1>14 DEF DeleteCommit, Shapes
  <2> QED BY <1>14, <2>1 DEF DeleteCommit, member_vars, image_vars, Shapes
<1>15. CASE Untmp
  <2>1. shown' \in [AnyImage -> SUBSET {"private", "public"}]
    BY <1>15 DEF Untmp, Without, Shapes
  <2> QED BY <1>4, <1>15, <2>1 DEF Untmp, Shapes
<1>16. CASE ImageStep /\ Quiet /\ UNCHANGED <<disk_vars, job>>
  <2>1. CASE ShareCopy \/ UnshareFile \/ RemoveFile
    <3>1. pub' \in [AnyImage -> {"none", "empty", "data"}]
      BY <1>5, <2>1 DEF ShareCopy, UnshareFile, RemoveFile, Shapes
    <3>2. file' \in [AnyImage -> {"none", "empty", "data"}]
      BY <2>1 DEF ShareCopy, UnshareFile, RemoveFile, Shapes
    <3> QED BY <1>4, <1>16, <2>1, <3>1, <3>2 DEF ShareCopy, UnshareFile, RemoveFile, Shapes
  <2>2. ASSUME NEW i \in Image, Share(i) \/ Unshare(i) \/ Remove(i) \/ Arrive(i) \/ Announced(i) PROVE Shapes'
    <3>1. shown' \in [AnyImage -> SUBSET {"private", "public"}]
      BY <2>2 DEF Share, Unshare, Remove, Arrive, Announced, UpdateInfo, Without, Shapes
    <3>2. file' \in [AnyImage -> {"none", "empty", "data"}] /\ pub' = pub /\ coming' \subseteq Image
      BY <2>2 DEF Share, Unshare, Remove, Arrive, Announced, Shapes
    <3> QED BY <1>4, <1>16, <3>1, <3>2 DEF Shapes
  <2> QED BY <1>16, <2>1, <2>2 DEF ImageStep
<1> QED BY <1>2, <1>3, <1>6, <1>7, <1>9, <1>10, <1>12, <1>13, <1>14, <1>15, <1>16 DEF OperationStep

-----------------------------------------------------------------------------
(* The operation and its container.                                        *)

LEMMA IdleIs == Idle \in [do: Dos, i: AnyImage, at: Ats] /\ Idle.do = "none" /\ Idle.i = Tmp /\ Idle.at = "none"
BY Named DEF Idle, Dos, Ats

\* The operation's record after a step: begun, or a phase on.
Is(do, i, at) == op' \in [do: Dos, i: AnyImage, at: Ats] /\ op'.do = do /\ op'.i = i /\ op'.at = at

LEMMA BeginIs ==
  ASSUME NEW do \in Dos, NEW i \in AnyImage, NEW at \in Ats, NEW j, Begin(do, i, at, j)
  PROVE  Is(do, i, at) /\ job' = j /\ op = Idle
BY DEF Begin, Is

LEMMA ToIs ==
  ASSUME Jobs, NEW at \in Ats, To(at)
  PROVE  Is(op.do, op.i, at)
<1>1. op' \in [do: Dos, i: AnyImage, at: Ats]
  BY DEF To, Jobs
<1> QED BY <1>1 DEF To, Jobs, Is

\* Each operation's steps: the phases, and how the operation's record goes on.
LEMMA StepIs ==
  ASSUME Jobs
  PROVE  /\ Raises => op.do \in {"save", "migrate", "delete", "create"} /\ op' = Idle
         /\ Tar => /\ op.do \in {"save", "migrate"} /\ op.at = "tar"
                   /\ Is(op.do, op.i, "info") /\ job' = job
         /\ Info => /\ op.do \in {"save", "migrate"} /\ op.at = "info"
                    /\ \/ op.do = "migrate" /\ Is("migrate", op.i, "build") /\ job' = job
                       \/ op.do = "save" /\ op' = Idle
         /\ Commit => /\ op.do \in {"create", "migrate"} /\ op.at = "commit"
                      /\ \/ op.do = "migrate" /\ Is("migrate", op.i, "drop") /\ job' = job
                         \/ op.do = "create" /\ op' = Idle
         /\ CommitFails => /\ op.do = "migrate" /\ op.at = "commit"
                           /\ op' = Idle \/ (Is("migrate", op.i, "untmp") /\ job' = job)
         /\ Drop => /\ op.do \in {"migrate", "delete"} /\ op.at = "drop"
                    /\ \/ op.do = "migrate" /\ Is("migrate", op.i, "untmp") /\ job' = job
                       \/ op.do = "delete" /\ Is("delete", op.i, "forget") /\ job' = job
                       \/ op' = Idle
         /\ DeleteCommit => op.do = "delete" /\ op.at = "forget" /\ op' = Idle
         /\ Untmp => op.do = "migrate" /\ op.at = "untmp" /\ Is("migrate", op.i, "rm")
         /\ Refused /\ op.at = "build" => \/ op.do = "migrate" /\ Is("migrate", op.i, "untmp") /\ job' = job
                                          \/ op.do # "migrate" /\ op' = Idle
<1>1. op.do \in Dos /\ op.at \in PhasesOf(op.do)
  BY DEF Jobs
<1>2. /\ op.at = "tar" => op.do \in {"save", "migrate"}
      /\ op.at = "info" => op.do \in {"save", "migrate"}
      /\ op.at \in {"build", "commit"} => op.do \in {"create", "migrate"}
      /\ op.at = "drop" => op.do \in {"migrate", "delete"}
      /\ op.at = "forget" => op.do = "delete"
      /\ op.at = "untmp" => op.do = "migrate"
  BY <1>1 DEF PhasesOf, Dos
<1>3. ASSUME NEW at \in {"info", "build", "commit", "drop", "untmp", "forget", "rm"}, To(at)
      PROVE  Is(op.do, op.i, at)
  BY <1>3, ToIs DEF Ats
<1>4. Raises => op.do \in {"save", "migrate", "delete", "create"} /\ op' = Idle
  BY <1>2 DEF Raises, End
<1>5. Tar => op.do \in {"save", "migrate"} /\ op.at = "tar" /\ Is(op.do, op.i, "info") /\ job' = job
  BY <1>2, <1>3 DEF Tar
<1>6. Info => /\ op.do \in {"save", "migrate"} /\ op.at = "info"
              /\ \/ op.do = "migrate" /\ Is("migrate", op.i, "build") /\ job' = job
                 \/ op.do = "save" /\ op' = Idle
  BY <1>2, <1>3 DEF Info, End
<1>7. Commit => /\ op.do \in {"create", "migrate"} /\ op.at = "commit"
                /\ \/ op.do = "migrate" /\ Is("migrate", op.i, "drop") /\ job' = job
                   \/ op.do = "create" /\ op' = Idle
  BY <1>2, <1>3 DEF Commit, End
<1>8. CommitFails => /\ op.do = "migrate" /\ op.at = "commit"
                     /\ op' = Idle \/ (Is("migrate", op.i, "untmp") /\ job' = job)
  BY <1>3 DEF CommitFails, End
<1>9. Drop => /\ op.do \in {"migrate", "delete"} /\ op.at = "drop"
              /\ \/ op.do = "migrate" /\ Is("migrate", op.i, "untmp") /\ job' = job
                 \/ op.do = "delete" /\ Is("delete", op.i, "forget") /\ job' = job
                 \/ op' = Idle
  BY <1>2, <1>3 DEF Drop, End
<1>10. DeleteCommit => op.do = "delete" /\ op.at = "forget" /\ op' = Idle
  BY <1>2 DEF DeleteCommit, End
<1>11. Untmp => op.do = "migrate" /\ op.at = "untmp" /\ Is("migrate", op.i, "rm")
  BY <1>2, <1>3 DEF Untmp
<1>12. Refused /\ op.at = "build" => \/ op.do = "migrate" /\ Is("migrate", op.i, "untmp") /\ job' = job
                                     \/ op.do # "migrate" /\ op' = Idle
  BY <1>3 DEF Refused, End
<1> QED BY <1>4, <1>5, <1>6, <1>7, <1>8, <1>9, <1>10, <1>11, <1>12

\* How a request begins.
LEMMA RequestIs ==
  ASSUME Shapes, NEW c \in Container, Request(c)
  PROVE  /\ op = Idle /\ Quiet /\ UNCHANGED <<disk_vars, image_vars>> /\ mishap' = mishap /\ job'.c = c
         /\ \/ \E i \in AnyImage : /\ Is("create", i, "build") /\ (i = Tmp \/ file[i] # "none")
                                   /\ job'.new \in Node /\ host[c] = NoNode
            \/ \E i \in Image : Is("save", i, "tar") /\ job'.old = host[c] /\ host[c] \in Node
            \/ /\ Is("migrate", Tmp, "tar") /\ job'.old = host[c] /\ host[c] \in Node
               /\ job'.new \in Node \ {host[c]}
            \/ Is("delete", Tmp, "drop") /\ job'.old = host[c] /\ host[c] \in Node
<1>1. \A at \in {"build", "tar", "drop"} : at \in Ats
  BY DEF Ats
<1>2. \A do \in {"create", "save", "migrate", "delete"} : do \in Dos
  BY DEF Dos
<1>3. ASSUME NEW n \in Node, NEW i \in AnyImage, CreateEnter(c, n, i)
      PROVE  /\ op = Idle /\ Quiet /\ UNCHANGED <<disk_vars, image_vars>> /\ mishap' = mishap /\ job'.c = c
             /\ Is("create", i, "build") /\ (i = Tmp \/ file[i] # "none") /\ job'.new = n /\ host[c] = NoNode
  BY <1>1, <1>2, <1>3, BeginIs DEF CreateEnter
<1>4. ASSUME NEW i \in Image, SaveEnter(c, i)
      PROVE  /\ op = Idle /\ Quiet /\ UNCHANGED <<disk_vars, image_vars>> /\ mishap' = mishap /\ job'.c = c
             /\ Is("save", i, "tar") /\ job'.old = host[c] /\ host[c] \in Node
  BY <1>1, <1>2, <1>4, BeginIs, Named DEF SaveEnter, Shapes
<1>5. ASSUME NEW n \in Node, MigrateEnter(c, n)
      PROVE  /\ op = Idle /\ Quiet /\ UNCHANGED <<disk_vars, image_vars>> /\ mishap' = mishap /\ job'.c = c
             /\ Is("migrate", Tmp, "tar") /\ job'.old = host[c] /\ host[c] \in Node /\ job'.new \in Node \ {host[c]}
  BY <1>1, <1>2, <1>5, BeginIs, Named DEF MigrateEnter, Shapes
<1>6. ASSUME DeleteEnter(c)
      PROVE  /\ op = Idle /\ Quiet /\ UNCHANGED <<disk_vars, image_vars>> /\ mishap' = mishap /\ job'.c = c
             /\ Is("delete", Tmp, "drop") /\ job'.old = host[c] /\ host[c] \in Node
  BY <1>1, <1>2, <1>6, BeginIs, Named DEF DeleteEnter, Shapes
<1> QED BY <1>3, <1>4, <1>5, <1>6 DEF Request

\* How an operation on images goes on.
LEMMA ImageIs ==
  ASSUME Jobs, ImageStep
  PROVE  \/ op' = op
         \/ op' = Idle /\ op.do \in {"share", "unshare", "remove", "migrate"}
         \/ op = Idle /\ \E i \in Image : \/ Is("share", i, "copy") \/ Is("unshare", i, "rm")
                                          \/ Is("remove", i, "rm")
<1>1. {"copy", "rm"} \subseteq Ats /\ {"share", "unshare", "remove"} \subseteq Dos /\ Image \subseteq AnyImage
  BY Named DEF Ats, Dos
<1>2. CASE ShareCopy \/ UnshareFile \/ RemoveFile
  BY <1>2 DEF ShareCopy, UnshareFile, RemoveFile
<1>3. ASSUME NEW i \in Image, Share(i) PROVE op = Idle /\ Is("share", i, "copy")
  BY <1>1, <1>3 DEF Share, Is
<1>4. ASSUME NEW i \in Image, Unshare(i) PROVE op = Idle /\ Is("unshare", i, "rm")
  BY <1>1, <1>4 DEF Unshare, Is
<1>5. ASSUME NEW i \in Image, Remove(i) PROVE op = Idle /\ Is("remove", i, "rm")
  BY <1>1, <1>5 DEF Remove, Is
<1>6. ASSUME NEW i \in Image, Arrive(i) \/ Announced(i) PROVE op' = op
  BY <1>6 DEF Arrive, Announced
<1> QED BY <1>2, <1>3, <1>4, <1>5, <1>6 DEF ImageStep

LEMMA JobsIdle ==
  ASSUME op' = Idle
  PROVE  Jobs'
BY IdleIs DEF Jobs, PhasesOf

LEMMA JobsSame ==
  ASSUME Jobs, op' = op, job' = job, host' = host
  PROVE  Jobs'
BY DEF Jobs

LEMMA JobsStep ==
  ASSUME Shapes, Jobs, [Next]_vars
  PROVE  Jobs'
<1>1. ASSUME NEW n \in Node, NodeStep(n) PROVE Jobs'
  <2>1. CASE WorkerStart(n) \/ Heartbeat(n) \/ Expire(n) \/ Announce(n)
    BY <2>1, JobsSame DEF WorkerStart, Heartbeat, Expire, Announce, disk_vars
  <2>2. CASE ChooseMode(n) \/ Wipe(n) \/ HeartbeatDies(n)
    BY <2>2, JobsSame DEF ChooseMode, Wipe, HeartbeatDies, disk_vars
  <2>3. CASE Killed(n) \/ HostRestarts(n)
    <3>1. host' = host /\ Die(n)
      BY <2>3 DEF Killed, HostRestarts, disk_vars
    <3>2. op' = Idle \/ (op' = op /\ job' = job)
      BY <3>1 DEF Die
    <3> QED BY <3>1, <3>2, JobsIdle, JobsSame
  <2> QED BY <1>1, <2>1, <2>2, <2>3 DEF NodeStep
<1>2. CASE MasterStep
  <2>1. CASE MasterRestart
    BY <2>1, JobsIdle DEF MasterRestart
  <2>2. CASE Poll \/ PollApply \/ WatchDies \/ RecoverNode
    BY <2>2, JobsSame DEF Poll, PollApply, WatchDies, RecoverNode, disk_vars
  <2> QED BY <1>2, <2>1, <2>2 DEF MasterStep
<1>3. ASSUME NEW c \in Container, Request(c) PROVE Jobs'
  <2>1. host' = host /\ job'.c = c
    BY <1>3, RequestIs DEF disk_vars
  <2>2. ASSUME NEW i \in AnyImage, Is("create", i, "build"), job'.new \in Node, host[c] = NoNode PROVE Jobs'
    BY <2>1, <2>2 DEF Is, Jobs, PhasesOf
  <2>3. ASSUME NEW i \in Image, Is("save", i, "tar"), job'.old = host[c], host[c] \in Node PROVE Jobs'
    BY <2>1, <2>3 DEF Is, Jobs, PhasesOf
  <2>4. ASSUME Is("migrate", Tmp, "tar"), job'.old = host[c], host[c] \in Node, job'.new \in Node \ {host[c]}
        PROVE  Jobs'
    BY <2>1, <2>4 DEF Is, Jobs, PhasesOf
  <2>5. ASSUME Is("delete", Tmp, "drop"), job'.old = host[c], host[c] \in Node PROVE Jobs'
    BY <2>1, <2>5 DEF Is, Jobs, PhasesOf
  <2> QED BY <1>3, <2>2, <2>3, <2>4, <2>5, RequestIs
<1>4. CASE OperationStep
  <2>1. ASSUME op.do = "migrate", NEW at \in {"info", "build"}, op.at \in {"tar", "info"}, Is("migrate", op.i, at),
               job' = job, host' = host
        PROVE  Jobs'
    BY <2>1 DEF Is, Jobs, PhasesOf
  <2>2. ASSUME op.do = "migrate", NEW at \in {"untmp", "rm"}, Is("migrate", op.i, at)
        PROVE  Jobs'
    BY <2>2 DEF Is, Jobs, PhasesOf
  <2>3. CASE Raises \/ DeleteCommit
    BY <2>3, StepIs, JobsIdle
  <2>4. CASE Tar
    <3>1. host' = host /\ op.at = "tar" /\ Is(op.do, op.i, "info") /\ job' = job
      BY <2>4, StepIs DEF Tar, disk_vars
    <3>2. CASE op.do = "migrate"
      BY <2>1, <3>1, <3>2
    <3>3. CASE op.do = "save"
      BY <3>1, <3>3 DEF Is, Jobs, PhasesOf
    <3> QED BY <2>4, <3>2, <3>3, StepIs
  <2>5. CASE Info
    <3>1. host' = host
      BY <2>5 DEF Info, disk_vars
    <3> QED BY <2>1, <2>5, <3>1, StepIs, JobsIdle
  <2>6. CASE Build
    <3>1. CASE Refused
      BY <2>2, <2>6, <3>1, BuildIs, StepIs, JobsIdle
    <3>2. CASE To("commit") /\ job' = job
      <4>1. Is(op.do, op.i, "commit") /\ host' = host /\ op.at = "build" /\ op.do \in {"create", "migrate"}
        BY <2>6, <3>2, BuildIs, ToIs DEF Ats
      <4> QED BY <3>2, <4>1 DEF Is, Jobs, PhasesOf
    <3> QED BY <2>6, <3>1, <3>2, BuildIs
  <2>7. CASE Commit
    <3>1. op.at = "commit" /\ host' = [host EXCEPT ![job.c] = job.new]
      BY <2>7 DEF Commit
    <3>2. CASE op.do = "migrate" /\ Is("migrate", op.i, "drop") /\ job' = job
      BY <3>1, <3>2 DEF Is, Jobs, PhasesOf, Shapes
    <3> QED BY <2>7, <3>2, StepIs, JobsIdle
  <2>8. CASE CommitFails \/ Untmp
    BY <2>2, <2>8, StepIs, JobsIdle
  <2>9. CASE Drop
    <3>1. host' = host
      BY <2>9 DEF Drop
    <3>2. CASE op.do = "delete" /\ Is("delete", op.i, "forget") /\ job' = job
      BY <3>1, <3>2 DEF Is, Jobs, PhasesOf
    <3>3. CASE op.do = "migrate" /\ Is("migrate", op.i, "untmp")
      BY <2>2, <3>3
    <3> QED BY <2>9, <3>1, <3>2, <3>3, StepIs, JobsIdle
  <2>10. CASE ImageStep /\ UNCHANGED <<disk_vars, job>>
    <3>1. host' = host /\ job' = job
      BY <2>10 DEF disk_vars
    <3>2. ASSUME NEW i \in Image, Is("share", i, "copy") \/ Is("unshare", i, "rm") \/ Is("remove", i, "rm") PROVE Jobs'
      BY <3>2 DEF Is, Jobs, PhasesOf
    <3> QED BY <2>10, <3>1, <3>2, ImageIs, JobsIdle, JobsSame
  <2> QED BY <1>4, <2>3, <2>4, <2>5, <2>6, <2>7, <2>8, <2>9, <2>10 DEF OperationStep
<1>5. CASE UNCHANGED vars
  BY <1>5, JobsSame DEF vars, disk_vars
<1> QED BY <1>1, <1>2, <1>3, <1>4, <1>5 DEF Next

LEMMA ShapesStep ==
  ASSUME Shapes, Jobs, [Next]_vars
  PROVE  Shapes'
<1>1. CASE UNCHANGED vars
  BY <1>1 DEF vars, member_vars, node_vars, disk_vars, image_vars, Shapes
<1> QED BY <1>1, ShapesNode, ShapesMaster, ShapesRest DEF Next

-----------------------------------------------------------------------------
(* A mishap stays named.                                                   *)

LEMMA MishapNode ==
  ASSUME NEW n \in Node, NodeStep(n)
  PROVE  mishap \subseteq mishap'
<1>1. CASE WorkerStart(n) \/ Wipe(n) \/ Announce(n) \/ Heartbeat(n)
  BY <1>1 DEF WorkerStart, Wipe, Announce, Heartbeat, Fault, Blame
<1>2. CASE ChooseMode(n)
  BY <1>2 DEF ChooseMode, InitRecovery, CheckAll, Fault, Blame
<1>3. CASE HeartbeatDies(n) \/ Expire(n)
  BY <1>3 DEF HeartbeatDies, Expire, Fault, Blame
<1>4. CASE Killed(n) \/ HostRestarts(n)
  BY <1>4 DEF Killed, HostRestarts, Fault, Blame
<1> QED BY <1>1, <1>2, <1>3, <1>4 DEF NodeStep

LEMMA MishapStep ==
  ASSUME Shapes, Jobs, [Next]_vars
  PROVE  mishap \subseteq mishap'
<1>1. CASE MasterStep
  <2>1. CASE PollApply
    BY <2>1 DEF PollApply, Fault, Blame
  <2>2. CASE Poll \/ WatchDies \/ RecoverNode \/ MasterRestart
    BY <2>2 DEF Poll, WatchDies, RecoverNode, MasterRestart, Fault, Blame
  <2> QED BY <1>1, <2>1, <2>2 DEF MasterStep
<1>2. ASSUME NEW c \in Container, Request(c) PROVE mishap \subseteq mishap'
  BY <1>2, RequestIs
<1>3. CASE Raises \/ Tar \/ Info
  BY <1>3 DEF Raises, Tar, Info, UpdateInfo, Fault, Blame
<1>4. CASE Build
  BY <1>4 DEF Build, NoSpace, PrepareFS, Fault, Blame
<1>5. CASE Commit \/ CommitFails \/ Drop \/ DeleteCommit \/ Untmp
  BY <1>5 DEF Commit, CommitFails, Drop, DeleteCommit, Untmp, Fault, Blame
<1>6. CASE ImageStep
  <2>1. CASE ShareCopy \/ UnshareFile \/ RemoveFile
    BY <2>1 DEF ShareCopy, UnshareFile, RemoveFile, Blame
  <2>2. ASSUME NEW i \in Image, Share(i) \/ Unshare(i) \/ Remove(i) \/ Arrive(i) \/ Announced(i)
        PROVE  mishap \subseteq mishap'
    BY <2>2 DEF Share, Unshare, Remove, Arrive, Announced, UpdateInfo, Blame
  <2> QED BY <1>6, <2>1, <2>2 DEF ImageStep
<1>7. CASE UNCHANGED vars
  BY <1>7 DEF vars
<1> QED BY <1>1, <1>2, <1>3, <1>4, <1>5, <1>6, <1>7, MishapNode DEF Next, OperationStep

-----------------------------------------------------------------------------
(* The nodes that are recorded.                                            *)

LEMMA ReachIs ==
  ASSUME NEW n, Reach(n) = "ok"
  PROVE  n \in run /\ pc[n] = "serve"
<1>1. CASE n \notin run
  BY <1>1 DEF Reach
<1>2. CASE n \in run /\ pc[n] # "serve"
  BY <1>2 DEF Reach
<1> QED BY <1>1, <1>2

\* Most steps of operations leave the nodes and the containers' hosts alone.
LEMMA OperationIs ==
  ASSUME Shapes, Jobs, OperationStep
  PROVE  \/ Commit
         \/ DeleteCommit
         \/ Quiet /\ host' = host /\ ((op' = op /\ job' = job) \/ op'.at # "commit")
         \/ /\ Quiet /\ host' = host /\ job' = job /\ op'.at = "commit"
            /\ job.new \in Node /\ Reach(job.new) = "ok"
<1>1. CASE Raises \/ Tar \/ Info \/ CommitFails \/ Drop \/ Untmp
  <2>1. Quiet /\ host' = host
    BY <1>1 DEF Raises, Tar, Info, CommitFails, Drop, Untmp, disk_vars
  <2>2. op'.at # "commit"
    BY <1>1, StepIs, IdleIs DEF Is
  <2> QED BY <2>1, <2>2
<1>2. CASE Build
  <2>1. CASE Refused
    <3>1. op'.at # "commit"
      BY <1>2, <2>1, BuildIs, StepIs, IdleIs DEF Is
    <3> QED BY <1>2, <3>1, BuildIs
  <2>2. CASE Reach(job.new) = "ok" /\ To("commit") /\ job' = job
    <3>1. op'.at = "commit"
      BY <2>2, ToIs DEF Ats, Is
    <3> QED BY <1>2, <2>2, <3>1, BuildIs
  <2> QED BY <1>2, <2>1, <2>2, BuildIs
<1>3. CASE ImageStep /\ Quiet /\ UNCHANGED <<disk_vars, job>>
  BY <1>3, ImageIs, IdleIs DEF disk_vars, Is
<1> QED BY <1>1, <1>2, <1>3 DEF OperationStep

LEMMA EnrolledSame ==
  ASSUME Shapes, Recorded, UNCHANGED <<member_vars, pc, host>>, (op' = op /\ job' = job) \/ op'.at # "commit"
  PROVE  Recorded'
BY DEF Recorded, Present, HostsOf, member_vars

LEMMA EnrolledNode ==
  ASSUME Shapes, Recorded, NEW n \in Node, NodeStep(n)
  PROVE  Recorded'
<1>1. ASSUME UNCHANGED <<known, allnodes, run, seen, host>>,
             NEW k \in {"none", "waiting", "work", "ok"}, key' = [key EXCEPT ![n] = k],
             NEW p \in {"down", "mode", "wipe", "ready", "serve"}, pc' = [pc EXCEPT ![n] = p],
             ttl' \subseteq ttl \union {n}, (op' = op /\ job' = job) \/ op'.at # "commit",
             Present(n)' => n \in allnodes,
             p = "wipe" => HostsOf(n) = {} /\ ~(op'.at = "commit" /\ job'.new = n)
      PROVE  Recorded'
  <2>1. \A m \in Node : HostsOf(m)' = HostsOf(m)
    BY <1>1 DEF HostsOf
  <2>2. \A m \in Node \ {n} : key'[m] = key[m] /\ pc'[m] = pc[m] /\ (m \in ttl' => m \in ttl)
    BY <1>1 DEF Shapes
  <2>3. \A m \in Node \ {n} : Present(m)' => Present(m)
    BY <1>1, <2>1, <2>2 DEF Present
  <2>4. pc'[n] = p
    BY <1>1 DEF Shapes
  <2>5. \A m \in Node : Present(m)' => m \in allnodes'
    BY <1>1, <2>3 DEF Recorded
  <2>6. \A m \in Node : pc'[m] = "wipe" => HostsOf(m)' = {} /\ ~(op'.at = "commit" /\ job'.new = m)
    BY <1>1, <2>1, <2>2, <2>4 DEF Recorded
  <2> QED BY <1>1, <2>5, <2>6 DEF Recorded
<1>2. key = [key EXCEPT ![n] = key[n]] /\ pc = [pc EXCEPT ![n] = pc[n]] /\ key[n] \in {"none", "waiting", "work", "ok"}
      /\ pc[n] \in {"down", "mode", "wipe", "ready", "serve"}
  BY DEF Shapes
<1>3. Present(n) => n \in allnodes
  BY DEF Recorded
<1>4. pc[n] = "wipe" => HostsOf(n) = {} /\ ~(op.at = "commit" /\ job.new = n)
  BY DEF Recorded
<1>5. CASE WorkerStart(n)
  <2>1. Present(n)' => Present(n)
    BY <1>5 DEF WorkerStart, Present, HostsOf, disk_vars, Shapes
  <2> QED BY <1>1, <1>2, <1>3, <1>5, <2>1 DEF WorkerStart, disk_vars
<1>6. CASE ChooseMode(n)
  <2>1. UNCHANGED <<key, ttl, known, allnodes, run, seen, host, op, job>> /\ pc[n] = "mode"
    BY <1>6 DEF ChooseMode, member_vars
  <2>2. \E p \in {"down", "wipe", "ready"} :
          pc' = [pc EXCEPT ![n] = p] /\ (p = "wipe" => HostsOf(n) = {} /\ n \notin allnodes)
    BY <1>6 DEF ChooseMode, InitRecovery, InitNew
  <2>3. Present(n)' => Present(n)
    BY <2>1, <2>2 DEF Present, HostsOf, Shapes
  <2>4. n \notin allnodes => ~(op.at = "commit" /\ job.new = n)
    BY <1>3 DEF Present
  <2> QED BY <1>1, <1>2, <1>3, <2>1, <2>2, <2>3, <2>4
<1>7. CASE Wipe(n) \/ HeartbeatDies(n)
  <2>1. UNCHANGED <<key, ttl, known, allnodes, run, seen, host, op, job>>
    BY <1>7 DEF Wipe, HeartbeatDies, member_vars, disk_vars
  <2>2. \E p \in {pc[n], "ready"} : pc' = [pc EXCEPT ![n] = p] /\ (p = pc[n] \/ pc[n] = "wipe")
    BY <1>2, <1>7 DEF Wipe, HeartbeatDies
  <2>3. Present(n)' => Present(n)
    BY <2>1, <2>2 DEF Present, HostsOf, Shapes
  <2> QED BY <1>1, <1>2, <1>3, <1>4, <2>1, <2>2, <2>3
<1>8. CASE Announce(n)
  <2>1. /\ UNCHANGED <<ttl, known, allnodes, run, seen, host, op, job>>
        /\ pc[n] = "ready" /\ pc' = [pc EXCEPT ![n] = "serve"]
    BY <1>8 DEF Announce, disk_vars
  <2>2. \E k \in {key[n], "work"} : key' = [key EXCEPT ![n] = k]
    BY <1>2, <1>8 DEF Announce
  <2>3. Present(n)' => Present(n)
    BY <2>1, <2>2 DEF Present, HostsOf, Shapes
  <2> QED BY <1>1, <1>2, <1>3, <2>1, <2>2, <2>3
<1>9. CASE Heartbeat(n)
  <2>1. Present(n)
    BY <1>9 DEF Heartbeat, Beats, Present
  <2> QED BY <1>1, <1>2, <1>3, <1>4, <1>9, <2>1 DEF Heartbeat, node_vars, disk_vars
<1>10. CASE Expire(n)
  <2>1. Present(n)
    BY <1>10 DEF Expire, Present
  <2> QED BY <1>1, <1>2, <1>3, <1>4, <1>10, <2>1 DEF Expire, node_vars, disk_vars
<1>11. CASE Killed(n) \/ HostRestarts(n)
  <2>1. UNCHANGED <<key, ttl, known, allnodes, run, seen, host>> /\ Die(n) /\ pc[n] # "down"
    BY <1>11 DEF Killed, HostRestarts, member_vars, disk_vars
  <2>2. (op' = op /\ job' = job) \/ op'.at # "commit"
    BY <2>1, IdleIs DEF Die
  <2>3. pc' = [pc EXCEPT ![n] = "down"]
    BY <2>1 DEF Die
  <2>4. Present(n)' => Present(n)
    BY <2>1, <2>2, <2>3 DEF Present, HostsOf, Shapes
  <2> QED BY <1>1, <1>2, <1>3, <2>1, <2>2, <2>3, <2>4
<1> QED BY <1>5, <1>6, <1>7, <1>8, <1>9, <1>10, <1>11 DEF NodeStep

LEMMA EnrolledMaster ==
  ASSUME Shapes, Recorded, MasterStep, "etcd" \notin mishap'
  PROVE  Recorded'
<1>1. CASE Poll
  <2>1. \A n \in Node : Present(n)' => Present(n)
    BY <1>1 DEF Poll, Present, HostsOf, node_vars, disk_vars, Shapes
  <2> QED BY <1>1, <2>1 DEF Poll, Recorded, HostsOf, node_vars, disk_vars
<1>2. CASE PollApply
  <2>1. allnodes' = allnodes \union (Joining \ known) /\ known' = known \union Joining
    BY <1>2 DEF PollApply, Fault, Blame
  <2>2. \A n \in Node : seen[n] = "work" => n \in allnodes'
    BY <2>1 DEF Joining, Recorded
  <2>3. \A n \in Node : seen[n] = "ok" => n \in allnodes
    BY DEF Present, Recorded
  <2>4. run' \subseteq allnodes'
    BY <1>2, <2>1, <2>2, <2>3 DEF PollApply
  <2>5. \A n \in Node : Present(n)' => Present(n) \/ seen[n] = "work"
    BY <1>2 DEF PollApply, Present, HostsOf, NoList, node_vars, disk_vars, Shapes
  <2>6. \A n \in Node : pc'[n] = pc[n] /\ HostsOf(n)' = HostsOf(n) /\ op' = op /\ job' = job
    BY <1>2 DEF PollApply, HostsOf, node_vars, disk_vars
  <2>7. known' = allnodes' /\ \A n \in Node : Present(n) => n \in allnodes'
    BY <2>1 DEF Recorded
  <2> QED BY <2>2, <2>4, <2>5, <2>6, <2>7 DEF Recorded
<1>3. CASE WatchDies
  BY <1>3 DEF WatchDies, Fault, Blame
<1>4. CASE RecoverNode
  <2>1. \A n \in Node : Present(n)' => Present(n)
    BY <1>4 DEF RecoverNode, Present, HostsOf
  <2> QED BY <1>4, <2>1 DEF RecoverNode, Recorded, HostsOf
<1>5. CASE MasterRestart
  <2>1. op'.at # "commit" /\ \A n \in Node : HostsOf(n)' = HostsOf(n)
    BY <1>5, IdleIs DEF MasterRestart, HostsOf
  <2>2. \A n \in Node : Present(n)' => Present(n)
    BY <1>5, <2>1 DEF MasterRestart, Present, NoList
  <2>3. \A n \in Node : key[n] = "ok" => n \in allnodes
    BY DEF Present, Recorded
  <2>4. known' = allnodes /\ allnodes' = allnodes /\ run' \subseteq allnodes
    BY <1>5, <2>3 DEF MasterRestart
  <2>5. \A n \in Node : pc'[n] = pc[n] /\ HostsOf(n)' = HostsOf(n)
    BY <1>5 DEF MasterRestart, HostsOf
  <2> QED BY <2>1, <2>2, <2>4, <2>5 DEF Recorded
<1> QED BY <1>1, <1>2, <1>3, <1>4, <1>5 DEF MasterStep

LEMMA EnrolledRest ==
  ASSUME Shapes, Jobs, Recorded, OperationStep \/ \E c \in Container : Request(c)
  PROVE  Recorded'
<1>1. ASSUME NEW c \in Container, Request(c) PROVE Recorded'
  <2>1. op'.at # "commit"
    BY <1>1, RequestIs DEF Is
  <2> QED BY <1>1, <2>1, RequestIs, EnrolledSame DEF Quiet, node_vars, disk_vars
<1>2. CASE Quiet /\ host' = host /\ ((op' = op /\ job' = job) \/ op'.at # "commit")
  BY <1>2, EnrolledSame DEF Quiet, node_vars
<1>3. CASE Quiet /\ host' = host /\ job' = job /\ op'.at = "commit" /\ job.new \in Node /\ Reach(job.new) = "ok"
  <2>1. job.new \in allnodes /\ pc[job.new] = "serve"
    BY <1>3, ReachIs DEF Recorded
  <2>2. \A n \in Node : Present(n)' => Present(n) \/ n = job.new
    BY <1>3 DEF Quiet, member_vars, node_vars, Present, HostsOf
  <2> QED BY <1>3, <2>1, <2>2 DEF Recorded, Quiet, member_vars, node_vars, HostsOf
<1>4. CASE Commit
  <2>1. /\ UNCHANGED <<member_vars, pc>> /\ host' = [host EXCEPT ![job.c] = job.new]
        /\ op.at = "commit" /\ op'.at # "commit"
    BY <1>4, StepIs, IdleIs DEF Commit, Is
  <2>2. \A n \in Node : HostsOf(n)' # {} => HostsOf(n) # {} \/ n = job.new
    BY <2>1 DEF HostsOf, Shapes
  <2>3. \A n \in Node : Present(n)' => Present(n)
    BY <2>1, <2>2 DEF Present, member_vars
  <2> QED BY <2>1, <2>2, <2>3 DEF Recorded, member_vars
<1>5. CASE DeleteCommit
  <2>1. UNCHANGED <<member_vars, pc>> /\ host' = [host EXCEPT ![job.c] = NoNode] /\ op'.at # "commit"
    BY <1>5, StepIs, IdleIs DEF DeleteCommit
  <2>2. \A n \in Node : HostsOf(n)' # {} => HostsOf(n) # {}
    BY <2>1, Named DEF HostsOf, Shapes
  <2>3. \A n \in Node : Present(n)' => Present(n)
    BY <2>1, <2>2 DEF Present, member_vars
  <2> QED BY <2>1, <2>2, <2>3 DEF Recorded, member_vars
<1> QED BY <1>1, <1>2, <1>3, <1>4, <1>5, OperationIs

LEMMA EnrolledStep ==
  ASSUME Shapes, Jobs, Enrolled, [Next]_vars
  PROVE  Enrolled'
<1> SUFFICES ASSUME "etcd" \notin mishap' PROVE Recorded'
  BY DEF Enrolled, Unless
<1>1. Recorded
  BY MishapStep DEF Enrolled, Unless
<1>2. CASE UNCHANGED vars
  BY <1>1, <1>2, EnrolledSame DEF vars, node_vars, disk_vars
<1> QED BY <1>1, <1>2, EnrolledNode, EnrolledMaster, EnrolledRest DEF Next

-----------------------------------------------------------------------------
(* The data of the containers.                                             *)

LEMMA FiledSame ==
  ASSUME Filed, file' = file, op' = op \/ op' = Idle
  PROVE  Filed'
BY IdleIs DEF Filed

LEMMA SafeSame ==
  ASSUME Shapes, Data, UNCHANGED <<host, disk>>, mounted \subseteq mounted',
         \A n \in Node : pc'[n] \in {"ready", "serve"} => pc[n] \in {"ready", "serve"},
         op'.at # "commit" \/ (op' = op /\ job' = job),
         op.at # "forget" \/ (op' = op /\ job' = job)
  PROVE  (\A c \in Container : Safe(c)') /\ Made'
<1>1. ASSUME NEW c \in Container PROVE Safe(c)'
  <2>1. host[c] # NoNode => host[c] \in Node
    BY DEF Shapes
  <2> QED BY <2>1 DEF Safe, Data
<1> QED BY <1>1 DEF Made, Data

\* A worker that dies may have deleted the copy a migration has left behind.
LEMMA DeathErases ==
  ASSUME Jobs, NEW n \in Node, Killed(n) \/ HostRestarts(n), "deleted" \notin mishap'
  PROVE  disk' = disk \/ (Dropping(n) /\ op.do = "migrate" /\ disk' = [disk EXCEPT ![<<n, job.c>>] = "none"])
<1>1. ASSUME NEW gone \in BOOLEAN, Erase(n, gone), DiesOf(n, gone) \subseteq mishap'
      PROVE  disk' = disk \/ (Dropping(n) /\ op.do = "migrate" /\ disk' = [disk EXCEPT ![<<n, job.c>>] = "none"])
  <2>1. CASE ~gone
    BY <1>1, <2>1 DEF Erase
  <2>2. CASE gone
    <3>1. Dropping(n) /\ disk' = [disk EXCEPT ![<<n, job.c>>] = "none"]
      BY <1>1, <2>2 DEF Erase
    <3>2. op.do # "delete"
      BY <1>1, <2>2 DEF DiesOf, Deleted
    <3>3. op.do \in {"migrate", "delete"}
      BY <3>1 DEF Jobs, PhasesOf, Dropping, Dos
    <3> QED BY <3>1, <3>2, <3>3
  <2> QED BY <2>1, <2>2
<1>2. CASE Killed(n)
  BY <1>1, <1>2 DEF Killed, Fault, Blame
<1>3. CASE HostRestarts(n)
  BY <1>1, <1>3 DEF HostRestarts, Fault, Blame
<1> QED BY <1>2, <1>3

LEMMA StoredNode ==
  ASSUME Shapes, Jobs, Recorded, Data, NEW n \in Node, NodeStep(n),
         {"mount", "group", "between", "deleted"} \cap mishap' = {}
  PROVE  Data'
<1>1. file' = file /\ (op' = op \/ op' = Idle)
  BY DEF NodeStep, WorkerStart, ChooseMode, Wipe, Announce, Heartbeat, HeartbeatDies, Expire, Killed, HostRestarts,
         Die, image_vars
<1>2. Filed'
  BY <1>1, FiledSame DEF Data
<1>3. CASE WorkerStart(n) \/ Announce(n) \/ Heartbeat(n) \/ HeartbeatDies(n) \/ Expire(n)
  <2>1. \A m \in Node : pc'[m] \in {"ready", "serve"} => pc[m] \in {"ready", "serve"}
    BY <1>3 DEF WorkerStart, Announce, Heartbeat, HeartbeatDies, Expire, node_vars, Shapes
  <2>2. UNCHANGED <<host, disk, mounted, op, job>>
    BY <1>3 DEF WorkerStart, Announce, Heartbeat, HeartbeatDies, Expire, disk_vars
  <2> QED BY <1>2, <2>1, <2>2, SafeSame DEF Data
<1>4. CASE ChooseMode(n)
  <2>1. UNCHANGED <<host, op, job>>
    BY <1>4 DEF ChooseMode
  <2>2. CASE n \notin allnodes
    <3>1. UNCHANGED <<disk, mounted>> /\ \A m \in Node : pc'[m] \in {"ready", "serve"} => pc[m] \in {"ready", "serve"}
      BY <1>4, <2>2 DEF ChooseMode, InitNew, Shapes
    <3> QED BY <1>2, <2>1, <3>1, SafeSame DEF Data
  <2>3. CASE n \in allnodes
    <3>1. /\ disk' = disk /\ mounted' = mounted \union ({n} \X Both(n))
          /\ \A m \in Node : m # n => pc'[m] = pc[m]
      BY <1>4, <2>3 DEF ChooseMode, InitRecovery, CheckAll, Fault, Blame, Shapes
    <3>2. ASSUME NEW c \in Container PROVE Safe(c)'
      <4>1. CASE host[c] = n
        BY <2>1, <3>1, <4>1 DEF Safe, Data, Both, HostsOf
      <4>2. CASE host[c] # n
        BY <2>1, <3>1, <4>2 DEF Safe, Data, Shapes
      <4> QED BY <4>1, <4>2
    <3>3. Made'
      BY <2>1, <3>1 DEF Made, Data
    <3> QED BY <1>2, <3>2, <3>3 DEF Data
  <2> QED BY <2>2, <2>3
<1>5. CASE Wipe(n)
  <2>1. /\ UNCHANGED <<host, op, job>> /\ EmptyGroup(n)
        /\ HostsOf(n) = {} /\ ~(op.at = "commit" /\ job.new = n)
        /\ \A m \in Node : m # n => pc'[m] = pc[m]
    BY <1>5 DEF Wipe, Recorded, Shapes
  <2>2. ASSUME NEW c \in Container PROVE Safe(c)'
    <3>1. host[c] # n
      BY <2>1 DEF HostsOf
    <3> QED BY <2>1, <3>1 DEF Safe, Data, EmptyGroup, Shapes
  <2>3. Made'
    BY <2>1 DEF Made, Data, EmptyGroup, Shapes
  <2> QED BY <1>2, <2>2, <2>3 DEF Data
<1>6. CASE Killed(n) \/ HostRestarts(n)
  <2>1. Die(n) /\ host' = host
    BY <1>6 DEF Killed, HostRestarts
  <2>2. pc'[n] = "down" /\ \A m \in Node : m # n => pc'[m] = pc[m]
    BY <2>1 DEF Die, Shapes
  <2>3. \/ op' = op /\ job' = job /\ ~Dropping(n)
        \/ op' = Idle /\ (Saving(n) \/ Dropping(n))
    BY <2>1 DEF Die
  <2>4. /\ \A d \in mounted : d[1] # n => d \in mounted'
        /\ Killed(n) /\ ~Dropping(n) => mounted' = mounted
    BY <1>6 DEF Killed, HostRestarts, Erase
  <2>5. disk' = disk \/ (Dropping(n) /\ op.do = "migrate" /\ disk' = [disk EXCEPT ![<<n, job.c>>] = "none"])
    BY <1>6, DeathErases
  <2>6. HostRestarts(n) => ~(op.at = "commit" /\ job.new = n)
    BY DEF HostRestarts, Fault, Blame
  <2>7. ASSUME NEW c \in Container PROVE Safe(c)'
    <3>1. ASSUME host[c] # NoNode, op'.at = "forget" => job'.c # c
          PROVE disk'[<<host[c], c>>] = "data"
      <4>1. host[c] \in Node /\ disk[<<host[c], c>>] = "data"
        BY <2>3, <3>1, IdleIs DEF Safe, Data, Shapes, Saving, Dropping
      <4>2. CASE disk' = disk
        BY <4>1, <4>2
      <4>3. CASE Dropping(n) /\ op.do = "migrate" /\ disk' = [disk EXCEPT ![<<n, job.c>>] = "none"]
        <5>1. host[job.c] # n
          BY <4>3 DEF Jobs, Dropping
        <5>2. <<host[c], c>> \in Node \X Container /\ <<host[c], c>> # <<n, job.c>>
          BY <4>1, <5>1
        <5> QED BY <4>1, <4>3, <5>2 DEF Shapes
      <4> QED BY <2>5, <4>2, <4>3
    <3>2. ASSUME host[c] # NoNode, op'.at = "forget" => job'.c # c, pc'[host[c]] \in {"ready", "serve"}
          PROVE <<host[c], c>> \in mounted'
      <4>1. host[c] \in Node /\ host[c] # n
        BY <2>2, <3>2 DEF Shapes
      <4>2. <<host[c], c>> \in mounted
        BY <2>2, <2>3, <3>2, <4>1, IdleIs DEF Safe, Data, Saving, Dropping
      <4> QED BY <2>4, <4>1, <4>2
    <3> QED BY <2>1, <3>1, <3>2 DEF Safe
  <2>8. Made'
    <3>1. CASE op' = Idle
      BY <3>1, IdleIs DEF Made
    <3>2. CASE op' = op /\ job' = job /\ ~Dropping(n) /\ op.at = "commit"
      <4>1. disk' = disk /\ <<job.new, job.c>> \in mounted /\ disk[<<job.new, job.c>>] = "data"
        BY <2>5, <3>2 DEF Made, Data
      <4>2. <<job.new, job.c>> \in mounted'
        BY <1>6, <2>4, <2>6, <3>2, <4>1
      <4> QED BY <3>2, <4>1, <4>2 DEF Made
    <3>3. CASE op' = op /\ op.at # "commit"
      BY <3>3 DEF Made
    <3> QED BY <2>3, <3>1, <3>2, <3>3
  <2> QED BY <1>2, <2>7, <2>8 DEF Data
<1> QED BY <1>3, <1>4, <1>5, <1>6 DEF NodeStep

LEMMA StoredMaster ==
  ASSUME Shapes, Data, MasterStep, "crash" \notin mishap'
  PROVE  Data'
<1>1. file' = file /\ (op' = op \/ op' = Idle)
  BY DEF MasterStep, Poll, PollApply, WatchDies, RecoverNode, MasterRestart, image_vars
<1>2. Filed'
  BY <1>1, FiledSame DEF Data
<1>3. CASE Poll \/ PollApply \/ WatchDies
  <2>1. UNCHANGED <<host, disk, mounted, op, job, pc>>
    BY <1>3 DEF Poll, PollApply, WatchDies, node_vars, disk_vars
  <2> QED BY <1>2, <2>1, SafeSame DEF Data
<1>4. CASE RecoverNode
  BY <1>2, <1>4, SafeSame DEF RecoverNode, Recovered, Data
<1>5. CASE MasterRestart
  <2>1. op = Idle /\ op' = Idle
    BY <1>5 DEF MasterRestart, Fault, Blame
  <2>2. UNCHANGED <<host, disk, pc>> /\ mounted \subseteq mounted'
    BY <1>5 DEF MasterRestart
  <2> QED BY <1>2, <2>1, <2>2, SafeSame, IdleIs DEF Data
<1> QED BY <1>3, <1>4, <1>5 DEF MasterStep

LEMMA StoredRequest ==
  ASSUME Shapes, Jobs, Data, NEW c \in Container, Request(c)
  PROVE  Data'
<1>1. UNCHANGED <<host, disk, mounted, pc, file>> /\ op = Idle
  BY RequestIs DEF Quiet, node_vars, disk_vars, image_vars
<1>2. op'.at # "commit"
  BY RequestIs DEF Is
<1>3. Filed'
  <2>1. \A i \in AnyImage : file[i] \in {"none", "data"}
    BY DEF Shapes, Filed, Data
  <2> QED BY <1>1, <2>1, RequestIs DEF Is, Filed
<1> QED BY <1>1, <1>2, <1>3, SafeSame, IdleIs DEF Data

LEMMA StoredFile ==
  ASSUME Shapes, Jobs, Data, Raises \/ Tar \/ Info \/ Untmp, "tar" \notin mishap'
  PROVE  Data'
<1>1. UNCHANGED <<host, disk, mounted, pc>>
  BY DEF Raises, Tar, Info, Untmp, Quiet, node_vars, disk_vars
<1>2. op.at # "forget" /\ op'.at # "commit"
  BY StepIs, IdleIs DEF Is, Raises, Tar, Info, Untmp
<1>3. Filed'
  <2>1. CASE Raises
    BY <2>1, StepIs, FiledSame DEF Raises, image_vars, Data
  <2>2. CASE Tar
    <3>1. op.do \in {"save", "migrate"} /\ op.at = "tar" /\ Is(op.do, op.i, "info")
      BY <2>2, StepIs
    <3>2. job.c \in Container /\ job.old \in Node /\ host[job.c] = job.old
      BY <3>1 DEF Jobs
    <3>3. disk[<<job.old, job.c>>] = "data" /\ <<job.old, job.c>> \in mounted
      BY <2>2, <3>1, <3>2, Named DEF Tar, Safe, Data
    <3>4. Visible(job.old, job.c) = "data"
      BY <3>3 DEF Visible
    <3>5. file' = [file EXCEPT ![op.i] = "data"]
      BY <2>2, <3>4 DEF Tar, Fault, Blame
    <3>6. op.i \in AnyImage /\ (op.do = "migrate" => op.i = Tmp)
      BY DEF Jobs
    <3> QED BY <3>1, <3>5, <3>6 DEF Filed, Data, Is, Shapes
  <2>3. CASE Info
    <3>1. file' = file /\ (op' = Idle \/ (op.do = "migrate" /\ op.at = "info" /\ Is("migrate", op.i, "build")))
      BY <2>3, StepIs DEF Info
    <3> QED BY <3>1, IdleIs DEF Filed, Data, Is
  <2>4. CASE Untmp
    <3>1. file' = file /\ Is("migrate", op.i, "rm")
      BY <2>4, StepIs DEF Untmp
    <3> QED BY <3>1 DEF Filed, Data, Is
  <2> QED BY <2>1, <2>2, <2>3, <2>4
<1> QED BY <1>1, <1>2, <1>3, SafeSame DEF Data

\* The new volume, which is not the container's yet.
LEMMA StoredBuild ==
  ASSUME Shapes, Jobs, Data, Build, "untar" \notin mishap'
  PROVE  Data'
<1> DEFINE d == <<job.new, job.c>>
<1>1. /\ op.at = "build" /\ op.do \in {"create", "migrate"} /\ job.c \in Container /\ job.new \in Node
      /\ UNCHANGED <<host, pc, file>>
  BY BuildIs DEF Quiet, node_vars, image_vars
<1>2. host[job.c] # job.new
  BY <1>1, Named DEF Jobs
<1>3. \A e \in Node \X Container : e # d => disk'[e] = disk[e] /\ (e \in mounted => e \in mounted')
  BY <1>1, BuildIs DEF Volumes, Volume, Shapes
<1>4. op'.at # "forget" /\ Filed'
  <2>1. CASE Refused
    BY <1>1, <2>1, StepIs, IdleIs DEF Is, Filed, Data
  <2>2. CASE To("commit")
    BY <1>1, <2>2, ToIs DEF Ats, Is, Filed, Data
  <2> QED BY <2>1, <2>2, BuildIs
<1>5. ASSUME NEW c \in Container PROVE Safe(c)'
  <2>1. host[c] # NoNode => <<host[c], c>> \in Node \X Container /\ <<host[c], c>> # d
    BY <1>2 DEF Shapes
  <2>2. disk'[<<host[c], c>>] = disk[<<host[c], c>>] \/ host[c] = NoNode
    BY <1>3, <2>1
  <2> QED BY <1>1, <1>3, <1>4, <2>1, <2>2 DEF Safe, Data
<1>6. Made'
  <2>1. CASE Refused
    <3>1. op'.at # "commit"
      BY <1>1, <2>1, StepIs, IdleIs DEF Is
    <3> QED BY <3>1 DEF Made
  <2>2. CASE PrepareFS(d) /\ job' = job
    <3>1. Source = "data"
      BY <1>1 DEF Source, Filed, Data, Jobs
    <3>2. Volume(d, "data")
      BY <2>2, <3>1 DEF PrepareFS, Fault, Blame
    <3>3. disk'[d] = "data" /\ d \in mounted'
      BY <1>1, <3>2 DEF Volume, Shapes
    <3> QED BY <2>2, <3>3 DEF Made
  <2> QED BY <2>1, <2>2, BuildIs
<1> QED BY <1>4, <1>5, <1>6 DEF Data

LEMMA StoredCommit ==
  ASSUME Shapes, Jobs, Data, Commit
  PROVE  Data'
<1>1. /\ op.at = "commit" /\ host' = [host EXCEPT ![job.c] = job.new] /\ UNCHANGED <<pc, disk, mounted, file>>
      /\ op'.at \notin {"commit", "forget", "info", "build"}
  BY StepIs, IdleIs DEF Commit, image_vars, Is
<1>2. disk[<<job.new, job.c>>] = "data" /\ <<job.new, job.c>> \in mounted
  BY <1>1 DEF Data, Made
<1>3. ASSUME NEW c \in Container PROVE Safe(c)'
  <2>1. CASE c = job.c
    BY <1>1, <1>2, <2>1 DEF Safe, Shapes
  <2>2. CASE c # job.c
    BY <1>1, <2>2 DEF Safe, Data, Shapes
  <2> QED BY <2>1, <2>2
<1> QED BY <1>1, <1>3 DEF Data, Made, Filed

\* A copy that is dropped is not on the container's host, or is about to be forgotten.
LEMMA StoredDrop ==
  ASSUME Shapes, Jobs, Data, CommitFails \/ Drop, "deleted" \notin mishap'
  PROVE  Data'
<1>1. /\ UNCHANGED <<host, pc, file>> /\ op.at \in {"commit", "drop"}
      /\ op'.at \notin {"commit", "info", "build"}
  BY StepIs, IdleIs DEF CommitFails, Drop, Quiet, node_vars, image_vars, Is
<1>2. ASSUME NEW c \in Container PROVE Safe(c)'
  <2>1. CASE UNCHANGED <<disk, mounted>> /\ op' = Idle
    BY <1>1, <2>1 DEF Safe, Data
  <2>2. CASE op.do = "migrate" /\ op.at = "commit" /\ Dropped(job.new, job.c)
    <3>1. host[job.c] # job.new
      BY <2>2 DEF Jobs
    <3>2. host[c] # NoNode => <<host[c], c>> \in Node \X Container /\ <<host[c], c>> # <<job.new, job.c>>
      BY <3>1 DEF Shapes
    <3> QED BY <1>1, <2>2, <3>2 DEF Safe, Data, Dropped, Shapes
  <2>3. CASE op.do = "migrate" /\ op.at = "drop" /\ Dropped(job.old, job.c)
    <3>1. host[job.c] # job.old
      BY <2>3 DEF Jobs
    <3>2. host[c] # NoNode => <<host[c], c>> \in Node \X Container /\ <<host[c], c>> # <<job.old, job.c>>
      BY <3>1 DEF Shapes
    <3> QED BY <1>1, <2>3, <3>2 DEF Safe, Data, Dropped, Shapes
  <2>4. CASE op.do = "delete" /\ Is("delete", op.i, "forget") /\ job' = job /\ Dropped(job.old, job.c)
    <3>1. CASE c = job.c
      BY <2>4, <3>1 DEF Safe, Is
    <3>2. CASE c # job.c
      <4>1. host[c] # NoNode => <<host[c], c>> \in Node \X Container /\ <<host[c], c>> # <<job.old, job.c>>
        BY <3>2 DEF Shapes
      <4> QED BY <1>1, <2>4, <4>1 DEF Safe, Data, Dropped, Shapes
    <3> QED BY <3>1, <3>2
  <2>5. CommitFails => (UNCHANGED <<disk, mounted>> /\ op' = Idle)
                       \/ (op.do = "migrate" /\ op.at = "commit" /\ Dropped(job.new, job.c))
    BY DEF CommitFails, End
  <2>6. Drop => \/ op.do = "migrate" /\ op.at = "drop" /\ Dropped(job.old, job.c)
                \/ op.do = "delete" /\ Is("delete", op.i, "forget") /\ job' = job /\ Dropped(job.old, job.c)
    <3>1. ASSUME Drop, Fault(Deleted) PROVE op.do = "migrate"
      BY StepIs, <3>1 DEF Fault, Blame, Deleted
    <3>2. ASSUME Drop, To(IF op.do = "migrate" THEN "untmp" ELSE "forget"), UNCHANGED job, op.do = "delete"
          PROVE  Is("delete", op.i, "forget") /\ job' = job
      BY <3>2, ToIs DEF Ats
    <3>3. Drop => op.do \in {"migrate", "delete"} /\ op.at = "drop" /\ Dropped(job.old, job.c)
      BY StepIs DEF Drop
    <3> QED BY <3>1, <3>2, <3>3 DEF Drop
  <2> QED BY <2>1, <2>2, <2>3, <2>4, <2>5, <2>6
<1> QED BY <1>1, <1>2 DEF Data, Made, Filed

LEMMA StoredForget ==
  ASSUME Shapes, Jobs, Data, DeleteCommit
  PROVE  Data'
<1>1. /\ op.at = "forget" /\ host' = [host EXCEPT ![job.c] = NoNode] /\ UNCHANGED <<pc, disk, mounted, file>>
      /\ op' = Idle
  BY StepIs DEF DeleteCommit, image_vars
<1>2. ASSUME NEW c \in Container PROVE Safe(c)'
  <2>1. CASE c = job.c
    BY <1>1, <2>1 DEF Safe, Shapes
  <2>2. CASE c # job.c
    BY <1>1, <2>2 DEF Safe, Data, Shapes
  <2> QED BY <2>1, <2>2
<1> QED BY <1>1, <1>2, IdleIs, FiledSame DEF Data, Made

LEMMA StoredImage ==
  ASSUME Shapes, Jobs, Data, ImageStep, Quiet, UNCHANGED <<disk_vars, job>>
  PROVE  Data'
<1>1. UNCHANGED <<host, disk, mounted, pc, job>>
  BY DEF Quiet, node_vars, disk_vars
<1>2. op' = op \/ (op.at # "forget" /\ op'.at \notin {"commit", "forget", "info", "build"})
  <2>1. op.do \in {"share", "unshare", "remove", "migrate"} => op.at # "forget"
    BY DEF Jobs, PhasesOf
  <2> QED BY <2>1, ImageIs, IdleIs DEF Is
<1>3. Filed'
  <2>1. CASE ShareCopy \/ UnshareFile \/ RemoveFile
    <3>1. op' = Idle /\ (file' = file \/ file' = [file EXCEPT ![op.i] = "none"])
      BY <2>1 DEF ShareCopy, UnshareFile, RemoveFile
    <3> QED BY <3>1, IdleIs DEF Filed, Data, Shapes
  <2>2. ASSUME NEW i \in Image, Share(i) \/ Unshare(i) \/ Remove(i) PROVE Filed'
    <3>1. file' = file /\ op'.at \in {"copy", "rm"}
      BY <2>2 DEF Share, Unshare, Remove
    <3> QED BY <3>1 DEF Filed, Data
  <2>3. ASSUME NEW i \in Image, Arrive(i) \/ Announced(i) PROVE Filed'
    <3>1. op' = op /\ (file' = file \/ file' = [file EXCEPT ![i] = "data"])
      BY <2>3 DEF Arrive, Announced
    <3>2. op.do = "create" => op.i \in AnyImage
      BY DEF Jobs
    <3> QED BY <3>1, <3>2, Named DEF Filed, Data, Shapes
  <2> QED BY <2>1, <2>2, <2>3 DEF ImageStep
<1> QED BY <1>1, <1>2, <1>3, SafeSame DEF Data

LEMMA StoredStep ==
  ASSUME Shapes, Jobs, Enrolled, Stored, [Next]_vars
  PROVE  Stored'
<1> DEFINE causes == {"tar", "untar", "group", "mount", "between", "etcd", "deleted", "crash"}
<1> SUFFICES ASSUME causes \cap mishap' = {} PROVE Data'
  BY DEF Stored, Unless
<1>1. Recorded /\ Data
  BY MishapStep DEF Enrolled, Stored, Unless
<1>2. CASE UNCHANGED vars
  <2>1. UNCHANGED <<host, disk, mounted, pc, job, op, file>>
    BY <1>2 DEF vars, node_vars, disk_vars, image_vars
  <2> QED BY <1>1, <2>1, SafeSame, FiledSame DEF Data
<1>3. ASSUME NEW n \in Node, NodeStep(n) PROVE Data'
  BY <1>1, <1>3, StoredNode
<1>4. CASE MasterStep
  BY <1>1, <1>4, StoredMaster
<1>5. ASSUME NEW c \in Container, Request(c) PROVE Data'
  BY <1>1, <1>5, StoredRequest
<1>6. CASE OperationStep
  BY <1>1, <1>6, StoredFile, StoredBuild, StoredCommit, StoredDrop, StoredForget, StoredImage DEF OperationStep
<1> QED BY <1>2, <1>3, <1>4, <1>5, <1>6 DEF Next

-----------------------------------------------------------------------------
(* The containers of a host that was restarted.                            *)

\* The node of a container that was lost is on its way to recovery, if it serves.
Met(n) == pc[n] = "serve" => Unnoticed(n) \/ Queued(n)

LEMMA MissedNode ==
  ASSUME Shapes, Rejoins, NEW n \in Node, NodeStep(n), {"unseen", "lapsed", "etcd"} \cap mishap' = {}
  PROVE  Rejoins'
<1>1. UNCHANGED <<run, seen, queue, host>>
  BY DEF NodeStep, WorkerStart, ChooseMode, Wipe, Announce, Heartbeat, HeartbeatDies, Expire, Killed, HostRestarts,
         member_vars, disk_vars
<1>2. \A m \in Node : m # n => key'[m] = key[m] /\ pc'[m] = pc[m] /\ (m \in ttl' => m \in ttl)
  <2>1. CASE WorkerStart(n) \/ Announce(n) \/ Heartbeat(n) \/ Expire(n)
    BY <2>1 DEF WorkerStart, Announce, Heartbeat, Expire, node_vars, Shapes
  <2>2. CASE ChooseMode(n)
    BY <2>2 DEF ChooseMode, InitRecovery, InitNew, member_vars, Shapes
  <2>3. CASE Wipe(n) \/ HeartbeatDies(n) \/ Killed(n) \/ HostRestarts(n)
    BY <2>3 DEF Wipe, HeartbeatDies, Killed, HostRestarts, Die, member_vars, Shapes
  <2> QED BY <2>1, <2>2, <2>3 DEF NodeStep
<1>3. /\ pc'[n] \in {"mode", "wipe", "ready"} => n \notin ttl'
      /\ pc'[n] = "serve" => key'[n] \in {"work", "ok"}
      /\ Met(n) => Met(n)'
      /\ pc'[n] = "serve" /\ pc[n] # "serve" => Unnoticed(n)'
  <2>1. CASE WorkerStart(n)
    BY <2>1 DEF WorkerStart, Met, Shapes
  <2>2. CASE ChooseMode(n)
    BY <2>2 DEF ChooseMode, InitRecovery, InitNew, member_vars, Met, Rejoins, Shapes
  <2>3. CASE Wipe(n)
    BY <2>3 DEF Wipe, member_vars, Met, Rejoins, Shapes
  <2>4. CASE Announce(n)
    <3>1. key'[n] = "work" /\ n \notin run /\ seen[n] # "ok" /\ pc[n] = "ready" /\ pc'[n] = "serve"
      BY <2>4 DEF Announce, Fault, Blame, Shapes
    <3> QED BY <1>1, <3>1 DEF Unnoticed, Met
  <2>5. CASE Heartbeat(n)
    <3>1. pc[n] = "serve" /\ pc' = pc /\ key[n] = "ok" /\ key'[n] = "ok"
      BY <2>5 DEF Heartbeat, Beats, Rejoins, node_vars, Shapes
    <3> QED BY <1>1, <3>1 DEF Met, Unnoticed, Queued
  <2>6. CASE HeartbeatDies(n)
    BY <2>6 DEF HeartbeatDies, Fault, Blame
  <2>7. CASE Expire(n)
    <3>1. pc[n] # "serve" /\ n \notin ttl' /\ pc' = pc
      BY <2>7 DEF Expire, Fault, Blame, node_vars
    <3> QED BY <3>1 DEF Met
  <2>8. CASE Killed(n) \/ HostRestarts(n)
    <3>1. pc'[n] = "down"
      BY <2>8 DEF Killed, HostRestarts, Die, Shapes
    <3> QED BY <3>1 DEF Met
  <2> QED BY <2>1, <2>2, <2>3, <2>4, <2>5, <2>6, <2>7, <2>8 DEF NodeStep
<1>4. lost' = lost \/ (lost' = lost \union HostsOf(n) /\ pc'[n] = "down")
  <2>1. CASE HostRestarts(n)
    BY <2>1 DEF HostRestarts, Die, Shapes
  <2>2. CASE WorkerStart(n) \/ ChooseMode(n) \/ Wipe(n) \/ Announce(n) \/ Heartbeat(n) \/ HeartbeatDies(n)
             \/ Expire(n) \/ Killed(n)
    BY <2>2 DEF WorkerStart, ChooseMode, Wipe, Announce, Heartbeat, HeartbeatDies, Expire, Killed, node_vars
  <2> QED BY <2>1, <2>2 DEF NodeStep
<1>5. ASSUME NEW c \in lost' PROVE host[c] \in Node /\ Met(host[c])'
  <2>1. CASE host[c] = n
    <3>1. c \in lost \/ pc'[n] = "down"
      BY <1>4
    <3>2. c \in lost => Met(n)
      BY <2>1 DEF Rejoins, Met
    <3> QED BY <1>1, <1>3, <2>1, <3>1, <3>2 DEF Met, Unnoticed, Queued
  <2>2. CASE host[c] # n
    <3>1. c \in lost
      BY <1>4, <2>2 DEF HostsOf
    <3>2. host[c] \in Node /\ Met(host[c])
      BY <3>1 DEF Rejoins, Met
    <3> QED BY <1>1, <1>2, <2>2, <3>2 DEF Met, Unnoticed, Queued
  <2> QED BY <2>1, <2>2
<1>6. \A m \in Node : /\ pc'[m] \in {"mode", "wipe", "ready"} => m \notin ttl'
                      /\ pc'[m] = "serve" => key'[m] \in {"work", "ok"}
  BY <1>2, <1>3 DEF Rejoins
<1> QED BY <1>1, <1>5, <1>6 DEF Rejoins, Met

LEMMA MissedMaster ==
  ASSUME Shapes, Recorded, Rejoins, MasterStep
  PROVE  Rejoins'
<1>1. UNCHANGED <<pc, host>> /\ ttl' \subseteq ttl /\ lost' \subseteq lost
  BY DEF MasterStep, Poll, PollApply, WatchDies, RecoverNode, MasterRestart, Recovered, node_vars, disk_vars
<1>2. \A n \in Node : key'[n] = key[n] \/ key'[n] = "ok"
  BY DEF MasterStep, Poll, PollApply, WatchDies, RecoverNode, MasterRestart, Shapes
<1>3. \A n \in Node : /\ pc'[n] \in {"mode", "wipe", "ready"} => n \notin ttl'
                      /\ pc'[n] = "serve" => key'[n] \in {"work", "ok"}
  BY <1>1, <1>2 DEF Rejoins
<1>4. ASSUME NEW c \in lost', NEW n \in Node, n = host[c], pc[n] = "serve" PROVE Unnoticed(n)' \/ Queued(n)'
  <2>1. c \in lost /\ n \in Node /\ (Unnoticed(n) \/ Queued(n)) /\ key[n] \in {"work", "ok"} /\ n \in allnodes
    BY <1>1, <1>4 DEF Rejoins, Recorded, Present, HostsOf, Shapes
  <2>2. CASE Poll
    <3>1. seen[n] = "unread" /\ seen'[n] = key[n] /\ UNCHANGED <<run, queue, key>>
      BY <2>1, <2>2 DEF Poll, NoList
    <3> QED BY <2>1, <3>1 DEF Unnoticed, Queued
  <2>3. CASE PollApply
    <3>1. /\ seen[n] \in {"none", "work", "ok"} /\ seen'[n] = "unread"
          /\ key'[n] = IF seen[n] = "work" THEN "ok" ELSE key[n]
          /\ n \in run' <=> seen[n] \in {"work", "ok"}
      BY <2>1, <2>3 DEF PollApply, NoList, Shapes
    <3>2. PICK s \in Orders(ToRecover) : queue' = queue \o s
      BY <2>3 DEF PollApply
    <3>3. /\ s \in Seq(Node) /\ queue \in Seq(Node)
          /\ \A m \in ToRecover : \E j \in DOMAIN s : s[j] = m
      BY <3>2, OrderIs DEF Shapes
    <3>4. CASE Queued(n)
      <4>1. \E j \in DOMAIN queue' : queue'[j] = n
        <5>1. PICK j \in DOMAIN queue : queue[j] = n
          BY <3>4 DEF Queued
        <5>2. j \in DOMAIN queue' /\ queue'[j] = n
          BY <3>2, <3>3, <5>1
        <5> QED BY <5>2
      <4> QED BY <3>1, <3>4, <4>1 DEF Queued
    <3>5. CASE Unnoticed(n) /\ seen[n] = "work"
      <4>1. n \in ToRecover
        BY <2>1, <3>5 DEF ToRecover, Joining, Unnoticed, Recorded
      <4>2. PICK j \in DOMAIN s : s[j] = n
        BY <3>3, <4>1
      <4>3. (Len(queue) + j) \in DOMAIN queue' /\ queue'[Len(queue) + j] = n
        BY <3>2, <3>3, <4>2
      <4> QED BY <3>1, <3>5, <4>3 DEF Queued
    <3>6. CASE Unnoticed(n) /\ seen[n] # "work"
      BY <3>1, <3>6 DEF Unnoticed
    <3> QED BY <2>1, <3>4, <3>5, <3>6
  <2>4. CASE WatchDies
    BY <2>1, <2>4 DEF WatchDies, Unnoticed, Queued
  <2>5. CASE RecoverNode
    <3>1. /\ queue # <<>> /\ queue' = Tail(queue) /\ UNCHANGED <<key, run, seen>>
          /\ c \notin lost \/ Head(queue) # n \/ Reach(n) # "ok"
      BY <2>5, <1>4 DEF RecoverNode, Recovered
    <3>2. CASE Unnoticed(n)
      BY <3>1, <3>2 DEF Unnoticed
    <3>3. CASE Queued(n)
      <4>1. Reach(n) = "ok"
        BY <1>4, <3>3 DEF Reach, Queued
      <4>2. PICK j \in DOMAIN queue : queue[j] = n
        BY <3>3 DEF Queued
      <4>3. Head(queue) # n
        BY <2>1, <3>1, <4>1
      <4>4. queue \in Seq(Node)
        BY DEF Shapes
      <4>5. (j - 1) \in DOMAIN queue' /\ queue'[j - 1] = n
        BY <3>1, <4>2, <4>3, <4>4
      <4> QED BY <3>1, <3>3, <4>5 DEF Queued
    <3> QED BY <2>1, <3>2, <3>3
  <2>6. CASE MasterRestart
    <3>1. /\ n \in run' <=> key[n] = "ok"
          /\ seen'[n] = "unread" /\ key' = key
          /\ ~(key[n] = "ok" /\ pc[n] = "serve")
      BY <2>1, <2>6, <1>4 DEF MasterRestart, NoList
    <3> QED BY <1>4, <2>1, <3>1 DEF Unnoticed
  <2> QED BY <2>2, <2>3, <2>4, <2>5, <2>6 DEF MasterStep
<1>5. ASSUME NEW c \in lost'
      PROVE  host'[c] \in Node /\ (pc'[host'[c]] = "serve" => Unnoticed(host[c])' \/ Queued(host[c])')
  <2>1. PICK n \in Node : n = host[c]
    BY <1>1 DEF Rejoins
  <2>2. host'[c] = n /\ pc'[n] = pc[n]
    BY <1>1, <2>1
  <2> QED BY <1>4, <2>1, <2>2 DEF Unnoticed, Queued
<1> QED BY <1>3, <1>5 DEF Rejoins

LEMMA MissedStep ==
  ASSUME Shapes, Jobs, Enrolled, Missed, [Next]_vars
  PROVE  Missed'
<1> SUFFICES ASSUME {"unseen", "lapsed", "etcd"} \cap mishap' = {} PROVE Rejoins'
  BY DEF Missed, Unless
<1>1. Recorded /\ Rejoins
  BY MishapStep DEF Enrolled, Missed, Unless
<1>2. ASSUME UNCHANGED <<member_vars, pc>>, lost' \subseteq lost, \A c \in lost' : host'[c] = host[c] PROVE Rejoins'
  BY <1>1, <1>2 DEF Rejoins, member_vars, Unnoticed, Queued
<1>3. CASE UNCHANGED vars
  BY <1>2, <1>3 DEF vars, node_vars, disk_vars
<1>4. ASSUME NEW c \in Container, Request(c) PROVE Rejoins'
  BY <1>2, <1>4, RequestIs DEF Quiet, node_vars, disk_vars
<1>5. CASE OperationStep
  <2>1. CASE Quiet /\ host' = host
    BY <1>2, <2>1 DEF Quiet, node_vars
  <2>2. CASE Commit \/ DeleteCommit
    <3>1. /\ UNCHANGED <<member_vars, pc>> /\ lost' = lost \ {job.c}
          /\ \A c \in Container : c # job.c => host'[c] = host[c]
      BY <2>2 DEF Commit, DeleteCommit, Shapes
    <3> QED BY <1>2, <3>1 DEF Shapes
  <2> QED BY <1>5, <2>1, <2>2, OperationIs
<1> QED BY <1>1, <1>3, <1>4, <1>5, MissedNode, MissedMaster DEF Next

-----------------------------------------------------------------------------
(* The list of images.                                                     *)

LEMMA ListedSame ==
  ASSUME Listed, UNCHANGED <<image_vars, op>>
  PROVE  Listed'
BY DEF Listed, Public, Private, Busy, Removing, Writing, image_vars

\* Of an operation that is not at an image.
Apart(o) == o.do \in {"none", "create", "save", "migrate", "delete"} /\ o.at \notin {"rm", "info"}

LEMMA ListedApart ==
  ASSUME Listed, UNCHANGED image_vars, Apart(op), Apart(op)'
  PROVE  Listed'
BY DEF Listed, Public, Private, Busy, Removing, Writing, image_vars, Apart

LEMMA ListedMaster ==
  ASSUME Jobs, Listed, MasterStep \/ \E n \in Node : NodeStep(n), {"died", "crash"} \cap mishap' = {}
  PROVE  Listed'
<1>1. ASSUME NEW n \in Node, NodeStep(n) PROVE Listed'
  <2>1. CASE Killed(n) \/ HostRestarts(n)
    <3>1. Die(n) /\ ~Saving(n) /\ UNCHANGED image_vars
      BY <2>1 DEF Killed, HostRestarts, Fault, Blame, DiesOf
    <3>2. CASE Dropping(n)
      <4>1. Apart(op) /\ op' = Idle
        BY <3>1, <3>2 DEF Die, Dropping, Jobs, PhasesOf, Dos, Apart
      <4> QED BY <3>1, <4>1, IdleIs, ListedApart DEF Apart
    <3>3. CASE ~Dropping(n)
      BY <3>1, <3>3, ListedSame DEF Die
    <3> QED BY <3>2, <3>3
  <2>2. CASE WorkerStart(n) \/ ChooseMode(n) \/ Wipe(n) \/ Announce(n) \/ Heartbeat(n) \/ HeartbeatDies(n) \/ Expire(n)
    <3>1. UNCHANGED <<image_vars, op>>
      BY <2>2 DEF WorkerStart, ChooseMode, Wipe, Announce, Heartbeat, HeartbeatDies, Expire
    <3> QED BY <3>1, ListedSame
  <2> QED BY <1>1, <2>1, <2>2 DEF NodeStep
<1>2. CASE MasterStep
  <2>1. UNCHANGED image_vars
    BY <1>2 DEF MasterStep, Poll, PollApply, WatchDies, RecoverNode, MasterRestart
  <2>2. op' = op
    BY <1>2 DEF MasterStep, Poll, PollApply, WatchDies, RecoverNode, MasterRestart, Fault, Blame
  <2> QED BY <2>1, <2>2, ListedSame
<1> QED BY <1>1, <1>2

\* Its row is made: it has the mark, unless the image was one that is public only.
LEMMA UpdateInfoIs ==
  ASSUME Shapes, NEW i \in AnyImage, UpdateInfo(i), "again" \notin mishap'
  PROVE  /\ "private" \in shown'[i] /\ ("public" \in shown'[i] <=> "public" \in shown[i])
         /\ \A j \in AnyImage : j # i => shown'[j] = shown[j]
<1>1. shown[i] # {"public"} /\ shown[i] \in SUBSET {"private", "public"}
  BY DEF UpdateInfo, Blame, Shapes
<1>2. shown'[i] = (IF shown[i] = {} THEN {"private"} ELSE shown[i]) /\ \A j \in AnyImage : j # i => shown'[j] = shown[j]
  BY DEF UpdateInfo, Shapes
<1>3. shown[i] # {} => "private" \in shown[i]
  BY <1>1
<1> QED BY <1>2, <1>3

LEMMA WithoutIs ==
  ASSUME Shapes, NEW i \in AnyImage, NEW one \in {"private", "public"}, shown' = Without(i, one)
  PROVE  /\ one \notin shown'[i] /\ \A m \in {"private", "public"} : m # one => (m \in shown'[i] <=> m \in shown[i])
         /\ \A j \in AnyImage : j # i => shown'[j] = shown[j]
BY DEF Without, Shapes

LEMMA ListedOperation ==
  ASSUME Shapes, Jobs, Listed, {"again", "tar"} \cap mishap' = {},
         OperationStep, ~(ImageStep /\ Quiet /\ UNCHANGED <<disk_vars, job>>)
  PROVE  Listed'
<1>1. op.i \in AnyImage /\ (op.do = "migrate" => op.i = Tmp) /\ Tmp \notin coming
  BY Named DEF Jobs, Shapes
<1>2. CASE Tar
  <2>1. op.do \in {"save", "migrate"} /\ op.at = "tar" /\ Is(op.do, op.i, "info")
    BY <1>2, StepIs
  <2>2. /\ file' = [file EXCEPT ![op.i] = Visible(job.old, job.c)] /\ Visible(job.old, job.c) # "none"
        /\ UNCHANGED <<shown, pub, coming>>
    BY <1>2 DEF Tar, Fault, Blame
  <2> QED BY <1>1, <2>1, <2>2 DEF Listed, Public, Private, Busy, Removing, Writing, Is, Shapes
<1>3. CASE Info
  <2>1. UpdateInfo(op.i) /\ UNCHANGED <<file, pub, coming>>
    BY <1>3 DEF Info
  <2>2. /\ op.do \in {"save", "migrate"} /\ op.at = "info" /\ op'.at \in {"none", "build"}
        /\ op'.do \in {"none", "migrate"} /\ (op'.do = "migrate" => op'.at = "build")
    BY <1>3, StepIs, IdleIs DEF Is
  <2>3. \A i \in AnyImage : i # op.i => shown'[i] = shown[i]
    BY <1>1, <2>1, UpdateInfoIs
  <2>4. "private" \in shown'[op.i] /\ ("public" \in shown'[op.i] <=> "public" \in shown[op.i])
    BY <1>1, <2>1, UpdateInfoIs
  <2>5. ASSUME NEW i \in AnyImage PROVE Public(i)'
    BY <2>1, <2>2, <2>3, <2>4 DEF Listed, Public, Busy
  <2>6. ASSUME NEW i \in AnyImage PROVE Private(i)'
    <3>1. CASE i = op.i
      BY <2>1, <2>2, <2>4, <3>1 DEF Listed, Private, Busy, Removing, Writing
    <3>2. CASE i # op.i
      BY <2>1, <2>2, <2>3, <3>2 DEF Listed, Private, Busy, Removing, Writing
    <3> QED BY <3>1, <3>2
  <2> QED BY <2>5, <2>6 DEF Listed
<1>4. CASE Untmp
  <2>1. op.do = "migrate" /\ op.at = "untmp" /\ Is("migrate", op.i, "rm")
    BY <1>4, StepIs
  <2>2. shown' = Without(Tmp, "private") /\ UNCHANGED <<file, pub, coming>>
    BY <1>4 DEF Untmp
  <2>3. /\ "private" \notin shown'[Tmp] /\ ("public" \in shown'[Tmp] <=> "public" \in shown[Tmp])
        /\ \A i \in AnyImage : i # Tmp => shown'[i] = shown[i]
    BY <2>2, WithoutIs, Named
  <2> QED BY <1>1, <2>1, <2>2, <2>3 DEF Listed, Public, Private, Busy, Removing, Writing, Is
<1>5. CASE Raises \/ Build \/ Commit \/ CommitFails \/ Drop \/ DeleteCommit
  <2>1. UNCHANGED image_vars
    BY <1>5, BuildIs DEF Raises, Commit, CommitFails, Drop, DeleteCommit
  <2>2. op.at \in {"tar", "build", "commit", "drop", "forget"}
    BY <1>5 DEF Raises, Build, Commit, CommitFails, Drop, DeleteCommit
  <2>3. Apart(op)
    BY <2>2 DEF Apart, Jobs, PhasesOf, Dos
  <2>4. Apart(op)'
    <3>1. CASE Build
      <4>1. CASE To("commit")
        BY <2>3, <4>1, ToIs DEF Ats, Is, Apart
      <4> QED BY <2>2, <3>1, <4>1, BuildIs, StepIs, IdleIs DEF Is, Apart
    <3>2. CASE Raises \/ Commit \/ CommitFails \/ Drop \/ DeleteCommit
      BY <3>2, StepIs, IdleIs DEF Is, Apart
    <3> QED BY <1>5, <3>1, <3>2
  <2> QED BY <2>1, <2>3, <2>4, ListedApart
<1> QED BY <1>2, <1>3, <1>4, <1>5 DEF OperationStep

LEMMA ListedImage ==
  ASSUME Shapes, Jobs, Listed, {"copy", "again", "crossed", "scp"} \cap mishap' = {}, ImageStep
  PROVE  Listed'
<1>1. op.i \in AnyImage
  BY DEF Jobs
<1>2. CASE ShareCopy
  <2>1. /\ op.do = "share" /\ op' = Idle /\ UNCHANGED <<shown, file, coming>>
        /\ file[op.i] # "none" /\ pub' = [pub EXCEPT ![op.i] = file[op.i]]
    BY <1>2 DEF ShareCopy, Blame
  <2> QED BY <1>1, <2>1, IdleIs DEF Listed, Public, Private, Busy, Removing, Writing, Shapes
<1>3. CASE UnshareFile
  <2>1. op.do = "unshare" /\ op' = Idle /\ UNCHANGED <<shown, file, coming>> /\ pub' = [pub EXCEPT ![op.i] = "none"]
    BY <1>3 DEF UnshareFile
  <2> QED BY <1>1, <2>1, IdleIs DEF Listed, Public, Private, Busy, Removing, Writing, Shapes
<1>4. CASE RemoveFile
  <2>1. /\ op.do \in {"remove", "migrate"} /\ op.at = "rm" /\ op' = Idle /\ UNCHANGED <<shown, pub, coming>>
        /\ file' = [file EXCEPT ![op.i] = "none"]
    BY <1>4 DEF RemoveFile
  <2> QED BY <1>1, <2>1, IdleIs DEF Listed, Public, Private, Busy, Removing, Writing, Shapes
<1>5. ASSUME NEW i \in Image, Share(i) PROVE Listed'
  <2>1. /\ op = Idle /\ op'.do = "share" /\ op'.i = i /\ op'.at = "copy" /\ UNCHANGED <<file, pub, coming>>
        /\ shown' = [shown EXCEPT ![i] = @ \union {"public"}]
    BY <1>5 DEF Share
  <2>2. /\ "public" \in shown'[i] /\ ("private" \in shown'[i] <=> "private" \in shown[i])
        /\ \A j \in AnyImage : j # i => shown'[j] = shown[j]
    BY <2>1, Named DEF Shapes
  <2> QED BY <2>1, <2>2, IdleIs DEF Listed, Public, Private, Busy, Removing, Writing
<1>6. ASSUME NEW i \in Image, Unshare(i) PROVE Listed'
  <2>1. /\ op = Idle /\ op'.do = "unshare" /\ op'.i = i /\ op'.at = "rm" /\ UNCHANGED <<file, pub, coming>>
        /\ shown' = Without(i, "public")
    BY <1>6 DEF Unshare
  <2>2. /\ "public" \notin shown'[i] /\ ("private" \in shown'[i] <=> "private" \in shown[i])
        /\ \A j \in AnyImage : j # i => shown'[j] = shown[j]
    BY <2>1, WithoutIs, Named
  <2> QED BY <2>1, <2>2, IdleIs DEF Listed, Public, Private, Busy, Removing, Writing
<1>7. ASSUME NEW i \in Image, Remove(i) PROVE Listed'
  <2>1. /\ op = Idle /\ op'.do = "remove" /\ op'.i = i /\ op'.at = "rm" /\ UNCHANGED <<file, pub, coming>>
        /\ shown' = Without(i, "private") /\ i \notin coming
    BY <1>7 DEF Remove, Blame
  <2>2. /\ "private" \notin shown'[i] /\ ("public" \in shown'[i] <=> "public" \in shown[i])
        /\ \A j \in AnyImage : j # i => shown'[j] = shown[j]
    BY <2>1, WithoutIs, Named
  <2> QED BY <2>1, <2>2, IdleIs DEF Listed, Public, Private, Busy, Removing, Writing
<1>8. ASSUME NEW i \in Image, Arrive(i) PROVE Listed'
  <2>1. /\ op = Idle /\ op' = op /\ UNCHANGED <<shown, pub>> /\ coming' = coming \union {i}
        /\ file' = [file EXCEPT ![i] = "data"]
    BY <1>8 DEF Arrive, Blame
  <2>2. file'[i] = "data" /\ \A j \in AnyImage : j # i => file'[j] = file[j]
    BY <2>1, Named DEF Shapes
  <2> QED BY <2>1, <2>2, IdleIs DEF Listed, Public, Private, Busy, Removing, Writing
<1>9. ASSUME NEW i \in Image, Announced(i) PROVE Listed'
  <2>1. op = Idle /\ op' = op /\ UNCHANGED <<file, pub>> /\ i \in coming /\ coming' = coming \ {i} /\ UpdateInfo(i)
    BY <1>9 DEF Announced
  <2>2. /\ "private" \in shown'[i] /\ ("public" \in shown'[i] <=> "public" \in shown[i])
        /\ \A j \in AnyImage : j # i => shown'[j] = shown[j]
    BY <2>1, UpdateInfoIs, Named
  <2>3. ASSUME NEW j \in AnyImage PROVE Public(j)'
    BY <2>1, <2>2, IdleIs DEF Listed, Public, Busy
  <2>4. ASSUME NEW j \in AnyImage PROVE Private(j)'
    BY <2>1, <2>2, IdleIs DEF Listed, Private, Busy, Removing, Writing
  <2> QED BY <2>3, <2>4 DEF Listed
<1> QED BY <1>2, <1>3, <1>4, <1>5, <1>6, <1>7, <1>8, <1>9 DEF ImageStep

LEMMA ToldStep ==
  ASSUME Shapes, Jobs, Told, [Next]_vars
  PROVE  Told'
<1> SUFFICES ASSUME {"copy", "again", "crossed", "scp", "tar", "died", "crash"} \cap mishap' = {} PROVE Listed'
  BY DEF Told, Unless
<1>1. Listed
  BY MishapStep DEF Told, Unless
<1>2. ASSUME NEW c \in Container, Request(c) PROVE Listed'
  <2>1. UNCHANGED image_vars /\ Apart(op)
    BY <1>2, RequestIs, IdleIs DEF Apart
  <2>2. Apart(op)'
    BY <1>2, RequestIs DEF Apart, Is
  <2> QED BY <1>1, <2>1, <2>2, ListedApart
<1>3. CASE UNCHANGED vars
  BY <1>1, <1>3, ListedSame DEF vars
<1> QED BY <1>1, <1>2, <1>3, ListedMaster, ListedOperation, ListedImage DEF Next

-----------------------------------------------------------------------------
(* The theorems.                                                           *)

IInv == Shapes /\ Jobs /\ Enrolled /\ Stored /\ Missed /\ Told

LEMMA InitHolds == Init => IInv
<1> SUFFICES ASSUME Init PROVE IInv
  OBVIOUS
<1>1. Shapes
  <2>1. /\ key \in [Node -> {"none", "waiting", "work", "ok"}]
        /\ ttl \subseteq Node /\ allnodes \subseteq Node /\ known \subseteq Node /\ run \subseteq Node
        /\ seen \in [Node -> {"unread", "none", "work", "ok"}] /\ seen = NoList /\ queue \in Seq(Node)
    BY DEF Init, NoList
  <2>2. /\ pc \in [Node -> {"down", "mode", "wipe", "ready", "serve"}] /\ lost \subseteq Container
        /\ host \in [Container -> Node \union {NoNode}]
        /\ disk \in [Node \X Container -> {"none", "empty", "data"}] /\ mounted \subseteq Node \X Container
    BY DEF Init
  <2>3. /\ shown \in [AnyImage -> SUBSET {"private", "public"}]
        /\ file \in [AnyImage -> {"none", "empty", "data"}] /\ pub \in [AnyImage -> {"none", "empty", "data"}]
        /\ coming \subseteq Image
    BY DEF Init, ImageInit
  <2> QED BY <2>1, <2>2, <2>3 DEF Shapes
<1>2. Jobs
  BY IdleIs DEF Init, ImageInit, Jobs, PhasesOf
<1>3. \A n \in Node : HostsOf(n) = {}
  BY Named DEF Init, HostsOf
<1>4. Enrolled
  BY <1>3, IdleIs DEF Init, ImageInit, Enrolled, Unless, Recorded, Present, NoList
<1>5. Stored
  BY IdleIs DEF Init, ImageInit, Stored, Unless, Data, Safe, Made, Filed
<1>6. Missed
  BY DEF Init, Missed, Unless, Rejoins
<1>7. Told
  BY IdleIs DEF Init, ImageInit, Told, Unless, Listed, Public, Private, Busy, Removing, Writing
<1> QED BY <1>1, <1>2, <1>4, <1>5, <1>6, <1>7 DEF IInv

\* The inductive invariant of the nodes and what they store: where each operation
\* is, that a node which has data is recorded, where the data is, that a node which
\* is back is noticed, and how far an image is from its row.
THEOREM StoreCorrect == Spec => []IInv
<1>1. IInv /\ [Next]_vars => IInv'
  BY ShapesStep, JobsStep, EnrolledStep, StoredStep, MissedStep, ToldStep DEF IInv
<1> QED BY <1>1, InitHolds, PTL DEF Spec

\* A container of the database has its data on its host, unless a fault is named
\* that loses it: through saves, migrations, deaths of workers and restarts of hosts
\* and of the master.
THEOREM DataSafe == Spec => []DataKept
<1>1. IInv => DataKept
  <2> SUFFICES ASSUME IInv PROVE DataKept
    OBVIOUS
  <2> QED BY DEF IInv, Stored, Data, Safe, DataKept, Unless
<1> QED BY <1>1, StoreCorrect, PTL

\* The master is on its way to the containers of a host that was restarted and serves.
THEOREM RejoinsSeen == Spec => []RejoinSeen
<1>1. IInv => RejoinSeen
  <2> SUFFICES ASSUME IInv PROVE RejoinSeen
    OBVIOUS
  <2>1. ASSUME NEW n, Unnoticed(n) \/ Queued(n)
        PROVE  key[n] = "work" \/ seen[n] = "work" \/ n \in {queue[i] : i \in DOMAIN queue}
    BY <2>1 DEF Unnoticed, Queued
  <2> QED BY <2>1 DEF IInv, Missed, Rejoins, RejoinSeen, Unless
<1> QED BY <1>1, StoreCorrect, PTL

\* The list of a user's images agrees with their rows while nothing is done to them.
THEOREM ImagesTrue == Spec => []ImageTold
<1>1. IInv => ImageTold
  <2> SUFFICES ASSUME IInv, ~({"copy", "again", "crossed", "scp", "tar", "died", "crash"} \cap mishap # {}),
                      NEW i \in AnyImage \ coming, op = Idle \/ op.i # i
               PROVE  /\ ListImages(i).private <=> "private" \in shown[i]
                      /\ ListImages(i).public <=> ListImages(i).isshared
    BY DEF ImageTold, Unless
  <2>1. Public(i) /\ Private(i)
    BY DEF IInv, Told, Unless, Listed
  <2>2. ~Removing(i) /\ ~Writing(i) /\ ~Busy(i, {"share", "unshare"})
    BY IdleIs DEF Busy, Removing, Writing
  <2>3. (file[i] # "none" <=> "private" \in shown[i]) /\ (pub[i] # "none" <=> "public" \in shown[i])
    BY <2>1, <2>2 DEF Public, Private
  <2> QED BY <2>3, Zenon DEF ListImages
<1> QED BY <1>1, StoreCorrect, PTL

=============================================================================
