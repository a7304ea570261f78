------------------------------- MODULE Vcluster -------------------------------
(***************************************************************************)
(* The virtual clusters of one user: src/src/master/vclustermgr.py with    *)
(* the REST handlers that call it (src/src/master/httprest.py), the        *)
(* release of clusters that were stopped for long                          *)
(* (src/src/master/releasemgr.py) and the usage counted for the quota      *)
(* (src/src/master/userManager.py).                                        *)
(*                                                                         *)
(* An operation writes to four places: the containers on the workers, the  *)
(* user's pool of addresses in etcd, the usage in the user service, and,   *)
(* last, the rows of the cluster in the database. A lock per user keeps    *)
(* the handlers apart, so one request is in progress at a time; the thread *)
(* that recovers clusters on a worker that came back takes no lock, nor    *)
(* does the part of NetworkMgr that both of them use. Each call to a       *)
(* worker is a step. A worker that died is first still listed, and a call  *)
(* to it raises; once the node manager has forgotten it there is no proxy  *)
(* for it and the operation returns False. A worker that answers may have  *)
(* failed, and have done part of what it was asked.                        *)
(*                                                                         *)
(* mishap is history: what has gone wrong, by cause. The invariants say    *)
(* what holds unless one of the named causes has occurred.                 *)
(*                                                                         *)
(* Left out: gateways, proxies and port mappings (PortMap), the contents   *)
(* of containers and images, sizes other than one unit per container,      *)
(* failing commits, and further candidates for a migration's new host.     *)
(***************************************************************************)
EXTENDS Integers, Sequences, FiniteSetsExt

CONSTANTS
  Worker,
  Size,     \* the values of CLUSTER_SIZE
  MaxId,    \* bound: cluster ids handed out
  MaxCid,   \* bound: containers a cluster is ever given
  NAddress, \* addresses of the user's pool
  Quota,    \* containers the group's quota allows
  MaxEvent, \* bound: requests and faults together
  MaxFault  \* bound: deaths, crashes and failing calls

ASSUME VclusterAssumption ==
  /\ Size \subseteq Nat \ {0} /\ MaxId \in Nat /\ MaxCid \in Nat
  /\ NAddress \in Nat /\ Quota \in Nat /\ MaxEvent \in Nat /\ MaxFault \in Nat

VARIABLES
  defaultsize, \* self.defaultsize
  status,      \* status of the row of a cluster, by id
  con,         \* rows of Container
  nextid,      \* vcluster/nextid in etcd
  nextcid,     \* nextcid of a cluster
  box,         \* the containers on the workers
  free,        \* addresses free in the user's pool
  usage,       \* UserUsage of the user
  listed,      \* nodemgr.allrunnodes
  alive,       \* workers that answer
  queue,       \* nodemgr.recover_queue
  req,         \* the request that holds the user's lock
  rec,         \* the thread that recovers clusters
  mishap,      \* causes of trouble so far
  used         \* counters the bounds apply to

vars == <<defaultsize, status, con, nextid, nextcid, box, free, usage, listed, alive,
          queue, req, rec, mishap, used>>
db_vars == <<defaultsize, status, con, nextid, nextcid>>
node_vars == <<listed, alive, queue>>

-----------------------------------------------------------------------------
(* Data.                                                                   *)

Id == 1..MaxId
Cid == 0..(MaxCid - 1)
Address == 1..NAddress
Status == {"none", "stopped", "running", "error"}
Row == [id: Id, cid: Cid, host: Worker, ip: Address]
Cause == {"kept",       \* create_cluster returned and kept the addresses
          "cut_create", \* create_cluster failed after its first container
          "raised",     \* a call raised in an operation that then undid nothing
          "refunded",   \* the usage was released, the operation then refused
          "cut_delete", \* delete_cluster stopped after its first container
          "cut_start",  \* start_cluster stopped after its first container
          "cut_stop",   \* stop_cluster stopped after its first container
          "unclean",    \* create_container failed and left what it had made
          "unanswered", \* delete_container deleted, then raised, or the worker died
          "ignored",    \* a worker's failure was not looked at
          "unstopped",  \* nor was a failure of stop_container
          "crossed",    \* a request and the recovery used the user's pool at a time
          "ended",      \* an exception ended the recovery thread
          "overlap",    \* the recovery and a request worked on a cluster at a time
          "died",       \* a worker died during a request
          "quick",      \* a worker was back before it was missed
          "crash",      \* the master was restarted during a request
          "torn"}       \* and that between the release and the commit

Exists(id) == status[id] # "none"
RowsOf(id) == {r \in con : r.id = id}
RowOf(id, k) == CHOOSE r \in con : r.id = id /\ r.cid = k
CidsOf(id) == {r.cid : r \in RowsOf(id)}
Less(n, m) == IF m > n THEN 0 ELSE n - m

Idle == [op |-> "none", id |-> 0, at |-> "", todo |-> {}, rows |-> {}, ips |-> {},
         workers |-> {}, pre |-> "none", more |-> {}]
Resting == [todo |-> {}, id |-> 0, rows |-> {}, at |-> "rest", boot |-> FALSE]
Dead(r) == [Resting EXCEPT !.at = "dead", !.boot = r.boot]

\* What a call to worker w comes to: no proxy, an exception, an answer.
Reach(w) == IF w \notin listed THEN "absent" ELSE IF w \in alive THEN "ok" ELSE "raise"

\* The clusters the recovery thread has in hand.
InRecovery(r) == r.todo \union {r.id}

Overlap(q, r) == IF q.id \in Id \cap InRecovery(r) THEN {"overlap"} ELSE {}

Init ==
  /\ defaultsize \in Size
  /\ status = [id \in Id |-> "none"] /\ con = {} /\ nextid = 1
  /\ nextcid = [id \in Id |-> 0]
  /\ box = [b \in Id \X Cid \X Worker |-> "none"]
  /\ free = Address /\ usage = 0
  /\ listed = Worker /\ alive = Worker /\ queue = <<>>
  /\ req = Idle /\ rec = Resting /\ mishap = {}
  /\ used = [op |-> 0, fault |-> 0]

-----------------------------------------------------------------------------
(* Requests: the lock, and how one ends.                                   *)

Budget == used.op + used.fault < MaxEvent
Fault == Budget /\ used.fault < MaxFault /\ used' = [used EXCEPT !.fault = @ + 1]

Enter(r) ==
  /\ req = Idle /\ ~rec.boot /\ Budget
  /\ used' = [used EXCEPT !.op = @ + 1]
  /\ req' = r /\ mishap' = mishap \union Overlap(r, rec)

\* The handler returns, and its finally releases the lock.
Leave(causes) == req' = Idle /\ mishap' = mishap \union causes

Advance(r) == req' = r /\ mishap' = mishap \union Overlap(r, rec)

\* The user's pool becomes new, and the request goes on as q. The pool was loaded from etcd
\* into NetworkMgr.users, changed there, dumped and taken out again. If the recovery is
\* in check_usergw meanwhile, it loads the pool anew and takes it out too, with no lock:
\* the change may be lost, and one of the two, if it may raise, finds the entry gone.
Pool(new, q, causes, may_raise) ==
  \E lost \in BOOLEAN, ends \in {"none"} \union may_raise :
    LET smooth == ~lost /\ ends = "none" IN
    /\ smooth \/ rec.at = "gateway"
    /\ free' = IF lost THEN free ELSE new
    /\ req' = IF ends = "request" THEN Idle ELSE q
    /\ rec' = IF ends = "recovery" THEN Dead(rec) ELSE rec
    /\ mishap' = mishap \union causes \union Overlap(q, rec)
                  \union (IF smooth THEN {} ELSE {"crossed"})
                  \union (IF ends = "request" THEN {"raised"} ELSE {})
                  \union (IF ends = "recovery" THEN {"ended"} ELSE {})

Either == {"request", "recovery"}

\* k is the container the loop over a cluster's containers is at.
Next1(k) == req.todo # {} /\ k = Min(req.todo)
First(id) == req.todo = CidsOf(id)

-----------------------------------------------------------------------------
(* Creation and growth.                                                    *)

\* usageInc: the quota is checked and the usage raised.
Charge == usage < Quota /\ usage' = usage + 1

\* The usage is charged first: one setting, however many containers.
CreateEnter ==
  /\ Charge /\ nextid <= MaxId
  /\ Enter([Idle EXCEPT !.op = "create", !.id = nextid, !.at = "charged"])
  /\ UNCHANGED <<db_vars, box, free, node_vars, rec>>

ScaleOutEnter(id) ==
  /\ Exists(id) /\ Charge
  /\ Enter([Idle EXCEPT !.op = "scaleout", !.id = id, !.at = "charged"])
  /\ UNCHANGED <<db_vars, box, free, node_vars, rec>>

Refuse_mutant ==
  /\ req.at \in {"charged", "failed"} /\ Leave({})
  /\ UNCHANGED <<db_vars, box, free, usage, node_vars, rec, used>>

\* The name is taken or unknown, the disk too small, no worker runs, the addresses
\* do not suffice, or a worker failed: usageRecover takes the charge back.
Refuse ==
  /\ req.at \in {"charged", "failed"} /\ usage' = Less(usage, 1) /\ Leave({})
  /\ UNCHANGED <<db_vars, box, free, node_vars, rec, used>>

\* The addresses an acquisition takes from the pool.
Taken_mutant(ips) == {}
Taken(ips) == ips

\* acquire_userips_cidr and, for a new cluster, _acquire_id.
Reserve ==
  LET new == req.op = "create"
      n == IF new THEN defaultsize ELSE 1
  IN /\ req.at = "charged" /\ listed # {} /\ n <= Cardinality(free)
     /\ new \/ nextcid[req.id] < MaxCid
     /\ \E ips \in SUBSET free :
          /\ Cardinality(ips) = n /\ \A a \in ips : \A b \in free \ ips : a < b
          /\ Pool(free \ Taken(ips),
                  [req EXCEPT !.at = "build", !.ips = ips, !.workers = listed,
                     !.pre = status[req.id],
                     !.todo = IF new THEN 0..(n - 1) ELSE {nextcid[req.id]}], {}, Either)
     /\ nextid' = IF new /\ req' # Idle THEN nextid + 1 ELSE nextid
     /\ UNCHANGED <<defaultsize, status, con, nextcid, box, usage, node_vars, used>>

\* The gateway cannot be set up or has no public address: the addresses stay
\* acquired.
GatewayFails ==
  /\ req.op = "create" /\ req.at = "build" /\ req.rows = {} /\ Fault
  /\ usage' = Less(usage, 1) /\ Leave({"kept"})
  /\ UNCHANGED <<db_vars, box, free, node_vars, rec>>

\* create_container on a worker chosen at random.
Build(k, w) ==
  LET ip == Min(req.ips)
      row == [id |-> req.id, cid |-> k, host |-> w, ip |-> ip]
      last == req.todo = {k}
  IN /\ req.at = "build" /\ Next1(k) /\ w \in req.workers
     /\ \/ /\ Reach(w) = "ok"
           /\ box' = [box EXCEPT ![<<req.id, k, w>>] = "stopped"]
           /\ Advance([req EXCEPT !.todo = @ \ {k}, !.ips = @ \ {ip}, !.rows = @ \union {row},
                         !.at = IF ~last THEN "build"
                                ELSE IF req.op = "scaleout" /\ req.pre = "running"
                                  THEN "new" ELSE "commit"])
           /\ UNCHANGED <<free, rec, used>>
        \/ \* The worker fails, perhaps with the file system made: only this address is
           \* given back.
           /\ Reach(w) = "ok" /\ Fault
           /\ \E made \in BOOLEAN :
                /\ box' = IF made THEN [box EXCEPT ![<<req.id, k, w>>] = "stopped"] ELSE box
                /\ Pool(free \union {ip},
                        [Idle EXCEPT !.op = req.op, !.id = req.id, !.at = "failed"],
                        (IF made THEN {"unclean"} ELSE {})
                          \union (IF req.rows = {} /\ last THEN {} ELSE {"cut_create"}), Either)
        \/ /\ Reach(w) # "ok" /\ Leave({"raised"}) /\ UNCHANGED <<box, free, rec, used>>
     /\ UNCHANGED <<db_vars, usage, node_vars>>

\* A container added to a running cluster is started; the answer is not looked at.
StartNew ==
  LET r == CHOOSE r \in req.rows : TRUE
  IN /\ req.at = "new"
     /\ \/ /\ r.host \in alive
           /\ box' = [box EXCEPT ![<<r.id, r.cid, r.host>>] = "running"]
           /\ Advance([req EXCEPT !.at = "commit"]) /\ UNCHANGED used
        \/ /\ r.host \in alive /\ Fault /\ UNCHANGED box
           /\ req' = [req EXCEPT !.at = "commit"] /\ mishap' = mishap \union {"ignored"}
        \/ r.host \notin alive /\ Leave({"raised"}) /\ UNCHANGED <<box, used>>
     /\ UNCHANGED <<db_vars, free, usage, node_vars, rec>>

\* The rows are written: the cluster exists.
CreateCommit ==
  /\ req.op = "create" /\ req.at = "commit" /\ Leave({})
  /\ con' = con \union req.rows
  /\ status' = [status EXCEPT ![req.id] = "stopped"]
  /\ nextcid' = [nextcid EXCEPT ![req.id] = defaultsize]
  /\ UNCHANGED <<defaultsize, nextid, box, free, usage, node_vars, rec, used>>

ScaleOutCommit ==
  /\ req.op = "scaleout" /\ req.at = "commit" /\ Leave({})
  /\ con' = con \union req.rows
  /\ nextcid' = [nextcid EXCEPT ![req.id] = @ + 1]
  /\ UNCHANGED <<defaultsize, status, nextid, box, free, usage, node_vars, rec, used>>

-----------------------------------------------------------------------------
(* Removal. The handlers release the usage before they know that the       *)
(* cluster can be deleted, the release manager after it was.               *)

ScaleInEnter(id, k) ==
  /\ k \in CidsOf(id) /\ usage' = Less(usage, 1)
  /\ Enter([Idle EXCEPT !.op = "scalein", !.id = id, !.at = "drop", !.todo = {k},
              !.rows = {RowOf(id, k)}])
  /\ UNCHANGED <<db_vars, box, free, node_vars, rec>>

DeleteEnter(id) ==
  /\ Exists(id) /\ usage' = Less(usage, Cardinality(RowsOf(id)))
  /\ Enter([Idle EXCEPT !.op = "delete", !.id = id, !.at = "check", !.todo = CidsOf(id),
              !.rows = RowsOf(id)])
  /\ UNCHANGED <<db_vars, box, free, node_vars, rec>>

\* The release manager found the cluster stopped for long, then waited for the
\* user's lock: any status is possible by now.
ReleaseEnter(id) ==
  /\ Exists(id)
  /\ Enter([Idle EXCEPT !.op = "release", !.id = id, !.at = "check", !.todo = CidsOf(id),
              !.rows = RowsOf(id)])
  /\ UNCHANGED <<db_vars, box, free, usage, node_vars, rec>>

\* A running cluster is not deleted.
DeleteCheck ==
  /\ req.at = "check"
  /\ IF status[req.id] = "running"
       THEN Leave(IF req.op = "delete" THEN {"refunded"} ELSE {})
       ELSE Advance([req EXCEPT !.at = "drop"])
  /\ UNCHANGED <<db_vars, box, free, usage, node_vars, rec, used>>

\* delete_container; whether the worker could do it is not looked at. It deletes the
\* container, then bills its owner, which may raise: that ends the request.
Drop(k) ==
  LET r == RowOf(req.id, k)
      cut == (IF req.op = "release" THEN {} ELSE {"refunded"})
             \union (IF req.op # "scalein" /\ ~First(req.id) THEN {"cut_delete"} ELSE {})
  IN /\ req.at = "drop" /\ Next1(k)
     /\ \/ /\ Reach(r.host) = "ok"
           /\ \/ box' = [box EXCEPT ![<<r.id, k, r.host>>] = "none"] /\ UNCHANGED used
                 /\ Advance([req EXCEPT !.todo = @ \ {k}])
              \/ Fault /\ UNCHANGED box /\ req' = [req EXCEPT !.todo = @ \ {k}]
                 /\ mishap' = mishap \union {"ignored"}
              \/ Fault /\ box' = [box EXCEPT ![<<r.id, k, r.host>>] = "none"]
                 /\ Leave(cut \union {"unanswered"})
        \/ Reach(r.host) # "ok" /\ Leave(cut) /\ UNCHANGED <<box, used>>
     /\ UNCHANGED <<db_vars, free, usage, node_vars, rec>>

ReleaseAddresses_mutant ==
  /\ req.at = "drop" /\ req.todo = {}
  /\ Advance([req EXCEPT !.at = "remove"])
  /\ UNCHANGED <<db_vars, box, free, usage, node_vars, rec, used>>

ReleaseAddresses ==
  /\ req.at = "drop" /\ req.todo = {}
  /\ Pool(free \union {r.ip : r \in req.rows}, [req EXCEPT !.at = "remove"], {}, Either)
  /\ UNCHANGED <<db_vars, box, usage, node_vars, used>>

ScaleInCommit_mutant ==
  /\ req.op = "scalein" /\ req.at = "remove" /\ Leave({})
  /\ UNCHANGED <<db_vars, box, free, usage, node_vars, rec, used>>

ScaleInCommit ==
  /\ req.op = "scalein" /\ req.at = "remove" /\ con' = con \ req.rows /\ Leave({})
  /\ UNCHANGED <<defaultsize, status, nextid, nextcid, box, free, usage, node_vars, rec, used>>

\* With a user's last cluster its pool goes too; the next one is new. del_user catches
\* what it raises.
DeleteCommit ==
  /\ req.op \in {"delete", "release"} /\ req.at = "remove"
  /\ con' = con \ req.rows /\ status' = [status EXCEPT ![req.id] = "none"]
  /\ LET q == IF req.op = "release" THEN [req EXCEPT !.at = "refund"] ELSE Idle
     IN IF \E i \in Id \ {req.id} : Exists(i)
          THEN Advance(q) /\ UNCHANGED <<free, rec>>
          ELSE Pool(Address, q, {}, {"recovery"})
  /\ UNCHANGED <<defaultsize, nextid, nextcid, box, usage, node_vars, used>>

\* usageRelease, once the release manager knows that the cluster is gone.
Refund ==
  /\ req.at = "refund" /\ usage' = Less(usage, Cardinality(req.rows)) /\ Leave({})
  /\ UNCHANGED <<db_vars, box, free, node_vars, rec, used>>

-----------------------------------------------------------------------------
(* Start, stop and migration.                                              *)

\* A cluster without containers has no address for its proxy.
Startable(id) == status[id] \in {"stopped", "error"} /\ RowsOf(id) # {}

StartEnter(id) ==
  /\ Startable(id)
  /\ Enter([Idle EXCEPT !.op = "start", !.id = id, !.at = "gateway", !.todo = CidsOf(id)])
  /\ UNCHANGED <<db_vars, box, free, usage, node_vars, rec>>

\* check_usergw, which only reads the pool.
StartGateway ==
  /\ req.at = "gateway" /\ Pool(free, [req EXCEPT !.at = "start"], {}, Either)
  /\ UNCHANGED <<db_vars, box, usage, node_vars, used>>

\* start_container, whose answer is not looked at.
StartBox(k) ==
  LET r == RowOf(req.id, k)
      b == <<r.id, k, r.host>>
  IN /\ req.at = "start" /\ Next1(k)
     /\ \/ /\ Reach(r.host) = "ok"
           /\ \/ /\ box' = [box EXCEPT ![b] = IF @ = "none" THEN "none" ELSE "running"]
                 /\ Advance([req EXCEPT !.todo = @ \ {k}]) /\ UNCHANGED used
              \/ /\ Fault /\ UNCHANGED box /\ req' = [req EXCEPT !.todo = @ \ {k}]
                 /\ mishap' = mishap \union {"ignored"}
        \/ /\ Reach(r.host) # "ok" /\ UNCHANGED <<box, used>>
           /\ Leave(IF First(req.id) THEN {} ELSE {"cut_start"})
     /\ UNCHANGED <<db_vars, free, usage, node_vars, rec>>

StartCommit ==
  /\ req.at = "start" /\ req.todo = {}
  /\ status' = [status EXCEPT ![req.id] = "running"] /\ Leave({})
  /\ UNCHANGED <<defaultsize, con, nextid, nextcid, box, free, usage, node_vars, rec, used>>

Stoppable == {id \in Id : status[id] \in {"running", "error"}}

StopEnter(id) ==
  /\ id \in Stoppable
  /\ Enter([Idle EXCEPT !.op = "stop", !.id = id, !.at = "stop", !.todo = CidsOf(id)])
  /\ UNCHANGED <<db_vars, box, free, usage, node_vars, rec>>

\* A user out of beans: every cluster of the list, also those that are stopped.
StopAllEnter ==
  LET all == {id \in Id : Exists(id)} IN
  /\ Enter([Idle EXCEPT !.op = "stopall", !.at = "skip", !.more = all])
  /\ UNCHANGED <<db_vars, box, free, usage, node_vars, rec>>

\* What follows when stop_cluster has returned: the next cluster of the list,
\* the containers to migrate, or nothing.
AfterStop(causes) ==
  CASE req.op = "stopall" /\ req.more # {} ->
         LET id == Min(req.more)
             r == [req EXCEPT !.id = id, !.more = @ \ {id},
                     !.todo = IF id \in Stoppable THEN CidsOf(id) ELSE {},
                     !.at = IF id \in Stoppable THEN "stop" ELSE "skip"]
         IN req' = r /\ mishap' = mishap \union causes \union Overlap(r, rec)
    [] req.op = "migrate" ->
         req' = [req EXCEPT !.at = "move", !.todo = {r.cid : r \in req.rows}]
         /\ mishap' = mishap \union causes
    [] OTHER -> Leave(causes)

\* A stopped cluster is passed over.
StopSkip ==
  /\ req.at = "skip" /\ AfterStop({})
  /\ UNCHANGED <<db_vars, box, free, usage, node_vars, rec, used>>

\* stop_container, whose answer is not looked at. A worker that is not listed ends
\* this cluster's stop, one that does not answer the whole request.
StopBox(k) ==
  LET r == RowOf(req.id, k)
      b == <<r.id, k, r.host>>
      cut == IF First(req.id) THEN {} ELSE {"cut_stop"}
  IN /\ req.at = "stop" /\ Next1(k)
     /\ \/ /\ Reach(r.host) = "ok"
           /\ box' = [box EXCEPT ![b] = IF @ = "none" THEN "none" ELSE "stopped"]
           /\ Advance([req EXCEPT !.todo = @ \ {k}]) /\ UNCHANGED used
        \/ /\ Reach(r.host) = "ok" /\ Fault /\ UNCHANGED box
           /\ req' = [req EXCEPT !.todo = @ \ {k}] /\ mishap' = mishap \union {"unstopped"}
        \/ Reach(r.host) = "absent" /\ AfterStop(cut) /\ UNCHANGED <<box, used>>
        \/ Reach(r.host) = "raise" /\ Leave(cut) /\ UNCHANGED <<box, used>>
     /\ UNCHANGED <<db_vars, free, usage, node_vars, rec>>

StopCommit_mutant ==
  /\ req.at = "stop"
  /\ status' = [status EXCEPT ![req.id] = "stopped"] /\ AfterStop({})
  /\ UNCHANGED <<defaultsize, con, nextid, nextcid, box, free, usage, node_vars, rec, used>>

StopCommit ==
  /\ req.at = "stop" /\ req.todo = {}
  /\ status' = [status EXCEPT ![req.id] = "stopped"] /\ AfterStop({})
  /\ UNCHANGED <<defaultsize, con, nextid, nextcid, box, free, usage, node_vars, rec, used>>

\* migrate_host comes to one such request per cluster.
MigrateEnter(id, src, dst) ==
  /\ Exists(id) /\ src # dst
  /\ Enter([Idle EXCEPT !.op = "migrate", !.id = id, !.pre = status[id],
              !.rows = {r \in RowsOf(id) : r.host = src}, !.workers = {dst},
              !.at = IF id \in Stoppable THEN "stop" ELSE "move",
              !.todo = IF id \in Stoppable THEN CidsOf(id)
                       ELSE {r.cid : r \in {q \in RowsOf(id) : q.host = src}}])
  /\ UNCHANGED <<db_vars, box, free, usage, node_vars, rec>>

\* Done or given up: start_cluster if the cluster was running.
AfterMove(causes) ==
  LET r == IF req.pre = "running" /\ Startable(req.id)
             THEN [req EXCEPT !.at = "gateway", !.todo = CidsOf(req.id)] ELSE Idle
  IN req' = r /\ mishap' = mishap \union causes \union Overlap(r, rec)

\* The container is stopped on the old host, whether it could be or not, and saved as an
\* image; get_usergw then reads the pool.
MoveSave(k) ==
  LET r == RowOf(req.id, k)
      b == <<r.id, k, r.host>>
  IN /\ req.at = "move" /\ Next1(k)
     /\ \/ /\ status[req.id] = "stopped" /\ Reach(r.host) = "ok"
           /\ \/ box' = [box EXCEPT ![b] = IF @ = "none" THEN "none" ELSE "stopped"]
                 /\ Pool(free, [req EXCEPT !.at = "saved"], {}, Either) /\ UNCHANGED used
              \/ Fault /\ UNCHANGED box
                 /\ Pool(free, [req EXCEPT !.at = "saved"], {"unstopped"}, Either)
        \/ /\ status[req.id] # "stopped" \/ Reach(r.host) = "absent"
           /\ AfterMove({}) /\ UNCHANGED <<box, free, rec, used>>
        \/ /\ status[req.id] = "stopped" /\ Reach(r.host) = "raise" /\ Leave({})
           /\ UNCHANGED <<box, free, rec, used>>
     /\ UNCHANGED <<db_vars, usage, node_vars>>

\* The image, or the container made from it on the new host, may fail: the latter
\* perhaps with its file system made.
MoveBuild(k) ==
  LET w == CHOOSE w \in req.workers : TRUE
  IN /\ req.at = "saved" /\ Next1(k)
     /\ \/ /\ Reach(w) = "ok"
           /\ box' = [box EXCEPT ![<<req.id, k, w>>] = "stopped"]
           /\ Advance([req EXCEPT !.at = "built"]) /\ UNCHANGED used
        \/ Reach(w) = "ok" /\ Fault /\ AfterMove({}) /\ UNCHANGED box
        \/ /\ Reach(w) = "ok" /\ Fault /\ AfterMove({"unclean"})
           /\ box' = [box EXCEPT ![<<req.id, k, w>>] = "stopped"]
        \/ Reach(w) = "absent" /\ AfterMove({}) /\ UNCHANGED <<box, used>>
        \/ Reach(w) = "raise" /\ Leave({}) /\ UNCHANGED <<box, used>>
     /\ UNCHANGED <<db_vars, free, usage, node_vars, rec>>

MoveCommit(k) ==
  LET r == RowOf(req.id, k)
      w == CHOOSE w \in req.workers : TRUE
  IN /\ req.at = "built" /\ Next1(k)
     /\ con' = (con \ {r}) \union {[r EXCEPT !.host = w]}
     /\ Advance([req EXCEPT !.at = "moved"])
     /\ UNCHANGED <<defaultsize, status, nextid, nextcid, box, free, usage, node_vars, rec, used>>

MoveDrop_mutant(k) ==
  /\ req.at = "moved" /\ Next1(k)
  /\ Advance([req EXCEPT !.at = "move", !.todo = @ \ {k}])
  /\ UNCHANGED <<db_vars, box, free, usage, node_vars, rec, used>>

\* The container of the old host is deleted, which is not looked at, or which raises
\* before or after it.
MoveDrop(k) ==
  LET old == CHOOSE r \in req.rows : r.cid = k
  IN /\ req.at = "moved" /\ Next1(k)
     /\ \/ /\ old.host \in alive
           /\ box' = [box EXCEPT ![<<old.id, k, old.host>>] = "none"]
           /\ \/ Advance([req EXCEPT !.at = "move", !.todo = @ \ {k}]) /\ UNCHANGED used
              \/ Fault /\ Leave({})
        \/ /\ old.host \in alive /\ Fault /\ UNCHANGED box
           /\ req' = [req EXCEPT !.at = "move", !.todo = @ \ {k}]
           /\ mishap' = mishap \union {"ignored"}
        \/ old.host \notin alive /\ Leave({"raised"}) /\ UNCHANGED <<box, used>>
     /\ UNCHANGED <<db_vars, free, usage, node_vars, rec>>

MoveEnd ==
  /\ req.at = "move" /\ req.todo = {} /\ AfterMove({})
  /\ UNCHANGED <<db_vars, box, free, usage, node_vars, rec, used>>

-----------------------------------------------------------------------------
(* The recovery thread. A cluster gets one attempt: max_times is 1.        *)

Recover(r) == rec' = r /\ mishap' = mishap \union Overlap(req, r)

RecoverTake ==
  /\ rec = Resting /\ queue # <<>>
  /\ LET due == {id \in Stoppable : \E r \in RowsOf(id) : r.host = Head(queue)}
     IN Recover(IF due = {} THEN Resting ELSE [Resting EXCEPT !.todo = due, !.at = "pick"])
  /\ queue' = Tail(queue)
  /\ UNCHANGED <<db_vars, box, free, usage, listed, alive, req, used>>

RecoverNext(todo) ==
  IF todo = {} THEN Resting
               ELSE [Resting EXCEPT !.todo = todo, !.at = "pick", !.boot = rec.boot]

\* recover_cluster reads the cluster. A stopped one is "no need to start",
\* which counts as recovered.
RecoverPick(id) ==
  /\ rec.at = "pick" /\ id \in rec.todo
  /\ Recover(CASE status[id] = "none" -> RecoverNext(rec.todo \ {id})
               [] status[id] = "stopped" -> [rec EXCEPT !.todo = @ \ {id}, !.id = id, !.at = "good"]
               [] OTHER -> [rec EXCEPT !.todo = @ \ {id}, !.id = id, !.rows = RowsOf(id),
                              !.at = IF RowsOf(id) = {} THEN "bad" ELSE "gateway"])
  /\ UNCHANGED <<db_vars, box, free, usage, node_vars, req, used>>

\* check_usergw comes to its end: what else may come of it, see Pool and RecoverDies.
RecoverGateway ==
  /\ rec.at = "gateway" /\ Recover([rec EXCEPT !.at = "box"])
  /\ UNCHANGED <<db_vars, box, free, usage, node_vars, req, used>>

\* What recover_container makes of a container: checkFS, then a start.
Recovered(b) == IF b = "none" THEN "none" ELSE "running"

\* recover_container on the host of the next container; whether it could start it is
\* not looked at.
RecoverBox ==
  LET k == Min({r.cid : r \in rec.rows})
      r == CHOOSE r \in rec.rows : r.cid = k
      b == <<r.id, k, r.host>>
  IN /\ rec.at = "box" /\ rec.rows # {}
     /\ \/ /\ Reach(r.host) = "ok"
           /\ box' = [box EXCEPT ![b] = Recovered(@)]
           /\ Recover([rec EXCEPT !.rows = @ \ {r}]) /\ UNCHANGED used
        \/ /\ Reach(r.host) = "ok" /\ Fault /\ UNCHANGED box
           /\ rec' = [rec EXCEPT !.rows = @ \ {r}] /\ mishap' = mishap \union {"ignored"}
        \/ /\ Reach(r.host) # "ok" /\ Recover([rec EXCEPT !.at = "bad"])
           /\ UNCHANGED <<box, used>>
     /\ UNCHANGED <<db_vars, free, usage, node_vars, req>>

\* The port mappings come last. Those of a cluster that was deleted meanwhile raise.
RecoverPorts ==
  /\ rec.at = "box" /\ rec.rows = {}
  /\ \/ Exists(rec.id) /\ Recover([rec EXCEPT !.at = "good"]) /\ UNCHANGED used
     \/ Exists(rec.id) /\ Fault /\ Recover([rec EXCEPT !.at = "bad"])
     \/ /\ ~Exists(rec.id) /\ UNCHANGED used
        /\ rec' = Dead(rec) /\ mishap' = mishap \union {"ended"}
  /\ UNCHANGED <<db_vars, box, free, usage, node_vars, req>>

\* The clusters that are left after one: a failed one is not tried again.
Left_mutant(todo) == IF rec.at = "bad" THEN todo \union {rec.id} ELSE todo
Left(todo) == todo

\* The verdict is written whatever the status has become meanwhile.
RecoverMark ==
  /\ rec.at \in {"good", "bad"}
  /\ status' = IF Exists(rec.id)
                 THEN [status EXCEPT ![rec.id] = IF rec.at = "good" THEN "running" ELSE "error"]
                 ELSE status
  /\ Recover(RecoverNext(Left(rec.todo)))
  /\ UNCHANGED <<defaultsize, con, nextid, nextcid, box, free, usage, node_vars, req, used>>

-----------------------------------------------------------------------------
(* Faults.                                                                 *)

\* The host of a worker goes down, its containers with it.
Die(w) ==
  /\ w \in alive /\ Fault /\ alive' = alive \ {w}
  /\ box' = [b \in DOMAIN box |-> IF b[3] = w /\ box[b] = "running" THEN "stopped" ELSE box[b]]
  /\ mishap' = IF req = Idle THEN mishap ELSE mishap \union {"died"}
  /\ UNCHANGED <<db_vars, free, usage, listed, queue, req, rec>>

\* Its key in etcd expires.
Forget(w) ==
  /\ w \in listed \ alive /\ listed' = listed \ {w}
  /\ UNCHANGED <<db_vars, box, free, usage, alive, queue, req, rec, mishap, used>>

\* It joins again: to be recovered, if the master had missed it.
Return(w) ==
  /\ w \notin alive /\ alive' = alive \union {w} /\ listed' = listed \union {w}
  /\ IF w \in listed
       THEN mishap' = mishap \union {"quick"} /\ UNCHANGED queue
       ELSE queue' = Append(queue, w) /\ UNCHANGED mishap
  /\ UNCHANGED <<db_vars, box, free, usage, req, rec, used>>

\* Nobody catches what the recovery raises: the user service does not answer, the owner
\* or his group is gone, or the gateway cannot be set up. The thread ends; at the start
\* of the master, the master with it.
RecoverDies ==
  /\ rec.at \in {"pick", "gateway"} \/ (rec = Resting /\ queue # <<>>)
  /\ Fault /\ rec' = Dead(rec) /\ mishap' = mishap \union {"ended"}
  /\ UNCHANGED <<db_vars, box, free, usage, node_vars, req>>

\* The master is restarted. Before it serves it recovers what is not stopped.
Crash ==
  /\ Fault /\ req' = Idle /\ queue' = <<>>
  /\ rec' = IF Stoppable = {} THEN Resting
            ELSE [Resting EXCEPT !.todo = Stoppable, !.at = "pick", !.boot = TRUE]
  /\ mishap' = mishap \union (IF req = Idle THEN {} ELSE {"crash"})
                      \union (IF req.at = "remove" THEN {"torn"} ELSE {})
  /\ UNCHANGED <<db_vars, box, free, usage, listed, alive>>

-----------------------------------------------------------------------------
(* The system.                                                             *)

NewRequest ==
  \/ CreateEnter \/ StopAllEnter
  \/ \E id \in Id :
       \/ ScaleOutEnter(id) \/ StartEnter(id) \/ StopEnter(id)
       \/ \E k \in Cid : ScaleInEnter(id, k)
       \/ DeleteEnter(id) \/ ReleaseEnter(id)
       \/ \E src, dst \in Worker : MigrateEnter(id, src, dst)

RequestStep ==
  \/ Refuse \/ Reserve \/ GatewayFails \/ StartNew \/ CreateCommit \/ ScaleOutCommit
  \/ DeleteCheck \/ ReleaseAddresses \/ ScaleInCommit \/ DeleteCommit \/ Refund
  \/ StartGateway \/ StartCommit \/ StopSkip \/ StopCommit \/ MoveEnd
  \/ \E k \in Cid :
       \/ Drop(k) \/ StartBox(k) \/ StopBox(k)
       \/ MoveSave(k) \/ MoveBuild(k) \/ MoveCommit(k) \/ MoveDrop(k)
       \/ \E w \in Worker : Build(k, w)

RecoveryStep ==
  RecoverTake \/ RecoverGateway \/ RecoverBox \/ RecoverPorts \/ RecoverMark \/ \E id \in Id : RecoverPick(id)

NodeStep == Crash \/ RecoverDies \/ \E w \in Worker : Die(w) \/ Forget(w) \/ Return(w)

Next == NewRequest \/ RequestStep \/ RecoveryStep \/ NodeStep

\* Handlers and the recovery thread are threads of the master that run, the latter
\* until an exception ends it.
Spec == Init /\ [][Next]_vars /\ WF_vars(RequestStep) /\ WF_vars(RecoveryStep)

-----------------------------------------------------------------------------
(* Properties. A thing is "in hand" while the request works on it.         *)

Unless(causes, P) == causes \cap mishap # {} \/ P

\* No two containers have one address, and the pool never holds the address of
\* a container: operations take addresses before they write the rows, and give
\* them back before they remove the rows. Only a restart right between the
\* release and the commit breaks it, and an acquisition that is lost to the
\* check_usergw of the recovery.
AddressOnce ==
  Unless({"torn", "crossed"},
         /\ \A r, q \in con : r.ip = q.ip => r = q
         /\ \A r \in con : r.ip \in free => req.at = "remove" /\ r \in req.rows)

\* An address that is not free is a container's, or is in hand: no path but
\* the named ones leaks it.
AddressKept ==
  Unless({"kept", "cut_create", "raised", "crossed", "crash"},
         Address \ free \subseteq {r.ip : r \in con \union req.rows} \union req.ips)

\* The usage is the number of containers the user has, but for what is in
\* hand, for clusters of one container at creation.
UsageMatches ==
  Unless({"raised", "refunded", "crash"},
         defaultsize = 1 =>
           usage = Cardinality(con) + (CASE req.op \in {"create", "scaleout"} -> 1
                                         [] req.op \in {"delete", "scalein"} -> -Cardinality(req.rows)
                                         [] req.at = "refund" -> Cardinality(req.rows)
                                         [] OTHER -> 0))

\* A container on a worker has a row that says so, or is in hand.
NoStray ==
  Unless({"cut_create", "unclean", "raised", "ignored", "crash"},
         \A b \in DOMAIN box :
           box[b] # "none" =>
             \/ \E r \in con \union req.rows : <<r.id, r.cid, r.host>> = b
             \/ req.op = "migrate" /\ req.id = b[1])

\* And the row of a cluster nobody works on has its container, unless a removal
\* ended after a container was deleted and before the rows were.
NoPhantom ==
  Unless({"cut_delete", "unanswered", "crossed", "crash"},
         \A r \in con : r.id # req.id => box[r.id, r.cid, r.host] # "none")

\* The status of a cluster that neither a request nor the recovery has in hand
\* tells the truth: no container of a stopped cluster runs, so that what the user
\* stopped costs nothing, and those of a running one run, on workers that are up
\* and that the recovery has no more business with.
StatusTells ==
  /\ Unless({"cut_start", "unstopped", "overlap", "crash"},
       \A r \in con : status[r.id] = "stopped" /\ r.id \notin {req.id, rec.id} =>
                        box[r.id, r.cid, r.host] # "running")
  /\ Unless({"cut_stop", "ignored", "ended", "overlap", "died", "quick"},
       \A r \in con :
         /\ status[r.id] = "running" /\ r.id # req.id
         /\ r.id \notin InRecovery(rec)
         /\ r.host \in alive /\ \A i \in DOMAIN queue : queue[i] # r.host
         => box[r.id, r.cid, r.host] # "stopped")

\* Every request gives the user's lock back, and the recovery thread gets to
\* the end of its queue, whatever fails in it, unless an exception ended it.
AllSettles == []<>(req = Idle) /\ []<>((queue = <<>> /\ rec = Resting) \/ rec.at = "dead")

=============================================================================
