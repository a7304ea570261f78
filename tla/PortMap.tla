------------------------------- MODULE PortMap -------------------------------
(***************************************************************************)
(* Port mappings: portcontrol of src/src/utils/nettools.py, which keeps    *)
(* the free and the allocated host ports in memory and writes NAT rules    *)
(* with iptables, and its callers in src/src/master/vclustermgr.py, which  *)
(* keep the mappings of a cluster as rows in the database.                 *)
(*                                                                         *)
(* The gateway is the master (DISTRIBUTED_GATEWAY is False). Each user has *)
(* a cluster of one node. The user's lock keeps the user's requests apart, *)
(* but requests of two users, and the thread that recovers clusters, run   *)
(* side by side. ports_lock is held while the tables are changed, not      *)
(* while iptables runs, so each call of iptables is a step of its own.     *)
(*                                                                         *)
(* mishap is history, as in Vcluster. Left out: the quota on the number of *)
(* mappings, a guard on the count of rows under the user's lock.           *)
(***************************************************************************)
EXTENDS Integers, FiniteSetsExt

CONSTANTS
  Node,     \* containers, one per user
  CPort,    \* ports of a container
  Port,     \* ALLOCATED_PORTS
  MaxOp,    \* bound: requests and recoveries
  MaxFault  \* bound: restarts and failures of iptables

ASSUME PortAssumption ==
  /\ Port \subseteq Nat \ {0} /\ Port # {} /\ "recovery" \notin Node
  /\ MaxOp \in Nat /\ MaxFault \in Nat

VARIABLES
  free_ports,      \* host ports marked as free
  allocated_ports, \* the host port of a port of a container; 0: none
  known,           \* containers that are keys of allocated_ports
  rules,           \* how often a rule is in iptables
  rows,            \* PortMapping
  status,          \* of the node's cluster
  proc,            \* what the user's request, or the recovery thread, does
  due,             \* clusters the recovery at the start has still to do
  mishap,          \* causes of trouble so far
  used             \* counters the bounds apply to

vars == <<free_ports, allocated_ports, known, rules, rows, status, proc, due, mishap, used>>
table_vars == <<free_ports, allocated_ports, known>>

-----------------------------------------------------------------------------
(* Data.                                                                   *)

Key == Node \X CPort
Recovery == "recovery"
Actor == Node \union {Recovery}
Row == [key: Key, host: Port]
Rule == {"tcp", "udp"} \X Port \X Key
Cause == {"iptables",  \* a call of iptables failed
          "restart",   \* the master was restarted, and iptables kept its rules
          "midway",    \* and that in the middle of a request
          "overlap",   \* the recovery and a request worked on a node at a time
          "kept"}      \* a row outlived its mapping

Idle == [op |-> "none", node |-> "none", todo |-> {}, at |-> "", key |-> <<>>, host |-> 0,
         gone |-> {}]

RowsOf(n) == {r \in rows : r.key[1] = n}
Busy(n) == \E a \in Actor : proc[a].node = n

Init ==
  /\ free_ports = Port /\ allocated_ports = [k \in Key |-> 0] /\ known = {}
  /\ rules = [r \in Rule |-> 0] /\ rows = {}
  /\ status = [n \in Node |-> "running"]
  /\ proc = [a \in Actor |-> Idle] /\ due = {} /\ mishap = {}
  /\ used = [op |-> 0, fault |-> 0]

Spend(what, max) == used[what] < max /\ used' = [used EXCEPT ![what] = @ + 1]

\* Actor a goes on as r. The recovery and a request may meet on a node.
Become(a, r) ==
  /\ proc' = [proc EXCEPT ![a] = r]
  /\ mishap' = mishap \union
       IF \E b \in Actor \ {a} : r.op # "none" /\ proc[b].node = r.node THEN {"overlap"} ELSE {}
Ends(a, causes) == proc' = [proc EXCEPT ![a] = Idle] /\ mishap' = mishap \union causes

-----------------------------------------------------------------------------
(* Requests.                                                               *)

AddPort(k) ==
  LET n == k[1] IN
  /\ proc[n] = Idle /\ due = {} /\ status[n] # "stopped" /\ Spend("op", MaxOp)
  /\ Become(n, [Idle EXCEPT !.op = "add", !.node = n, !.at = "acquire", !.key = k])
  /\ UNCHANGED <<table_vars, rules, rows, status, due>>

DeletePort(r) ==
  LET n == r.key[1] IN
  /\ proc[n] = Idle /\ due = {} /\ r \in rows /\ Spend("op", MaxOp)
  /\ Become(n, [Idle EXCEPT !.op = "delete", !.node = n, !.at = "release", !.todo = {r}])
  /\ UNCHANGED <<table_vars, rules, rows, status, due>>

\* stop_cluster deletes the mappings of the container, then stops it.
StopNode(n) ==
  /\ proc[n] = Idle /\ due = {} /\ status[n] # "stopped" /\ Spend("op", MaxOp)
  /\ Become(n, [Idle EXCEPT !.op = "stop", !.node = n, !.at = "release", !.todo = RowsOf(n)])
  /\ UNCHANGED <<table_vars, rules, rows, status, due>>

\* start_cluster does nothing about mappings.
StartNode(n) ==
  /\ proc[n] = Idle /\ due = {} /\ status[n] # "running" /\ Spend("op", MaxOp)
  /\ status' = [status EXCEPT ![n] = "running"]
  /\ UNCHANGED <<table_vars, rules, rows, proc, due, mishap>>

\* recover_cluster for a worker that came back, or for all when the master
\* starts: the cluster's containers run again, then its mappings are acquired.
RecoverNode(n) ==
  /\ proc[Recovery] = Idle /\ status[n] # "stopped"
  /\ IF due = {} THEN Spend("op", MaxOp) ELSE n \in due /\ UNCHANGED used
  /\ Become(Recovery, [Idle EXCEPT !.op = "recover", !.node = n, !.at = "next",
                         !.todo = RowsOf(n)])
  /\ UNCHANGED <<table_vars, rules, rows, status, due>>

RecoverNext ==
  LET p == proc[Recovery] IN
  /\ p.at = "next"
  /\ \/ \E r \in p.todo :
          /\ Become(Recovery, [p EXCEPT !.at = "acquire", !.key = r.key, !.host = r.host,
                                 !.todo = @ \ {r}])
          /\ UNCHANGED <<status, due>>
     \/ /\ p.todo = {} /\ Ends(Recovery, {})
        /\ status' = [status EXCEPT ![p.node] = "running"] /\ due' = due \ {p.node}
  /\ UNCHANGED <<table_vars, rules, rows, used>>

-----------------------------------------------------------------------------
(* acquire_port_mapping and release_port_mapping.                          *)

\* An acquisition failed: the recovery marks the cluster and leaves the rest
\* of its rows.
AcquireFails(a, causes) ==
  /\ Ends(a, causes \union IF a = Recovery THEN {"kept"} ELSE {})
  /\ status' = IF a = Recovery THEN [status EXCEPT ![proc[a].node] = "error"] ELSE status
  /\ due' = due \ {proc[a].node}

\* The first free port, or the port of the row, free or not.
Wanted(p) == IF p.op = "recover" THEN {p.host} ELSE IF free_ports = {} THEN {} ELSE {Min(free_ports)}

Marked_mutant(h) == {}
Marked(h) == {h}

Acquire(a) ==
  LET p == proc[a] IN
  /\ p.at = "acquire" /\ known' = known \union {p.key[1]}
  /\ IF allocated_ports[p.key] = 0 /\ Wanted(p) # {}
       THEN \E h \in Wanted(p) :
              /\ free_ports' = free_ports \ Marked(h)
              /\ allocated_ports' = [allocated_ports EXCEPT ![p.key] = h]
              /\ Become(a, [p EXCEPT !.at = "tcp", !.host = h]) /\ UNCHANGED <<status, due>>
       ELSE AcquireFails(a, {}) /\ UNCHANGED <<free_ports, allocated_ports>>
  /\ UNCHANGED <<rules, rows, used>>

AddRulesFor_mutant == {"tcp"}

\* The protocols a mapping gets a rule for.
AddRulesFor == {"tcp", "udp"}

\* iptables -A, for tcp and then for udp. The port stays marked on failure.
AddRule(a) ==
  LET p == proc[a] IN
  /\ p.at \in {"tcp", "udp"}
  /\ \/ /\ rules' = [rules EXCEPT ![<<p.at, p.host, p.key>>] = @ + 1]
        /\ Become(a, [p EXCEPT !.at = IF p.at = "tcp" /\ "udp" \in AddRulesFor THEN "udp"
                                      ELSE IF a = Recovery THEN "next" ELSE "row"])
        /\ UNCHANGED <<status, due, used>>
     \/ Spend("fault", MaxFault) /\ AcquireFails(a, {"iptables"}) /\ UNCHANGED rules
  /\ UNCHANGED <<table_vars, rows>>

AddRow(n) ==
  LET p == proc[n] IN
  /\ p.at = "row" /\ rows' = rows \union {[key |-> p.key, host |-> p.host]} /\ Ends(n, {})
  /\ UNCHANGED <<table_vars, rules, status, due, used>>

\* The release of a mapping failed. delete_port_mapping removes the row all the
\* same, delete_all_port_mapping keeps it and goes on.
ReleaseFails(n, causes) ==
  LET p == proc[n] IN
  IF p.op = "delete"
    THEN /\ rows' = rows \ {r \in rows : r.key = p.key}
         /\ Ends(n, causes)
    ELSE /\ proc' = [proc EXCEPT ![n].at = "release"]
         /\ mishap' = mishap \union causes \union {"kept"} /\ UNCHANGED rows

\* The host port is looked up without the lock. No entry for the container is
\* an error, none for its port an exception.
Release(n) ==
  LET p == proc[n] IN
  /\ p.at = "release"
  /\ \E r \in p.todo :
       LET q == [p EXCEPT !.todo = @ \ {r}, !.key = r.key, !.host = allocated_ports[r.key],
                   !.at = "untcp"]
       IN CASE n \notin known ->
                 IF p.op = "delete" THEN rows' = rows \ {r} /\ Ends(n, {})
                 ELSE proc' = [proc EXCEPT ![n] = [p EXCEPT !.todo = @ \ {r}]]
                      /\ mishap' = mishap \union {"kept"} /\ UNCHANGED rows
            [] n \in known /\ q.host = 0 -> Ends(n, {"kept"}) /\ UNCHANGED rows
            [] OTHER -> Become(n, q) /\ UNCHANGED rows
  /\ UNCHANGED <<table_vars, rules, status, due, used>>

AfterDrop_mutant(at) == "free"
AfterDrop(at) == IF at = "untcp" THEN "unudp" ELSE "free"

\* iptables -D fails for a rule that is not there.
DropRule(n) ==
  LET p == proc[n]
      rule == <<IF p.at = "untcp" THEN "tcp" ELSE "udp", p.host, p.key>>
  IN /\ p.at \in {"untcp", "unudp"}
     /\ \/ /\ rules[rule] > 0 /\ rules' = [rules EXCEPT ![rule] = @ - 1]
           /\ Become(n, [p EXCEPT !.at = AfterDrop(p.at)])
           /\ UNCHANGED <<rows, used>>
        \/ rules[rule] = 0 /\ ReleaseFails(n, {}) /\ UNCHANGED <<rules, used>>
        \/ Spend("fault", MaxFault) /\ ReleaseFails(n, {"iptables"}) /\ UNCHANGED rules
     /\ UNCHANGED <<table_vars, status, due>>

Freed_mutant(n, h) == {}
Freed(n, h) == {h}

FreePort(n) ==
  LET p == proc[n] IN
  /\ p.at = "free"
  /\ free_ports' = free_ports \union Freed(n, p.host)
  /\ allocated_ports' = [allocated_ports EXCEPT ![p.key] = 0]
  /\ Become(n, [p EXCEPT !.at = "release", !.gone = @ \union {r \in rows : r.key = p.key}])
  /\ UNCHANGED <<known, rules, rows, status, due, used>>

\* The rows of the mappings that were released are deleted, at the end.
DropRows(n) ==
  LET p == proc[n] IN
  /\ p.at = "release" /\ p.todo = {} /\ rows' = rows \ p.gone
  /\ IF p.op = "delete" THEN Ends(n, {}) ELSE Become(n, [p EXCEPT !.at = "stop"])
  /\ UNCHANGED <<table_vars, rules, status, due, used>>

StopEnd(n) ==
  /\ proc[n].at = "stop" /\ Ends(n, {})
  /\ status' = [status EXCEPT ![n] = "stopped"]
  /\ UNCHANGED <<table_vars, rules, rows, due, used>>

-----------------------------------------------------------------------------
(* The master is restarted: its tables are new, iptables is as it was, and *)
(* clusters that are not stopped are recovered before anything is served.  *)

Restart ==
  /\ Spend("fault", MaxFault)
  /\ free_ports' = Port /\ allocated_ports' = [k \in Key |-> 0] /\ known' = {}
  /\ proc' = [a \in Actor |-> Idle]
  /\ due' = {n \in Node : status[n] # "stopped"}
  /\ mishap' = mishap \union {"restart"}
                 \union IF \E a \in Actor : proc[a] # Idle THEN {"midway"} ELSE {}
  /\ UNCHANGED <<rules, rows, status>>

Next ==
  \/ RecoverNext \/ Restart
  \/ \E k \in Key : AddPort(k)
  \/ \E r \in rows : DeletePort(r)
  \/ \E a \in Actor : Acquire(a) \/ AddRule(a)
  \/ \E n \in Node : \/ StopNode(n) \/ StartNode(n) \/ RecoverNode(n) \/ AddRow(n)
                     \/ Release(n) \/ DropRule(n) \/ FreePort(n) \/ DropRows(n) \/ StopEnd(n)

Spec == Init /\ [][Next]_vars

-----------------------------------------------------------------------------
(* Properties.                                                             *)

Unless(causes, P) == causes \cap mishap # {} \/ P

\* No host port is allocated to two containers, or to one and free: the recovery
\* takes the port of a row without a look at free_ports, which is right as long
\* as every row has its mapping.
PortOnce ==
  Unless({"kept", "midway", "overlap"},
         /\ \A k, l \in Key : allocated_ports[k] # 0 /\ allocated_ports[k] = allocated_ports[l] => k = l
         /\ \A k \in Key : allocated_ports[k] \notin free_ports)

\* A host port that is taken has a mapping that a row or a request knows of.
PortKept ==
  Unless({"iptables", "overlap"},
         /\ Port \ free_ports \subseteq {allocated_ports[k] : k \in Key}
         /\ \A k \in Key : allocated_ports[k] # 0 =>
              \/ [key |-> k, host |-> allocated_ports[k]] \in rows
              \/ \E a \in Actor : proc[a].key = k)

\* A rule leads to the container the host port is allocated to: nobody reaches a
\* container by a port that has been given to somebody else.
RuleLeadsToOwner ==
  Unless({"restart"},
         \A r \in Rule : rules[r] > 0 => allocated_ports[r[3]] = r[2])

\* The mapping of a row of a running cluster works, when nobody is at it.
RowServed ==
  Unless({"kept"},
         \A r \in rows :
           status[r.key[1]] = "running" /\ ~Busy(r.key[1]) /\ r.key[1] \notin due =>
             /\ allocated_ports[r.key] = r.host
             /\ rules["tcp", r.host, r.key] > 0 /\ rules["udp", r.host, r.key] > 0)

=============================================================================
