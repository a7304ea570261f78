---------------------------- MODULE PortMapProofs ----------------------------
(***************************************************************************)
(* Proofs about PortMap.tla, for any nodes, ports and bounds: the host     *)
(* ports, the rules of iptables and the rows of the database agree         *)
(* (PortOnce, PortKept, RuleLeadsToOwner, RowServed), each unless          *)
(* something went wrong that it names.                                     *)
(*                                                                         *)
(* Two actors meet on a node when a recovery overlaps a request. What      *)
(* still holds then is an argument about one key at a time: who acquires a *)
(* key finds it unallocated, and only the node's request gives it back.    *)
(***************************************************************************)
EXTENDS PortMap, WellFoundedInduction, TLAPS

Protocol == {"tcp", "udp"}
Adding == {"tcp", "udp"}
Dropping == {"untcp", "unudp", "free"}

Procs == [op: {"none", "add", "delete", "stop", "recover"}, node: Node \union {"none"},
          todo: SUBSET Row, at: {"", "next", "acquire", "row", "release", "stop"} \union Adding \union Dropping,
          key: Key \union {<<>>}, host: Port \union {0}, gone: SUBSET Row]

Current(p) == [key |-> p.key, host |-> p.host]

\* What an actor does where. A request is at its own node.
Coherent(a, p) ==
  /\ p \in Procs
  /\ p.op = "none" => p.at = "" /\ p.gone = {}
  /\ a = Recovery /\ p.op # "none" =>
       p.op = "recover" /\ p.node \in Node /\ p.at \in {"next", "acquire"} \union Adding
  /\ a \in Node /\ p.op # "none" => p.node = a /\ p.op \in {"add", "delete", "stop"}
  /\ p.op = "add" => p.at \in {"acquire", "row"} \union Adding
  /\ p.op \in {"delete", "stop"} => p.at \in {"release", "stop"} \union Dropping
  /\ p.at = "stop" => p.op = "stop"
  /\ p.at \in {"acquire", "row"} \union Adding \union Dropping => p.key \in Key /\ p.key[1] = p.node
  /\ p.at \in {"row"} \union Adding \union Dropping => p.host \in Port
  /\ p.op = "recover" /\ p.at = "acquire" => p.host \in Port
  /\ p.op = "delete" /\ p.at # "release" => p.todo = {} /\ p.gone = {}
  /\ p.op = "delete" /\ p.todo # {} => p.gone = {} /\ \E r \in Row : p.todo = {r}
  /\ \A r \in p.todo \union p.gone : r.key[1] = p.node

Shapes ==
  /\ free_ports \subseteq Port /\ allocated_ports \in [Key -> Port \union {0}] /\ known \subseteq Node
  /\ rules \in [Rule -> Nat] /\ rows \subseteq Row
  /\ status \in [Node -> {"running", "stopped", "error"}] /\ due \subseteq Node
  /\ proc \in [Actor -> Procs] /\ \A a \in Actor : Coherent(a, proc[a])

\* Requests wait until all is recovered, and then the recovery is at a cluster that
\* is due.
Recovering ==
  /\ \A n \in Node : proc[n].op # "none" => due = {}
  /\ due # {} /\ proc[Recovery].op # "none" => proc[Recovery].node \in due
  /\ \A n \in due : status[n] # "stopped"

\* What is going to be freed is still allocated.
Releasing ==
  \A n \in Node : proc[n].at \in Dropping => allocated_ports[proc[n].key] = proc[n].host

\* Unless a recovery overlaps a request, each is alone at its node, the recovery
\* works on rows, and what is being acquired stays allocated.
Alone ==
  Unless({"overlap"},
    /\ \A a, b \in Actor : proc[a].op # "none" /\ proc[b].op # "none" /\ proc[a].node = proc[b].node => a = b
    /\ proc[Recovery].op # "none" => proc[Recovery].todo \subseteq rows
    /\ proc[Recovery].at \in {"acquire"} \union Adding => Current(proc[Recovery]) \in rows
    /\ \A a \in Actor : proc[a].at \in Adding => allocated_ports[proc[a].key] = proc[a].host)

Common == Shapes /\ Recovering /\ Releasing /\ Alone

-----------------------------------------------------------------------------
(* The rules.                                                              *)

\* No one has dropped a rule of the key that someone else is still to add.
RuleCount ==
  /\ \A x \in Protocol, h \in Port, k \in Key :
       /\ rules[<<x, h, k>>] <= 1
       /\ rules[<<x, h, k>>] > 0 => allocated_ports[k] = h
  /\ \A a \in Actor : proc[a].at \in Adding =>
       /\ allocated_ports[proc[a].key] = proc[a].host
       /\ rules[<<"udp", proc[a].host, proc[a].key>>] = 0
       /\ proc[a].at = "tcp" => rules[<<"tcp", proc[a].host, proc[a].key>>] = 0
  /\ \A a, b \in Actor : proc[a].at \in Adding /\ proc[b].at \in Adding /\ proc[a].key = proc[b].key => a = b
  /\ \A n \in Node :
       /\ proc[n].at \in {"unudp", "free"} =>
            /\ rules[<<"tcp", proc[n].host, proc[n].key>>] = 0
            /\ \A a \in Actor : proc[a].at = "tcp" => proc[a].key # proc[n].key
       /\ proc[n].at = "free" =>
            /\ rules[<<"udp", proc[n].host, proc[n].key>>] = 0
            /\ \A a \in Actor : proc[a].at = "udp" => proc[a].key # proc[n].key

RuleInv == Unless({"restart"}, RuleCount)

-----------------------------------------------------------------------------
(* The rows.                                                               *)

Mapped(k, h) == allocated_ports[k] = h /\ \A x \in Protocol : rules[<<x, h, k>>] > 0

\* A row has its mapping, waits for the recovery, or is about to be deleted.
RowState(r) ==
  LET n == r.key[1] IN
  \/ Mapped(r.key, r.host)
  \/ n \in due
  \/ proc[n].op \in {"delete", "stop"} /\ r \in proc[n].gone
  \/ proc[n].at \in Dropping /\ proc[n].key = r.key

RowStates == \A r \in rows : RowState(r)

\* A cluster that is stopped has no rows, nor gets any.
Stopped ==
  \A n \in Node : /\ status[n] = "stopped" => \A r \in rows : r.key[1] # n
                  /\ proc[n].op = "add" => status[n] # "stopped"

\* A request to stop leaves no row behind.
Stopping ==
  \A n \in Node :
    /\ proc[n].op = "stop" => \A r \in rows : r.key[1] = n =>
         \/ r \in proc[n].todo \/ r \in proc[n].gone
         \/ proc[n].at \in Dropping /\ proc[n].key = r.key
    /\ proc[n].at = "stop" => \A r \in rows : r.key[1] # n

\* A mapping that is being added has no row yet.
NewKeys ==
  \A n \in Node : proc[n].op = "add" /\ proc[n].at # "acquire" => \A r \in rows : r.key # proc[n].key

\* What has been acquired so far, by a request or by the recovery at a start.
Acquired ==
  /\ \A n \in Node : proc[n].at = "row" => Mapped(proc[n].key, proc[n].host)
  /\ \A a \in Actor :
       LET p == proc[a] IN
       p.at \in Adding /\ (a \in Node \/ p.node \in due) =>
         /\ allocated_ports[p.key] = p.host
         /\ p.at = "udp" => rules[<<"tcp", p.host, p.key>>] > 0

\* A recovery that is due leaves no row behind.
Left ==
  LET p == proc[Recovery] IN
  p.op # "none" /\ p.node \in due =>
    \A r \in rows : r.key[1] = p.node =>
      \/ r \in p.todo \/ Mapped(r.key, r.host)
      \/ r = Current(p) /\ p.at \in {"acquire"} \union Adding

RowsDone == RowStates /\ Stopped /\ Stopping /\ NewKeys /\ Acquired /\ Left

RowInv == Unless({"kept"}, RowsDone)

-----------------------------------------------------------------------------
(* The ports that are taken.                                               *)

\* A mapping has its row and its rules, or somebody is at it.
Kept(k) ==
  LET h == allocated_ports[k] IN
  h # 0 =>
    /\ k[1] \in known
    /\ \/ [key |-> k, host |-> h] \in rows /\ Mapped(k, h)
       \/ \E a \in Actor : proc[a].key = k /\ proc[a].at \in {"row"} \union Adding \union Dropping

\* The rules that are there while somebody is at a mapping.
HasRules(p) ==
  /\ p.at \in {"udp", "row", "untcp"} => rules[<<"tcp", p.host, p.key>>] > 0
  /\ p.at \in {"row", "untcp", "unudp"} => rules[<<"udp", p.host, p.key>>] > 0
  /\ p.at = "row" => allocated_ports[p.key] = p.host

\* A port that is taken is allocated, and what a request has released is not.
Taken == \A h \in Port \ free_ports : \E k \in Key : allocated_ports[k] = h
Gone ==
  \A n \in Node : proc[n].op \in {"delete", "stop"} => \A r \in proc[n].gone : allocated_ports[r.key] = 0

KeptDone ==
  /\ Taken /\ Gone
  /\ \A k \in Key : Kept(k)
  /\ \A a \in Actor : HasRules(proc[a])

KeptInv == Unless({"iptables", "overlap"}, KeptDone)

-----------------------------------------------------------------------------
(* One key for a host port.                                                *)

\* Until all is recovered, the host ports of the rows are those the tables had
\* before the restart.
OnceDone ==
  /\ \A k, l \in Key : allocated_ports[k] # 0 /\ allocated_ports[k] = allocated_ports[l] => k = l
  /\ \A k \in Key : allocated_ports[k] \notin free_ports
  /\ due # {} =>
       /\ \A k \in Key : allocated_ports[k] # 0 => [key |-> k, host |-> allocated_ports[k]] \in rows
       /\ \A r, s \in rows : r.host = s.host => r.key = s.key

OnceInv == Unless({"kept", "midway", "overlap"}, OnceDone)

-----------------------------------------------------------------------------
(* What a step does to the actor that takes it.                            *)

LEMMA IdleIs ==
  /\ Idle \in Procs /\ Idle.op = "none" /\ Idle.at = "" /\ Idle.todo = {} /\ Idle.gone = {}
  /\ Idle.node = "none"
  /\ \A a \in Actor : Coherent(a, Idle)
<1>1. /\ Idle \in Procs /\ Idle.op = "none" /\ Idle.at = "" /\ Idle.todo = {} /\ Idle.gone = {}
      /\ Idle.node = "none"
  BY DEF Idle, Procs
<1>2. QED
  BY <1>1 DEF Coherent, Adding, Dropping

LEMMA Roles == /\ Recovery \in Actor /\ Recovery \notin Node /\ Node \subseteq Actor
               /\ \A a \in Actor : a = Recovery \/ a \in Node
               /\ \A k \in Key : k[1] \in Node
               /\ \A r \in Row : r.key \in Key /\ r.host \in Port /\ r.key[1] \in Node
               /\ \A r \in Row : r = [key |-> r.key, host |-> r.host]
               /\ \A k \in Key, h \in Port : [key |-> k, host |-> h] \in Row
               /\ 0 \notin Port
BY PortAssumption DEF Recovery, Actor, Key, Row

\* Only actor a goes on; if it goes to another node and meets somebody there, that
\* is the mishap "overlap".
Turns(a) ==
  /\ proc' \in [Actor -> Procs]
  /\ \A b \in Actor \ {a} : proc'[b] = proc[b]
  /\ mishap \subseteq mishap'
  /\ Coherent(a, proc'[a])
  /\ proc'[a].op # "none" =>
       \/ proc[a].op # "none" /\ proc'[a].node = proc[a].node
       \/ /\ proc[a] = Idle
          /\ "overlap" \notin mishap' => \A b \in Actor \ {a} : proc[b].node # proc'[a].node

LEMMA BecomeTurns ==
  ASSUME Shapes, NEW a \in Actor, NEW r, Become(a, r), Coherent(a, r), r.op # "none",
         proc[a] = Idle \/ (proc[a].op # "none" /\ r.node = proc[a].node)
  PROVE  proc'[a] = r /\ Turns(a)
<1>1. r \in Procs
  BY DEF Coherent
<1>2. /\ proc' = [proc EXCEPT ![a] = r]
      /\ mishap' = mishap \union
           IF \E b \in Actor \ {a} : r.op # "none" /\ proc[b].node = r.node THEN {"overlap"} ELSE {}
  BY DEF Become
<1>3. proc'[a] = r /\ proc' \in [Actor -> Procs] /\ \A b \in Actor \ {a} : proc'[b] = proc[b]
  BY <1>1, <1>2 DEF Shapes
<1>4. /\ mishap \subseteq mishap'
      /\ "overlap" \notin mishap' => \A b \in Actor \ {a} : proc[b].node # r.node
  BY <1>2
<1>5. QED
  BY <1>3, <1>4 DEF Turns

LEMMA EndTurns ==
  ASSUME Shapes, NEW a \in Actor, NEW c, Ends(a, c)
  PROVE  proc'[a] = Idle /\ Turns(a) /\ mishap' = mishap \union c
<1>1. proc' = [proc EXCEPT ![a] = Idle] /\ mishap' = mishap \union c
  BY DEF Ends
<1>2. proc'[a] = Idle /\ proc' \in [Actor -> Procs] /\ \A b \in Actor \ {a} : proc'[b] = proc[b]
  BY <1>1, IdleIs DEF Shapes
<1>3. QED
  BY <1>1, <1>2, IdleIs DEF Turns

\* A request begins: nothing is due, and it knows the rows as they are.
LEMMA AddBegins ==
  ASSUME Shapes, NEW k \in Key, AddPort(k)
  PROVE  LET n == k[1] q == proc'[n] IN
         /\ n \in Node /\ Turns(n) /\ proc[n] = Idle /\ due = {} /\ status[n] # "stopped"
         /\ q.op = "add" /\ q.node = n /\ q.at = "acquire" /\ q.key = k /\ q.todo = {} /\ q.gone = {}
         /\ UNCHANGED <<table_vars, rules, rows, status, due>>
<1> DEFINE n == k[1]
<1>1. /\ n \in Node /\ n \in Actor /\ proc[n] = Idle /\ due = {} /\ status[n] # "stopped"
      /\ UNCHANGED <<table_vars, rules, rows, status, due>>
  BY Roles DEF AddPort
<1>2. PICK q : /\ q = [Idle EXCEPT !.op = "add", !.node = n, !.at = "acquire", !.key = k]
               /\ Become(n, q)
  BY DEF AddPort
<1>3. /\ q.op = "add" /\ q.node = n /\ q.at = "acquire" /\ q.key = k /\ q.todo = {} /\ q.gone = {}
      /\ q \in Procs
  BY <1>1, <1>2 DEF Idle, Procs, Adding, Dropping
<1>4. Coherent(n, q)
  BY <1>1, <1>3, Roles DEF Coherent, Adding, Dropping
<1>5. proc'[n] = q /\ Turns(n)
  BY <1>1, <1>2, <1>3, <1>4, BecomeTurns
<1>6. QED
  BY <1>1, <1>3, <1>5

LEMMA DeleteBegins ==
  ASSUME Shapes, NEW r \in rows, DeletePort(r)
  PROVE  LET n == r.key[1] q == proc'[n] IN
         /\ n \in Node /\ Turns(n) /\ proc[n] = Idle /\ due = {}
         /\ q.op = "delete" /\ q.node = n /\ q.at = "release" /\ q.todo = {r} /\ q.gone = {}
         /\ UNCHANGED <<table_vars, rules, rows, status, due>>
<1> DEFINE n == r.key[1]
<1>1. /\ r \in Row /\ n \in Node /\ n \in Actor /\ proc[n] = Idle /\ due = {}
      /\ UNCHANGED <<table_vars, rules, rows, status, due>>
  BY Roles DEF DeletePort, Shapes
<1>2. PICK q : /\ q = [Idle EXCEPT !.op = "delete", !.node = n, !.at = "release", !.todo = {r}]
               /\ Become(n, q)
  BY DEF DeletePort
<1>3. /\ q.op = "delete" /\ q.node = n /\ q.at = "release" /\ q.todo = {r} /\ q.gone = {}
      /\ q \in Procs
  BY <1>1, <1>2 DEF Idle, Procs, Adding, Dropping
<1>4. Coherent(n, q)
  BY <1>1, <1>3, Roles DEF Coherent, Adding, Dropping
<1>5. proc'[n] = q /\ Turns(n)
  BY <1>1, <1>2, <1>3, <1>4, BecomeTurns
<1>6. QED
  BY <1>1, <1>3, <1>5

LEMMA StopBegins ==
  ASSUME Shapes, NEW n \in Node, StopNode(n)
  PROVE  LET q == proc'[n] IN
         /\ Turns(n) /\ proc[n] = Idle /\ due = {} /\ status[n] # "stopped"
         /\ q.op = "stop" /\ q.node = n /\ q.at = "release" /\ q.todo = RowsOf(n) /\ q.gone = {}
         /\ UNCHANGED <<table_vars, rules, rows, status, due>>
<1>1. /\ n \in Actor /\ proc[n] = Idle /\ due = {} /\ status[n] # "stopped"
      /\ UNCHANGED <<table_vars, rules, rows, status, due>>
  BY Roles DEF StopNode
<1>2. PICK q : /\ q = [Idle EXCEPT !.op = "stop", !.node = n, !.at = "release", !.todo = RowsOf(n)]
               /\ Become(n, q)
  BY DEF StopNode
<1>3. RowsOf(n) \subseteq Row /\ \A r \in RowsOf(n) : r.key[1] = n
  BY DEF RowsOf, Shapes
<1>4. /\ q.op = "stop" /\ q.node = n /\ q.at = "release" /\ q.todo = RowsOf(n) /\ q.gone = {}
      /\ q \in Procs
  BY <1>1, <1>2, <1>3 DEF Idle, Procs, Adding, Dropping
<1>5. Coherent(n, q)
  BY <1>1, <1>3, <1>4, Roles DEF Coherent, Adding, Dropping
<1>6. proc'[n] = q /\ Turns(n)
  BY <1>1, <1>2, <1>4, <1>5, BecomeTurns
<1>7. QED
  BY <1>1, <1>4, <1>6

LEMMA RecoveryBegins ==
  ASSUME Shapes, NEW n \in Node, RecoverNode(n)
  PROVE  LET q == proc'[Recovery] IN
         /\ Turns(Recovery) /\ proc[Recovery] = Idle /\ status[n] # "stopped" /\ (due # {} => n \in due)
         /\ q.op = "recover" /\ q.node = n /\ q.at = "next" /\ q.todo = RowsOf(n) /\ q.gone = {}
         /\ UNCHANGED <<table_vars, rules, rows, status, due>>
<1>1. /\ proc[Recovery] = Idle /\ status[n] # "stopped" /\ (due # {} => n \in due)
      /\ UNCHANGED <<table_vars, rules, rows, status, due>>
  BY DEF RecoverNode
<1>2. PICK q : /\ q = [Idle EXCEPT !.op = "recover", !.node = n, !.at = "next", !.todo = RowsOf(n)]
               /\ Become(Recovery, q)
  BY DEF RecoverNode
<1>3. RowsOf(n) \subseteq Row /\ \A r \in RowsOf(n) : r.key[1] = n
  BY DEF RowsOf, Shapes
<1>4. /\ q.op = "recover" /\ q.node = n /\ q.at = "next" /\ q.todo = RowsOf(n) /\ q.gone = {}
      /\ q \in Procs
  BY <1>1, <1>2, <1>3 DEF Idle, Procs, Adding, Dropping
<1>5. Coherent(Recovery, q)
  BY <1>1, <1>3, <1>4, Roles DEF Coherent, Adding, Dropping
<1>6. proc'[Recovery] = q /\ Turns(Recovery)
  BY <1>1, <1>2, <1>4, <1>5, Roles, BecomeTurns
<1>7. QED
  BY <1>1, <1>4, <1>6

\* The recovery turns to a row, or has done them all.
LEMMA RecoveryGoesOn ==
  ASSUME Shapes, RecoverNext
  PROVE  LET p == proc[Recovery] q == proc'[Recovery] IN
         /\ Turns(Recovery) /\ p.op = "recover" /\ p.at = "next"
         /\ UNCHANGED <<table_vars, rules, rows>>
         /\ \/ \E r \in p.todo :
                 /\ q.op = "recover" /\ q.node = p.node /\ q.at = "acquire" /\ q.gone = p.gone
                 /\ q.key = r.key /\ q.host = r.host /\ q.todo = p.todo \ {r}
                 /\ UNCHANGED <<status, due>>
            \/ /\ p.todo = {} /\ q = Idle
               /\ status' = [status EXCEPT ![p.node] = "running"] /\ due' = due \ {p.node}
<1> DEFINE p == proc[Recovery]
<1>0. p.at = "next" /\ Recovery \in Actor /\ UNCHANGED <<table_vars, rules, rows>>
  BY Roles DEF RecoverNext
<1>1. p \in Procs /\ p.op = "recover" /\ Coherent(Recovery, p)
  BY <1>0, Roles DEF Shapes, Coherent
<1>2. CASE p.todo = {} /\ Ends(Recovery, {}) /\ status' = [status EXCEPT ![p.node] = "running"]
             /\ due' = due \ {p.node}
  BY <1>0, <1>1, <1>2, EndTurns
<1>3. CASE \E r \in p.todo :
             /\ Become(Recovery, [p EXCEPT !.at = "acquire", !.key = r.key, !.host = r.host,
                                    !.todo = @ \ {r}])
             /\ UNCHANGED <<status, due>>
  <2>1. PICK r \in p.todo :
             /\ Become(Recovery, [p EXCEPT !.at = "acquire", !.key = r.key, !.host = r.host,
                                    !.todo = @ \ {r}])
             /\ UNCHANGED <<status, due>>
    BY <1>3
  <2>2. PICK q : q = [p EXCEPT !.at = "acquire", !.key = r.key, !.host = r.host, !.todo = @ \ {r}]
    OBVIOUS
  <2>3. Become(Recovery, q)
    BY <2>1, <2>2
  <2>4. UNCHANGED <<status, due>>
    BY <2>1
  <2>5. r \in Row /\ r.key \in Key /\ r.host \in Port /\ r.key[1] = p.node
    BY <1>1, <2>1, Roles DEF Procs, Coherent
  <2>6. /\ q.op = "recover" /\ q.node = p.node /\ q.at = "acquire" /\ q.gone = p.gone
        /\ q.key = r.key /\ q.host = r.host /\ q.todo = p.todo \ {r} /\ q \in Procs
    BY <1>1, <2>1, <2>2, <2>5 DEF Procs, Adding, Dropping
  <2>7. Coherent(Recovery, q)
    BY <1>0, <1>1, <2>5, <2>6, Roles DEF Coherent, Adding, Dropping
  <2>8. proc'[Recovery] = q /\ Turns(Recovery)
    BY <1>0, <1>1, <2>3, <2>6, <2>7, BecomeTurns
  <2>9. QED
    BY <1>0, <1>1, <2>1, <2>4, <2>6, <2>8
<1>4. QED
  BY <1>2, <1>3 DEF RecoverNext

\* Actor a allocates a host port: the least free one, or that of the row.
Acquires(a) ==
  LET p == proc[a] q == proc'[a] h == q.host IN
  /\ Turns(a) /\ p.at = "acquire" /\ p.op \in {"add", "recover"} /\ p.key \in Key /\ h \in Port
  /\ p.op = "add" => h \in free_ports
  /\ p.op = "recover" => h = p.host
  /\ allocated_ports[p.key] = 0 /\ free_ports' = free_ports \ {h}
  /\ allocated_ports' = [allocated_ports EXCEPT ![p.key] = h]
  /\ known' = known \union {p.key[1]}
  /\ q.op = p.op /\ q.node = p.node /\ q.at = "tcp" /\ q.key = p.key /\ q.todo = p.todo /\ q.gone = p.gone
  /\ UNCHANGED <<rules, rows, status, due>>

\* It gets no port, or no rule for it.
GivesUp(a) ==
  LET p == proc[a] IN
  /\ Turns(a) /\ p.at \in {"acquire"} \union Adding /\ p.op \in {"add", "recover"} /\ proc'[a] = Idle
  /\ p.at # "acquire" => "iptables" \in mishap'
  /\ a = Recovery => "kept" \in mishap'
  /\ status' = IF a = Recovery THEN [status EXCEPT ![p.node] = "error"] ELSE status
  /\ due' = due \ {p.node} /\ known \subseteq known' /\ known' \subseteq Node
  /\ UNCHANGED <<free_ports, allocated_ports, rules, rows>>

\* What add and recover have in common.
LEMMA Acquirer ==
  ASSUME Shapes, NEW a \in Actor, proc[a].at \in {"acquire"} \union Adding
  PROVE  /\ proc[a] \in Procs /\ Coherent(a, proc[a]) /\ proc[a].op \in {"add", "recover"}
         /\ proc[a].key \in Key /\ proc[a].key[1] = proc[a].node /\ proc[a].node \in Node
         /\ proc[a].op = "recover" <=> a = Recovery
<1>1. proc[a] \in Procs /\ Coherent(a, proc[a]) /\ (a = Recovery \/ a \in Node)
  BY Roles DEF Shapes
<1>2. proc[a].op \in {"add", "recover"} /\ (proc[a].op = "recover" <=> a = Recovery)
  BY <1>1, Roles DEF Coherent, Procs, Adding, Dropping
<1>3. proc[a].key \in Key /\ proc[a].key[1] = proc[a].node
  BY <1>1, <1>2 DEF Coherent, Adding, Dropping
<1>4. QED
  BY <1>1, <1>2, <1>3, Roles

LEMMA LeastFree ==
  ASSUME Shapes, free_ports # {} PROVE Min(free_ports) \in free_ports
<1> DEFINE Less == {z \in Nat \X Nat : z[1] < z[2]}
<1>1. free_ports \subseteq Nat
  BY PortAssumption DEF Shapes
<1>2. IsWellFoundedOn(Less, Nat)
  <2>1. OpToRel(<, Nat) = Less
    BY DEF OpToRel
  <2>2. QED
    BY <2>1, NatLessThanWellFounded
<1>3. PICK x \in free_ports : \A y \in free_ports : ~ (<<y, x>> \in Less)
  BY <1>1, <1>2, WFMin
<1>4. \A y \in free_ports : x =< y
  <2>1. SUFFICES ASSUME NEW y \in free_ports, y < x PROVE FALSE
    BY <1>1
  <2>2. <<y, x>> \in Nat \X Nat /\ <<y, x>>[1] < <<y, x>>[2]
    BY <1>1, <2>1
  <2>3. <<y, x>> \in Less
    BY <2>2, Zenon
  <2>4. QED
    BY <1>3, <2>3
<1>5. QED
  BY <1>4 DEF Min

LEMMA FailureGivesUp ==
  ASSUME Shapes, NEW a \in Actor, NEW c, AcquireFails(a, c), proc[a].at \in {"acquire"} \union Adding,
         proc[a].at # "acquire" => "iptables" \in c, known \subseteq known', known' \subseteq Node,
         UNCHANGED <<free_ports, allocated_ports, rules, rows>>
  PROVE  GivesUp(a)
<1>1. /\ Ends(a, c \union IF a = Recovery THEN {"kept"} ELSE {})
      /\ status' = IF a = Recovery THEN [status EXCEPT ![proc[a].node] = "error"] ELSE status
      /\ due' = due \ {proc[a].node}
  BY DEF AcquireFails
<1>2. /\ proc'[a] = Idle /\ Turns(a)
      /\ mishap' = mishap \union (c \union IF a = Recovery THEN {"kept"} ELSE {})
  BY <1>1, EndTurns
<1>3. QED
  BY <1>1, <1>2, Acquirer DEF GivesUp

LEMMA AcquireForm == ASSUME Shapes, NEW a \in Actor, Acquire(a) PROVE Acquires(a) \/ GivesUp(a)
<1> DEFINE p == proc[a]
<1>1. /\ p.at = "acquire" /\ known' = known \union {p.key[1]} /\ UNCHANGED <<rules, rows>>
  BY DEF Acquire
<1>2. /\ p \in Procs /\ Coherent(a, p) /\ p.op \in {"add", "recover"} /\ p.key \in Key
      /\ p.key[1] = p.node /\ p.node \in Node /\ (p.op = "recover" => p.host \in Port)
  BY <1>1, Acquirer DEF Coherent
<1>3. CASE AcquireFails(a, {}) /\ UNCHANGED <<free_ports, allocated_ports>>
  BY <1>1, <1>2, <1>3, FailureGivesUp DEF Shapes
<1>4. CASE \E h \in Wanted(p) :
             /\ free_ports' = free_ports \ Marked(h)
             /\ allocated_ports' = [allocated_ports EXCEPT ![p.key] = h]
             /\ Become(a, [p EXCEPT !.at = "tcp", !.host = h]) /\ UNCHANGED <<status, due>>
             /\ allocated_ports[p.key] = 0
  <2>1. PICK h \in Wanted(p) :
             /\ free_ports' = free_ports \ Marked(h)
             /\ allocated_ports' = [allocated_ports EXCEPT ![p.key] = h]
             /\ Become(a, [p EXCEPT !.at = "tcp", !.host = h]) /\ UNCHANGED <<status, due>>
             /\ allocated_ports[p.key] = 0
    BY <1>4
  <2>2. PICK q : q = [p EXCEPT !.at = "tcp", !.host = h]
    OBVIOUS
  <2>3. h \in Port /\ (p.op = "add" => h \in free_ports) /\ (p.op = "recover" => h = p.host)
    BY <1>2, LeastFree DEF Wanted, Shapes
  <2>4. /\ q.op = p.op /\ q.node = p.node /\ q.at = "tcp" /\ q.gone = p.gone
        /\ q.key = p.key /\ q.host = h /\ q.todo = p.todo /\ q \in Procs
    BY <1>2, <2>2, <2>3 DEF Procs, Adding, Dropping
  <2>5. Coherent(a, q)
    BY <1>1, <1>2, <2>3, <2>4 DEF Coherent, Adding, Dropping
  <2>6. Become(a, q)
    BY <2>1, <2>2
  <2>7. proc'[a] = q /\ Turns(a)
    BY <1>2, <2>4, <2>5, <2>6, BecomeTurns
  <2>8. QED
    BY <1>1, <1>2, <2>1, <2>3, <2>4, <2>7 DEF Acquires, Marked
<1>5. QED
  BY <1>3, <1>4 DEF Acquire

\* A rule is added; after the second, the recovery goes on and a request writes its row.
AddsRule(a) ==
  LET p == proc[a] q == proc'[a] IN
  /\ Turns(a) /\ p.at \in Adding /\ p.op \in {"add", "recover"} /\ p.key \in Key /\ p.host \in Port
  /\ rules' = [rules EXCEPT ![<<p.at, p.host, p.key>>] = @ + 1]
  /\ q.op = p.op /\ q.node = p.node /\ q.key = p.key /\ q.todo = p.todo /\ q.gone = p.gone
  /\ q.host = p.host
  /\ q.at = IF p.at = "tcp" THEN "udp" ELSE IF a = Recovery THEN "next" ELSE "row"
  /\ UNCHANGED <<table_vars, rows, status, due>>

LEMMA AddRuleForm == ASSUME Shapes, NEW a \in Actor, AddRule(a) PROVE AddsRule(a) \/ GivesUp(a)
<1> DEFINE p == proc[a]
           at == IF p.at = "tcp" THEN "udp" ELSE IF a = Recovery THEN "next" ELSE "row"
<1>1. p.at \in Adding /\ UNCHANGED <<table_vars, rows>>
  BY DEF AddRule, Adding
<1>2. /\ p \in Procs /\ Coherent(a, p) /\ p.op \in {"add", "recover"} /\ p.key \in Key
      /\ p.key[1] = p.node /\ p.node \in Node /\ p.host \in Port /\ (p.op = "recover" <=> a = Recovery)
  BY <1>1, Acquirer DEF Coherent
<1>3. CASE AcquireFails(a, {"iptables"}) /\ UNCHANGED rules
  BY <1>1, <1>2, <1>3, FailureGivesUp DEF Shapes, table_vars
<1>4. CASE /\ rules' = [rules EXCEPT ![<<p.at, p.host, p.key>>] = @ + 1]
           /\ Become(a, [p EXCEPT !.at = IF p.at = "tcp" /\ "udp" \in AddRulesFor THEN "udp"
                                         ELSE IF a = Recovery THEN "next" ELSE "row"])
           /\ UNCHANGED <<status, due, used>>
  <2>1. PICK q : q = [p EXCEPT !.at = at]
    OBVIOUS
  <2>2. Become(a, q)
    BY <1>4, <2>1 DEF AddRulesFor
  <2>3. /\ q.op = p.op /\ q.node = p.node /\ q.at = at /\ q.gone = p.gone
        /\ q.key = p.key /\ q.host = p.host /\ q.todo = p.todo /\ q \in Procs
    BY <1>2, <2>1 DEF Procs, Adding, Dropping
  <2>4. Coherent(a, q)
    BY <1>1, <1>2, <2>3, Roles DEF Coherent, Adding, Dropping
  <2>5. proc'[a] = q /\ Turns(a)
    BY <1>2, <2>2, <2>3, <2>4, BecomeTurns
  <2>6. QED
    BY <1>1, <1>2, <1>4, <2>3, <2>5 DEF AddsRule
<1>5. QED
  BY <1>3, <1>4 DEF AddRule

WritesRow(n) ==
  LET p == proc[n] IN
  /\ Turns(n) /\ p.op = "add" /\ p.at = "row" /\ p.key \in Key /\ p.host \in Port
  /\ proc'[n] = Idle /\ rows' = rows \union {Current(p)}
  /\ UNCHANGED <<table_vars, rules, status, due>>

\* What a request is that is past its acquire, or releases.
LEMMA Requester ==
  ASSUME Shapes, NEW n \in Node, proc[n].op # "none"
  PROVE  /\ n \in Actor /\ n # Recovery /\ proc[n] \in Procs /\ Coherent(n, proc[n]) /\ proc[n].node = n
         /\ proc[n].op \in {"add", "delete", "stop"}
         /\ \A r \in proc[n].todo \union proc[n].gone :
              r \in Row /\ r.key \in Key /\ r.host \in Port /\ r.key[1] = n
<1>1. n \in Actor /\ n # Recovery /\ proc[n] \in Procs /\ Coherent(n, proc[n])
  BY Roles DEF Shapes
<1>2. proc[n].node = n /\ proc[n].op \in {"add", "delete", "stop"}
  BY <1>1 DEF Coherent
<1>3. \A r \in proc[n].todo \union proc[n].gone : r \in Row /\ r.key[1] = n
  BY <1>1, <1>2 DEF Coherent, Procs
<1>4. QED
  BY <1>1, <1>2, <1>3, Roles

LEMMA AddRowForm == ASSUME Shapes, NEW n \in Node, AddRow(n) PROVE WritesRow(n)
<1>1. /\ proc[n].at = "row" /\ Ends(n, {}) /\ rows' = rows \union {Current(proc[n])}
      /\ UNCHANGED <<table_vars, rules, status, due>>
  BY DEF AddRow, Current
<1>2. n \in Actor /\ Coherent(n, proc[n]) /\ proc[n] \in Procs
  BY Roles DEF Shapes
<1>3. proc[n].op = "add" /\ proc[n].key \in Key /\ proc[n].host \in Port
  BY <1>1, <1>2, Roles DEF Coherent, Adding, Dropping, Procs
<1>4. proc'[n] = Idle /\ Turns(n)
  BY <1>1, <1>2, EndTurns
<1>5. QED
  BY <1>1, <1>3, <1>4 DEF WritesRow

\* A row of the request whose mapping is going to be released ...
Releases(n, r) ==
  LET p == proc[n] q == proc'[n] IN
  /\ Turns(n) /\ p.op \in {"delete", "stop"} /\ p.at = "release" /\ r \in p.todo
  /\ allocated_ports[r.key] \in Port /\ r.key[1] \in known
  /\ q.op = p.op /\ q.node = n /\ q.at = "untcp" /\ q.key = r.key /\ q.host = allocated_ports[r.key]
  /\ q.todo = p.todo \ {r} /\ q.gone = p.gone
  /\ UNCHANGED <<table_vars, rules, rows, status, due>>

\* ... or has none: it is deleted, stays, or ends the request.
FindsNone(n, r) ==
  LET p == proc[n] q == proc'[n] IN
  /\ Turns(n) /\ p.op \in {"delete", "stop"} /\ p.at = "release" /\ r \in p.todo
  /\ \/ p.op = "delete" /\ n \notin known /\ q = Idle /\ rows' = rows \ {r}
     \/ /\ p.op = "stop" /\ "kept" \in mishap' /\ rows' = rows
        /\ q.op = p.op /\ q.node = n /\ q.at = "release" /\ q.key = p.key /\ q.host = p.host
        /\ q.todo = p.todo \ {r} /\ q.gone = p.gone
     \/ q = Idle /\ "kept" \in mishap' /\ rows' = rows
  /\ UNCHANGED <<table_vars, rules, status, due>>

LEMMA ReleaseForm ==
  ASSUME Shapes, NEW n \in Node, Release(n)
  PROVE  \E r \in proc[n].todo : Releases(n, r) \/ FindsNone(n, r)
<1> DEFINE p == proc[n]
           Next1(r) == [p EXCEPT !.todo = @ \ {r}, !.key = r.key, !.host = allocated_ports[r.key],
                                !.at = "untcp"]
<1>1. p.at = "release" /\ UNCHANGED <<table_vars, rules, status, due>>
  BY DEF Release
<1>2. p.op # "none"
  BY <1>1, Roles DEF Shapes, Coherent
<1>3. /\ n \in Actor /\ n # Recovery /\ p \in Procs /\ Coherent(n, p) /\ p.node = n
      /\ p.op \in {"delete", "stop"}
      /\ \A r \in p.todo : r \in Row /\ r.key \in Key /\ r.host \in Port /\ r.key[1] = n
  BY <1>1, <1>2, Requester DEF Coherent, Adding
<1>4. PICK r \in p.todo :
        CASE n \notin known ->
               IF p.op = "delete" THEN rows' = rows \ {r} /\ Ends(n, {})
               ELSE proc' = [proc EXCEPT ![n] = [p EXCEPT !.todo = @ \ {r}]]
                    /\ mishap' = mishap \union {"kept"} /\ UNCHANGED rows
          [] n \in known /\ Next1(r).host = 0 -> Ends(n, {"kept"}) /\ UNCHANGED rows
          [] OTHER -> Become(n, Next1(r)) /\ UNCHANGED rows
  BY DEF Release
<1>5. PICK q : q = Next1(r)
  OBVIOUS
<1>6. allocated_ports[r.key] \in Port \union {0}
  BY <1>3 DEF Shapes
<1>7. /\ q.op = p.op /\ q.node = n /\ q.at = "untcp" /\ q.key = r.key /\ q.host = allocated_ports[r.key]
      /\ q.todo = p.todo \ {r} /\ q.gone = p.gone /\ q \in Procs
  BY <1>3, <1>5, <1>6 DEF Procs, Adding, Dropping
<1>8. CASE n \notin known /\ p.op = "delete"
  <2>1. rows' = rows \ {r} /\ Ends(n, {})
    BY <1>4, <1>8
  <2>2. proc'[n] = Idle /\ Turns(n)
    BY <1>3, <2>1, EndTurns
  <2>3. QED
    BY <1>1, <1>3, <1>8, <2>1, <2>2 DEF FindsNone
<1>9. CASE n \notin known /\ p.op = "stop"
  <2>1. proc' = [proc EXCEPT ![n] = [p EXCEPT !.todo = @ \ {r}]]
        /\ mishap' = mishap \union {"kept"} /\ UNCHANGED rows
    BY <1>4, <1>9
  <2>2. PICK s : s = [p EXCEPT !.todo = @ \ {r}]
    OBVIOUS
  <2>3. /\ s.op = p.op /\ s.node = n /\ s.at = "release" /\ s.key = p.key /\ s.host = p.host
        /\ s.todo = p.todo \ {r} /\ s.gone = p.gone /\ s \in Procs
    BY <1>1, <1>3, <2>2 DEF Procs
  <2>4. Coherent(n, s)
    BY <1>1, <1>3, <1>9, <2>3 DEF Coherent, Adding, Dropping
  <2>5. proc'[n] = s /\ proc' \in [Actor -> Procs] /\ \A b \in Actor \ {n} : proc'[b] = proc[b]
    BY <1>3, <2>1, <2>2, <2>3 DEF Shapes
  <2>6. Turns(n)
    BY <1>2, <1>3, <2>1, <2>3, <2>4, <2>5 DEF Turns
  <2>7. QED
    BY <1>1, <1>3, <1>9, <2>1, <2>3, <2>5, <2>6 DEF FindsNone
<1>10. CASE n \in known /\ q.host = 0
  <2>1. Ends(n, {"kept"}) /\ UNCHANGED rows
    BY <1>4, <1>5, <1>10
  <2>2. proc'[n] = Idle /\ Turns(n) /\ mishap' = mishap \union {"kept"}
    BY <1>3, <2>1, EndTurns
  <2>3. QED
    BY <1>1, <1>3, <2>1, <2>2 DEF FindsNone
<1>11. CASE n \in known /\ q.host # 0
  <2>1. Become(n, q) /\ UNCHANGED rows
    BY <1>4, <1>5, <1>11
  <2>2. Coherent(n, q)
    BY <1>1, <1>3, <1>6, <1>7, <1>11 DEF Coherent, Adding, Dropping
  <2>3. proc'[n] = q /\ Turns(n)
    BY <1>2, <1>3, <1>7, <2>1, <2>2, BecomeTurns
  <2>4. QED
    BY <1>1, <1>3, <1>6, <1>7, <1>11, <2>1, <2>3 DEF Releases
<1>12. QED
  BY <1>3, <1>8, <1>9, <1>10, <1>11

\* What a request is that releases a mapping.
LEMMA Releaser ==
  ASSUME Shapes, NEW n \in Node, proc[n].at \in Dropping
  PROVE  /\ n \in Actor /\ n # Recovery /\ proc[n] \in Procs /\ Coherent(n, proc[n]) /\ proc[n].node = n
         /\ proc[n].op \in {"delete", "stop"} /\ proc[n].key \in Key /\ proc[n].key[1] = n
         /\ proc[n].host \in Port
<1>1. proc[n].op # "none"
  BY Roles DEF Shapes, Coherent, Dropping
<1>2. /\ n \in Actor /\ n # Recovery /\ proc[n] \in Procs /\ Coherent(n, proc[n]) /\ proc[n].node = n
      /\ proc[n].op \in {"add", "delete", "stop"}
  BY <1>1, Requester
<1>3. QED
  BY <1>2 DEF Coherent, Dropping, Adding

\* A rule is dropped ...
DropsRule(n, x) ==
  LET p == proc[n] q == proc'[n] IN
  /\ Turns(n) /\ p.op \in {"delete", "stop"} /\ p.key \in Key /\ p.key[1] = n /\ p.host \in Port
  /\ \/ p.at = "untcp" /\ x = "tcp" /\ q.at = "unudp"
     \/ p.at = "unudp" /\ x = "udp" /\ q.at = "free"
  /\ rules[<<x, p.host, p.key>>] > 0
  /\ rules' = [rules EXCEPT ![<<x, p.host, p.key>>] = @ - 1]
  /\ q.op = p.op /\ q.node = n /\ q.key = p.key /\ q.host = p.host /\ q.todo = p.todo /\ q.gone = p.gone
  /\ UNCHANGED <<table_vars, rows, status, due>>

\* ... or not: the row is deleted all the same, or stays.
ReleaseGivesUp(n) ==
  LET p == proc[n] q == proc'[n] IN
  /\ Turns(n) /\ p.op \in {"delete", "stop"} /\ p.key \in Key /\ p.key[1] = n /\ p.host \in Port
  /\ \/ p.at = "untcp" /\ ("iptables" \in mishap' \/ rules[<<"tcp", p.host, p.key>>] = 0)
     \/ p.at = "unudp" /\ ("iptables" \in mishap' \/ rules[<<"udp", p.host, p.key>>] = 0)
  /\ \/ p.op = "delete" /\ q = Idle /\ rows' = {r \in rows : r.key # p.key}
     \/ /\ p.op = "stop" /\ "kept" \in mishap' /\ rows' = rows
        /\ q.op = p.op /\ q.node = n /\ q.at = "release" /\ q.key = p.key /\ q.host = p.host
        /\ q.todo = p.todo /\ q.gone = p.gone
  /\ UNCHANGED <<table_vars, rules, status, due>>

LEMMA ReleaseFailsForm ==
  ASSUME Shapes, NEW n \in Node, NEW c, ReleaseFails(n, c), UNCHANGED <<table_vars, rules, status, due>>,
         \/ proc[n].at = "untcp" /\ ("iptables" \in c \/ rules[<<"tcp", proc[n].host, proc[n].key>>] = 0)
         \/ proc[n].at = "unudp" /\ ("iptables" \in c \/ rules[<<"udp", proc[n].host, proc[n].key>>] = 0)
  PROVE  ReleaseGivesUp(n)
<1> DEFINE p == proc[n]
<1>1. /\ n \in Actor /\ n # Recovery /\ p \in Procs /\ Coherent(n, p) /\ p.node = n
      /\ p.op \in {"delete", "stop"} /\ p.key \in Key /\ p.key[1] = n /\ p.host \in Port
  BY Releaser DEF Dropping
<1>2. CASE p.op = "delete"
  <2>1. rows' = rows \ {r \in rows : r.key = p.key} /\ Ends(n, c)
    BY <1>2 DEF ReleaseFails
  <2>2. proc'[n] = Idle /\ Turns(n) /\ mishap' = mishap \union c
    BY <1>1, <2>1, EndTurns
  <2>3. rows' = {r \in rows : r.key # p.key}
    BY <2>1
  <2>4. QED
    BY <1>1, <1>2, <2>2, <2>3 DEF ReleaseGivesUp
<1>3. CASE p.op = "stop"
  <2>1. /\ proc' = [proc EXCEPT ![n].at = "release"] /\ mishap' = mishap \union c \union {"kept"}
        /\ UNCHANGED rows
    BY <1>3 DEF ReleaseFails
  <2>2. PICK q : q = [p EXCEPT !.at = "release"]
    OBVIOUS
  <2>3. /\ q.op = p.op /\ q.node = n /\ q.at = "release" /\ q.key = p.key /\ q.host = p.host
        /\ q.todo = p.todo /\ q.gone = p.gone /\ q \in Procs
    BY <1>1, <2>2 DEF Procs
  <2>4. Coherent(n, q)
    BY <1>1, <1>3, <2>3 DEF Coherent, Adding, Dropping
  <2>5. proc' = [proc EXCEPT ![n] = q]
    BY <1>1, <2>1, <2>2 DEF Shapes
  <2>6. proc'[n] = q /\ proc' \in [Actor -> Procs] /\ \A b \in Actor \ {n} : proc'[b] = proc[b]
    BY <1>1, <2>3, <2>5 DEF Shapes
  <2>7. Turns(n)
    BY <1>1, <1>3, <2>1, <2>3, <2>4, <2>6 DEF Turns
  <2>8. QED
    BY <1>1, <1>3, <2>1, <2>3, <2>6, <2>7 DEF ReleaseGivesUp
<1>4. QED
  BY <1>1, <1>2, <1>3

LEMMA DropRuleForm ==
  ASSUME Shapes, NEW n \in Node, DropRule(n)
  PROVE  ReleaseGivesUp(n) \/ \E x \in Protocol : DropsRule(n, x)
<1> DEFINE p == proc[n]
           x == IF p.at = "untcp" THEN "tcp" ELSE "udp"
           at == IF p.at = "untcp" THEN "unudp" ELSE "free"
<1>1. p.at \in {"untcp", "unudp"} /\ UNCHANGED <<table_vars, status, due>>
  BY DEF DropRule
<1>2. /\ n \in Actor /\ n # Recovery /\ p \in Procs /\ Coherent(n, p) /\ p.node = n
      /\ p.op \in {"delete", "stop"} /\ p.key \in Key /\ p.key[1] = n /\ p.host \in Port
  BY <1>1, Releaser DEF Dropping
<1>3. CASE rules[<<x, p.host, p.key>>] = 0 /\ ReleaseFails(n, {}) /\ UNCHANGED <<rules, used>>
  BY <1>1, <1>3, ReleaseFailsForm
<1>4. CASE ReleaseFails(n, {"iptables"}) /\ UNCHANGED rules
  BY <1>1, <1>4, ReleaseFailsForm
<1>5. CASE /\ rules[<<x, p.host, p.key>>] > 0
           /\ rules' = [rules EXCEPT ![<<x, p.host, p.key>>] = @ - 1]
           /\ Become(n, [p EXCEPT !.at = AfterDrop(p.at)])
           /\ UNCHANGED <<rows, used>>
  <2>1. PICK q : q = [p EXCEPT !.at = at]
    OBVIOUS
  <2>2. Become(n, q)
    BY <1>5, <2>1 DEF AfterDrop
  <2>3. /\ q.op = p.op /\ q.node = n /\ q.at = at /\ q.key = p.key /\ q.host = p.host
        /\ q.todo = p.todo /\ q.gone = p.gone /\ q \in Procs
    BY <1>1, <1>2, <2>1 DEF Procs, Dropping
  <2>4. Coherent(n, q)
    BY <1>1, <1>2, <2>3 DEF Coherent, Adding, Dropping
  <2>5. proc'[n] = q /\ Turns(n)
    BY <1>2, <2>2, <2>3, <2>4, BecomeTurns
  <2>6. x \in Protocol /\ DropsRule(n, x)
    BY <1>1, <1>2, <1>5, <2>3, <2>5 DEF DropsRule, Protocol
  <2>7. QED
    BY <2>6
<1>6. QED
  BY <1>3, <1>4, <1>5 DEF DropRule

FreesPort(n) ==
  LET p == proc[n] q == proc'[n] IN
  /\ Turns(n) /\ p.op \in {"delete", "stop"} /\ p.at = "free" /\ p.key \in Key /\ p.key[1] = n
  /\ p.host \in Port
  /\ free_ports' = free_ports \union {p.host}
  /\ allocated_ports' = [allocated_ports EXCEPT ![p.key] = 0]
  /\ q.op = p.op /\ q.node = n /\ q.at = "release" /\ q.key = p.key /\ q.host = p.host
  /\ q.todo = p.todo /\ q.gone = p.gone \union {r \in rows : r.key = p.key}
  /\ UNCHANGED <<known, rules, rows, status, due>>

LEMMA FreePortForm == ASSUME Shapes, NEW n \in Node, FreePort(n) PROVE FreesPort(n)
<1> DEFINE p == proc[n]
<1>1. /\ p.at = "free"
      /\ free_ports' = free_ports \union {p.host}
      /\ allocated_ports' = [allocated_ports EXCEPT ![p.key] = 0]
      /\ UNCHANGED <<known, rules, rows, status, due>>
  BY DEF FreePort, Freed
<1>2. PICK q : /\ q = [p EXCEPT !.at = "release", !.gone = @ \union {r \in rows : r.key = p.key}]
               /\ Become(n, q)
  BY DEF FreePort
<1>3. /\ n \in Actor /\ n # Recovery /\ p \in Procs /\ Coherent(n, p) /\ p.node = n
      /\ p.op \in {"delete", "stop"} /\ p.key \in Key /\ p.key[1] = n /\ p.host \in Port
  BY <1>1, Releaser DEF Dropping
<1>4. p.op = "delete" => p.todo = {}
  BY <1>1, <1>3 DEF Coherent
<1>5. \A r \in rows : r \in Row
  BY DEF Shapes
<1>6. /\ q.op = p.op /\ q.node = n /\ q.at = "release" /\ q.key = p.key /\ q.host = p.host
      /\ q.todo = p.todo /\ q.gone = p.gone \union {r \in rows : r.key = p.key} /\ q \in Procs
  BY <1>2, <1>3, <1>5 DEF Procs
<1>7. Coherent(n, q)
  BY <1>3, <1>4, <1>6 DEF Coherent, Adding, Dropping
<1>8. proc'[n] = q /\ Turns(n)
  BY <1>2, <1>3, <1>6, <1>7, BecomeTurns
<1>9. QED
  BY <1>1, <1>3, <1>6, <1>8 DEF FreesPort

\* All is released: the rows are deleted, a request to stop has still to stop.
DropsRows(n) ==
  LET p == proc[n] q == proc'[n] IN
  /\ Turns(n) /\ p.op \in {"delete", "stop"} /\ p.at = "release" /\ p.todo = {}
  /\ rows' = rows \ p.gone
  /\ \/ p.op = "delete" /\ q = Idle
     \/ /\ p.op = "stop" /\ q.op = "stop" /\ q.node = n /\ q.at = "stop" /\ q.key = p.key
        /\ q.todo = {} /\ q.gone = p.gone
  /\ UNCHANGED <<table_vars, rules, status, due>>

LEMMA DropRowsForm == ASSUME Shapes, NEW n \in Node, DropRows(n) PROVE DropsRows(n)
<1> DEFINE p == proc[n]
<1>1. /\ p.at = "release" /\ p.todo = {} /\ rows' = rows \ p.gone
      /\ UNCHANGED <<table_vars, rules, status, due>>
  BY DEF DropRows
<1>2. p.op # "none"
  BY <1>1, Roles DEF Shapes, Coherent
<1>3. /\ n \in Actor /\ n # Recovery /\ p \in Procs /\ Coherent(n, p) /\ p.node = n
      /\ p.op \in {"delete", "stop"}
  BY <1>1, <1>2, Requester DEF Coherent, Adding
<1>4. CASE p.op = "delete" /\ Ends(n, {})
  BY <1>1, <1>3, <1>4, EndTurns DEF DropsRows
<1>5. CASE p.op = "stop" /\ Become(n, [p EXCEPT !.at = "stop"])
  <2>1. PICK q : q = [p EXCEPT !.at = "stop"]
    OBVIOUS
  <2>2. /\ q.op = p.op /\ q.node = n /\ q.at = "stop" /\ q.key = p.key /\ q.host = p.host
        /\ q.todo = p.todo /\ q.gone = p.gone /\ q \in Procs
    BY <1>3, <2>1 DEF Procs
  <2>3. Coherent(n, q)
    BY <1>1, <1>3, <1>5, <2>2 DEF Coherent, Adding, Dropping
  <2>4. Become(n, q)
    BY <1>5, <2>1
  <2>5. proc'[n] = q /\ Turns(n)
    BY <1>2, <1>3, <2>2, <2>3, <2>4, BecomeTurns
  <2>6. QED
    BY <1>1, <1>3, <1>5, <2>2, <2>5 DEF DropsRows
<1>6. QED
  BY <1>3, <1>4, <1>5 DEF DropRows

Stops(n) ==
  /\ Turns(n) /\ proc[n].op = "stop" /\ proc[n].at = "stop" /\ proc'[n] = Idle
  /\ status' = [status EXCEPT ![n] = "stopped"]
  /\ UNCHANGED <<table_vars, rules, rows, due>>

LEMMA StopEndForm == ASSUME Shapes, NEW n \in Node, StopEnd(n) PROVE Stops(n)
<1>1. /\ proc[n].at = "stop" /\ Ends(n, {}) /\ status' = [status EXCEPT ![n] = "stopped"]
      /\ UNCHANGED <<table_vars, rules, rows, due>>
  BY DEF StopEnd
<1>2. n \in Actor /\ Coherent(n, proc[n]) /\ proc[n] \in Procs
  BY Roles DEF Shapes
<1>3. proc[n].op = "stop"
  BY <1>1, <1>2 DEF Coherent
<1>4. QED
  BY <1>1, <1>2, <1>3, EndTurns DEF Stops

Restarts ==
  /\ free_ports' = Port /\ allocated_ports' = [k \in Key |-> 0] /\ known' = {}
  /\ proc' \in [Actor -> Procs] /\ \A a \in Actor : proc'[a] = Idle /\ Coherent(a, proc'[a])
  /\ due' = {n \in Node : status[n] # "stopped"}
  /\ mishap \subseteq mishap' /\ "restart" \in mishap'
  /\ (\E a \in Actor : proc[a] # Idle) => "midway" \in mishap'
  /\ UNCHANGED <<rules, rows, status>>

LEMMA RestartForm == ASSUME Shapes, Restart PROVE Restarts
<1>1. /\ free_ports' = Port /\ allocated_ports' = [k \in Key |-> 0] /\ known' = {}
      /\ proc' = [a \in Actor |-> Idle]
      /\ due' = {n \in Node : status[n] # "stopped"}
      /\ mishap' = mishap \union {"restart"}
                     \union IF \E a \in Actor : proc[a] # Idle THEN {"midway"} ELSE {}
      /\ UNCHANGED <<rules, rows, status>>
  BY DEF Restart
<1>2. proc' \in [Actor -> Procs] /\ \A a \in Actor : proc'[a] = Idle /\ Coherent(a, proc'[a])
  BY <1>1, IdleIs
<1>3. mishap \subseteq mishap' /\ "restart" \in mishap'
  BY <1>1
<1>4. (\E a \in Actor : proc[a] # Idle) => "midway" \in mishap'
  BY <1>1
<1>5. QED
  BY <1>1, <1>2, <1>3, <1>4 DEF Restarts

-----------------------------------------------------------------------------
(* What holds whatever goes wrong.                                         *)

LEMMA TurnShapes ==
  ASSUME Shapes, NEW a \in Actor, Turns(a)
  PROVE  proc' \in [Actor -> Procs] /\ \A b \in Actor : Coherent(b, proc'[b])
BY DEF Turns, Shapes

\* Every step is one of these.
StepOf(a) ==
  \/ a \in Node /\ \/ \E k \in Key : a = k[1] /\ AddPort(k)
                   \/ \E r \in rows : a = r.key[1] /\ DeletePort(r)
                   \/ StopNode(a) \/ AddRow(a) \/ Release(a) \/ DropRule(a) \/ FreePort(a)
                   \/ DropRows(a) \/ StopEnd(a)
  \/ a = Recovery /\ (RecoverNext \/ \E n \in Node : RecoverNode(n))
  \/ Acquire(a) \/ AddRule(a)

LEMMA Steps ==
  ASSUME Shapes, Next
  PROVE  (\E a \in Actor : StepOf(a)) \/ (\E n \in Node : StartNode(n)) \/ Restart
<1>1. \A k \in Key : k[1] \in Actor /\ k[1] \in Node
  BY Roles
<1>2. \A r \in rows : r.key[1] \in Actor /\ r.key[1] \in Node
  BY Roles DEF Shapes
<1>3. QED
  BY <1>1, <1>2, Roles DEF Next, StepOf

LEMMA ShapesStep == ASSUME Shapes, NEW a \in Actor, StepOf(a) PROVE Shapes' /\ Turns(a)
<1>1. CASE \E k \in Key : a = k[1] /\ AddPort(k)
  BY <1>1, AddBegins, TurnShapes DEF Shapes, table_vars
<1>2. CASE \E r \in rows : a = r.key[1] /\ DeletePort(r)
  BY <1>2, DeleteBegins, TurnShapes DEF Shapes, table_vars
<1>3. CASE a \in Node /\ StopNode(a)
  BY <1>3, StopBegins, TurnShapes DEF Shapes, table_vars
<1>4. CASE a \in Node /\ AddRow(a)
  BY <1>4, AddRowForm, TurnShapes, Roles DEF Shapes, table_vars, WritesRow, Current
<1>5. CASE a \in Node /\ Release(a)
  BY <1>5, ReleaseForm, TurnShapes DEF Shapes, table_vars, Releases, FindsNone
<1>6. CASE a \in Node /\ DropRule(a)
  <2>1. CASE ReleaseGivesUp(a)
    BY <2>1, TurnShapes DEF Shapes, table_vars, ReleaseGivesUp
  <2>2. ASSUME NEW x \in Protocol, DropsRule(a, x) PROVE Shapes' /\ Turns(a)
    <3>1. <<x, proc[a].host, proc[a].key>> \in Rule
      BY <2>2 DEF Rule, Protocol, DropsRule
    <3>2. rules' \in [Rule -> Nat]
      BY <2>2, <3>1 DEF Shapes, DropsRule
    <3>3. QED
      BY <2>2, <3>2, TurnShapes DEF Shapes, table_vars, DropsRule
  <2>3. QED
    BY <1>6, <2>1, <2>2, DropRuleForm
<1>7. CASE a \in Node /\ FreePort(a)
  BY <1>7, FreePortForm, TurnShapes DEF Shapes, FreesPort
<1>8. CASE a \in Node /\ DropRows(a)
  BY <1>8, DropRowsForm, TurnShapes DEF Shapes, table_vars, DropsRows
<1>9. CASE a \in Node /\ StopEnd(a)
  BY <1>9, StopEndForm, TurnShapes DEF Shapes, table_vars, Stops
<1>10. CASE a = Recovery /\ RecoverNext
  BY <1>10, RecoveryGoesOn, TurnShapes DEF Shapes, table_vars
<1>11. CASE a = Recovery /\ \E n \in Node : RecoverNode(n)
  BY <1>11, RecoveryBegins, TurnShapes DEF Shapes, table_vars
<1>12. CASE Acquire(a)
  <2>1. CASE Acquires(a)
    BY <2>1, Roles, TurnShapes DEF Shapes, Acquires
  <2>2. CASE GivesUp(a)
    BY <2>2, TurnShapes DEF Shapes, GivesUp
  <2>3. QED
    BY <1>12, <2>1, <2>2, AcquireForm
<1>13. CASE AddRule(a)
  <2>1. CASE AddsRule(a)
    <3>1. <<proc[a].at, proc[a].host, proc[a].key>> \in Rule
      BY <2>1 DEF Rule, Adding, AddsRule
    <3>2. rules' \in [Rule -> Nat]
      BY <2>1, <3>1 DEF Shapes, AddsRule
    <3>3. QED
      BY <2>1, <3>2, TurnShapes DEF Shapes, table_vars, AddsRule
  <2>2. CASE GivesUp(a)
    BY <2>2, TurnShapes DEF Shapes, GivesUp
  <2>3. QED
    BY <1>13, <2>1, <2>2, AddRuleForm
<1>14. QED
  BY <1>1, <1>2, <1>3, <1>4, <1>5, <1>6, <1>7, <1>8, <1>9, <1>10, <1>11, <1>12, <1>13 DEF StepOf

\* The steps by what they do, for the invariants below.
Begins(n) ==
  LET q == proc'[n] IN
  /\ n \in Node /\ Turns(n) /\ proc[n] = Idle /\ due = {} /\ q.op \in {"add", "delete", "stop"}
  /\ q.node = n /\ q.at = IF q.op = "add" THEN "acquire" ELSE "release"
  /\ q.op # "delete" => status[n] # "stopped"
  /\ q.op = "stop" => q.todo = RowsOf(n)
  /\ q.gone = {}
  /\ UNCHANGED <<table_vars, rules, rows, status, due>>

Starts(n) ==
  LET q == proc'[Recovery] IN
  /\ Turns(Recovery) /\ proc[Recovery] = Idle /\ status[n] # "stopped" /\ (due # {} => n \in due)
  /\ q.op = "recover" /\ q.node = n /\ q.at = "next" /\ q.todo = RowsOf(n) /\ q.gone = {}
  /\ UNCHANGED <<table_vars, rules, rows, status, due>>

Takes(r) ==
  LET p == proc[Recovery] q == proc'[Recovery] IN
  /\ Turns(Recovery) /\ p.op = "recover" /\ p.at = "next" /\ p.node \in Node
  /\ r \in p.todo /\ r \in Row /\ r.key[1] = p.node
  /\ q.op = "recover" /\ q.node = p.node /\ q.at = "acquire" /\ q.gone = p.gone
  /\ q.key = r.key /\ q.host = r.host /\ q.todo = p.todo \ {r}
  /\ UNCHANGED <<table_vars, rules, rows, status, due>>

Recovers ==
  LET p == proc[Recovery] IN
  /\ Turns(Recovery) /\ p.op = "recover" /\ p.at = "next" /\ p.node \in Node
  /\ p.todo = {} /\ proc'[Recovery] = Idle
  /\ status' = [status EXCEPT ![p.node] = "running"] /\ due' = due \ {p.node}
  /\ UNCHANGED <<table_vars, rules, rows>>

RequestForm(n) ==
  \/ Begins(n) \/ WritesRow(n) \/ (\E r \in proc[n].todo : Releases(n, r) \/ FindsNone(n, r))
  \/ (\E x \in Protocol : DropsRule(n, x)) \/ ReleaseGivesUp(n) \/ FreesPort(n)
  \/ DropsRows(n) \/ Stops(n)

RecoveryForm == Recovers \/ (\E n \in Node : Starts(n)) \/ \E r \in Row : Takes(r)

Forms(a) ==
  \/ Acquires(a) \/ AddsRule(a) \/ GivesUp(a)
  \/ a \in Node /\ RequestForm(a)
  \/ a = Recovery /\ RecoveryForm

LEMMA StepForms == ASSUME Shapes, NEW a \in Actor, StepOf(a) PROVE Forms(a)
<1>1. CASE \E k \in Key : a = k[1] /\ AddPort(k)
  BY <1>1, AddBegins DEF Forms, RequestForm, Begins
<1>2. CASE \E r \in rows : a = r.key[1] /\ DeletePort(r)
  BY <1>2, DeleteBegins DEF Forms, RequestForm, Begins
<1>3. CASE a \in Node /\ StopNode(a)
  BY <1>3, StopBegins DEF Forms, RequestForm, Begins
<1>4. CASE a \in Node /\ (AddRow(a) \/ Release(a) \/ DropRule(a) \/ FreePort(a) \/ DropRows(a) \/ StopEnd(a))
  BY <1>4, AddRowForm, ReleaseForm, DropRuleForm, FreePortForm, DropRowsForm, StopEndForm
     DEF Forms, RequestForm
<1>5. CASE a = Recovery /\ RecoverNext
  <2>1. proc[Recovery].op = "recover" /\ Coherent(Recovery, proc[Recovery]) /\ proc[Recovery] \in Procs
    BY <1>5, RecoveryGoesOn, Roles DEF Shapes
  <2>2. proc[Recovery].node \in Node
        /\ \A r \in proc[Recovery].todo : r \in Row /\ r.key[1] = proc[Recovery].node
    BY <2>1 DEF Coherent, Procs
  <2>3. QED
    BY <1>5, <2>1, <2>2, RecoveryGoesOn DEF Forms, RecoveryForm, Takes, Recovers
<1>6. CASE a = Recovery /\ \E n \in Node : RecoverNode(n)
  BY <1>6, RecoveryBegins DEF Forms, RecoveryForm, Starts
<1>7. CASE Acquire(a) \/ AddRule(a)
  BY <1>7, AcquireForm, AddRuleForm DEF Forms
<1>8. QED
  BY <1>1, <1>2, <1>3, <1>4, <1>5, <1>6, <1>7 DEF StepOf

\* An actor's own place is what Coherent says of it.
LEMMA Places ==
  ASSUME Shapes, NEW a \in Actor
  PROVE  /\ Coherent(a, proc[a]) /\ proc[a] \in Procs
         /\ a \in Node /\ proc[a].op # "none" => proc[a].node = a
         /\ proc[a].at \in {"acquire", "row"} \union Adding \union Dropping =>
              proc[a].op # "none" /\ proc[a].key \in Key /\ proc[a].key[1] = proc[a].node
         /\ proc[a].at \in {"row"} \union Adding \union Dropping => proc[a].host \in Port /\ proc[a].host # 0
<1>1. Coherent(a, proc[a]) /\ proc[a] \in Procs
  BY DEF Shapes
<1>2. proc[a].at \in {"acquire", "row"} \union Adding \union Dropping => proc[a].op # "none"
  BY <1>1 DEF Coherent, Adding, Dropping
<1>3. QED
  BY <1>1, <1>2, Roles DEF Coherent

LEMMA RecoveringStep ==
  ASSUME Shapes, Recovering, NEW a \in Actor, Forms(a), Turns(a)
  PROVE  Recovering'
<1>1. \A b \in Actor \ {a} : proc'[b] = proc[b]
  BY DEF Turns
<1>2. CASE a \in Node /\ RequestForm(a)
  <2>1. due' = {} /\ due = {}
    <3>1. CASE Begins(a)
      BY <3>1 DEF Begins
    <3>2. CASE ~ Begins(a)
      <4>1. proc[a].op # "none" /\ UNCHANGED due
        BY <1>2, <3>2 DEF RequestForm, WritesRow, Releases, FindsNone, DropsRule, ReleaseGivesUp,
              FreesPort, DropsRows, Stops
      <4>2. QED
        BY <1>2, <4>1 DEF Recovering
    <3>3. QED
      BY <3>1, <3>2
  <2>2. QED
    BY <2>1 DEF Recovering
<1>3. CASE a = Recovery /\ RecoveryForm
  <2>1. \A n \in Node : proc'[n] = proc[n]
    BY <1>1, <1>3, Roles
  <2>2. CASE Recovers
    <3>1. \A n \in due' : status'[n] # "stopped"
      BY <2>2 DEF Recovers, Recovering, Shapes
    <3>2. QED
      BY <2>1, <2>2, <3>1, IdleIs DEF Recovers, Recovering
  <2>3. ASSUME NEW n \in Node, Starts(n) PROVE Recovering'
    BY <2>1, <2>3 DEF Starts, Recovering
  <2>4. ASSUME NEW r \in Row, Takes(r) PROVE Recovering'
    BY <2>1, <2>4 DEF Takes, Recovering
  <2>5. QED
    BY <1>3, <2>2, <2>3, <2>4 DEF RecoveryForm
<1>4. CASE Acquires(a) \/ AddsRule(a)
  <2>1. proc[a].op # "none" /\ proc'[a].op = proc[a].op /\ proc'[a].node = proc[a].node
        /\ UNCHANGED <<status, due>>
    BY <1>4 DEF Acquires, AddsRule
  <2>2. \A b \in Actor : proc'[b].op = proc[b].op /\ proc'[b].node = proc[b].node
    BY <1>1, <2>1
  <2>3. QED
    BY <2>1, <2>2, Roles DEF Recovering
<1>5. CASE GivesUp(a)
  <2>1. CASE a \in Node
    <3>1. due = {} /\ due' = {}
      BY <1>5, <2>1 DEF Recovering, GivesUp
    <3>2. QED
      BY <3>1 DEF Recovering
  <2>2. CASE a = Recovery
    <3>1. \A n \in Node : proc'[n] = proc[n]
      BY <1>1, <2>2, Roles
    <3>2. \A n \in due' : status'[n] # "stopped"
      BY <1>5, <2>2 DEF GivesUp, Recovering, Shapes
    <3>3. QED
      BY <1>5, <2>2, <3>1, <3>2, IdleIs DEF GivesUp, Recovering
  <2>3. QED
    BY <2>1, <2>2, Roles
<1>6. QED
  BY <1>2, <1>3, <1>4, <1>5 DEF Forms

\* Two requests do not have one key.
LEMMA OwnKeys ==
  ASSUME Shapes, NEW m \in Node, NEW n \in Node, proc[m].at \in {"acquire", "row"} \union Adding \union Dropping,
         proc[n].at \in {"acquire", "row"} \union Adding \union Dropping, proc[m].key = proc[n].key
  PROVE  m = n
<1>1. proc[m].key[1] = m /\ proc[n].key[1] = n
  BY Places, Roles
<1>2. QED
  BY <1>1

LEMMA ReleasingStep ==
  ASSUME Shapes, Releasing, NEW a \in Actor, Forms(a), Turns(a)
  PROVE  Releasing'
<1>1. \A b \in Actor \ {a} : proc'[b] = proc[b]
  BY DEF Turns
<1> SUFFICES ASSUME NEW n \in Node, proc'[n].at \in Dropping
             PROVE  allocated_ports'[proc'[n].key] = proc'[n].host
  BY DEF Releasing
<1>2. n \in Actor /\ n # Recovery
  BY Roles
<1>3. CASE Acquires(a)
  <2>1. n # a
    BY <1>3 DEF Acquires, Dropping
  <2>2. proc'[n] = proc[n] /\ allocated_ports[proc[n].key] = proc[n].host /\ proc[n].host # 0
    BY <1>1, <1>2, <2>1, Places DEF Releasing
  <2>3. proc[n].key # proc[a].key
    BY <1>3, <2>2 DEF Acquires
  <2>4. proc[n].key \in Key
    BY <1>1, <1>2, <2>1, Places
  <2>5. QED
    BY <1>3, <2>2, <2>3, <2>4 DEF Acquires, Shapes
<1>4. CASE AddsRule(a)
  <2>1. n # a
    BY <1>4 DEF AddsRule, Dropping
  <2>2. QED
    BY <1>1, <1>2, <1>4, <2>1 DEF AddsRule, table_vars, Releasing
<1>5. CASE GivesUp(a) \/ (a = Recovery /\ RecoveryForm)
  <2>1. n # a
    BY <1>2, <1>5, IdleIs DEF GivesUp, Dropping
  <2>2. UNCHANGED allocated_ports
    BY <1>5 DEF GivesUp, RecoveryForm, Recovers, Starts, Takes, table_vars
  <2>3. QED
    BY <1>1, <1>2, <2>1, <2>2 DEF Releasing
<1>6. CASE a \in Node /\ RequestForm(a)
  <2>1. CASE FreesPort(a)
    <3>1. n # a
      BY <2>1 DEF FreesPort, Dropping
    <3>2. proc'[n] = proc[n] /\ allocated_ports[proc[n].key] = proc[n].host
      BY <1>1, <1>2, <3>1 DEF Releasing
    <3>3. proc[n].key # proc[a].key
      BY <1>1, <1>2, <1>6, <2>1, <3>1, <3>2, OwnKeys DEF FreesPort, Dropping
    <3>4. QED
      BY <2>1, <3>2, <3>3 DEF FreesPort, Shapes
  <2>2. CASE DropsRule(a, "tcp") \/ DropsRule(a, "udp")
    <3>1. UNCHANGED allocated_ports /\ proc[a].at \in Dropping
          /\ proc'[a].key = proc[a].key /\ proc'[a].host = proc[a].host
      BY <2>2 DEF DropsRule, table_vars, Dropping
    <3>2. QED
      BY <1>1, <1>2, <3>1 DEF Releasing
  <2>3. ASSUME NEW r \in proc[a].todo, Releases(a, r)
        PROVE  allocated_ports'[proc'[n].key] = proc'[n].host
    BY <1>1, <1>2, <2>3 DEF Releases, table_vars, Releasing
  <2>4. CASE \/ Begins(a) \/ WritesRow(a) \/ (\E r \in proc[a].todo : FindsNone(a, r))
             \/ ReleaseGivesUp(a) \/ DropsRows(a) \/ Stops(a)
    <3>1. n # a /\ UNCHANGED allocated_ports
      BY <2>4, IdleIs DEF Begins, WritesRow, FindsNone, ReleaseGivesUp, DropsRows, Stops, table_vars,
            Dropping
    <3>2. QED
      BY <1>1, <1>2, <3>1 DEF Releasing
  <2>5. QED
    BY <1>6, <2>1, <2>2, <2>3, <2>4 DEF RequestForm, Protocol
<1>7. QED
  BY <1>3, <1>4, <1>5, <1>6 DEF Forms

\* A step that comes to a node where somebody is is an overlap.
LEMMA AloneTurn ==
  ASSUME Shapes, Alone, NEW a \in Actor, Turns(a), "overlap" \notin mishap',
         NEW b \in Actor, NEW c \in Actor, proc'[b].op # "none", proc'[c].op # "none",
         proc'[b].node = proc'[c].node
  PROVE  b = c
<1>1. \A d \in Actor \ {a} : proc'[d] = proc[d]
  BY DEF Turns
<1>2. \A d, e \in Actor : proc[d].op # "none" /\ proc[e].op # "none" /\ proc[d].node = proc[e].node => d = e
  BY DEF Alone, Unless, Turns
<1>3. proc'[a].op # "none" => \A d \in Actor \ {a} : proc[d].op # "none" => proc[d].node # proc'[a].node
  BY <1>2, IdleIs DEF Turns
<1>4. QED
  BY <1>1, <1>2, <1>3

\* A request changes the rows of its own node only.
LEMMA OtherRows ==
  ASSUME Shapes, NEW a \in Node, RequestForm(a), NEW r \in Row, r.key[1] # a
  PROVE  r \in rows' <=> r \in rows
<1>1. CASE WritesRow(a)
  <2>1. proc[a].key[1] = a
    BY <1>1, Places, Roles DEF WritesRow
  <2>2. Current(proc[a]).key = proc[a].key
    BY DEF Current
  <2>3. r # Current(proc[a])
    BY <2>1, <2>2
  <2>4. QED
    BY <1>1, <2>3 DEF WritesRow
<1>2. ASSUME NEW s \in proc[a].todo, FindsNone(a, s) PROVE r \in rows' <=> r \in rows
  <2>1. s.key[1] = a
    BY <1>2, Requester DEF FindsNone
  <2>2. QED
    BY <1>2, <2>1 DEF FindsNone
<1>3. CASE DropsRows(a)
  <2>1. \A s \in proc[a].gone : s.key[1] = a
    BY <1>3, Requester DEF DropsRows
  <2>2. QED
    BY <1>3, <2>1 DEF DropsRows
<1>4. CASE ReleaseGivesUp(a)
  BY <1>4 DEF ReleaseGivesUp
<1>5. CASE \/ Begins(a) \/ (\E s \in proc[a].todo : Releases(a, s)) \/ (\E x \in Protocol : DropsRule(a, x))
           \/ FreesPort(a) \/ Stops(a)
  BY <1>5 DEF Begins, Releases, DropsRule, FreesPort, Stops
<1>6. QED
  BY <1>1, <1>2, <1>3, <1>4, <1>5 DEF RequestForm

\* A request that is on its way, or begins, is not where the recovery is.
LEMMA Apart ==
  ASSUME Shapes, Alone, NEW a \in Node, RequestForm(a), Turns(a), "overlap" \notin mishap',
         proc[Recovery].op # "none"
  PROVE  proc[Recovery].node # a
<1>1. a \in Actor /\ Recovery \in Actor /\ Recovery # a
  BY Roles
<1>2. CASE proc[a].op # "none"
  <2>1. "overlap" \notin mishap /\ proc[a].node = a
    BY <1>1, <1>2, Places DEF Turns
  <2>2. QED
    BY <1>1, <1>2, <2>1 DEF Alone, Unless
<1>3. CASE proc[a].op = "none"
  <2>1. Begins(a)
    BY <1>3 DEF RequestForm, WritesRow, Releases, FindsNone, DropsRule, ReleaseGivesUp, FreesPort,
          DropsRows, Stops
  <2>2. proc'[a].op # "none" /\ proc'[a].node = a /\ proc'[Recovery] = proc[Recovery]
    BY <1>1, <2>1 DEF Begins, Turns
  <2>3. QED
    BY <1>1, <2>2, AloneTurn
<1>4. QED
  BY <1>2, <1>3

LEMMA AloneStep ==
  ASSUME Shapes, Recovering, Releasing, Alone, NEW a \in Actor, Forms(a), Turns(a)
  PROVE  Alone'
<1> SUFFICES ASSUME "overlap" \notin mishap'
             PROVE  /\ proc'[Recovery].op # "none" => proc'[Recovery].todo \subseteq rows'
                    /\ proc'[Recovery].at \in {"acquire"} \union Adding => Current(proc'[Recovery]) \in rows'
                    /\ \A b \in Actor : proc'[b].at \in Adding => allocated_ports'[proc'[b].key] = proc'[b].host
  BY AloneTurn DEF Alone, Unless
<1>1. /\ \A b \in Actor \ {a} : proc'[b] = proc[b]
      /\ "overlap" \notin mishap
  BY DEF Turns
<1>2. /\ \A b, c \in Actor : proc[b].op # "none" /\ proc[c].op # "none" /\ proc[b].node = proc[c].node => b = c
      /\ proc[Recovery].op # "none" => proc[Recovery].todo \subseteq rows
      /\ proc[Recovery].at \in {"acquire"} \union Adding => Current(proc[Recovery]) \in rows
      /\ \A b \in Actor : proc[b].at \in Adding => allocated_ports[proc[b].key] = proc[b].host
  BY <1>1 DEF Alone, Unless
<1>3. /\ proc'[Recovery].op # "none" => proc'[Recovery].todo \subseteq rows'
      /\ proc'[Recovery].at \in {"acquire"} \union Adding => Current(proc'[Recovery]) \in rows'
  <2>1. CASE a = Recovery
    <3>1. ASSUME NEW n \in Node, Starts(n)
          PROVE  proc'[Recovery].todo \subseteq rows' /\ proc'[Recovery].at = "next"
      BY <3>1 DEF Starts, RowsOf
    <3>2. ASSUME NEW r \in Row, Takes(r)
          PROVE  proc'[Recovery].todo \subseteq rows' /\ Current(proc'[Recovery]) \in rows'
      <4>1. Current(proc'[Recovery]) = r
        BY <3>2, Roles DEF Takes, Current
      <4>2. QED
        BY <1>2, <3>2, <4>1 DEF Takes
    <3>3. CASE Acquires(Recovery) \/ AddsRule(Recovery)
      <4>1. proc[Recovery].op # "none" /\ proc[Recovery].at \in {"acquire"} \union Adding
        BY <3>3 DEF Acquires, AddsRule
      <4>2. /\ proc'[Recovery].todo = proc[Recovery].todo /\ rows' = rows
            /\ proc'[Recovery].key = proc[Recovery].key /\ proc'[Recovery].host = proc[Recovery].host
        BY <3>3, Places, Roles DEF Acquires, AddsRule, Coherent
      <4>3. QED
        BY <1>2, <4>1, <4>2 DEF Current
    <3>4. CASE Recovers \/ GivesUp(Recovery)
      BY <3>4, IdleIs DEF Recovers, GivesUp, Adding
    <3>5. QED
      BY <2>1, <3>1, <3>2, <3>3, <3>4, Roles DEF Forms, RecoveryForm, Adding
  <2>2. CASE a \in Node
    <3>1. proc'[Recovery] = proc[Recovery]
      BY <1>1, <2>2, Roles
    <3>2. CASE proc[Recovery].op = "none"
      BY <3>1, <3>2, Places, Roles
    <3>3. CASE proc[Recovery].op # "none" /\ RequestForm(a)
      <4>1. proc[Recovery].node # a
        BY <2>2, <3>3, Apart
      <4>2. \A r \in proc[Recovery].todo : r \in Row /\ r.key[1] = proc[Recovery].node
        <5>1. Coherent(Recovery, proc[Recovery]) /\ proc[Recovery] \in Procs
          BY Places, Roles
        <5>2. QED
          BY <5>1 DEF Coherent, Procs
      <4>3. proc[Recovery].at \in {"acquire"} \union Adding =>
              /\ Current(proc[Recovery]) \in Row
              /\ Current(proc[Recovery]).key[1] = proc[Recovery].node
        BY Places, Roles DEF Coherent, Current, Row
      <4>4. QED
        BY <1>2, <2>2, <3>1, <3>3, <4>1, <4>2, <4>3, OtherRows
    <3>4. CASE Acquires(a) \/ AddsRule(a) \/ GivesUp(a)
      BY <1>2, <3>1, <3>4 DEF Acquires, AddsRule, GivesUp
    <3>5. QED
      BY <2>2, <3>2, <3>3, <3>4, Roles DEF Forms
  <2>3. QED
    BY <2>1, <2>2, Roles
<1>4. ASSUME NEW b \in Actor, proc'[b].at \in Adding
      PROVE  allocated_ports'[proc'[b].key] = proc'[b].host
  <2>1. CASE b = a
    <3>1. CASE Acquires(a)
      BY <2>1, <3>1 DEF Acquires, Shapes
    <3>2. CASE AddsRule(a)
      BY <1>2, <2>1, <3>2 DEF AddsRule, table_vars
    <3>3. CASE GivesUp(a)
      BY <1>4, <2>1, <3>3, IdleIs DEF GivesUp, Adding
    <3>4. CASE a = Recovery /\ RecoveryForm
      BY <1>4, <2>1, <3>4, IdleIs DEF RecoveryForm, Starts, Takes, Recovers, Adding
    <3>5. CASE RequestForm(a)
      <4>1. proc'[a].at \in {"", "acquire", "release", "stop"} \union Dropping
        BY <3>5, IdleIs DEF RequestForm, Begins, WritesRow, Releases, FindsNone, DropsRule,
           ReleaseGivesUp, FreesPort, DropsRows, Stops, Dropping
      <4>2. QED
        BY <1>4, <2>1, <4>1 DEF Adding, Dropping
    <3>6. QED
      BY <3>1, <3>2, <3>3, <3>4, <3>5 DEF Forms
  <2>2. CASE b # a
    <3>1. /\ proc'[b] = proc[b] /\ allocated_ports[proc[b].key] = proc[b].host
          /\ proc[b].host # 0 /\ proc[b].key \in Key /\ proc[b].key[1] = proc[b].node
          /\ proc[b].op # "none"
      BY <1>1, <1>2, <1>4, <2>2, Places
    <3>2. CASE Acquires(a)
      BY <3>1, <3>2 DEF Acquires, Shapes
    <3>3. CASE FreesPort(a) /\ a \in Node
      <4>1. proc[a].key[1] = a /\ proc[a].op # "none" /\ proc[a].node = a
        BY <3>3, Places, Roles DEF FreesPort
      <4>2. proc[b].key # proc[a].key
        BY <1>2, <2>2, <3>1, <4>1
      <4>3. QED
        BY <3>1, <3>3, <4>2 DEF FreesPort, Shapes
    <3>4. CASE UNCHANGED allocated_ports
      BY <3>1, <3>4
    <3>5. QED
      BY <3>2, <3>3, <3>4 DEF Forms, GivesUp, AddsRule, RequestForm, RecoveryForm, Begins, WritesRow, Releases,
         FindsNone, DropsRule, ReleaseGivesUp, DropsRows, Stops, Starts, Takes, Recovers, table_vars
  <2>3. QED
    BY <2>1, <2>2
<1>5. QED
  BY <1>3, <1>4

\* A stopped cluster starts; a restart leaves nobody on the way.
Starting(n) ==
  /\ due = {} /\ status' = [status EXCEPT ![n] = "running"]
  /\ UNCHANGED <<table_vars, rules, rows, proc, due, mishap>>

LEMMA CommonAside ==
  ASSUME Common, UNCHANGED <<table_vars, rules, rows, proc, due, mishap>>,
         status' = status \/ (due = {} /\ \E n \in Node : status' = [status EXCEPT ![n] = "running"])
  PROVE  Common'
<1>1. Shapes'
  BY DEF Common, Shapes, table_vars
<1>2. Recovering' /\ Releasing'
  BY DEF Common, Recovering, Releasing, table_vars
<1>3. Alone'
  BY DEF Common, Alone, Unless, Current, table_vars
<1>4. QED
  BY <1>1, <1>2, <1>3 DEF Common

LEMMA CommonRestart == ASSUME Common, Restarts PROVE Common'
<1>1. Shapes'
  BY DEF Common, Shapes, Restarts
<1>2. \A b \in Actor : proc'[b] = Idle /\ proc'[b].op = "none" /\ proc'[b].at = ""
  BY IdleIs DEF Restarts
<1>3. Recovering' /\ Releasing'
  BY <1>2, Roles DEF Restarts, Recovering, Releasing, Dropping
<1>4. Alone'
  BY <1>2, Roles DEF Alone, Unless, Adding
<1>5. QED
  BY <1>1, <1>3, <1>4 DEF Common

LEMMA CommonStep ==
  ASSUME Common, NEW a \in Actor, StepOf(a)
  PROVE  Common' /\ Forms(a) /\ Turns(a)
<1>1. Shapes' /\ Turns(a) /\ Forms(a)
  BY ShapesStep, StepForms DEF Common
<1>2. QED
  BY <1>1, RecoveringStep, ReleasingStep, AloneStep DEF Common

-----------------------------------------------------------------------------
(* A rule leads to the owner of its port: one lemma for each form of step. *)

LEMMA RuleIs ==
  /\ \A x \in Protocol, h \in Port, k \in Key : <<x, h, k>> \in Rule
  /\ \A r \in Rule : r[1] \in Protocol /\ r[2] \in Port /\ r[3] \in Key /\ r = <<r[1], r[2], r[3]>>
  /\ "tcp" \in Protocol /\ "udp" \in Protocol
BY DEF Rule, Protocol

Sets(x, h, k, v) == rules' = [rules EXCEPT ![<<x, h, k>>] = v]

LEMMA RuleSet ==
  ASSUME Shapes, NEW x \in Protocol, NEW h \in Port, NEW k \in Key, NEW v, Sets(x, h, k, v)
  PROVE  /\ rules'[<<x, h, k>>] = v
         /\ \A y \in Protocol, g \in Port, l \in Key :
              ~ (y = x /\ g = h /\ l = k) => rules'[<<y, g, l>>] = rules[<<y, g, l>>]
<1>1. rules'[<<x, h, k>>] = v
  BY RuleIs DEF Shapes, Sets
<1>2. ASSUME NEW y \in Protocol, NEW g \in Port, NEW l \in Key, ~ (y = x /\ g = h /\ l = k)
      PROVE  rules'[<<y, g, l>>] = rules[<<y, g, l>>]
  <2>1. <<y, g, l>> \in Rule /\ <<y, g, l>> # <<x, h, k>>
    BY <1>2, RuleIs
  <2>2. QED
    BY <2>1 DEF Shapes, Sets
<1>3. QED
  BY <1>1, <1>2

LEMMA RuleCountIs ==
  ASSUME Shapes, RuleCount
  PROVE  /\ \A x \in Protocol, h \in Port, k \in Key :
              rules[<<x, h, k>>] \in Nat /\ rules[<<x, h, k>>] <= 1
              /\ (rules[<<x, h, k>>] > 0 => allocated_ports[k] = h)
         /\ \A k \in Key : allocated_ports[k] \in Port \union {0}
BY RuleIs DEF Shapes, RuleCount

LEMMA RuleQuiet ==
  ASSUME Common, RuleCount, NEW a \in Actor, Turns(a), UNCHANGED <<rules, allocated_ports>>,
         proc'[a].at \notin Adding \union {"unudp", "free"}
  PROVE  RuleCount'
<1>1. \A b \in Actor : b = a \/ proc'[b] = proc[b]
  BY DEF Turns
<1>2. \A b \in Actor : proc'[b].at \in Adding => proc'[b] = proc[b]
  BY <1>1
<1>3. \A b \in Actor : proc'[b].at \in {"unudp", "free"} => proc'[b] = proc[b]
  BY <1>1
<1>4. \A x \in Protocol, h \in Port, k \in Key :
        rules'[<<x, h, k>>] <= 1 /\ (rules'[<<x, h, k>>] > 0 => allocated_ports'[k] = h)
  BY DEF RuleCount
<1>5. \A b \in Actor : proc'[b].at \in Adding =>
        /\ allocated_ports'[proc'[b].key] = proc'[b].host
        /\ rules'[<<"udp", proc'[b].host, proc'[b].key>>] = 0
        /\ proc'[b].at = "tcp" => rules'[<<"tcp", proc'[b].host, proc'[b].key>>] = 0
  BY <1>2 DEF RuleCount
<1>6. \A b, c \in Actor : proc'[b].at \in Adding /\ proc'[c].at \in Adding /\ proc'[b].key = proc'[c].key => b = c
  BY <1>2 DEF RuleCount
<1>7. \A n \in Node :
        /\ proc'[n].at \in {"unudp", "free"} =>
             /\ rules'[<<"tcp", proc'[n].host, proc'[n].key>>] = 0
             /\ \A b \in Actor : proc'[b].at = "tcp" => proc'[b].key # proc'[n].key
        /\ proc'[n].at = "free" =>
             /\ rules'[<<"udp", proc'[n].host, proc'[n].key>>] = 0
             /\ \A b \in Actor : proc'[b].at = "udp" => proc'[b].key # proc'[n].key
  BY <1>2, <1>3, Roles DEF RuleCount, Adding
<1>8. QED
  BY <1>4, <1>5, <1>6, <1>7 DEF RuleCount

\* While a request releases a key, it is not unallocated.
LEMMA KeyHeld ==
  ASSUME Common, RuleCount, NEW b \in Actor, NEW k \in Key, proc[b].key = k,
         proc[b].at \in Adding \/ (b \in Node /\ proc[b].at \in Dropping)
  PROVE  allocated_ports[k] = proc[b].host /\ proc[b].host \in Port /\ proc[b].host # 0
BY Places DEF Common, RuleCount, Releasing

LEMMA RuleAcquire ==
  ASSUME Common, RuleCount, NEW a \in Actor, Acquires(a)
  PROVE  RuleCount'
<1> DEFINE k == proc[a].key
           q == proc'[a]
<1>1. /\ k \in Key /\ q.host \in Port /\ q.at = "tcp" /\ q.key = k /\ allocated_ports[k] = 0
      /\ allocated_ports' = [allocated_ports EXCEPT ![k] = q.host] /\ rules' = rules
      /\ \A b \in Actor \ {a} : proc'[b] = proc[b]
  BY DEF Acquires, Turns
<1>2. \A l \in Key : allocated_ports'[l] = IF l = k THEN q.host ELSE allocated_ports[l]
  BY <1>1 DEF Common, Shapes
<1>3. \A x \in Protocol, h \in Port : rules[<<x, h, k>>] = 0
  BY <1>1, RuleCountIs, Roles DEF Common
<1>4. \A b \in Actor \ {a} : proc[b].at \in Adding \/ (b \in Node /\ proc[b].at \in Dropping) =>
        proc[b].key # k /\ proc[b].key \in Key
  BY <1>1, KeyHeld, Places DEF Common
<1>5. ASSUME NEW x \in Protocol, NEW h \in Port, NEW l \in Key
      PROVE  rules'[<<x, h, l>>] <= 1 /\ (rules'[<<x, h, l>>] > 0 => allocated_ports'[l] = h)
  <2>1. rules[<<x, h, l>>] <= 1 /\ (rules[<<x, h, l>>] > 0 => allocated_ports[l] = h)
    BY DEF RuleCount
  <2>2. l = k => rules[<<x, h, l>>] = 0
    BY <1>3
  <2>3. rules'[<<x, h, l>>] = rules[<<x, h, l>>]
    BY <1>1
  <2>4. QED
    BY <1>2, <2>1, <2>2, <2>3
<1>6. \A b \in Actor : proc'[b].at \in Adding =>
        /\ allocated_ports'[proc'[b].key] = proc'[b].host
        /\ rules'[<<"udp", proc'[b].host, proc'[b].key>>] = 0
        /\ proc'[b].at = "tcp" => rules'[<<"tcp", proc'[b].host, proc'[b].key>>] = 0
  <2>1. ASSUME NEW b \in Actor \ {a}, proc[b].at \in Adding
        PROVE  /\ allocated_ports'[proc[b].key] = proc[b].host
               /\ rules[<<"udp", proc[b].host, proc[b].key>>] = 0
               /\ proc[b].at = "tcp" => rules[<<"tcp", proc[b].host, proc[b].key>>] = 0
    BY <1>2, <1>4, <2>1 DEF RuleCount
  <2>2. QED
    BY <1>1, <1>2, <1>3, <2>1, RuleIs
<1>7. \A b, c \in Actor : proc'[b].at \in Adding /\ proc'[c].at \in Adding /\ proc'[b].key = proc'[c].key => b = c
  BY <1>1, <1>4 DEF RuleCount
<1>8. \A n \in Node :
        /\ proc'[n].at \in {"unudp", "free"} =>
             /\ rules'[<<"tcp", proc'[n].host, proc'[n].key>>] = 0
             /\ \A b \in Actor : proc'[b].at = "tcp" => proc'[b].key # proc'[n].key
        /\ proc'[n].at = "free" =>
             /\ rules'[<<"udp", proc'[n].host, proc'[n].key>>] = 0
             /\ \A b \in Actor : proc'[b].at = "udp" => proc'[b].key # proc'[n].key
  BY <1>1, <1>4, Roles DEF RuleCount, Dropping
<1>9. QED
  BY <1>5, <1>6, <1>7, <1>8 DEF RuleCount

LEMMA RuleAdded ==
  ASSUME Common, RuleCount, NEW a \in Actor, AddsRule(a)
  PROVE  RuleCount'
<1> DEFINE p == proc[a]
           q == proc'[a]
<1>1. /\ p.key \in Key /\ p.host \in Port /\ p.at \in Adding /\ q.key = p.key /\ q.host = p.host
      /\ q.at = IF p.at = "tcp" THEN "udp" ELSE IF a = Recovery THEN "next" ELSE "row"
      /\ allocated_ports' = allocated_ports /\ rules' = [rules EXCEPT ![<<p.at, p.host, p.key>>] = @ + 1]
      /\ \A b \in Actor \ {a} : proc'[b] = proc[b]
  BY DEF AddsRule, Turns, table_vars
<1>2. p.at \in Protocol /\ rules[<<p.at, p.host, p.key>>] = 0 /\ allocated_ports[p.key] = p.host
  BY <1>1 DEF RuleCount, Adding, Protocol
<1>3. /\ rules'[<<p.at, p.host, p.key>>] = 1
      /\ \A x \in Protocol, h \in Port, k \in Key :
           ~ (x = p.at /\ h = p.host /\ k = p.key) => rules'[<<x, h, k>>] = rules[<<x, h, k>>]
  <2>1. rules' = [rules EXCEPT ![<<p.at, p.host, p.key>>] = 1]
    BY <1>1, <1>2
  <2>2. Sets(p.at, p.host, p.key, 1) /\ Shapes
    BY <2>1 DEF Sets, Common
  <2>3. QED
    BY <1>1, <1>2, <2>2, RuleSet
<1>4. \A b \in Actor \ {a} : proc[b].at \in Adding => proc[b].key # p.key
  BY <1>1 DEF RuleCount
<1>5. \A b \in Actor : proc[b].at \in Adding \/ (b \in Node /\ proc[b].at \in Dropping) =>
        proc[b].key \in Key /\ proc[b].host \in Port
  BY Places DEF Common
<1>6. ASSUME NEW x \in Protocol, NEW h \in Port, NEW k \in Key
      PROVE  rules'[<<x, h, k>>] <= 1 /\ (rules'[<<x, h, k>>] > 0 => allocated_ports'[k] = h)
  <2>1. rules[<<x, h, k>>] <= 1 /\ (rules[<<x, h, k>>] > 0 => allocated_ports[k] = h)
    BY DEF RuleCount
  <2>2. IF x = p.at /\ h = p.host /\ k = p.key THEN rules'[<<x, h, k>>] = 1
        ELSE rules'[<<x, h, k>>] = rules[<<x, h, k>>]
    BY <1>3
  <2>3. QED
    BY <1>1, <1>2, <2>1, <2>2
<1>7. \A b \in Actor : proc'[b].at \in Adding =>
        /\ allocated_ports'[proc'[b].key] = proc'[b].host
        /\ rules'[<<"udp", proc'[b].host, proc'[b].key>>] = 0
        /\ proc'[b].at = "tcp" => rules'[<<"tcp", proc'[b].host, proc'[b].key>>] = 0
  <2>1. ASSUME NEW b \in Actor \ {a}, proc[b].at \in Adding
        PROVE  /\ allocated_ports'[proc[b].key] = proc[b].host
               /\ rules'[<<"udp", proc[b].host, proc[b].key>>] = 0
               /\ proc[b].at = "tcp" => rules'[<<"tcp", proc[b].host, proc[b].key>>] = 0
    <3>1. proc[b].key # p.key /\ proc[b].key \in Key /\ proc[b].host \in Port
      BY <1>4, <1>5, <2>1
    <3>2. QED
      BY <1>1, <1>3, <2>1, <3>1, RuleIs DEF RuleCount
  <2>2. q.at \in Adding =>
          q.at = "udp" /\ p.at = "tcp" /\ allocated_ports'[q.key] = q.host
          /\ rules'[<<"udp", q.host, q.key>>] = 0
    <3>1. q.at \in Adding => q.at = "udp" /\ p.at = "tcp"
      BY <1>1 DEF Adding
    <3>2. rules[<<"udp", p.host, p.key>>] = 0
      BY <1>1 DEF RuleCount
    <3>3. QED
      BY <1>1, <1>2, <1>3, <3>1, <3>2, RuleIs
  <2>3. QED
    BY <1>1, <2>1, <2>2
<1>8. \A b, c \in Actor : proc'[b].at \in Adding /\ proc'[c].at \in Adding /\ proc'[b].key = proc'[c].key => b = c
  BY <1>1, <1>4 DEF RuleCount
<1>9. ASSUME NEW n \in Node
      PROVE  /\ proc'[n].at \in {"unudp", "free"} =>
                  /\ rules'[<<"tcp", proc'[n].host, proc'[n].key>>] = 0
                  /\ \A b \in Actor : proc'[b].at = "tcp" => proc'[b].key # proc'[n].key
             /\ proc'[n].at = "free" =>
                  /\ rules'[<<"udp", proc'[n].host, proc'[n].key>>] = 0
                  /\ \A b \in Actor : proc'[b].at = "udp" => proc'[b].key # proc'[n].key
  <2>1. proc'[n].at \in {"unudp", "free"} => n # a /\ n \in Actor /\ proc'[n] = proc[n]
    BY <1>1, Roles
  <2>2. proc[n].at \in {"unudp", "free"} => proc[n].key \in Key /\ proc[n].host \in Port
    BY <1>5, Roles DEF Dropping
  <2>3. proc[n].at \in {"unudp", "free"} =>
          /\ rules[<<"tcp", proc[n].host, proc[n].key>>] = 0
          /\ \A b \in Actor : proc[b].at = "tcp" => proc[b].key # proc[n].key
    BY DEF RuleCount
  <2>4. proc[n].at = "free" =>
          /\ rules[<<"udp", proc[n].host, proc[n].key>>] = 0
          /\ \A b \in Actor : proc[b].at \in Adding => proc[b].key # proc[n].key
    BY DEF RuleCount, Adding
  <2>5. \A b \in Actor : proc'[b].at = "tcp" => b # a /\ proc'[b] = proc[b]
    BY <1>1
  <2>6. proc[n].at \in {"unudp", "free"} => rules'[<<"tcp", proc[n].host, proc[n].key>>] = 0
    BY <1>1, <1>3, <2>2, <2>3, RuleIs
  <2>7. proc[n].at = "free" =>
          /\ rules'[<<"udp", proc[n].host, proc[n].key>>] = 0
          /\ \A b \in Actor : proc'[b].at = "udp" => proc'[b].key # proc[n].key
    BY <1>1, <1>3, <2>2, <2>4, RuleIs DEF Adding
  <2>8. QED
    BY <2>1, <2>3, <2>5, <2>6, <2>7
<1>10. QED
  BY <1>6, <1>7, <1>8, <1>9 DEF RuleCount

LEMMA RuleDropped ==
  ASSUME Common, RuleCount, NEW a \in Node, NEW y \in Protocol, DropsRule(a, y)
  PROVE  RuleCount'
<1> DEFINE p == proc[a]
           q == proc'[a]
           at(x) == IF x = "tcp" THEN "untcp" ELSE "unudp"
<1>1. /\ p.key \in Key /\ p.key[1] = a /\ p.host \in Port /\ q.key = p.key /\ q.host = p.host
      /\ \/ p.at = "untcp" /\ y = "tcp" /\ q.at = "unudp"
         \/ p.at = "unudp" /\ y = "udp" /\ q.at = "free"
      /\ allocated_ports' = allocated_ports /\ rules' = [rules EXCEPT ![<<y, p.host, p.key>>] = @ - 1]
      /\ rules[<<y, p.host, p.key>>] > 0
      /\ \A b \in Actor \ {a} : proc'[b] = proc[b]
      /\ a \in Actor
  BY Roles DEF DropsRule, Turns, table_vars
<1>2. rules[<<y, p.host, p.key>>] = 1 /\ allocated_ports[p.key] = p.host
  BY <1>1, RuleCountIs DEF Common
<1>3. /\ rules'[<<y, p.host, p.key>>] = 0
      /\ \A x \in Protocol, h \in Port, k \in Key :
           ~ (x = y /\ h = p.host /\ k = p.key) => rules'[<<x, h, k>>] = rules[<<x, h, k>>]
  <2>1. rules' = [rules EXCEPT ![<<y, p.host, p.key>>] = 0]
    BY <1>1, <1>2
  <2>2. Sets(y, p.host, p.key, 0) /\ Shapes
    BY <2>1 DEF Sets, Common
  <2>3. y \in Protocol /\ p.host \in Port /\ p.key \in Key
    BY <1>1
  <2>4. QED
    BY <2>2, <2>3, RuleSet
<1>4. \A b \in Actor : proc[b].at \in Adding \/ (b \in Node /\ proc[b].at \in Dropping) =>
        proc[b].key \in Key /\ proc[b].host \in Port
  BY Places DEF Common
<1>5. \A b \in Actor : proc[b].at \in Adding /\ proc[b].key = p.key =>
        y = "tcp" /\ proc[b].at = "udp"
  <2>1. SUFFICES ASSUME NEW b \in Actor, proc[b].at \in Adding, proc[b].key = p.key
                 PROVE  y = "tcp" /\ proc[b].at = "udp"
    OBVIOUS
  <2>2. proc[b].host = p.host
    BY <1>2, <2>1 DEF RuleCount
  <2>3. rules[<<"udp", p.host, p.key>>] = 0
        /\ (proc[b].at = "tcp" => rules[<<"tcp", p.host, p.key>>] = 0)
    BY <2>1, <2>2 DEF RuleCount
  <2>4. QED
    BY <1>1, <2>1, <2>3 DEF Adding
<1>6. \A b \in Actor : proc'[b].at \in Adding => proc'[b] = proc[b]
  BY <1>1 DEF Adding
<1>7. ASSUME NEW x \in Protocol, NEW h \in Port, NEW k \in Key
      PROVE  rules'[<<x, h, k>>] <= 1 /\ (rules'[<<x, h, k>>] > 0 => allocated_ports'[k] = h)
  <2>1. rules[<<x, h, k>>] <= 1 /\ (rules[<<x, h, k>>] > 0 => allocated_ports[k] = h)
    BY DEF RuleCount
  <2>2. IF x = y /\ h = p.host /\ k = p.key THEN rules'[<<x, h, k>>] = 0
        ELSE rules'[<<x, h, k>>] = rules[<<x, h, k>>]
    BY <1>3
  <2>3. QED
    BY <1>1, <2>1, <2>2
<1>8. ASSUME NEW b \in Actor, proc'[b].at \in Adding
      PROVE  /\ allocated_ports'[proc'[b].key] = proc'[b].host
             /\ rules'[<<"udp", proc'[b].host, proc'[b].key>>] = 0
             /\ proc'[b].at = "tcp" => rules'[<<"tcp", proc'[b].host, proc'[b].key>>] = 0
  <2>1. proc'[b] = proc[b] /\ proc[b].at \in Adding /\ proc[b].key \in Key /\ proc[b].host \in Port
    BY <1>4, <1>6, <1>8
  <2>2. QED
    BY <1>1, <1>3, <2>1, RuleIs DEF RuleCount
<1>9. \A b, c \in Actor : proc'[b].at \in Adding /\ proc'[c].at \in Adding /\ proc'[b].key = proc'[c].key => b = c
  BY <1>6 DEF RuleCount
<1>10. ASSUME NEW n \in Node
       PROVE  /\ proc'[n].at \in {"unudp", "free"} =>
                   /\ rules'[<<"tcp", proc'[n].host, proc'[n].key>>] = 0
                   /\ \A b \in Actor : proc'[b].at = "tcp" => proc'[b].key # proc'[n].key
              /\ proc'[n].at = "free" =>
                   /\ rules'[<<"udp", proc'[n].host, proc'[n].key>>] = 0
                   /\ \A b \in Actor : proc'[b].at = "udp" => proc'[b].key # proc'[n].key
  <2>1. \A b \in Actor : proc'[b].at \in Adding => b # a /\ proc[b].at = proc'[b].at /\ proc'[b].key = proc[b].key
    BY <1>1, <1>6 DEF Adding
  <2>2. proc[n].at \in {"unudp", "free"} =>
          /\ rules[<<"tcp", proc[n].host, proc[n].key>>] = 0
          /\ \A b \in Actor : proc[b].at = "tcp" => proc[b].key # proc[n].key
    BY DEF RuleCount
  <2>3. proc[n].at = "free" =>
          /\ rules[<<"udp", proc[n].host, proc[n].key>>] = 0
          /\ \A b \in Actor : proc[b].at = "udp" => proc[b].key # proc[n].key
    BY DEF RuleCount
  <2>4. CASE n # a
    <3>1. proc'[n] = proc[n] /\ n \in Actor
      BY <1>1, <2>4, Roles
    <3>2. proc[n].at \in {"unudp", "free"} => proc[n].key \in Key /\ proc[n].host \in Port
      BY <1>4, <3>1 DEF Dropping
    <3>3. proc[n].at \in {"unudp", "free"} => rules'[<<"tcp", proc[n].host, proc[n].key>>] = 0
      BY <1>3, <2>2, <3>2, RuleIs
    <3>4. proc[n].at = "free" => rules'[<<"udp", proc[n].host, proc[n].key>>] = 0
      BY <1>3, <2>3, <3>2, RuleIs
    <3>5. QED
      BY <2>1, <2>2, <2>3, <3>1, <3>3, <3>4 DEF Adding
  <2>5. CASE n = a
    <3>1. rules'[<<y, p.host, p.key>>] = 0
      BY <1>1, <1>3
    <3>2. y = "udp" => rules'[<<"tcp", p.host, p.key>>] = 0
      BY <1>1, <1>3, <2>2, <2>5, RuleIs
    <3>3. \A b \in Actor : proc'[b].at = "tcp" => proc'[b].key # p.key
      BY <1>5, <2>1 DEF Adding
    <3>4. y = "udp" => \A b \in Actor : proc'[b].at = "udp" => proc'[b].key # p.key
      BY <1>5, <2>1 DEF Adding
    <3>5. QED
      BY <1>1, <2>5, <3>1, <3>2, <3>3, <3>4
  <2>6. QED
    BY <2>4, <2>5
<1>11. QED
  BY <1>7, <1>8, <1>9, <1>10 DEF RuleCount

LEMMA RuleFreed ==
  ASSUME Common, RuleCount, NEW a \in Node, FreesPort(a)
  PROVE  RuleCount'
<1> DEFINE p == proc[a]
<1>1. /\ p.key \in Key /\ p.at = "free" /\ proc'[a].at = "release" /\ p.host \in Port
      /\ allocated_ports' = [allocated_ports EXCEPT ![p.key] = 0] /\ rules' = rules
      /\ \A b \in Actor \ {a} : proc'[b] = proc[b]
      /\ a \in Actor
  BY Roles DEF FreesPort, Turns
<1>2. \A l \in Key : allocated_ports'[l] = IF l = p.key THEN 0 ELSE allocated_ports[l]
  BY <1>1 DEF Common, Shapes
<1>3. /\ rules[<<"tcp", p.host, p.key>>] = 0 /\ rules[<<"udp", p.host, p.key>>] = 0
      /\ \A b \in Actor : proc[b].at \in Adding => proc[b].key # p.key
      /\ allocated_ports[p.key] = p.host
  BY <1>1 DEF RuleCount, Adding, Common, Releasing, Dropping
<1>4. \A b \in Actor : proc'[b].at \in Adding => proc'[b] = proc[b] /\ proc[b].key \in Key
  BY <1>1, Places DEF Adding, Common
<1>5. ASSUME NEW x \in Protocol, NEW h \in Port, NEW k \in Key
      PROVE  rules'[<<x, h, k>>] <= 1 /\ (rules'[<<x, h, k>>] > 0 => allocated_ports'[k] = h)
  <2>1. rules[<<x, h, k>>] <= 1 /\ (rules[<<x, h, k>>] > 0 => allocated_ports[k] = h)
    BY DEF RuleCount
  <2>2. k = p.key => ~(rules[<<x, h, k>>] > 0)
    <3>1. CASE h = p.host
      BY <1>3, <3>1 DEF Protocol
    <3>2. CASE h # p.host
      BY <1>3, <2>1, <3>2
    <3>3. QED
      BY <3>1, <3>2
  <2>3. QED
    BY <1>1, <1>2, <2>1, <2>2
<1>6. \A b \in Actor : proc'[b].at \in Adding =>
        /\ allocated_ports'[proc'[b].key] = proc'[b].host
        /\ rules'[<<"udp", proc'[b].host, proc'[b].key>>] = 0
        /\ proc'[b].at = "tcp" => rules'[<<"tcp", proc'[b].host, proc'[b].key>>] = 0
  BY <1>1, <1>2, <1>3, <1>4 DEF RuleCount
<1>7. \A b, c \in Actor : proc'[b].at \in Adding /\ proc'[c].at \in Adding /\ proc'[b].key = proc'[c].key => b = c
  BY <1>4 DEF RuleCount
<1>8. \A n \in Node :
        /\ proc'[n].at \in {"unudp", "free"} =>
             /\ rules'[<<"tcp", proc'[n].host, proc'[n].key>>] = 0
             /\ \A b \in Actor : proc'[b].at = "tcp" => proc'[b].key # proc'[n].key
        /\ proc'[n].at = "free" =>
             /\ rules'[<<"udp", proc'[n].host, proc'[n].key>>] = 0
             /\ \A b \in Actor : proc'[b].at = "udp" => proc'[b].key # proc'[n].key
  <2>1. \A n \in Node : proc'[n].at \in {"unudp", "free"} => proc'[n] = proc[n]
    BY <1>1, Roles
  <2>2. QED
    BY <1>1, <1>4, <2>1 DEF RuleCount, Adding
<1>9. QED
  BY <1>5, <1>6, <1>7, <1>8 DEF RuleCount

LEMMA RuleStep ==
  ASSUME Common, RuleInv, NEW a \in Actor, Forms(a), Turns(a)
  PROVE  RuleInv'
<1> SUFFICES ASSUME "restart" \notin mishap' PROVE RuleCount'
  BY DEF RuleInv, Unless
<1>1. RuleCount
  BY DEF RuleInv, Unless, Turns
<1>2. CASE GivesUp(a)
  <2>1. UNCHANGED <<rules, allocated_ports>> /\ proc'[a].at = ""
    BY <1>2, IdleIs DEF GivesUp
  <2>2. QED
    BY <1>1, <2>1, RuleQuiet DEF Adding
<1>3. CASE a = Recovery /\ RecoveryForm
  <2>1. UNCHANGED <<rules, allocated_ports>> /\ proc'[a].at \in {"", "next", "acquire"}
    BY <1>3, IdleIs DEF RecoveryForm, Recovers, Starts, Takes, table_vars
  <2>2. QED
    BY <1>1, <2>1, RuleQuiet DEF Adding
<1>4. CASE a \in Node /\ RequestForm(a)
  <2>1. CASE \E x \in Protocol : DropsRule(a, x)
    BY <1>1, <1>4, <2>1, RuleDropped
  <2>2. CASE FreesPort(a)
    BY <1>1, <1>4, <2>2, RuleFreed
  <2>3. CASE \/ Begins(a) \/ WritesRow(a) \/ (\E r \in proc[a].todo : Releases(a, r) \/ FindsNone(a, r))
             \/ ReleaseGivesUp(a) \/ DropsRows(a) \/ Stops(a)
    <3>1. UNCHANGED <<rules, allocated_ports>> /\ proc'[a].at \in {"", "acquire", "release", "untcp", "stop"}
      BY <2>3, IdleIs DEF Begins, WritesRow, Releases, FindsNone, ReleaseGivesUp, DropsRows, Stops, table_vars
    <3>2. QED
      BY <1>1, <3>1, RuleQuiet DEF Adding
  <2>4. QED
    BY <1>4, <2>1, <2>2, <2>3 DEF RequestForm
<1>5. QED
  BY <1>1, <1>2, <1>3, <1>4, RuleAcquire, RuleAdded DEF Forms

-----------------------------------------------------------------------------
(* The rows: one lemma for each part of the invariant.                     *)

\* Who is at something has a form of its own.
LEMMA Busies ==
  ASSUME Shapes, NEW a \in Node, RequestForm(a), ~ Begins(a)
  PROVE  proc[a].op # "none" /\ UNCHANGED due
BY DEF RequestForm, WritesRow, Releases, FindsNone, DropsRule, ReleaseGivesUp, FreesPort, DropsRows, Stops

\* Only the request that releases a mapping can undo it.
LEMMA MappedKept ==
  ASSUME Shapes, NEW a \in Actor, Forms(a), NEW k \in Key, NEW h \in Port, Mapped(k, h),
         ~ (a \in Node /\ proc[a].at \in Dropping /\ proc[a].key = k)
  PROVE  Mapped(k, h)'
<1>1. allocated_ports[k] = h /\ h # 0 /\ \A x \in Protocol : <<x, h, k>> \in Rule /\ rules[<<x, h, k>>] \in Nat
                                                          /\ rules[<<x, h, k>>] > 0
  BY RuleIs, Roles DEF Mapped, Shapes
<1>2. CASE Acquires(a)
  BY <1>1, <1>2 DEF Acquires, Mapped, Shapes
<1>3. CASE AddsRule(a)
  <2>1. Sets(proc[a].at, proc[a].host, proc[a].key, rules[<<proc[a].at, proc[a].host, proc[a].key>>] + 1)
    BY <1>3 DEF AddsRule, Sets
  <2>2. proc[a].at \in Protocol /\ proc[a].host \in Port /\ proc[a].key \in Key /\ allocated_ports' = allocated_ports
    BY <1>3 DEF AddsRule, Adding, Protocol, table_vars
  <2>3. ASSUME NEW x \in Protocol PROVE rules'[<<x, h, k>>] > 0
    <3>1. CASE x = proc[a].at /\ h = proc[a].host /\ k = proc[a].key
      <4>1. rules'[<<x, h, k>>] = rules[<<x, h, k>>] + 1
        BY <2>1, <2>2, <3>1, RuleSet
      <4>2. QED
        BY <1>1, <4>1
    <3>2. CASE ~ (x = proc[a].at /\ h = proc[a].host /\ k = proc[a].key)
      <4>1. rules'[<<x, h, k>>] = rules[<<x, h, k>>]
        BY <2>1, <2>2, <3>2, RuleSet
      <4>2. QED
        BY <1>1, <4>1
    <3>3. QED
      BY <3>1, <3>2
  <2>4. QED
    BY <1>1, <2>2, <2>3 DEF Mapped
<1>4. CASE a \in Node /\ \E y \in Protocol : DropsRule(a, y)
  <2>1. PICK y \in Protocol : DropsRule(a, y)
    BY <1>4
  <2>2. Sets(y, proc[a].host, proc[a].key, rules[<<y, proc[a].host, proc[a].key>>] - 1)
    BY <2>1 DEF DropsRule, Sets
  <2>3. /\ proc[a].host \in Port /\ proc[a].key \in Key /\ allocated_ports' = allocated_ports
        /\ proc[a].key # k
    BY <1>4, <2>1 DEF DropsRule, table_vars, Dropping
  <2>4. \A x \in Protocol : rules'[<<x, h, k>>] = rules[<<x, h, k>>]
    BY <2>2, <2>3, RuleSet
  <2>5. QED
    BY <1>1, <2>3, <2>4 DEF Mapped
<1>5. CASE a \in Node /\ FreesPort(a)
  BY <1>1, <1>5 DEF FreesPort, Mapped, Shapes, Dropping
<1>6. CASE UNCHANGED <<allocated_ports, rules>>
  BY <1>6 DEF Mapped
<1>7. QED
  BY <1>2, <1>3, <1>4, <1>5, <1>6 DEF Forms, GivesUp, RequestForm, RecoveryForm, Begins, WritesRow, Releases,
     FindsNone, ReleaseGivesUp, DropsRows, Stops, Starts, Takes, Recovers, table_vars

\* The only new row is that of a request to add.
LEMMA NewRow ==
  ASSUME Shapes, NEW a \in Actor, Forms(a), NEW r \in rows'
  PROVE  /\ r \in rows \/ (a \in Node /\ WritesRow(a) /\ r = Current(proc[a]))
         /\ r \in Row /\ r.key \in Key /\ r.host \in Port /\ r.key[1] \in Node
<1>1. r \in rows \/ (a \in Node /\ WritesRow(a) /\ r = Current(proc[a]))
  BY DEF Forms, Acquires, AddsRule, GivesUp, RequestForm, RecoveryForm, Begins, WritesRow, Releases, FindsNone, DropsRule,
     ReleaseGivesUp, FreesPort, DropsRows, Stops, Starts, Takes, Recovers
<1>2. r \in Row
  BY <1>1 DEF Shapes, WritesRow, Current, Row
<1>3. QED
  BY <1>1, <1>2, Roles

\* A mapped row stays mapped, is being released, or is deleted.
LEMMA MappedRow ==
  ASSUME Common, NEW a \in Actor, Forms(a), Turns(a), "kept" \notin mishap',
         NEW r \in rows, r \in rows', Mapped(r.key, r.host)
  PROVE  RowState(r)'
<1>1. r \in Row /\ r.key \in Key /\ r.host \in Port
  BY Roles DEF Common, Shapes
<1>2. CASE ~ (a \in Node /\ proc[a].at \in Dropping /\ proc[a].key = r.key)
  BY <1>1, <1>2, MappedKept DEF Common, RowState
<1>3. CASE a \in Node /\ proc[a].at \in Dropping /\ proc[a].key = r.key
  <2>1. r.key[1] = a
    BY <1>3, Places, Roles DEF Common
  <2>2. CASE \E x \in Protocol : DropsRule(a, x)
    BY <1>3, <2>1, <2>2 DEF DropsRule, RowState, Dropping
  <2>3. CASE ReleaseGivesUp(a)
    BY <1>3, <2>3 DEF ReleaseGivesUp
  <2>4. CASE FreesPort(a)
    BY <1>3, <2>1, <2>4 DEF FreesPort, RowState
  <2>5. CASE \/ Begins(a) \/ WritesRow(a) \/ (\E s \in proc[a].todo : Releases(a, s) \/ FindsNone(a, s))
             \/ DropsRows(a) \/ Stops(a) \/ Acquires(a) \/ AddsRule(a) \/ GivesUp(a)
    BY <1>3, <2>5, IdleIs DEF Begins, WritesRow, Releases, FindsNone, DropsRows, Stops, Acquires, AddsRule, GivesUp,
       Dropping, Adding
  <2>6. QED
    BY <1>3, <2>2, <2>3, <2>4, <2>5, Roles DEF Forms, RequestForm
<1>4. QED
  BY <1>2, <1>3

LEMMA RowStatesStep ==
  ASSUME Common, RowsDone, NEW a \in Actor, Forms(a), Turns(a), "kept" \notin mishap'
  PROVE  RowStates'
<1>1. \A b \in Actor \ {a} : proc'[b] = proc[b]
  BY DEF Turns
<1>2. ASSUME NEW r \in rows' PROVE RowState(r)'
  <2>1. r \in Row /\ r.key \in Key /\ r.host \in Port /\ r.key[1] \in Node
    BY NewRow DEF Common
  <2>2. CASE a \in Node /\ WritesRow(a) /\ r = Current(proc[a])
    <3>1. Mapped(r.key, r.host) /\ r.key = proc[a].key /\ r.host = proc[a].host
      BY <2>2 DEF WritesRow, Current, RowsDone, Acquired
    <3>2. Mapped(r.key, r.host)'
      BY <2>1, <2>2, <3>1, MappedKept DEF WritesRow, Dropping, Common
    <3>3. QED
      BY <3>2 DEF RowState
  <2>3. CASE r \in rows
    <3> DEFINE n == r.key[1]
    <3>1. RowState(r)
      BY <2>3 DEF RowsDone, RowStates
    <3>2. CASE Mapped(r.key, r.host)
      BY <1>2, <2>3, <3>2, MappedRow
    <3>3. CASE n \in due
      <4>1. CASE n \in due'
        BY <4>1 DEF RowState
      <4>2. CASE n \notin due'
        <5>1. a = Recovery /\ Recovers /\ n = proc[a].node
          <6>1. CASE a \in Node /\ RequestForm(a)
            BY <3>3, <4>2, <6>1, Busies DEF Common, Recovering, Begins
          <6>2. CASE GivesUp(a)
            BY <3>3, <6>2, Roles DEF GivesUp, Common, Recovering
          <6>3. QED
            BY <3>3, <4>2, <6>1, <6>2 DEF Forms, Acquires, AddsRule, RecoveryForm, Starts, Takes, Recovers
        <5>2. Mapped(r.key, r.host)
          BY <2>3, <3>3, <5>1 DEF Recovers, RowsDone, Left, Adding
        <5>3. QED
          BY <1>2, <2>3, <5>2, MappedRow
      <4>3. QED
        BY <4>1, <4>2
    <3>4. CASE proc[n].op \in {"delete", "stop"} /\ r \in proc[n].gone
      <4>1. n \in Actor /\ Coherent(n, proc[n]) /\ n \in Node
        BY <2>1, Places, Roles DEF Common
      <4>2. CASE n # a
        BY <1>1, <3>4, <4>1, <4>2 DEF RowState
      <4>3. CASE n = a
        <5>1. CASE \/ (\E s \in proc[a].todo : Releases(a, s)) \/ (\E x \in Protocol : DropsRule(a, x))
                   \/ FreesPort(a)
          BY <3>4, <4>3, <5>1 DEF Releases, DropsRule, FreesPort, RowState
        <5>2. CASE \E s \in proc[a].todo : FindsNone(a, s)
          <6>1. proc[a].op = "delete" /\ proc[a].todo # {}
            BY <5>2 DEF FindsNone
          <6>2. QED
            BY <3>4, <4>1, <4>3, <6>1 DEF Coherent
        <5>3. CASE ReleaseGivesUp(a)
          <6>1. proc[a].op = "delete" /\ proc[a].at # "release"
            BY <5>3 DEF ReleaseGivesUp
          <6>2. QED
            BY <3>4, <4>1, <4>3, <6>1 DEF Coherent
        <5>4. CASE DropsRows(a)
          BY <1>2, <3>4, <4>3, <5>4 DEF DropsRows
        <5>5. CASE Stops(a)
          BY <2>1, <2>3, <4>1, <4>3, <5>5 DEF Stops, RowsDone, Stopping
        <5>6. CASE Begins(a) \/ WritesRow(a) \/ Acquires(a) \/ AddsRule(a) \/ GivesUp(a)
          BY <3>4, <4>3, <5>6, IdleIs DEF Begins, WritesRow, Acquires, AddsRule, GivesUp
        <5>7. QED
          BY <4>1, <4>3, <5>1, <5>2, <5>3, <5>4, <5>5, <5>6, Roles DEF Forms, RequestForm
      <4>4. QED
        BY <4>2, <4>3
    <3>5. CASE proc[n].at \in Dropping /\ proc[n].key = r.key
      <4>1. n \in Actor /\ n \in Node
        BY <2>1, Roles
      <4>2. CASE n # a
        BY <1>1, <3>5, <4>1, <4>2 DEF RowState
      <4>3. CASE n = a
        <5>1. CASE \E x \in Protocol : DropsRule(a, x)
          BY <3>5, <4>3, <5>1 DEF DropsRule, RowState, Dropping
        <5>2. CASE ReleaseGivesUp(a)
          BY <1>2, <3>5, <4>3, <5>2 DEF ReleaseGivesUp
        <5>3. CASE FreesPort(a)
          BY <2>3, <3>5, <4>3, <5>3 DEF FreesPort, RowState
        <5>4. CASE \/ Begins(a) \/ WritesRow(a) \/ (\E s \in proc[a].todo : Releases(a, s) \/ FindsNone(a, s))
                   \/ DropsRows(a) \/ Stops(a) \/ Acquires(a) \/ AddsRule(a) \/ GivesUp(a)
          BY <3>5, <4>3, <5>4, IdleIs DEF Begins, WritesRow, Releases, FindsNone, DropsRows, Stops, Acquires, AddsRule,
             GivesUp, Dropping, Adding
        <5>5. QED
          BY <4>1, <4>3, <5>1, <5>2, <5>3, <5>4, Roles DEF Forms, RequestForm
      <4>4. QED
        BY <4>2, <4>3
    <3>6. QED
      BY <3>1, <3>2, <3>3, <3>4, <3>5 DEF RowState
  <2>4. QED
    BY <2>2, <2>3, NewRow DEF Common
<1>3. QED
  BY <1>2 DEF RowStates

LEMMA StoppedStep ==
  ASSUME Common, RowsDone, NEW a \in Actor, Forms(a), Turns(a)
  PROVE  Stopped'
<1>1. \A b \in Actor \ {a} : proc'[b] = proc[b]
  BY DEF Turns
<1>2. ASSUME NEW n \in Node, status'[n] = "stopped", NEW r \in rows' PROVE r.key[1] # n
  <2>1. CASE a \in Node /\ Stops(a)
    BY <1>2, <2>1 DEF Stops, RowsDone, Stopping, Stopped, Common, Shapes
  <2>2. CASE ~ (a \in Node /\ Stops(a))
    <3>1. status[n] = "stopped"
      BY <1>2, <2>2 DEF Forms, Acquires, AddsRule, GivesUp, RequestForm, RecoveryForm, Begins, WritesRow, Releases, FindsNone,
         DropsRule, ReleaseGivesUp, FreesPort, DropsRows, Starts, Takes, Recovers, Common, Shapes
    <3>2. CASE r \in rows
      BY <3>1, <3>2 DEF RowsDone, Stopped
    <3>3. CASE a \in Node /\ WritesRow(a) /\ r = Current(proc[a])
      <4>1. r.key = proc[a].key /\ proc[a].key[1] = a /\ status[a] # "stopped"
        BY <3>3, Places, Roles DEF WritesRow, Current, RowsDone, Stopped, Common
      <4>2. QED
        BY <3>1, <4>1
    <3>4. QED
      BY <3>2, <3>3, NewRow DEF Common
  <2>3. QED
    BY <2>1, <2>2
<1>3. ASSUME NEW n \in Node, proc'[n].op = "add" PROVE status'[n] # "stopped"
  <2>0. n \in Actor /\ n # Recovery
    BY Roles
  <2>1. status[n] # "stopped"
    <3>1. CASE a = n /\ Begins(a)
      BY <1>3, <3>1 DEF Begins
    <3>2. CASE ~ (a = n /\ Begins(a))
      <4>1. proc[n].op = "add"
        BY <1>1, <1>3, <2>0, <3>2, IdleIs DEF Forms, Acquires, AddsRule, GivesUp, RequestForm, WritesRow, Releases, FindsNone,
           DropsRule, ReleaseGivesUp, FreesPort, DropsRows, Stops
      <4>2. QED
        BY <4>1 DEF RowsDone, Stopped
    <3>3. QED
      BY <3>1, <3>2
  <2>2. ~ (a = n /\ Stops(a))
    BY <1>3, IdleIs DEF Stops
  <2>3. CASE a \in Node /\ Stops(a)
    BY <2>1, <2>2, <2>3 DEF Stops, Common, Shapes
  <2>4. CASE ~ (a \in Node /\ Stops(a))
    BY <2>1, <2>4 DEF Forms, Acquires, AddsRule, GivesUp, RequestForm, RecoveryForm, Begins, WritesRow, Releases, FindsNone,
         DropsRule, ReleaseGivesUp, FreesPort, DropsRows, Starts, Takes, Recovers, Common, Shapes
  <2>5. QED
    BY <2>3, <2>4
<1>4. QED
  BY <1>2, <1>3 DEF Stopped

LEMMA StoppingStep ==
  ASSUME Common, RowsDone, NEW a \in Actor, Forms(a), Turns(a), "kept" \notin mishap'
  PROVE  Stopping'
<1>1. \A b \in Actor \ {a} : proc'[b] = proc[b]
  BY DEF Turns
<1> SUFFICES ASSUME NEW n \in Node, NEW r \in rows', r.key[1] = n
             PROVE  /\ proc'[n].op = "stop" =>
                         \/ r \in proc'[n].todo \/ r \in proc'[n].gone
                         \/ proc'[n].at \in Dropping /\ proc'[n].key = r.key
                    /\ proc'[n].at # "stop"
  BY DEF Stopping
<1>2. n \in Actor /\ n # Recovery /\ Coherent(n, proc[n]) /\ (proc'[n].at = "stop" => proc'[n].op = "stop")
  <2>1. n \in Actor /\ n # Recovery /\ Coherent(n, proc[n])
    BY Places, Roles DEF Common
  <2>2. proc[n].at = "stop" => proc[n].op = "stop"
    BY <2>1 DEF Coherent
  <2>3. proc'[a].at = "stop" => proc'[a].op = "stop"
    BY DEF Turns, Coherent
  <2>4. QED
    BY <1>1, <2>1, <2>2, <2>3
<1>3. CASE n # a
  <2>1. proc'[n] = proc[n]
    BY <1>1, <1>2, <1>3
  <2>2. CASE r \in rows
    BY <2>1, <2>2 DEF RowsDone, Stopping
  <2>3. CASE a \in Node /\ WritesRow(a) /\ r = Current(proc[a])
    <3>1. r.key = proc[a].key /\ proc[a].key[1] = a
      BY <2>3, Places, Roles DEF WritesRow, Current, Common
    <3>2. QED
      BY <1>3, <3>1
  <2>4. QED
    BY <2>2, <2>3, NewRow DEF Common
<1>4. CASE n = a
  <2>1. CASE Begins(a)
    BY <1>4, <2>1 DEF Begins, RowsOf
  <2>2. CASE proc[a].op # "stop" /\ ~ Begins(a)
    <3>1. proc'[a].op # "stop"
      BY <1>2, <1>4, <2>2, IdleIs DEF Forms, Acquires, AddsRule, GivesUp, RequestForm, WritesRow, Releases, FindsNone,
         DropsRule, ReleaseGivesUp, FreesPort, DropsRows, Stops
    <3>2. QED
      BY <1>2, <1>4, <3>1
  <2>3. CASE proc[a].op = "stop"
    <3>1. r \in rows =>
            \/ r \in proc[a].todo \/ r \in proc[a].gone
            \/ proc[a].at \in Dropping /\ proc[a].key = r.key
      BY <1>4, <2>3 DEF RowsDone, Stopping
    <3>2. ASSUME NEW s \in proc[a].todo, Releases(a, s)
          PROVE  proc'[a].at # "stop" /\ (r \in proc'[a].todo \/ r \in proc'[a].gone
                   \/ (proc'[a].at \in Dropping /\ proc'[a].key = r.key))
      BY <3>1, <3>2 DEF Releases, Dropping
    <3>3. CASE \E s \in proc[a].todo : FindsNone(a, s)
      BY <1>4, <2>3, <3>3, IdleIs DEF FindsNone
    <3>4. CASE \E x \in Protocol : DropsRule(a, x)
      BY <1>4, <3>1, <3>4 DEF DropsRule, Dropping
    <3>5. CASE ReleaseGivesUp(a)
      BY <2>3, <3>5 DEF ReleaseGivesUp
    <3>6. CASE FreesPort(a)
      BY <1>4, <3>1, <3>6 DEF FreesPort
    <3>7. CASE DropsRows(a)
      BY <1>4, <3>1, <3>7 DEF DropsRows, Dropping
    <3>8. CASE Begins(a) \/ WritesRow(a) \/ Stops(a) \/ Acquires(a) \/ AddsRule(a) \/ GivesUp(a)
      BY <1>4, <2>3, <3>8, IdleIs DEF Begins, WritesRow, Stops, Acquires, AddsRule, GivesUp
    <3>9. QED
      BY <1>2, <1>4, <3>2, <3>3, <3>4, <3>5, <3>6, <3>7, <3>8 DEF Forms, RequestForm
  <2>4. QED
    BY <2>1, <2>2, <2>3
<1>5. QED
  BY <1>3, <1>4

LEMMA NewKeysStep ==
  ASSUME Common, RowsDone, NEW a \in Actor, Forms(a), Turns(a)
  PROVE  NewKeys'
<1>1. \A b \in Actor \ {a} : proc'[b] = proc[b]
  BY DEF Turns
<1> SUFFICES ASSUME NEW n \in Node, proc'[n].op = "add", proc'[n].at # "acquire", NEW r \in rows'
             PROVE  r.key # proc'[n].key
  BY DEF NewKeys
<1>2. n \in Actor /\ n # Recovery /\ Coherent(n, proc[n])
  BY Places, Roles DEF Common
<1>3. CASE n # a
  <2>1. proc'[n] = proc[n] /\ proc[n].op = "add" /\ proc[n].at # "acquire"
    BY <1>1, <1>2, <1>3
  <2>2. CASE r \in rows
    BY <2>1, <2>2 DEF RowsDone, NewKeys
  <2>3. CASE a \in Node /\ WritesRow(a) /\ r = Current(proc[a])
    <3>1. r.key = proc[a].key /\ proc[a].key[1] = a
      BY <2>3, Places, Roles DEF WritesRow, Current, Common
    <3>2. proc[n].key[1] = n
      BY <1>2, <2>1 DEF Coherent, Adding
    <3>3. QED
      BY <1>3, <2>1, <3>1, <3>2
  <2>4. QED
    BY <2>2, <2>3, NewRow DEF Common
<1>4. CASE n = a
  <2>1. Acquires(a) \/ AddsRule(a)
    BY <1>2, <1>4, IdleIs DEF Forms, GivesUp, RequestForm, Begins, WritesRow, Releases, FindsNone,
       DropsRule, ReleaseGivesUp, FreesPort, DropsRows, Stops
  <2>2. r \in rows /\ proc[a].op = "add" /\ proc'[a].key = proc[a].key
    BY <1>4, <2>1 DEF Acquires, AddsRule
  <2>3. CASE AddsRule(a)
    BY <1>4, <2>2, <2>3 DEF RowsDone, NewKeys, AddsRule, Adding
  <2>4. CASE Acquires(a)
    <3>1. SUFFICES ASSUME r.key = proc[a].key PROVE FALSE
      BY <1>4, <2>2
    <3>2. r \in Row /\ r.host # 0 /\ r.key[1] = a
      <4>1. r \in Row
        BY <2>2 DEF Common, Shapes
      <4>2. proc[a].key[1] = a
        BY <1>4, <2>4, Places DEF Acquires, Common
      <4>3. QED
        BY <3>1, <4>1, <4>2, Roles
    <3>3. due = {} /\ proc[a].at = "acquire" /\ allocated_ports[r.key] = 0
      BY <1>4, <2>2, <2>4, <3>1 DEF Common, Recovering, Acquires
    <3>4. RowState(r)
      BY <2>2 DEF RowsDone, RowStates
    <3>5. QED
      BY <2>2, <3>2, <3>3, <3>4 DEF RowState, Mapped, Dropping
  <2>5. QED
    BY <2>1, <2>3, <2>4
<1>5. QED
  BY <1>3, <1>4

\* A rule that is added is there.
LEMMA RulePresent ==
  ASSUME Shapes, NEW a \in Actor, AddsRule(a)
  PROVE  /\ rules'[<<proc[a].at, proc[a].host, proc[a].key>>] > 0
         /\ \A x \in Protocol, h \in Port, k \in Key :
              rules[<<x, h, k>>] > 0 => rules'[<<x, h, k>>] > 0
<1> DEFINE r == <<proc[a].at, proc[a].host, proc[a].key>>
<1>1. proc[a].at \in Protocol /\ proc[a].host \in Port /\ proc[a].key \in Key
  BY DEF AddsRule, Adding, Protocol
<1>2. Sets(proc[a].at, proc[a].host, proc[a].key, rules[r] + 1)
  BY DEF AddsRule, Sets
<1>3. rules[r] \in Nat /\ rules'[r] = rules[r] + 1
  BY <1>1, <1>2, RuleIs, RuleSet DEF Shapes
<1>4. ASSUME NEW x \in Protocol, NEW h \in Port, NEW k \in Key,
             ~ (x = proc[a].at /\ h = proc[a].host /\ k = proc[a].key)
      PROVE  rules'[<<x, h, k>>] = rules[<<x, h, k>>]
  BY <1>1, <1>2, <1>4, RuleSet
<1>5. rules'[r] > 0
  BY <1>3
<1>6. QED
  BY <1>4, <1>5

LEMMA AcquiredStep ==
  ASSUME Common, RowsDone, NEW a \in Actor, Forms(a), Turns(a)
  PROVE  Acquired'
<1>1. \A b \in Actor \ {a} : proc'[b] = proc[b]
  BY DEF Turns
<1>2. ASSUME NEW n \in Node, proc'[n].at = "row" PROVE Mapped(proc[n].key, proc[n].host)'
  <2>1. n \in Actor /\ n # Recovery
    BY Roles
  <2>2. CASE n = a
    <3>1. AddsRule(a)
      BY <1>2, <2>1, <2>2, IdleIs DEF Forms, Acquires, GivesUp, RequestForm, Begins, WritesRow, Releases, FindsNone,
         DropsRule, ReleaseGivesUp, FreesPort, DropsRows, Stops
    <3>2. /\ proc[a].at = "udp" /\ proc'[a].key = proc[a].key /\ proc'[a].host = proc[a].host
          /\ proc[a].key \in Key /\ proc[a].host \in Port /\ UNCHANGED allocated_ports
      BY <1>2, <2>2, <3>1 DEF AddsRule, Adding, table_vars
    <3>3. allocated_ports[proc[a].key] = proc[a].host /\ rules[<<"tcp", proc[a].host, proc[a].key>>] > 0
      BY <2>2, <3>2 DEF RowsDone, Acquired, Adding
    <3>4. rules'[<<"tcp", proc[a].host, proc[a].key>>] > 0 /\ rules'[<<"udp", proc[a].host, proc[a].key>>] > 0
      BY <3>1, <3>2, <3>3, RulePresent, RuleIs DEF Common
    <3>5. QED
      BY <2>2, <3>2, <3>3, <3>4 DEF Mapped, Protocol
  <2>3. CASE n # a
    <3>1. proc'[n] = proc[n] /\ proc[n].at = "row" /\ proc[n].key \in Key /\ proc[n].host \in Port
      BY <1>1, <1>2, <2>1, <2>3, Places DEF Common
    <3>2. Mapped(proc[n].key, proc[n].host)
      BY <3>1 DEF RowsDone, Acquired
    <3>3. ~ (a \in Node /\ proc[a].at \in Dropping /\ proc[a].key = proc[n].key)
      BY <2>3, <3>1, OwnKeys DEF Common
    <3>4. PICK k \in Key, h \in Port : k = proc[n].key /\ h = proc[n].host
      BY <3>1
    <3>5. Mapped(k, h)'
      BY <3>2, <3>3, <3>4, MappedKept DEF Common
    <3>6. QED
      BY <3>1, <3>4, <3>5 DEF Mapped
  <2>4. QED
    BY <2>2, <2>3
<1>3. ASSUME NEW b \in Actor, proc'[b].at \in Adding, b \in Node \/ proc'[b].node \in due'
      PROVE  /\ allocated_ports'[proc'[b].key] = proc'[b].host
             /\ proc'[b].at = "udp" => rules'[<<"tcp", proc'[b].host, proc'[b].key>>] > 0
  <2>1. due' \subseteq due
    BY DEF Forms, Acquires, AddsRule, GivesUp, RequestForm, RecoveryForm, Begins, WritesRow, Releases, FindsNone,
       DropsRule, ReleaseGivesUp, FreesPort, DropsRows, Stops, Starts, Takes, Recovers
  <2>2. CASE b = a
    <3>1. Acquires(a) \/ AddsRule(a)
      <4>1. CASE RequestForm(a)
        <5>1. proc'[a].at \in {"", "acquire", "release", "stop"} \union Dropping
          BY <4>1, IdleIs DEF RequestForm, Begins, WritesRow, Releases, FindsNone, DropsRule,
             ReleaseGivesUp, FreesPort, DropsRows, Stops, Dropping
        <5>2. QED
          BY <1>3, <2>2, <5>1 DEF Adding, Dropping
      <4>2. CASE GivesUp(a) \/ (a = Recovery /\ RecoveryForm)
        BY <1>3, <2>2, <4>2, IdleIs DEF GivesUp, RecoveryForm, Starts, Takes, Recovers, Adding
      <4>3. QED
        BY <4>1, <4>2 DEF Forms
    <3>2. CASE Acquires(a)
      BY <2>2, <3>2 DEF Acquires, Common, Shapes
    <3>3. CASE AddsRule(a)
      <4>1. /\ proc[a].at = "tcp" /\ proc'[a].key = proc[a].key /\ proc'[a].host = proc[a].host
            /\ proc'[a].node = proc[a].node /\ UNCHANGED <<allocated_ports, due>>
        BY <1>3, <2>2, <3>3 DEF AddsRule, Adding, table_vars
      <4>2. allocated_ports[proc[a].key] = proc[a].host
        BY <1>3, <2>2, <4>1 DEF RowsDone, Acquired, Adding
      <4>3. rules'[<<"tcp", proc[a].host, proc[a].key>>] > 0
        BY <3>3, <4>1, RulePresent DEF Common
      <4>4. QED
        BY <2>2, <4>1, <4>2, <4>3
    <3>4. QED
      BY <3>1, <3>2, <3>3
  <2>3. CASE b # a
    <3>1. /\ proc'[b] = proc[b] /\ proc[b].key \in Key /\ proc[b].host \in Port /\ proc[b].host # 0
          /\ proc[b].key[1] = proc[b].node /\ proc[b].op # "none"
      BY <1>1, <1>3, <2>3, Places DEF Common
    <3>2. /\ allocated_ports[proc[b].key] = proc[b].host
          /\ proc[b].at = "udp" => rules[<<"tcp", proc[b].host, proc[b].key>>] > 0
      BY <1>3, <2>1, <3>1 DEF RowsDone, Acquired
    <3>3. <<"tcp", proc[b].host, proc[b].key>> \in Rule
      BY <3>1, RuleIs
    <3>4. CASE Acquires(a)
      BY <3>1, <3>2, <3>4 DEF Acquires, Common, Shapes
    <3>5. CASE AddsRule(a)
      BY <3>1, <3>2, <3>5, RulePresent, RuleIs DEF AddsRule, table_vars, Common
    <3>6. CASE a \in Node /\ (FreesPort(a) \/ \E x \in Protocol : DropsRule(a, x))
      <4>1. proc[a].op # "none" /\ proc[a].key[1] = a /\ proc[a].key \in Key /\ proc[a].host \in Port
        BY <3>6 DEF FreesPort, DropsRule
      <4>2. due = {}
        BY <3>6, <4>1 DEF Common, Recovering
      <4>3. b \in Node /\ proc[b].node = b
        BY <1>3, <2>1, <3>1, <4>2, Places DEF Common
      <4>4. proc[b].key # proc[a].key
        BY <2>3, <3>1, <4>1, <4>3
      <4>5. CASE FreesPort(a)
        BY <3>1, <3>2, <4>4, <4>5 DEF FreesPort, Common, Shapes
      <4>6. ASSUME NEW x \in Protocol, DropsRule(a, x)
            PROVE  /\ allocated_ports'[proc[b].key] = proc[b].host
                   /\ rules'[<<"tcp", proc[b].host, proc[b].key>>] = rules[<<"tcp", proc[b].host, proc[b].key>>]
        <5>1. Sets(x, proc[a].host, proc[a].key, rules[<<x, proc[a].host, proc[a].key>>] - 1)
          BY <4>6 DEF DropsRule, Sets
        <5>2. UNCHANGED allocated_ports
          BY <4>6 DEF DropsRule, table_vars
        <5>3. QED
          BY <3>1, <3>2, <4>1, <4>4, <5>1, <5>2, RuleIs, RuleSet DEF Common
      <4>7. QED
        BY <3>1, <3>2, <3>6, <4>5, <4>6
    <3>7. CASE UNCHANGED <<allocated_ports, rules>>
      BY <3>1, <3>2, <3>7
    <3>8. QED
      BY <3>4, <3>5, <3>6, <3>7 DEF Forms, GivesUp, RequestForm, RecoveryForm, Begins, WritesRow, Releases,
         FindsNone, ReleaseGivesUp, DropsRows, Stops, Starts, Takes, Recovers, table_vars
  <2>4. QED
    BY <2>2, <2>3
<1>4. QED
  BY <1>2, <1>3 DEF Acquired

LEMMA LeftStep ==
  ASSUME Common, RowsDone, NEW a \in Actor, Forms(a), Turns(a)
  PROVE  Left'
<1> DEFINE p == proc[Recovery]
           q == proc'[Recovery]
<1> SUFFICES ASSUME q.op # "none", q.node \in due', NEW r \in rows', r.key[1] = q.node
             PROVE  \/ r \in q.todo \/ Mapped(r.key, r.host)'
                    \/ r = Current(q) /\ q.at \in {"acquire"} \union Adding
  BY DEF Left, Current
<1>1. due' \subseteq due
  BY DEF Forms, Acquires, AddsRule, GivesUp, RequestForm, RecoveryForm, Begins, WritesRow, Releases, FindsNone,
     DropsRule, ReleaseGivesUp, FreesPort, DropsRows, Stops, Starts, Takes, Recovers
<1>2. a = Recovery
  <2>1. SUFFICES ASSUME a \in Node PROVE FALSE
    BY Roles
  <2>2. due # {}
    BY <1>1
  <2>3. proc[a].op = "none"
    BY <2>1, <2>2 DEF Common, Recovering
  <2>4. ~ Acquires(a) /\ ~ AddsRule(a) /\ ~ GivesUp(a) /\ ~ Begins(a)
    BY <2>2, <2>3 DEF Acquires, AddsRule, GivesUp, Begins
  <2>5. QED
    BY <2>1, <2>3, <2>4, Busies, Roles DEF Forms, Common
<1>3. r \in rows /\ r.key \in Key /\ r.host \in Port
  BY <1>2, NewRow, Roles DEF Common
<1>4. ~ (a \in Node /\ proc[a].at \in Dropping /\ proc[a].key = r.key)
  BY <1>2, Roles
<1>5. Mapped(r.key, r.host) => Mapped(r.key, r.host)'
  BY <1>3, <1>4, MappedKept DEF Common
<1>6. p.op # "none" /\ p.node = q.node =>
        \/ r \in p.todo \/ Mapped(r.key, r.host)
        \/ r = Current(p) /\ p.at \in {"acquire"} \union Adding
  BY <1>1, <1>3 DEF RowsDone, Left
<1>7. ASSUME NEW n \in Node, Starts(n) PROVE r \in q.todo
  BY <1>3, <1>7 DEF Starts, RowsOf
<1>8. ASSUME NEW s \in Row, Takes(s)
      PROVE  r \in q.todo \/ Mapped(r.key, r.host) \/ (r = Current(q) /\ q.at = "acquire")
  <2>1. Current(q) = s
    BY <1>8, Roles DEF Takes, Current
  <2>2. p.op # "none" /\ p.node = q.node /\ p.at = "next" /\ q.todo = p.todo \ {s} /\ q.at = "acquire"
    BY <1>8 DEF Takes
  <2>3. QED
    BY <1>6, <2>1, <2>2 DEF Adding
<1>9. CASE Acquires(a)
  <2>1. /\ p.op = "recover" /\ q.node = p.node /\ q.todo = p.todo /\ q.at = "tcp" /\ q.key = p.key
        /\ q.host = p.host
    BY <1>2, <1>9, Places, Roles DEF Acquires, Common, Coherent
  <2>2. QED
    BY <1>5, <1>6, <2>1 DEF Current, Adding
<1>10. CASE AddsRule(a)
  <2>1. /\ p.op # "none" /\ q.node = p.node /\ q.todo = p.todo /\ q.key = p.key /\ q.host = p.host
        /\ p.at \in Adding /\ UNCHANGED allocated_ports /\ UNCHANGED due
        /\ q.at = IF p.at = "tcp" THEN "udp" ELSE "next"
    BY <1>2, <1>10 DEF AddsRule, table_vars
  <2>2. CASE p.at = "tcp"
    BY <1>5, <1>6, <2>1, <2>2 DEF Current, Adding
  <2>3. CASE p.at = "udp" /\ r = Current(p)
    <3>1. r.key = p.key /\ r.host = p.host
      BY <2>3 DEF Current
    <3>2. allocated_ports[p.key] = p.host /\ rules[<<"tcp", p.host, p.key>>] > 0
      BY <1>2, <2>1, <2>3 DEF RowsDone, Acquired, Adding
    <3>3. rules'[<<"udp", p.host, p.key>>] > 0 /\ rules'[<<"tcp", p.host, p.key>>] > 0
      BY <1>2, <1>3, <1>10, <2>3, <3>1, <3>2, RulePresent, RuleIs DEF Common
    <3>4. QED
      BY <2>1, <3>1, <3>2, <3>3 DEF Mapped, Protocol
  <2>4. CASE p.at = "udp" /\ r # Current(p)
    BY <1>5, <1>6, <2>1, <2>4
  <2>5. QED
    BY <2>1, <2>2, <2>3, <2>4 DEF Adding
<1>11. CASE GivesUp(a) \/ Recovers
  BY <1>2, <1>11, IdleIs DEF GivesUp, Recovers
<1>12. QED
  BY <1>2, <1>5, <1>7, <1>8, <1>9, <1>10, <1>11, Roles DEF Forms, RecoveryForm

LEMMA RowStep ==
  ASSUME Common, RowInv, NEW a \in Actor, Forms(a), Turns(a)
  PROVE  RowInv'
<1> SUFFICES ASSUME "kept" \notin mishap' PROVE RowsDone'
  BY DEF RowInv, Unless
<1>1. RowsDone
  BY DEF RowInv, Unless, Turns
<1>2. QED
  BY <1>1, RowStatesStep, StoppedStep, StoppingStep, NewKeysStep, AcquiredStep, LeftStep DEF RowsDone

LEMMA RowAside ==
  ASSUME Common, RowInv, UNCHANGED <<table_vars, rules, rows, proc, due, mishap>>,
         status' = status \/ \E n \in Node : status' = [status EXCEPT ![n] = "running"]
  PROVE  RowInv'
<1> SUFFICES ASSUME "kept" \notin mishap' PROVE RowsDone'
  BY DEF RowInv, Unless
<1>1. RowsDone
  BY DEF RowInv, Unless
<1>2. UNCHANGED <<allocated_ports, rules, rows, proc, due>>
  BY DEF table_vars
<1>3. RowStates'
  BY <1>1, <1>2 DEF RowsDone, RowStates, RowState, Mapped
<1>4. Stopped'
  <2>1. \A n \in Node : status'[n] = status[n] \/ status'[n] = "running"
    BY DEF Common, Shapes
  <2>2. QED
    BY <1>1, <1>2, <2>1 DEF RowsDone, Stopped
<1>5. Stopping' /\ NewKeys' /\ Acquired' /\ Left'
  BY <1>1, <1>2 DEF RowsDone, Stopping, NewKeys, Acquired, Left, Mapped, Current
<1>6. QED
  BY <1>3, <1>4, <1>5 DEF RowsDone

\* A restart forgets the mappings; the clusters that have rows are due then.
LEMMA RowRestart == ASSUME Common, RowInv, Restarts PROVE RowInv'
<1> SUFFICES ASSUME "kept" \notin mishap' PROVE RowsDone'
  BY DEF RowInv, Unless
<1>1. RowsDone
  BY DEF RowInv, Unless, Restarts
<1>2. \A b \in Actor : proc'[b].op = "none" /\ proc'[b].at = ""
  BY IdleIs DEF Restarts
<1>3. rows' = rows /\ status' = status /\ due' = {n \in Node : status[n] # "stopped"}
  BY DEF Restarts
<1>4. \A r \in rows : r.key[1] \in due'
  BY <1>1, <1>3, Roles DEF RowsDone, Stopped, Common, Shapes
<1>5. RowStates'
  BY <1>3, <1>4 DEF RowStates, RowState
<1>6. Stopped' /\ Stopping' /\ NewKeys' /\ Acquired' /\ Left'
  BY <1>1, <1>2, <1>3, Roles DEF RowsDone, Stopped, Stopping, NewKeys, Acquired, Left, Adding
<1>7. QED
  BY <1>5, <1>6 DEF RowsDone

-----------------------------------------------------------------------------
(* The ports that are taken: again one lemma for each part.                *)

\* Who is alone at his node has his keys for himself.
LEMMA OwnKey ==
  ASSUME Common, "overlap" \notin mishap, NEW a \in Actor, NEW b \in Actor, a # b,
         proc[a].op # "none", proc[b].op # "none", NEW k \in Key, NEW l \in Key,
         k[1] = proc[a].node, l[1] = proc[b].node
  PROVE  k # l
BY DEF Common, Alone, Unless

LEMMA TakenStep ==
  ASSUME Common, KeptDone, NEW a \in Actor, Forms(a), Turns(a)
  PROVE  Taken'
<1> SUFFICES ASSUME NEW h \in Port, h \notin free_ports' PROVE \E k \in Key : allocated_ports'[k] = h
  BY DEF Taken
<1>1. h # 0
  BY Roles
<1>2. CASE Acquires(a)
  <2>1. CASE h = proc'[a].host
    BY <1>2, <2>1 DEF Acquires, Common, Shapes
  <2>2. CASE h # proc'[a].host
    <3>1. h \notin free_ports
      BY <1>2, <2>2 DEF Acquires
    <3>2. PICK k \in Key : allocated_ports[k] = h
      BY <3>1 DEF KeptDone, Taken
    <3>3. allocated_ports'[k] = h
      BY <1>1, <1>2, <3>2 DEF Acquires, Common, Shapes
    <3>4. QED
      BY <3>3
  <2>3. QED
    BY <2>1, <2>2
<1>3. CASE a \in Node /\ FreesPort(a)
  <2>1. h \notin free_ports /\ h # proc[a].host
    BY <1>3 DEF FreesPort
  <2>2. PICK k \in Key : allocated_ports[k] = h
    BY <2>1 DEF KeptDone, Taken
  <2>3. allocated_ports[proc[a].key] = proc[a].host
    BY <1>3 DEF FreesPort, Common, Releasing, Dropping
  <2>4. allocated_ports'[k] = h
    BY <1>3, <2>1, <2>2, <2>3 DEF FreesPort, Common, Shapes
  <2>5. QED
    BY <2>4
<1>4. CASE UNCHANGED <<free_ports, allocated_ports>>
  BY <1>4 DEF KeptDone, Taken
<1>5. QED
  BY <1>2, <1>3, <1>4 DEF Forms, AddsRule, GivesUp, RequestForm, RecoveryForm, Begins, WritesRow, Releases,
     FindsNone, DropsRule, ReleaseGivesUp, DropsRows, Stops, Starts, Takes, Recovers, table_vars

LEMMA GoneStep ==
  ASSUME Common, KeptDone, NEW a \in Actor, Forms(a), Turns(a), "overlap" \notin mishap'
  PROVE  Gone'
<1> SUFFICES ASSUME NEW n \in Node, proc'[n].op \in {"delete", "stop"}, NEW r \in proc'[n].gone
             PROVE  allocated_ports'[r.key] = 0
  BY DEF Gone
<1>1. /\ \A b \in Actor \ {a} : proc'[b] = proc[b]
      /\ "overlap" \notin mishap /\ n \in Actor /\ n # Recovery
  BY Roles DEF Turns
<1>2. CASE n # a
  <2>1. /\ proc[n].op \in {"delete", "stop"} /\ r \in proc[n].gone /\ allocated_ports[r.key] = 0
        /\ r.key \in Key /\ r.key[1] = n /\ proc[n].node = n
    BY <1>1, <1>2, Requester DEF KeptDone, Gone, Common
  <2>2. CASE Acquires(a)
    <3>1. proc[a].key \in Key /\ proc[a].op # "none" /\ proc[a].key[1] = proc[a].node
      BY <2>2, Places DEF Acquires, Common
    <3>2. proc[a].key # r.key
      BY <1>1, <1>2, <2>1, <3>1, OwnKey
    <3>3. QED
      BY <2>1, <2>2, <3>1, <3>2 DEF Acquires, Common, Shapes
  <2>3. CASE FreesPort(a) \/ UNCHANGED allocated_ports
    BY <2>1, <2>3 DEF FreesPort, Common, Shapes
  <2>4. QED
    BY <2>2, <2>3 DEF Forms, AddsRule, GivesUp, RequestForm, RecoveryForm, Begins, WritesRow, Releases,
       FindsNone, DropsRule, ReleaseGivesUp, DropsRows, Stops, Starts, Takes, Recovers, table_vars
<1>3. CASE n = a
  <2>1. proc[a].op \in {"delete", "stop"} => \A s \in proc[a].gone : allocated_ports[s.key] = 0 /\ s.key \in Key
    BY <1>3, Requester DEF KeptDone, Gone, Common
  <2>2. CASE FreesPort(a)
    <3>1. r \in proc[a].gone \/ r.key = proc[a].key
      BY <1>3, <2>2 DEF FreesPort
    <3>2. QED
      BY <2>1, <2>2, <3>1 DEF FreesPort, Common, Shapes
  <2>3. CASE Begins(a)
    BY <1>3, <2>3 DEF Begins
  <2>4. CASE ~ FreesPort(a) /\ ~ Begins(a)
    <3>1. /\ proc[a].op \in {"delete", "stop"} /\ proc'[a].gone = proc[a].gone
          /\ UNCHANGED allocated_ports
      BY <1>1, <1>3, <2>4, IdleIs DEF Forms, Acquires, AddsRule, GivesUp, RequestForm, WritesRow, Releases,
         FindsNone, DropsRule, ReleaseGivesUp, DropsRows, Stops, table_vars
    <3>2. QED
      BY <1>3, <2>1, <3>1
  <2>5. QED
    BY <2>2, <2>3, <2>4
<1>4. QED
  BY <1>2, <1>3

\* A request that releases does not fail for lack of a rule.
LEMMA NoneMissing ==
  ASSUME Common, KeptDone, NEW a \in Node, ReleaseGivesUp(a)
  PROVE  "iptables" \in mishap'
<1>1. HasRules(proc[a])
  BY Roles DEF KeptDone
<1>2. QED
  BY <1>1 DEF ReleaseGivesUp, HasRules

LEMMA KeptStep ==
  ASSUME Common, KeptDone, NEW a \in Actor, Forms(a), Turns(a),
         "overlap" \notin mishap', "iptables" \notin mishap', NEW k \in Key
  PROVE  Kept(k)'
<1> SUFFICES ASSUME allocated_ports'[k] # 0
             PROVE  /\ k[1] \in known'
                    /\ \/ /\ [key |-> k, host |-> allocated_ports'[k]] \in rows'
                          /\ Mapped(k, allocated_ports[k])'
                       \/ \E b \in Actor : /\ proc'[b].key = k
                                           /\ proc'[b].at \in {"row"} \union Adding \union Dropping
  BY DEF Kept
<1>1. /\ \A b \in Actor \ {a} : proc'[b] = proc[b]
      /\ "overlap" \notin mishap /\ Kept(k) /\ HasRules(proc[a])
  BY DEF Turns, KeptDone
<1>2. CASE Acquires(a) /\ k = proc[a].key
  BY <1>2 DEF Acquires, Adding
<1>3. CASE ~ (Acquires(a) /\ k = proc[a].key)
  <2>1. allocated_ports'[k] = allocated_ports[k] /\ known \subseteq known' /\ ~ (FreesPort(a) /\ proc[a].key = k)
    <3>1. CASE Acquires(a)
      BY <1>3, <3>1, Roles DEF Acquires, FreesPort, Common, Shapes
    <3>2. CASE FreesPort(a)
      BY <3>2 DEF FreesPort, Common, Shapes
    <3>3. CASE UNCHANGED allocated_ports /\ known \subseteq known' /\ ~ FreesPort(a)
      BY <3>3
    <3>4. QED
      BY <3>1, <3>2, <3>3 DEF Forms, AddsRule, GivesUp, RequestForm, RecoveryForm, Begins, WritesRow, Releases,
         FindsNone, DropsRule, ReleaseGivesUp, DropsRows, Stops, Starts, Takes, Recovers, table_vars
  <2>2. PICK h \in Port : h = allocated_ports[k]
    BY <2>1 DEF Common, Shapes
  <2>3. k[1] \in known /\ h # 0
    BY <1>1, <2>1, <2>2 DEF Kept
  <2>4. CASE [key |-> k, host |-> h] \in rows /\ Mapped(k, h)
    <3>1. CASE a \in Node /\ proc[a].at \in Dropping /\ proc[a].key = k
      <4>1. CASE \E x \in Protocol : DropsRule(a, x)
        BY <2>1, <2>3, <3>1, <4>1 DEF DropsRule, Dropping
      <4>2. CASE ReleaseGivesUp(a)
        BY <3>1, <4>2, NoneMissing
      <4>3. CASE FreesPort(a)
        BY <2>1, <3>1, <4>3
      <4>4. CASE \/ Begins(a) \/ WritesRow(a) \/ (\E s \in proc[a].todo : Releases(a, s) \/ FindsNone(a, s))
                 \/ DropsRows(a) \/ Stops(a) \/ Acquires(a) \/ AddsRule(a) \/ GivesUp(a)
        BY <3>1, <4>4, IdleIs DEF Begins, WritesRow, Releases, FindsNone, DropsRows, Stops, Acquires, AddsRule,
           GivesUp, Dropping, Adding
      <4>5. QED
        BY <3>1, <4>1, <4>2, <4>3, <4>4, Roles DEF Forms, RequestForm
    <3>2. CASE ~ (a \in Node /\ proc[a].at \in Dropping /\ proc[a].key = k)
      <4>1. Mapped(k, h)'
        BY <2>2, <2>4, <3>2, MappedKept DEF Common
      <4>2. Mapped(k, allocated_ports[k])'
        BY <2>1, <2>2, <4>1 DEF Mapped
      <4> DEFINE r == [key |-> k, host |-> h]
      <4>3. r.key = k /\ r.host = h
        OBVIOUS
      <4>4. r \in rows'
        <5>1. CASE a \in Node /\ \E s \in proc[a].todo : FindsNone(a, s)
          <6>1. PICK s \in proc[a].todo : FindsNone(a, s)
            BY <5>1
          <6>2. s.key[1] = a
            BY <5>1, <6>1, Requester DEF FindsNone, Common
          <6>3. CASE rows' = rows \ {s} /\ a \notin known
            BY <2>3, <2>4, <4>3, <6>2, <6>3
          <6>4. CASE rows' = rows
            BY <2>4, <6>4
          <6>5. QED
            BY <6>1, <6>3, <6>4 DEF FindsNone
        <5>2. CASE a \in Node /\ ReleaseGivesUp(a)
          BY <5>2, NoneMissing
        <5>3. CASE a \in Node /\ DropsRows(a)
          <6>1. r \notin proc[a].gone
            BY <2>2, <2>3, <4>3, <5>3 DEF DropsRows, KeptDone, Gone
          <6>2. QED
            BY <2>4, <5>3, <6>1 DEF DropsRows
        <5>4. CASE rows \subseteq rows'
          BY <2>4, <5>4
        <5>5. QED
          BY <5>1, <5>2, <5>3, <5>4 DEF Forms, Acquires, AddsRule, GivesUp, RequestForm, RecoveryForm, Begins, WritesRow,
             Releases, DropsRule, FreesPort, Stops, Starts, Takes, Recovers
      <4>5. QED
        BY <2>1, <2>2, <2>3, <4>2, <4>4
    <3>3. QED
      BY <3>1, <3>2
  <2>5. CASE \E b \in Actor : proc[b].key = k /\ proc[b].at \in {"row"} \union Adding \union Dropping
    <3>1. PICK b \in Actor : proc[b].key = k /\ proc[b].at \in {"row"} \union Adding \union Dropping
      BY <2>5
    <3>2. CASE b # a
      BY <1>1, <2>1, <2>3, <3>1, <3>2
    <3>3. CASE b = a
      <4>1. CASE AddsRule(a)
        <5>1. proc'[a].at \in {"udp", "row"} => proc'[a].at \in {"row"} \union Adding \union Dropping
          BY DEF Adding
        <5>2. CASE proc[a].at = "tcp" \/ a # Recovery
          BY <2>1, <2>3, <3>1, <3>3, <4>1, <5>1, <5>2 DEF AddsRule
        <5>3. CASE proc[a].at = "udp" /\ a = Recovery
          <6>1. Current(proc[a]) \in rows /\ allocated_ports[k] = proc[a].host /\ rows' = rows
            BY <1>1, <3>1, <3>3, <4>1, <5>3 DEF Common, Alone, Unless, Adding, AddsRule
          <6>2. h = proc[a].host /\ [key |-> k, host |-> h] \in rows'
            BY <2>2, <3>1, <3>3, <6>1 DEF Current
          <6>3. rules[<<"tcp", h, k>>] > 0
            BY <1>1, <3>1, <3>3, <5>3, <6>2 DEF HasRules
          <6>4. rules'[<<"udp", h, k>>] > 0 /\ rules'[<<"tcp", h, k>>] > 0
            BY <3>1, <3>3, <4>1, <5>3, <6>2, <6>3, RulePresent, RuleIs DEF Common
          <6>5. Mapped(k, allocated_ports[k])'
            BY <2>1, <2>2, <6>4 DEF Mapped, Protocol
          <6>6. QED
            BY <2>1, <2>2, <2>3, <6>2, <6>5
        <5>4. QED
          BY <4>1, <5>2, <5>3 DEF AddsRule, Adding
      <4>2. CASE a \in Node /\ WritesRow(a)
        <5>1. /\ allocated_ports[k] = proc[a].host /\ rules[<<"tcp", proc[a].host, k>>] > 0
              /\ rules[<<"udp", proc[a].host, k>>] > 0
          BY <1>1, <3>1, <3>3, <4>2 DEF WritesRow, HasRules
        <5>2. [key |-> k, host |-> h] \in rows' /\ rules' = rules /\ h = proc[a].host
          BY <2>2, <3>1, <3>3, <4>2, <5>1 DEF WritesRow, Current
        <5>3. Mapped(k, allocated_ports[k])'
          BY <2>1, <2>2, <5>1, <5>2 DEF Mapped, Protocol
        <5>4. QED
          BY <2>1, <2>2, <2>3, <5>2, <5>3
      <4>3. CASE a \in Node /\ \E x \in Protocol : DropsRule(a, x)
        BY <2>1, <2>3, <3>1, <3>3, <4>3 DEF DropsRule, Dropping
      <4>4. CASE GivesUp(a)
        BY <3>1, <3>3, <4>4 DEF GivesUp, Dropping, Adding
      <4>5. CASE a \in Node /\ ReleaseGivesUp(a)
        BY <4>5, NoneMissing
      <4>6. CASE a \in Node /\ FreesPort(a)
        BY <2>1, <3>1, <3>3, <4>6
      <4>7. CASE a \in Node /\ (Begins(a) \/ (\E s \in proc[a].todo : Releases(a, s) \/ FindsNone(a, s))
                                \/ DropsRows(a) \/ Stops(a))
        BY <3>1, <3>3, <4>7, IdleIs DEF Begins, Releases, FindsNone, DropsRows, Stops, Dropping, Adding
      <4>8. CASE Acquires(a) \/ (a = Recovery /\ RecoveryForm)
        BY <3>1, <3>3, <4>8, IdleIs DEF Acquires, RecoveryForm, Starts, Takes, Recovers, Dropping, Adding
      <4>9. QED
        BY <4>1, <4>2, <4>3, <4>4, <4>5, <4>6, <4>7, <4>8 DEF Forms, RequestForm
    <3>4. QED
      BY <3>2, <3>3
  <2>6. QED
    BY <1>1, <2>1, <2>2, <2>3, <2>4, <2>5 DEF Kept
<1>4. QED
  BY <1>2, <1>3

LEMMA HasRulesStep ==
  ASSUME Common, KeptDone, NEW a \in Actor, Forms(a), Turns(a),
         "overlap" \notin mishap', NEW b \in Actor
  PROVE  HasRules(proc[b])'
<1>1. /\ \A c \in Actor \ {a} : proc'[c] = proc[c]
      /\ "overlap" \notin mishap /\ HasRules(proc[b]) /\ HasRules(proc[a])
  BY DEF Turns, KeptDone
<1> DEFINE q == proc'[b]
<1> SUFFICES ASSUME q.at \in {"udp", "row", "untcp", "unudp"}
             PROVE  /\ q.at \in {"udp", "row", "untcp"} => rules'[<<"tcp", q.host, q.key>>] > 0
                    /\ q.at \in {"row", "untcp", "unudp"} => rules'[<<"udp", q.host, q.key>>] > 0
                    /\ q.at = "row" => allocated_ports'[q.key] = q.host
  BY DEF HasRules
<1>2. CASE b # a
  <2>1. q = proc[b]
    BY <1>1, <1>2
  <2>2. PICK k \in Key, h \in Port : k = q.key /\ h = q.host
    BY <2>1, Places DEF Common, Adding, Dropping
  <2>3. proc[b].op # "none" /\ k[1] = proc[b].node
    BY <2>1, <2>2, Places DEF Common, Adding, Dropping
  <2>4. /\ <<"tcp", h, k>> \in Rule /\ <<"udp", h, k>> \in Rule
        /\ q.at \in {"udp", "row", "untcp"} => rules[<<"tcp", h, k>>] > 0
        /\ q.at \in {"row", "untcp", "unudp"} => rules[<<"udp", h, k>>] > 0
        /\ q.at = "row" => allocated_ports[k] = h
    BY <1>1, <2>1, <2>2, RuleIs DEF HasRules
  <2>5. Acquires(a) \/ FreesPort(a) \/ (\E x \in Protocol : DropsRule(a, x)) => proc[a].key \in Key /\ proc[a].key # k
    <3>1. ASSUME Acquires(a) \/ FreesPort(a) \/ (\E x \in Protocol : DropsRule(a, x))
          PROVE  proc[a].op # "none" /\ proc[a].key \in Key /\ proc[a].key[1] = proc[a].node
      BY <3>1, Places DEF Common, Acquires, FreesPort, DropsRule, Adding, Dropping
    <3>2. QED
      BY <1>1, <1>2, <2>3, <3>1, OwnKey
  <2>6. allocated_ports'[k] = allocated_ports[k]
    <3>1. CASE Acquires(a) \/ FreesPort(a)
      BY <2>5, <3>1 DEF Acquires, FreesPort, Common, Shapes
    <3>2. CASE UNCHANGED allocated_ports
      BY <3>2
    <3>3. QED
      BY <3>1, <3>2 DEF Forms, AddsRule, GivesUp, RequestForm, RecoveryForm, Begins, WritesRow, Releases,
         FindsNone, DropsRule, ReleaseGivesUp, DropsRows, Stops, Starts, Takes, Recovers, table_vars
  <2>7. \A x \in Protocol : rules[<<x, h, k>>] > 0 => rules'[<<x, h, k>>] > 0
    <3>1. CASE AddsRule(a)
      BY <3>1, RulePresent DEF Common
    <3>2. ASSUME NEW x \in Protocol, DropsRule(a, x)
          PROVE  \A y \in Protocol : rules'[<<y, h, k>>] = rules[<<y, h, k>>]
      <4>1. Sets(x, proc[a].host, proc[a].key, rules[<<x, proc[a].host, proc[a].key>>] - 1)
            /\ proc[a].host \in Port
        BY <3>2 DEF DropsRule, Sets
      <4>2. QED
        BY <2>5, <3>2, <4>1, RuleSet DEF Common
    <3>3. CASE UNCHANGED rules
      BY <3>3
    <3>4. QED
      BY <3>1, <3>2, <3>3 DEF Forms, Acquires, GivesUp, RequestForm, RecoveryForm, Begins, WritesRow, Releases,
         FindsNone, FreesPort, ReleaseGivesUp, DropsRows, Stops, Starts, Takes, Recovers, table_vars
  <2>8. QED
    BY <2>2, <2>4, <2>6, <2>7, RuleIs
<1>3. CASE b = a
  <2>1. CASE AddsRule(a)
    <3>1. PICK k \in Key, h \in Port : k = proc[a].key /\ h = proc[a].host
      BY <2>1 DEF AddsRule
    <3>2. /\ q.key = k /\ q.host = h /\ UNCHANGED allocated_ports
          /\ (proc[a].at = "tcp" /\ q.at = "udp") \/ (proc[a].at = "udp" /\ q.at = "row")
      BY <1>3, <2>1, <3>1 DEF AddsRule, Adding, table_vars
    <3>3. allocated_ports[k] = h
      BY <1>1, <2>1, <3>1 DEF AddsRule, Common, Alone, Unless
    <3>4. proc[a].at = "udp" => rules[<<"tcp", h, k>>] > 0
      BY <1>1, <3>1 DEF HasRules
    <3>5. /\ rules'[<<proc[a].at, h, k>>] > 0
          /\ \A x \in Protocol : rules[<<x, h, k>>] > 0 => rules'[<<x, h, k>>] > 0
      BY <2>1, <3>1, RulePresent DEF Common
    <3>6. QED
      BY <3>2, <3>3, <3>4, <3>5, RuleIs
  <2>2. ASSUME NEW r \in proc[a].todo, Releases(a, r), a \in Node
        PROVE  rules'[<<"tcp", q.host, q.key>>] > 0 /\ rules'[<<"udp", q.host, q.key>>] > 0 /\ q.at = "untcp"
    <3>1. /\ q.key = r.key /\ q.host = allocated_ports[r.key] /\ q.at = "untcp" /\ UNCHANGED rules
          /\ allocated_ports[r.key] # 0 /\ proc[a].op \in {"delete", "stop"} /\ proc[a].at = "release"
      BY <1>3, <2>2, Roles DEF Releases
    <3>2. r.key \in Key /\ r.key[1] = a /\ proc[a].node = a
      BY <2>2, <3>1, Requester DEF Common
    <3>3. Kept(r.key)
      BY <3>2 DEF KeptDone
    <3>4. ~ \E c \in Actor : proc[c].key = r.key /\ proc[c].at \in {"row"} \union Adding \union Dropping
      <4>1. SUFFICES ASSUME NEW c \in Actor, proc[c].key = r.key,
                            proc[c].at \in {"row"} \union Adding \union Dropping
                     PROVE  FALSE
        OBVIOUS
      <4>2. c # a
        BY <3>1, <4>1 DEF Adding, Dropping
      <4>3. proc[c].op # "none" /\ proc[c].key[1] = proc[c].node
        BY <4>1, Places DEF Common
      <4>4. QED
        BY <1>1, <3>1, <3>2, <4>1, <4>2, <4>3, OwnKey
    <3>5. Mapped(r.key, allocated_ports[r.key])
      BY <3>1, <3>3, <3>4 DEF Kept
    <3>6. QED
      BY <3>1, <3>5, RuleIs DEF Mapped
  <2>3. ASSUME NEW x \in Protocol, DropsRule(a, x)
        PROVE  q.at = "unudp" => rules'[<<"udp", q.host, q.key>>] > 0
    <3>1. SUFFICES ASSUME q.at = "unudp" PROVE rules'[<<"udp", q.host, q.key>>] > 0
      OBVIOUS
    <3>2. PICK k \in Key, h \in Port : k = proc[a].key /\ h = proc[a].host
      BY <2>3 DEF DropsRule
    <3>3. x = "tcp" /\ proc[a].at = "untcp" /\ q.key = k /\ q.host = h
      BY <1>3, <2>3, <3>1, <3>2 DEF DropsRule
    <3>4. Sets(x, h, k, rules[<<x, h, k>>] - 1)
      BY <2>3, <3>2 DEF DropsRule, Sets
    <3>5. rules'[<<"udp", h, k>>] = rules[<<"udp", h, k>>]
      BY <3>3, <3>4, RuleIs, RuleSet DEF Common
    <3>6. rules[<<"udp", h, k>>] > 0
      BY <1>1, <3>2, <3>3 DEF HasRules
    <3>7. QED
      BY <3>3, <3>5, <3>6
  <2>4. CASE \E x \in Protocol : DropsRule(a, x)
    <3>1. q.at \notin {"udp", "row", "untcp"}
      BY <1>3, <2>4 DEF DropsRule
    <3>2. QED
      BY <2>3, <2>4, <3>1
  <2>5. CASE a = Recovery /\ RecoveryForm
    BY <1>3, <2>5, IdleIs DEF RecoveryForm, Starts, Takes, Recovers
  <2>6. CASE \/ Acquires(a) \/ GivesUp(a) \/ Begins(a) \/ WritesRow(a) \/ ReleaseGivesUp(a) \/ FreesPort(a)
             \/ DropsRows(a) \/ Stops(a) \/ \E s \in proc[a].todo : FindsNone(a, s)
    BY <1>3, <2>6, IdleIs DEF Acquires, GivesUp, Begins, WritesRow, ReleaseGivesUp, FreesPort, DropsRows, Stops,
       FindsNone
  <2>7. QED
    BY <2>1, <2>2, <2>4, <2>5, <2>6 DEF Forms, RequestForm
<1>4. QED
  BY <1>2, <1>3

LEMMA KeptInvStep ==
  ASSUME Common, KeptInv, NEW a \in Actor, Forms(a), Turns(a)
  PROVE  KeptInv'
<1> SUFFICES ASSUME "overlap" \notin mishap', "iptables" \notin mishap' PROVE KeptDone'
  BY DEF KeptInv, Unless
<1>1. KeptDone
  BY DEF KeptInv, Unless, Turns
<1>2. Taken' /\ Gone'
  BY <1>1, TakenStep, GoneStep
<1>3. \A k \in Key : Kept(k)'
  BY <1>1, KeptStep
<1>4. \A b \in Actor : HasRules(proc[b])'
  BY <1>1, HasRulesStep
<1>5. QED
  BY <1>2, <1>3, <1>4 DEF KeptDone

LEMMA KeptAside ==
  ASSUME KeptInv, UNCHANGED <<table_vars, rules, rows, proc, due, mishap>>
  PROVE  KeptInv'
BY DEF KeptInv, Unless, KeptDone, Taken, Gone, Kept, HasRules, Mapped, table_vars

LEMMA KeptRestart == ASSUME Common, KeptInv, Restarts PROVE KeptInv'
<1>1. /\ \A b \in Actor : proc'[b].op = "none" /\ proc'[b].at = ""
      /\ \A k \in Key : allocated_ports'[k] = 0
      /\ free_ports' = Port
  BY IdleIs DEF Restarts
<1>2. KeptDone'
  BY <1>1, Roles DEF KeptDone, Taken, Gone, Kept, HasRules
<1>3. QED
  BY <1>2 DEF KeptInv, Unless

-----------------------------------------------------------------------------
(* One key for a host port: the tables change only in two forms of steps.  *)

\* Nothing else changes a table, and no row changes while clusters are due.
LEMMA OnceQuiet ==
  ASSUME Common, NEW a \in Actor, Forms(a)
  PROVE  /\ Acquires(a) \/ (a \in Node /\ FreesPort(a)) \/ UNCHANGED <<free_ports, allocated_ports>>
         /\ due' # {} => due # {} /\ rows' = rows
<1>1. /\ Acquires(a) \/ (a \in Node /\ FreesPort(a)) \/ UNCHANGED <<free_ports, allocated_ports>>
      /\ due' \subseteq due
  BY DEF Forms, AddsRule, GivesUp, RequestForm, RecoveryForm, Begins, WritesRow, Releases, Acquires, FreesPort,
     FindsNone, DropsRule, ReleaseGivesUp, DropsRows, Stops, Starts, Takes, Recovers, table_vars
<1>2. CASE a \in Node /\ RequestForm(a)
  <2>1. CASE Begins(a)
    BY <1>1, <2>1 DEF Begins
  <2>2. CASE ~ Begins(a)
    BY <1>1, <1>2, <2>2, Busies DEF Common, Recovering
  <2>3. QED
    BY <1>1, <2>1, <2>2
<1>3. CASE ~ (a \in Node /\ RequestForm(a))
  BY <1>1, <1>3 DEF Forms, AddsRule, GivesUp, RecoveryForm, Acquires, Starts, Takes, Recovers
<1>4. QED
  BY <1>1, <1>2, <1>3

\* What the recovery acquires belongs to a row that waits for it.
LEMMA RecoveryWaits ==
  ASSUME Common, RowsDone, "overlap" \notin mishap, Acquires(Recovery)
  PROVE  LET p == proc[Recovery] IN
         /\ due # {} /\ Current(p) \in rows /\ Current(p).key = p.key /\ Current(p).host = p.host
         /\ proc'[Recovery].host = p.host
<1> DEFINE p == proc[Recovery]
           n == p.key[1]
<1>1. /\ p.at = "acquire" /\ p.key \in Key /\ allocated_ports[p.key] = 0 /\ p.op = "recover"
      /\ n = p.node /\ n \in Node /\ n # Recovery
  BY Acquirer, Roles DEF Acquires, Common
<1>2. proc'[Recovery].host = p.host /\ p.host \in Port /\ p.host # 0
  BY <1>1, Roles DEF Acquires
<1>3. Current(p) \in rows /\ Current(p).key = p.key /\ Current(p).host = p.host
  BY <1>1 DEF Common, Alone, Unless, Current
<1>4. proc[n].op = "none" /\ proc[n].at \notin Dropping
  <2>1. proc[n].op # "none" => proc[n].node = n
    BY <1>1, Places, Roles DEF Common
  <2>2. proc[n].op = "none"
    BY <1>1, <2>1, Roles DEF Common, Alone, Unless
  <2>3. QED
    BY <1>1, <2>2, Places, Roles DEF Common
<1>5. n \in due
  <2>1. RowState(Current(p))
    BY <1>3 DEF RowsDone, RowStates
  <2>2. ~ Mapped(p.key, p.host)
    BY <1>1, <1>2 DEF Mapped
  <2>3. QED
    BY <1>3, <1>4, <2>1, <2>2 DEF RowState
<1>6. QED
  BY <1>2, <1>3, <1>5

LEMMA OnceStep ==
  ASSUME Common, RowInv, OnceInv, NEW a \in Actor, Forms(a), Turns(a)
  PROVE  OnceInv'
<1> SUFFICES ASSUME "kept" \notin mishap', "midway" \notin mishap', "overlap" \notin mishap'
             PROVE  OnceDone'
  BY DEF OnceInv, Unless
<1>1. OnceDone /\ RowsDone /\ "overlap" \notin mishap
  BY DEF OnceInv, RowInv, Unless, Turns
<1>2. due' # {} => due # {} /\ rows' = rows
  BY OnceQuiet
<1>3. \A k \in Key : allocated_ports[k] \in Port \union {0}
  BY DEF Common, Shapes
<1>4. CASE Acquires(a)
  <2> DEFINE k == proc[a].key
             h == proc'[a].host
  <2>1. /\ k \in Key /\ h \in Port /\ h # 0 /\ free_ports' = free_ports \ {h} /\ due' = due /\ rows' = rows
        /\ \A l \in Key : allocated_ports'[l] = IF l = k THEN h ELSE allocated_ports[l]
        /\ allocated_ports[k] = 0 /\ proc[a].op \in {"add", "recover"}
    BY <1>4, Roles DEF Acquires, Common, Shapes
  <2>2. /\ \A l \in Key : allocated_ports[l] # h
        /\ due # {} => [key |-> k, host |-> h] \in rows
    <3>1. CASE a = Recovery
      <4>1. /\ due # {} /\ Current(proc[a]) \in rows /\ Current(proc[a]).key = k
            /\ Current(proc[a]).host = h /\ Current(proc[a]) = [key |-> k, host |-> h]
        BY <1>1, <1>4, <3>1, RecoveryWaits DEF Current
      <4>2. ASSUME NEW l \in Key, allocated_ports[l] = h PROVE FALSE
        <5>1. PICK s \in rows : s.key = l /\ s.host = h
          BY <1>1, <2>1, <4>1, <4>2 DEF OnceDone
        <5>2. l = k
          BY <1>1, <4>1, <5>1 DEF OnceDone
        <5>3. QED
          BY <2>1, <4>2, <5>2
      <4>3. QED
        BY <4>1, <4>2
    <3>2. CASE a \in Node
      <4>1. proc[a].op = "add" /\ h \in free_ports
        BY <1>4, <3>2, Acquirer, Roles DEF Acquires, Common
      <4>2. due = {}
        BY <3>2, <4>1 DEF Common, Recovering
      <4>3. QED
        BY <1>1, <4>1, <4>2 DEF OnceDone
    <3>3. QED
      BY <3>1, <3>2, Roles
  <2>3. \A l, m \in Key : allocated_ports'[l] # 0 /\ allocated_ports'[l] = allocated_ports'[m] => l = m
    BY <1>1, <2>1, <2>2 DEF OnceDone
  <2>4. \A l \in Key : allocated_ports'[l] \notin free_ports'
    BY <1>1, <2>1 DEF OnceDone
  <2>5. due' # {} =>
          /\ \A l \in Key : allocated_ports'[l] # 0 => [key |-> l, host |-> allocated_ports'[l]] \in rows'
          /\ \A r, s \in rows' : r.host = s.host => r.key = s.key
    BY <1>1, <2>1, <2>2 DEF OnceDone
  <2>6. QED
    BY <2>3, <2>4, <2>5 DEF OnceDone
<1>5. CASE a \in Node /\ FreesPort(a)
  <2> DEFINE k == proc[a].key
             h == proc[a].host
  <2>1. /\ k \in Key /\ h \in Port /\ h # 0 /\ free_ports' = free_ports \union {h} /\ due' = due
        /\ \A l \in Key : allocated_ports'[l] = IF l = k THEN 0 ELSE allocated_ports[l]
        /\ allocated_ports[k] = h /\ proc[a].op # "none" /\ free_ports \subseteq Port
    BY <1>5, Roles DEF FreesPort, Common, Shapes, Releasing, Dropping
  <2>2. due' = {}
    BY <1>5, <2>1 DEF Common, Recovering
  <2>3. \A l \in Key : l # k => allocated_ports[l] # h
    BY <1>1, <2>1 DEF OnceDone
  <2>4. \A l, m \in Key : allocated_ports'[l] # 0 /\ allocated_ports'[l] = allocated_ports'[m] => l = m
    BY <1>1, <2>1 DEF OnceDone
  <2>5. \A l \in Key : allocated_ports'[l] \notin free_ports'
    BY <1>1, <2>1, <2>3, Roles DEF OnceDone
  <2>6. QED
    BY <2>2, <2>4, <2>5 DEF OnceDone
<1>6. CASE UNCHANGED <<free_ports, allocated_ports>>
  BY <1>1, <1>2, <1>6 DEF OnceDone
<1>7. QED
  BY <1>4, <1>5, <1>6, OnceQuiet

LEMMA OnceAside ==
  ASSUME OnceInv, UNCHANGED <<table_vars, rows, due, mishap>>
  PROVE  OnceInv'
BY DEF OnceInv, Unless, OnceDone, table_vars

\* When nobody is on the way, each row has its mapping, or waits for the recovery.
LEMMA OnceRestart == ASSUME Common, RowInv, OnceInv, Restarts PROVE OnceInv'
<1> SUFFICES ASSUME "kept" \notin mishap', "midway" \notin mishap', "overlap" \notin mishap'
             PROVE  OnceDone'
  BY DEF OnceInv, Unless
<1>1. /\ OnceDone /\ RowsDone /\ \A b \in Actor : proc[b] = Idle
      /\ rows' = rows /\ free_ports' = Port /\ \A k \in Key : allocated_ports'[k] = 0
  BY DEF OnceInv, RowInv, Unless, Restarts
<1>2. ASSUME NEW r \in rows, NEW s \in rows, r.host = s.host
      PROVE  r.key = s.key
  <2>1. CASE due # {}
    BY <1>1, <1>2, <2>1 DEF OnceDone
  <2>2. CASE due = {}
    <3>1. \A u \in rows : u.key \in Key /\ u.key[1] \in Actor /\ u.host # 0
      BY Roles DEF Common, Shapes
    <3>2. \A u \in rows : Mapped(u.key, u.host)
      BY <1>1, <2>2, <3>1, IdleIs DEF RowsDone, RowStates, RowState, Dropping
    <3>3. QED
      BY <1>1, <1>2, <3>1, <3>2 DEF OnceDone, Mapped
  <2>3. QED
    BY <2>1, <2>2
<1>3. QED
  BY <1>1, <1>2, Roles DEF OnceDone

-----------------------------------------------------------------------------
(* The inductive invariant.                                                *)

IInv == Common /\ RuleInv /\ RowInv /\ KeptInv /\ OnceInv

LEMMA Initially == Init => IInv
<1> SUFFICES ASSUME Init PROVE IInv
  OBVIOUS
<1>1. /\ free_ports = Port /\ known = {} /\ rows = {} /\ due = {}
      /\ \A k \in Key : allocated_ports[k] = 0
      /\ \A x \in Protocol, h \in Port, k \in Key : rules[<<x, h, k>>] = 0
  BY RuleIs DEF Init
<1>2. \A a \in Actor : proc[a] = Idle /\ proc[a].op = "none" /\ proc[a].at = "" /\ Coherent(a, proc[a])
  BY IdleIs DEF Init
<1>3. Shapes
  BY <1>1, <1>2, IdleIs DEF Init, Shapes
<1>4. Recovering /\ Releasing /\ Alone
  BY <1>1, <1>2, Roles DEF Recovering, Releasing, Alone, Unless, Adding, Dropping
<1>5. RuleInv
  <2>1. \A x \in Protocol, h \in Port, k \in Key : rules[<<x, h, k>>] <= 1 /\ ~ (rules[<<x, h, k>>] > 0)
    <3>1. 0 <= 1 /\ ~ (0 > 0)
      OBVIOUS
    <3>2. QED
      BY <1>1, <3>1, Zenon
  <2>2. \A a \in Actor : proc[a].at \notin Adding /\ proc[a].at \notin {"tcp", "udp", "unudp", "free"}
    BY <1>2 DEF Adding
  <2>3. RuleCount
    BY <2>1, <2>2, Roles DEF RuleCount
  <2>4. QED
    BY <2>3 DEF RuleInv, Unless
<1>6. RowInv
  BY <1>1, <1>2, Roles DEF RowInv, Unless, RowsDone, RowStates, Stopped, Stopping, NewKeys, Acquired, Left, Adding
<1>7. KeptInv
  BY <1>1, <1>2, Roles DEF KeptInv, Unless, KeptDone, Taken, Gone, Kept, HasRules
<1>8. OnceInv
  BY <1>1, Roles DEF OnceInv, Unless, OnceDone
<1>9. QED
  BY <1>3, <1>4, <1>5, <1>6, <1>7, <1>8 DEF IInv, Common

LEMMA Aside ==
  ASSUME IInv, UNCHANGED <<table_vars, rules, rows, proc, due, mishap>>,
         status' = status \/ (due = {} /\ \E n \in Node : status' = [status EXCEPT ![n] = "running"])
  PROVE  IInv'
<1>1. Common'
  BY CommonAside DEF IInv
<1>2. RuleInv'
  BY DEF IInv, RuleInv, Unless, RuleCount, table_vars
<1>3. RowInv'
  BY RowAside DEF IInv
<1>4. KeptInv' /\ OnceInv'
  BY KeptAside, OnceAside DEF IInv
<1>5. QED
  BY <1>1, <1>2, <1>3, <1>4 DEF IInv

LEMMA Inductive == IInv /\ [Next]_vars => IInv'
<1> SUFFICES ASSUME IInv, [Next]_vars PROVE IInv'
  OBVIOUS
<1>1. Shapes
  BY DEF IInv, Common
<1>2. ASSUME NEW a \in Actor, StepOf(a) PROVE IInv'
  <2>1. Common' /\ Forms(a) /\ Turns(a)
    BY <1>2, CommonStep DEF IInv
  <2>2. RuleInv' /\ RowInv' /\ KeptInv' /\ OnceInv'
    BY <2>1, RuleStep, RowStep, KeptInvStep, OnceStep DEF IInv
  <2>3. QED
    BY <2>1, <2>2 DEF IInv
<1>3. ASSUME NEW n \in Node, StartNode(n) PROVE IInv'
  BY <1>3, Aside DEF StartNode
<1>4. CASE Restart
  <2>1. Restarts
    BY <1>1, <1>4, RestartForm
  <2>2. RuleInv'
    BY <2>1 DEF Restarts, RuleInv, Unless
  <2>3. Common' /\ RowInv' /\ KeptInv' /\ OnceInv'
    BY <2>1, CommonRestart, RowRestart, KeptRestart, OnceRestart DEF IInv
  <2>4. QED
    BY <2>2, <2>3 DEF IInv
<1>5. CASE UNCHANGED vars
  BY <1>5, Aside DEF vars, table_vars
<1>6. QED
  BY <1>1, <1>2, <1>3, <1>4, <1>5, Steps

\* The inductive invariant holds in every reachable state: tables, rules and rows
\* agree as far as nothing went wrong, and who is alone at a node.
THEOREM PortMapCorrect == Spec => []IInv
BY Initially, Inductive, PTL DEF Spec

\* No host port is given out twice, even when the recovery takes the ports of the
\* rows without a look at the free ones.
THEOREM PortsOnce == Spec => []PortOnce
<1>1. IInv => PortOnce
  BY DEF IInv, OnceInv, OnceDone, PortOnce, Unless
<1>2. QED
  BY <1>1, PortMapCorrect, PTL

\* No host port is lost: one that is taken is some row's, or a request is at it.
THEOREM PortsKept == Spec => []PortKept
<1>1. ASSUME IInv PROVE PortKept
  <2> SUFFICES ASSUME {"iptables", "overlap"} \cap mishap = {}
               PROVE  /\ Port \ free_ports \subseteq {allocated_ports[k] : k \in Key}
                      /\ \A k \in Key : allocated_ports[k] # 0 =>
                           \/ [key |-> k, host |-> allocated_ports[k]] \in rows
                           \/ \E a \in Actor : proc[a].key = k
    BY DEF PortKept, Unless
  <2>1. Taken /\ \A k \in Key : Kept(k)
    BY <1>1 DEF IInv, KeptInv, KeptDone, Unless
  <2>2. QED
    BY <2>1 DEF Taken, Kept
<1>2. QED
  BY <1>1, PortMapCorrect, PTL

\* As long as the master is not restarted, every rule leads to the container its
\* host port is allocated to, whoever overlaps and whatever fails.
THEOREM RulesLead == Spec => []RuleLeadsToOwner
<1>1. ASSUME IInv PROVE RuleLeadsToOwner
  <2> SUFFICES ASSUME "restart" \notin mishap, NEW r \in Rule, rules[r] > 0
               PROVE  allocated_ports[r[3]] = r[2]
    BY DEF RuleLeadsToOwner, Unless
  <2>1. PICK x \in Protocol, h \in Port, k \in Key : r = <<x, h, k>>
    BY RuleIs
  <2>2. rules[<<x, h, k>>] > 0 => allocated_ports[k] = h
    BY <1>1 DEF IInv, RuleInv, RuleCount, Unless
  <2>3. QED
    BY <2>1, <2>2
<1>2. QED
  BY <1>1, PortMapCorrect, PTL

\* What the database promises works: a row of a running cluster has its port and both
\* of its rules, after any number of restarts and recoveries.
THEOREM RowsServed == Spec => []RowServed
<1>1. ASSUME IInv PROVE RowServed
  <2> SUFFICES ASSUME "kept" \notin mishap, NEW r \in rows, ~ Busy(r.key[1]), r.key[1] \notin due
               PROVE  Mapped(r.key, r.host)
    BY RuleIs DEF RowServed, Unless, Mapped
  <2> DEFINE n == r.key[1]
  <2>1. n \in Node /\ n \in Actor
    BY <1>1, Roles DEF IInv, Common, Shapes
  <2>2. proc[n].op = "none" /\ proc[n].at \notin Dropping
    BY <1>1, <2>1, Places DEF Busy, IInv, Common
  <2>3. RowState(r)
    BY <1>1 DEF IInv, RowInv, RowsDone, RowStates, Unless
  <2>4. QED
    BY <2>2, <2>3 DEF RowState
<1>2. QED
  BY <1>1, PortMapCorrect, PTL

=============================================================================
