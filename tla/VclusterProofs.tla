---------------------------- MODULE VclusterProofs ----------------------------
(***************************************************************************)
(* Proofs about Vcluster.tla, for any workers, sizes, quota and bounds:    *)
(* all its safety invariants.                                              *)
(*                                                                         *)
(* First the shape of every step. Hand says what the phase of a request    *)
(* means: the cluster, the rows, the addresses and the containers it has   *)
(* in hand are its own, and what it has still to do fits what it has done. *)
(* Made and Goes describe the request after a step, one lemma per action,  *)
(* so that the later proofs do not open an EXCEPT again.                   *)
(*                                                                         *)
(* Each invariant then has a strengthening that says, besides the property *)
(* of the clusters at rest, what holds of the one in hand in each phase:   *)
(* Returned and Once of addresses, Accounted of the pool, Balanced of the  *)
(* usage, Tidy and Whole of containers and rows, Rests and Runs of the     *)
(* status. The last two lean on Separate: as long as no overlap is told,   *)
(* the recovery thread and the request work on different clusters.         *)
(***************************************************************************)
EXTENDS Vcluster, FiniteSetTheorems, WellFoundedInduction, TLAPS

Growth == {"create", "scaleout"}
Removal == {"scalein", "delete", "release"}
Moves == {"move", "saved", "built", "moved"}

PhasesOf(op) ==
  CASE op = "none" -> {""}
    [] op = "create" -> {"charged", "failed", "build", "commit"}
    [] op = "scaleout" -> {"charged", "failed", "build", "new", "commit"}
    [] op = "scalein" -> {"drop", "remove"}
    [] op = "delete" -> {"check", "drop", "remove"}
    [] op = "release" -> {"check", "drop", "remove", "refund"}
    [] op = "start" -> {"gateway", "start"}
    [] op = "stop" -> {"stop"}
    [] op = "stopall" -> {"skip", "stop"}
    [] op = "migrate" -> {"stop", "gateway", "start"} \union Moves

Ops == {"none", "create", "scaleout", "scalein", "delete", "release", "start", "stop", "stopall", "migrate"}
Phases == {"", "charged", "failed", "build", "new", "commit", "drop", "remove", "check", "refund", "gateway",
           "start", "stop", "skip"} \union Moves

Requests == [op: Ops, id: 0..MaxId, at: Phases, todo: SUBSET Nat, rows: SUBSET Row,
             ips: SUBSET Address, workers: SUBSET Worker, pre: Status, more: SUBSET Id]
Tasks == {"rest", "pick", "gateway", "box", "good", "bad", "dead"}
Recoveries == [todo: SUBSET Id, id: 0..MaxId, rows: SUBSET Row,
               at: Tasks, boot: BOOLEAN]

Shapes ==
  /\ defaultsize \in Nat \ {0} /\ status \in [Id -> Status]
  /\ con \subseteq Row /\ IsFiniteSet(con)
  /\ nextid \in Nat \ {0} /\ nextcid \in [Id -> Nat]
  /\ box \in [Id \X Cid \X Worker -> {"none", "stopped", "running"}]
  /\ free \subseteq Address /\ usage \in Nat
  /\ listed \subseteq Worker /\ alive \subseteq Worker /\ queue \in Seq(Worker)
  /\ req \in Requests /\ rec \in Recoveries

\* What a request has in hand is its own.
Handled ==
  /\ req.at \in PhasesOf(req.op)
  /\ req.op = "none" => req = Idle
  /\ req.id \in Id \/ req.op = "none" \/ (req.op = "stopall" /\ req.at = "skip")
  /\ req.op \notin {"none", "create"} /\ req.id \in Id /\ req.at # "refund" => Exists(req.id)
  /\ IsFiniteSet(req.rows) /\ \A r \in req.rows : r.id = req.id
  /\ \A r, q \in req.rows : r.cid = q.cid => r = q
  /\ req.at \in {"drop", "gateway", "start", "stop"} \union Moves => req.todo \subseteq CidsOf(req.id)
  /\ req.at \in {"skip", "charged", "failed", "new", "commit", "remove"} => req.todo = {}
  /\ req.at # "build" => req.ips = {}
  /\ \A id \in req.more : Exists(id)
  /\ req.op # "stopall" => req.more = {}
  /\ req.op = "stopall" => req.rows = {}

\* The identities that are given out.
Numbered ==
  /\ \A r \in con : Exists(r.id) /\ r.cid < nextcid[r.id]
  /\ \A r, q \in con : r.id = q.id /\ r.cid = q.cid => r = q
  /\ \A id \in Id : id >= nextid => ~Exists(id)

Wanted == IF req.op = "create" THEN defaultsize ELSE 1
NewCids == IF req.op = "create" THEN 0..(defaultsize - 1) ELSE {nextcid[req.id]}

Grows ==
  req.op \in Growth =>
    /\ req.op = "create" => ~Exists(req.id) /\ (IF req.at = "charged" THEN req.id = nextid ELSE req.id < nextid)
    /\ req.at \in {"charged", "failed"} => req.rows = {}
    /\ req.at \notin {"charged", "failed"} =>
         /\ req.todo \subseteq NewCids
         /\ \A r \in req.rows : r.cid \in NewCids \ req.todo
         /\ Cardinality(req.rows) + Cardinality(req.todo) = Wanted
         /\ Cardinality(req.ips) = Cardinality(req.todo)
    /\ req.at = "new" => req.pre = "running"

Removes ==
  req.op \in Removal /\ req.at # "refund" =>
    /\ req.rows \subseteq con
    /\ req.op # "scalein" => RowsOf(req.id) \subseteq req.rows
    /\ req.todo \subseteq {r.cid : r \in req.rows}
    /\ req.op = "scalein" => \E r \in con : req.rows = {r}

\* The rows a migration began with, and what became of them.
Trace(q, r) == r.id = q.id /\ r.cid = q.cid /\ r.ip = q.ip
Moving ==
  req.op = "migrate" =>
    /\ \E w \in Worker : req.workers = {w}
    /\ \A q \in req.rows : q.host \notin req.workers /\ \E r \in con : Trace(q, r)
    /\ req.at = "stop" => req.rows \subseteq con
    /\ req.at \in Moves => req.todo \subseteq {q.cid : q \in req.rows}
    /\ req.at \in {"saved", "built", "moved"} => req.todo # {}
    /\ req.at \in {"move", "saved", "built"} => \A q \in req.rows : q.cid \in req.todo => q \in con
    /\ req.at = "moved" =>
         \A q \in req.rows : q.cid \in req.todo =>
           IF q.cid = Min(req.todo) THEN \E r \in con : Trace(q, r) /\ r.host \in req.workers
                                    ELSE q \in con

Hand == Shapes /\ Handled /\ Numbered /\ Grows /\ Removes /\ Moving

\* Containers.
Place(r) == <<r.id, r.cid, r.host>>
Target == <<req.id, Min(req.todo), CHOOSE w \in req.workers : TRUE>>

\* The recovery.
Restores ==
  /\ \A r \in rec.rows : r.id = rec.id
  /\ rec.at \in {"gateway", "box", "good", "bad"} => rec.id \in Id
  /\ rec.at \in {"rest", "pick", "dead"} => rec.id = 0 /\ rec.rows = {}
  /\ rec.at = "dead" => rec.todo = {}
  /\ rec.at = "rest" => rec = Resting

-----------------------------------------------------------------------------
(* The operators.                                                          *)

LEMMA Least ==
  ASSUME NEW S \in SUBSET Nat, S # {}
  PROVE  Min(S) \in S /\ \A x \in S : Min(S) =< x
<1> DEFINE Below == {p \in Nat \X Nat : p[1] < p[2]}
<1>1. IsWellFoundedOn(Below, Nat)
  <2>1. OpToRel(<, Nat) = Below
    BY DEF OpToRel
  <2> QED
    BY <2>1, NatLessThanWellFounded
<1> HIDE DEF Below
<1>2. PICK x \in S : \A y \in S : ~(<<y, x>> \in Below)
  BY <1>1, WFMin
<1>3. \A y \in S : x =< y
  <2> SUFFICES ASSUME NEW y \in S, y < x
               PROVE  FALSE
    BY SMT
  <2>1. <<y, x>> \in Nat \X Nat /\ <<y, x>>[1] < <<y, x>>[2]
    OBVIOUS
  <2>2. <<y, x>> \in Below
    BY <2>1, Zenon DEF Below
  <2> QED
    BY <1>2, <2>2
<1> QED
  BY <1>3 DEF Min

\* A container a cluster has, and the next one of a request.
LEMMA RowIs ==
  ASSUME NEW id \in Id, NEW k \in CidsOf(id)
  PROVE  RowOf(id, k) \in con /\ RowOf(id, k).id = id /\ RowOf(id, k).cid = k
<1>1. \E r \in con : r.id = id /\ r.cid = k
  BY DEF CidsOf, RowsOf
<1> QED BY <1>1 DEF RowOf

LEMMA NextIs == ASSUME Shapes, NEW k, Next1(k) PROVE k \in req.todo /\ k = Min(req.todo)
<1>1. req.todo \in SUBSET Nat
  BY DEF Shapes, Requests
<1> QED BY <1>1, Least DEF Next1

LEMMA Finite == ASSUME Shapes, NEW id PROVE IsFiniteSet(RowsOf(id)) /\ Cardinality(RowsOf(id)) \in Nat
<1>1. RowsOf(id) \in SUBSET con
  BY DEF RowsOf
<1> QED BY <1>1, FS_Subset, FS_CardinalityType DEF Shapes

LEMMA LessType == ASSUME NEW n \in Nat, NEW m \in Nat PROVE Less(n, m) \in Nat
BY DEF Less

-----------------------------------------------------------------------------
(* Types.                                                                  *)

LEMMA IdleType == Idle \in Requests
BY VclusterAssumption DEF Idle, Requests, Ops, Phases, Status

\* The request a step leaves, field by field.
Made(op, id, at, todo, rows, ips, workers, pre, more) ==
  /\ req'.op = op /\ req'.id = id /\ req'.at = at /\ req'.todo = todo /\ req'.rows = rows
  /\ req'.ips = ips /\ req'.workers = workers /\ req'.pre = pre /\ req'.more = more
  /\ req' \in Requests

LEMMA Words ==
  /\ "create" \in Ops /\ "scaleout" \in Ops /\ "scalein" \in Ops /\ "delete" \in Ops /\ "release" \in Ops
  /\ "start" \in Ops /\ "stop" \in Ops /\ "stopall" \in Ops /\ "migrate" \in Ops
  /\ "charged" \in Phases /\ "failed" \in Phases /\ "gateway" \in Phases /\ "build" \in Phases /\ "new" \in Phases /\ "commit" \in Phases
  /\ "check" \in Phases /\ "drop" \in Phases /\ "remove" \in Phases /\ "refund" \in Phases
  /\ "start" \in Phases /\ "stop" \in Phases /\ "skip" \in Phases
  /\ "move" \in Phases /\ "saved" \in Phases /\ "built" \in Phases /\ "moved" \in Phases
BY DEF Ops, Phases, Moves

LEMMA Values ==
  ASSUME Shapes
  PROVE  /\ req \in Requests /\ req.op \in Ops /\ req.id \in 0..MaxId /\ req.at \in Phases
         /\ req.todo \in SUBSET Nat /\ req.rows \in SUBSET Row /\ req.ips \in SUBSET Address
         /\ req.workers \in SUBSET Worker /\ req.pre \in Status /\ req.more \in SUBSET Id
         /\ Id \subseteq 0..MaxId /\ {} \in SUBSET Nat
         /\ \A id : CidsOf(id) \in SUBSET Nat /\ RowsOf(id) \in SUBSET Row /\ RowsOf(id) \subseteq con
<1>1. Id \subseteq 0..MaxId
  BY VclusterAssumption DEF Id
<1>2. \A id : CidsOf(id) \in SUBSET Nat /\ RowsOf(id) \in SUBSET Row /\ RowsOf(id) \subseteq con
  BY DEF Shapes, CidsOf, RowsOf, Row, Cid
<1> QED BY <1>1, <1>2 DEF Shapes, Requests

LEMMA CreateEnterIs ==
  ASSUME Shapes, CreateEnter
  PROVE  Made("create", nextid, "charged", {}, {}, {}, {}, "none", {})
<1>1. req' = [Idle EXCEPT !.op = "create", !.id = nextid, !.at = "charged"] /\ nextid \in 0..MaxId
  BY VclusterAssumption DEF Shapes, CreateEnter, Enter
<1>2. req' \in Requests
  BY <1>1, IdleType, Words, Zenon DEF Requests
<1> QED BY <1>1, <1>2, SMT DEF Made, Idle

LEMMA ScaleOutEnterIs ==
  ASSUME Shapes, NEW id \in Id, ScaleOutEnter(id)
  PROVE  Made("scaleout", id, "charged", {}, {}, {}, {}, "none", {})
<1>1. req' = [Idle EXCEPT !.op = "scaleout", !.id = id, !.at = "charged"] /\ id \in 0..MaxId
  BY Values DEF ScaleOutEnter, Enter
<1>2. req' \in Requests
  BY <1>1, IdleType, Words, Zenon DEF Requests
<1> QED BY <1>1, <1>2, SMT DEF Made, Idle

LEMMA ScaleInEnterIs ==
  ASSUME Shapes, NEW id \in Id, NEW k \in Cid, ScaleInEnter(id, k)
  PROVE  Made("scalein", id, "drop", {k}, {RowOf(id, k)}, {}, {}, "none", {})
<1>1. req' = [Idle EXCEPT !.op = "scalein", !.id = id, !.at = "drop", !.todo = {k}, !.rows = {RowOf(id, k)}]
  BY DEF ScaleInEnter, Enter
<1>2. {k} \in SUBSET Nat /\ {RowOf(id, k)} \in SUBSET Row /\ id \in 0..MaxId
  BY Values, RowIs DEF ScaleInEnter, Shapes, Cid
<1>3. req' \in Requests
  BY <1>1, <1>2, IdleType, Words, Zenon DEF Requests
<1> QED BY <1>1, <1>3, SMT DEF Made, Idle

LEMMA DeleteEnterIs ==
  ASSUME Shapes, NEW id \in Id, DeleteEnter(id)
  PROVE  Made("delete", id, "check", CidsOf(id), RowsOf(id), {}, {}, "none", {})
<1>1. req' = [Idle EXCEPT !.op = "delete", !.id = id, !.at = "check", !.todo = CidsOf(id), !.rows = RowsOf(id)]
  BY DEF DeleteEnter, Enter
<1>2. CidsOf(id) \in SUBSET Nat /\ RowsOf(id) \in SUBSET Row /\ id \in 0..MaxId
  BY Values
<1>3. req' \in Requests
  BY <1>1, <1>2, IdleType, Words, Zenon DEF Requests
<1> QED BY <1>1, <1>3, SMT DEF Made, Idle

LEMMA ReleaseEnterIs ==
  ASSUME Shapes, NEW id \in Id, ReleaseEnter(id)
  PROVE  Made("release", id, "check", CidsOf(id), RowsOf(id), {}, {}, "none", {})
<1>1. req' = [Idle EXCEPT !.op = "release", !.id = id, !.at = "check", !.todo = CidsOf(id), !.rows = RowsOf(id)]
  BY DEF ReleaseEnter, Enter
<1>2. CidsOf(id) \in SUBSET Nat /\ RowsOf(id) \in SUBSET Row /\ id \in 0..MaxId
  BY Values
<1>3. req' \in Requests
  BY <1>1, <1>2, IdleType, Words, Zenon DEF Requests
<1> QED BY <1>1, <1>3, SMT DEF Made, Idle

LEMMA StartEnterIs ==
  ASSUME Shapes, NEW id \in Id, StartEnter(id)
  PROVE  Made("start", id, "gateway", CidsOf(id), {}, {}, {}, "none", {})
<1>1. req' = [Idle EXCEPT !.op = "start", !.id = id, !.at = "gateway", !.todo = CidsOf(id)]
  BY DEF StartEnter, Enter
<1>2. CidsOf(id) \in SUBSET Nat /\ id \in 0..MaxId
  BY Values
<1>3. req' \in Requests
  BY <1>1, <1>2, IdleType, Words, Zenon DEF Requests
<1> QED BY <1>1, <1>3, SMT DEF Made, Idle

LEMMA StopEnterIs ==
  ASSUME Shapes, NEW id \in Id, StopEnter(id)
  PROVE  Made("stop", id, "stop", CidsOf(id), {}, {}, {}, "none", {})
<1>1. req' = [Idle EXCEPT !.op = "stop", !.id = id, !.at = "stop", !.todo = CidsOf(id)]
  BY DEF StopEnter, Enter
<1>2. CidsOf(id) \in SUBSET Nat /\ id \in 0..MaxId
  BY Values
<1>3. req' \in Requests
  BY <1>1, <1>2, IdleType, Words, Zenon DEF Requests
<1> QED BY <1>1, <1>3, SMT DEF Made, Idle

LEMMA StopAllEnterIs ==
  ASSUME Shapes, StopAllEnter
  PROVE  Made("stopall", 0, "skip", {}, {}, {}, {}, "none", {id \in Id : Exists(id)})
<1>1. req' = [Idle EXCEPT !.op = "stopall", !.at = "skip", !.more = {id \in Id : Exists(id)}]
  BY DEF StopAllEnter, Enter
<1>2. req' \in Requests
  BY <1>1, IdleType, Words, Zenon DEF Requests
<1> QED BY <1>1, <1>2, SMT DEF Made, Idle

LEMMA MigrateEnterIs ==
  ASSUME Shapes, NEW id \in Id, NEW src \in Worker, NEW dst \in Worker, MigrateEnter(id, src, dst)
  PROVE  LET rows == {r \in RowsOf(id) : r.host = src} IN
         \/ /\ id \in Stoppable
            /\ Made("migrate", id, "stop", CidsOf(id), rows, {}, {dst}, status[id], {})
         \/ /\ id \notin Stoppable
            /\ Made("migrate", id, "move", {r.cid : r \in rows}, rows, {}, {dst}, status[id], {})
<1> DEFINE rows == {r \in RowsOf(id) : r.host = src}
           todo == IF id \in Stoppable THEN CidsOf(id) ELSE {r.cid : r \in rows}
           at == IF id \in Stoppable THEN "stop" ELSE "move"
<1>1. req' = [Idle EXCEPT !.op = "migrate", !.id = id, !.pre = status[id], !.rows = rows,
                !.workers = {dst}, !.at = at, !.todo = todo]
  BY DEF MigrateEnter, Enter
<1>2. rows \in SUBSET Row /\ {r.cid : r \in rows} \in SUBSET Nat
  BY Values DEF Row, Cid
<1>3. todo \in SUBSET Nat /\ at \in Phases /\ status[id] \in Status /\ id \in 0..MaxId
  BY <1>2, Values, Words DEF Shapes
<1> HIDE DEF rows, todo, at
<1>4. req' \in Requests
  BY <1>1, <1>2, <1>3, IdleType, Words, Zenon DEF Requests
<1>5. Made("migrate", id, at, todo, rows, {}, {dst}, status[id], {})
  BY <1>1, <1>4, SMT DEF Made, Idle
<1> QED BY <1>5 DEF rows, todo, at

\* Most steps only advance: they change the phase, or what is left to do.
Goes(at, todo) == Made(req.op, req.id, at, todo, req.rows, req.ips, req.workers, req.pre, req.more)

LEMMA GoesTo ==
  ASSUME Shapes, NEW a \in Phases, req' = [req EXCEPT !.at = a]
  PROVE  Goes(a, req.todo)
<1>1. req \in Requests /\ req' \in Requests
  BY Values, Zenon DEF Requests
<1> QED BY <1>1, SMT DEF Goes, Made, Requests

LEMMA GoesOn ==
  ASSUME Shapes, NEW k, req' = [req EXCEPT !.todo = @ \ {k}]
  PROVE  Goes(req.at, req.todo \ {k})
<1> DEFINE t == req.todo \ {k}
<1>1. req' = [req EXCEPT !.todo = t] /\ t \in SUBSET Nat
  BY Values
<1> HIDE DEF t
<1>2. req \in Requests /\ req' \in Requests
  BY <1>1, Values, Zenon DEF Requests
<1>3. Goes(req.at, t)
  BY <1>1, <1>2, SMT DEF Goes, Made, Requests
<1> QED BY <1>3 DEF t

LEMMA GoesBoth ==
  ASSUME Shapes, NEW a \in Phases, NEW t \in SUBSET Nat, req' = [req EXCEPT !.at = a, !.todo = t]
  PROVE  Goes(a, t)
<1>1. req \in Requests /\ req' \in Requests
  BY Values, Zenon DEF Requests
<1> QED BY <1>1, SMT DEF Goes, Made, Requests

\* What a growing request still has to build, and with which addresses.
LEMMA Counted ==
  ASSUME Hand, req.op \in Growth, req.at \notin {"charged", "failed"}
  PROVE  /\ IsFiniteSet(req.todo) /\ IsFiniteSet(req.rows) /\ IsFiniteSet(req.ips)
         /\ Cardinality(req.todo) \in Nat /\ Cardinality(req.rows) \in Nat
         /\ Cardinality(req.ips) = Cardinality(req.todo)
         /\ Cardinality(req.rows) + Cardinality(req.todo) = Wanted
<1>1. IsFiniteSet(NewCids)
  <2>1. defaultsize - 1 \in Int
    BY DEF Hand, Shapes
  <2>2. IsFiniteSet(0..(defaultsize - 1))
    BY <2>1, FS_Interval
  <2>3. IsFiniteSet({nextcid[req.id]})
    BY FS_Singleton, Zenon
  <2> QED BY <2>2, <2>3 DEF NewCids
<1>2. req.todo \in SUBSET NewCids /\ req.ips \in SUBSET Address
  BY Values DEF Hand, Grows
<1>3. IsFiniteSet(Address)
  BY FS_Interval, VclusterAssumption DEF Address
<1>4. IsFiniteSet(req.todo) /\ IsFiniteSet(req.rows) /\ IsFiniteSet(req.ips)
  BY <1>1, <1>2, <1>3, FS_Subset DEF Hand, Handled
<1> QED BY <1>4, FS_CardinalityType DEF Hand, Grows

\* What may come of a change to the pool: it is made, or the recovery thread is in
\* check_usergw and crosses it.
Enders == rec' = rec \/ (rec.at = "gateway" /\ rec' = Dead(rec) /\ "ended" \in mishap')
Crosses(q, causes) ==
  /\ rec.at = "gateway" /\ mishap \union causes \union Overlap(q, rec) \subseteq mishap'
  /\ "crossed" \in mishap' /\ Enders
  /\ (req' = q) \/ (req' = Idle /\ "raised" \in mishap')

LEMMA PoolIs ==
  ASSUME NEW new, NEW q, NEW causes, NEW may_raise \in SUBSET Either, Pool(new, q, causes, may_raise)
  PROVE  \/ /\ free' = new /\ req' = q /\ rec' = rec
            /\ mishap' = mishap \union causes \union Overlap(q, rec)
         \/ /\ Crosses(q, causes) /\ free' \in {free, new}
            /\ "request" \notin may_raise => req' = q
<1>1. PICK lost \in BOOLEAN : \E ends \in {"none"} \union may_raise :
        LET smooth == ~lost /\ ends = "none" IN
        /\ smooth \/ rec.at = "gateway"
        /\ free' = IF lost THEN free ELSE new
        /\ req' = IF ends = "request" THEN Idle ELSE q
        /\ rec' = IF ends = "recovery" THEN Dead(rec) ELSE rec
        /\ mishap' = mishap \union causes \union Overlap(q, rec)
                      \union (IF smooth THEN {} ELSE {"crossed"})
                      \union (IF ends = "request" THEN {"raised"} ELSE {})
                      \union (IF ends = "recovery" THEN {"ended"} ELSE {})
  BY DEF Pool
<1>2. PICK ends \in {"none"} \union may_raise :
        /\ (~lost /\ ends = "none") \/ rec.at = "gateway"
        /\ free' = IF lost THEN free ELSE new
        /\ req' = IF ends = "request" THEN Idle ELSE q
        /\ rec' = IF ends = "recovery" THEN Dead(rec) ELSE rec
        /\ mishap' = mishap \union causes \union Overlap(q, rec)
                      \union (IF ~lost /\ ends = "none" THEN {} ELSE {"crossed"})
                      \union (IF ends = "request" THEN {"raised"} ELSE {})
                      \union (IF ends = "recovery" THEN {"ended"} ELSE {})
  BY <1>1
<1>3. CASE ~lost /\ ends = "none"
  BY <1>2, <1>3
<1>4. CASE ~(~lost /\ ends = "none")
  <2>1. rec.at = "gateway" /\ free' \in {free, new} /\ "crossed" \in mishap'
        /\ mishap \union causes \union Overlap(q, rec) \subseteq mishap'
    BY <1>2, <1>4
  <2>2. Enders
    BY <1>2, <2>1 DEF Enders
  <2>3. (req' = q) \/ (req' = Idle /\ "raised" \in mishap')
    BY <1>2
  <2>4. "request" \notin may_raise => req' = q
    BY <1>2
  <2> QED BY <2>1, <2>2, <2>3, <2>4 DEF Crosses
<1> QED BY <1>3, <1>4

LEMMA ReserveIs ==
  ASSUME Hand, Reserve
  PROVE  /\ req.op \in Growth /\ req.id \in Id /\ req.at = "charged"
         /\ NewCids \in SUBSET Nat /\ Cardinality(NewCids) = Wanted
         /\ \E ips \in SUBSET free :
              /\ Cardinality(ips) = Wanted
              /\ \/ /\ free' = free \ ips /\ rec' = rec /\ mishap \subseteq mishap'
                    /\ mishap' = mishap \union Overlap(req, rec)
                    /\ Made(req.op, req.id, "build", NewCids, {}, ips, listed, status[req.id], req.more)
                 \/ /\ "crossed" \in mishap' /\ mishap \subseteq mishap' /\ Enders
                    /\ free' \subseteq Address /\ Overlap(req, rec) \subseteq mishap'
                    /\ \/ Made(req.op, req.id, "build", NewCids, {}, ips, listed, status[req.id], req.more)
                       \/ req' = Idle /\ "raised" \in mishap'
         /\ req' # Idle /\ req.op = "create" => nextid' = nextid + 1
<1>1. req.op \in Growth /\ req.id \in Id /\ req.at = "charged" /\ req.rows = {}
  <2>1. req.at = "charged" /\ req.op \in Ops
    BY Values DEF Reserve, Hand
  <2>2. req.op \in Growth
    BY <2>1 DEF Hand, Handled, PhasesOf, Ops, Growth, Moves
  <2> QED BY <2>1, <2>2 DEF Hand, Handled, Grows, Growth
<1>2. NewCids \in SUBSET Nat /\ Cardinality(NewCids) = Wanted
  <2>1. defaultsize \in Nat \ {0} /\ nextcid[req.id] \in Nat
    BY <1>1 DEF Hand, Shapes
  <2>2. Cardinality(0..(defaultsize - 1)) = defaultsize
    BY <2>1, FS_Interval
  <2>3. Cardinality({nextcid[req.id]}) = 1
    BY FS_Singleton, Zenon
  <2> QED BY <2>1, <2>2, <2>3 DEF NewCids, Wanted
<1> DEFINE q(ips) == [req EXCEPT !.at = "build", !.ips = ips, !.workers = listed,
                        !.pre = status[req.id], !.todo = NewCids]
<1>3. PICK ips \in SUBSET free : Cardinality(ips) = Wanted /\ Pool(free \ ips, q(ips), {}, Either)
  BY <1>1 DEF Reserve, Taken, Wanted, NewCids, Growth
<1>4. ips \in SUBSET Address /\ listed \in SUBSET Worker /\ status[req.id] \in Status
      /\ free \subseteq Address
  BY <1>1 DEF Hand, Shapes
<1>5. req \in Requests /\ q(ips) \in Requests
  BY <1>2, <1>4, Values, Words, Zenon DEF Requests, Hand
<1>6. req' = q(ips) => Made(req.op, req.id, "build", NewCids, {}, ips, listed, status[req.id], req.more)
  BY <1>1, <1>5, SMT DEF Made, Requests
<1>7. q(ips).id = req.id
  BY <1>5, SMT DEF Requests
<1>8. Overlap(q(ips), rec) = Overlap(req, rec)
  BY <1>7 DEF Overlap
<1> HIDE DEF q
<1>9. \/ free' = free \ ips /\ req' = q(ips) /\ rec' = rec /\ mishap' = mishap \union Overlap(q(ips), rec)
      \/ Crosses(q(ips), {}) /\ free' \in {free, free \ ips}
  BY <1>3, PoolIs
<1>10. \/ /\ free' = free \ ips /\ rec' = rec /\ mishap' = mishap \union Overlap(req, rec)
          /\ Made(req.op, req.id, "build", NewCids, {}, ips, listed, status[req.id], req.more)
       \/ /\ "crossed" \in mishap' /\ mishap \subseteq mishap' /\ Enders
          /\ free' \subseteq Address /\ Overlap(req, rec) \subseteq mishap'
          /\ \/ Made(req.op, req.id, "build", NewCids, {}, ips, listed, status[req.id], req.more)
             \/ req' = Idle /\ "raised" \in mishap'
  BY <1>4, <1>6, <1>8, <1>9 DEF Crosses
<1>11. req' # Idle /\ req.op = "create" => nextid' = nextid + 1
  BY DEF Reserve
<1> QED BY <1>1, <1>2, <1>3, <1>10, <1>11

\* A request that could not build everything has yet to give its charge back.
Failed == Made(req.op, req.id, "failed", {}, {}, {}, {}, "none", {})

LEMMA BuildIs ==
  ASSUME Hand, NEW k \in Cid, NEW w \in Worker, Build(k, w)
  PROVE  LET ip == Min(req.ips)
             row == [id |-> req.id, cid |-> k, host |-> w, ip |-> ip]
             last == req.todo = {k}
             made == [box EXCEPT ![<<req.id, k, w>>] = "stopped"]
         IN /\ req.op \in Growth /\ req.id \in Id /\ req.at = "build" /\ k \in req.todo
            /\ ip \in req.ips /\ row \in Row
            /\ UNCHANGED <<db_vars, usage, node_vars>>
            /\ \/ /\ box' = made
                  /\ Made(req.op, req.id, IF ~last THEN "build"
                                          ELSE IF req.op = "scaleout" /\ req.pre = "running"
                                            THEN "new" ELSE "commit",
                          req.todo \ {k}, req.rows \union {row}, req.ips \ {ip}, req.workers, req.pre, req.more)
                  /\ mishap \subseteq mishap' /\ UNCHANGED <<free, rec>>
               \/ /\ box' = box \/ (box' = made /\ "unclean" \in mishap')
                  /\ mishap \subseteq mishap' /\ Overlap(req, rec) \subseteq mishap'
                  /\ (req.rows = {} /\ last) \/ "cut_create" \in mishap'
                  /\ free' \subseteq Address
                  /\ \/ Failed /\ rec' = rec /\ free' = free \union {ip}
                     \/ Failed /\ "crossed" \in mishap' /\ Enders
                     \/ req' = Idle /\ {"crossed", "raised"} \subseteq mishap' /\ Enders
               \/ req' = Idle /\ mishap' = mishap \union {"raised"} /\ UNCHANGED <<box, free, rec>>
<1> DEFINE ip == Min(req.ips)
           row == [id |-> req.id, cid |-> k, host |-> w, ip |-> ip]
           last == req.todo = {k}
           made == [box EXCEPT ![<<req.id, k, w>>] = "stopped"]
           at == IF ~last THEN "build"
                 ELSE IF req.op = "scaleout" /\ req.pre = "running" THEN "new" ELSE "commit"
<1>1. req.op \in Growth /\ req.id \in Id /\ req.at = "build" /\ k \in req.todo
  <2>1. req.at = "build" /\ req.op \in Ops /\ k \in req.todo
    BY Values, NextIs DEF Build, Hand
  <2>2. req.op \in Growth
    BY <2>1 DEF Hand, Handled, PhasesOf, Ops, Growth, Moves
  <2> QED BY <2>1, <2>2 DEF Hand, Handled, Growth
<1>2. ip \in req.ips
  <2>1. req.todo # {} /\ req.ips \in SUBSET Nat
    BY <1>1, Values DEF Hand, Address
  <2>2. req.ips # {}
    BY <1>1, <2>1, Counted, FS_EmptySet
  <2> QED BY <2>1, <2>2, Least
<1>3. row \in Row /\ ip \in Address /\ UNCHANGED <<db_vars, usage, node_vars>>
  BY <1>1, <1>2, Values DEF Row, Hand, Build
<1>4. CASE /\ box' = made
           /\ Advance([req EXCEPT !.todo = @ \ {k}, !.ips = @ \ {ip}, !.rows = @ \union {row}, !.at = at])
           /\ UNCHANGED <<free, rec, used>>
  <2> DEFINE todo == req.todo \ {k}
             ips == req.ips \ {ip}
             rows == req.rows \union {row}
  <2>1. req' = [req EXCEPT !.todo = todo, !.ips = ips, !.rows = rows, !.at = at]
    BY <1>4 DEF Advance
  <2>2. todo \in SUBSET Nat /\ ips \in SUBSET Address /\ rows \in SUBSET Row /\ at \in Phases
    BY <1>3, Values, Words DEF Hand
  <2> HIDE DEF ip, row, last, at, todo, ips, rows
  <2>3. req \in Requests /\ req' \in Requests
    BY <2>1, <2>2, Values, Zenon DEF Requests, Hand
  <2>4. Made(req.op, req.id, at, todo, rows, ips, req.workers, req.pre, req.more)
    BY <2>1, <2>3, SMT DEF Made, Requests
  <2>5. mishap \subseteq mishap'
    BY <1>4 DEF Advance
  <2> QED BY <1>1, <1>2, <1>3, <1>4, <2>4, <2>5 DEF ip, row, last, at, todo, ips, rows
<1>5. ASSUME NEW left \in BOOLEAN, box' = IF left THEN made ELSE box,
             Pool(free \union {ip}, [Idle EXCEPT !.op = req.op, !.id = req.id, !.at = "failed"],
                  (IF left THEN {"unclean"} ELSE {})
                    \union (IF req.rows = {} /\ last THEN {} ELSE {"cut_create"}), Either)
      PROVE /\ box' = box \/ (box' = made /\ "unclean" \in mishap')
            /\ mishap \subseteq mishap' /\ Overlap(req, rec) \subseteq mishap'
            /\ (req.rows = {} /\ last) \/ "cut_create" \in mishap'
            /\ free' \subseteq Address
            /\ \/ Failed /\ rec' = rec /\ free' = free \union {ip}
               \/ Failed /\ "crossed" \in mishap' /\ Enders
               \/ req' = Idle /\ {"crossed", "raised"} \subseteq mishap' /\ Enders
  <2> DEFINE q == [Idle EXCEPT !.op = req.op, !.id = req.id, !.at = "failed"]
             causes == (IF left THEN {"unclean"} ELSE {})
                         \union (IF req.rows = {} /\ last THEN {} ELSE {"cut_create"})
  <2>1. q \in Requests
    BY IdleType, Values, Words, Zenon DEF Requests, Hand
  <2>2. req' = q => Failed
    BY <2>1, SMT DEF Failed, Made, Idle
  <2>3. q.id = req.id
    BY <2>1, SMT DEF Idle
  <2>4. Overlap(q, rec) = Overlap(req, rec)
    BY <2>3 DEF Overlap
  <2> HIDE DEF q, ip, last, made
  <2>5. Pool(free \union {ip}, q, causes, Either)
    BY <1>5 DEF q
  <2> HIDE DEF causes
  <2>6. \/ free' = free \union {ip} /\ req' = q /\ rec' = rec /\ mishap' = mishap \union causes \union Overlap(q, rec)
        \/ Crosses(q, causes) /\ free' \in {free, free \union {ip}}
    BY <2>5, PoolIs
  <2>7. mishap \union causes \union Overlap(req, rec) \subseteq mishap'
    BY <2>4, <2>6 DEF Crosses
  <2>8. free' \subseteq Address
    BY <1>3, <2>6 DEF Hand, Shapes
  <2>9. \/ Failed /\ rec' = rec /\ free' = free \union {ip}
        \/ Failed /\ "crossed" \in mishap' /\ Enders
        \/ req' = Idle /\ {"crossed", "raised"} \subseteq mishap' /\ Enders
    BY <2>2, <2>6 DEF Crosses
  <2>10. (req.rows = {} /\ last) \/ "cut_create" \in mishap'
    BY <2>7 DEF causes
  <2>11. box' = box \/ (box' = made /\ "unclean" \in mishap')
    BY <1>5, <2>7 DEF causes
  <2> QED BY <2>7, <2>8, <2>9, <2>10, <2>11
<1>6. CASE Leave({"raised"}) /\ UNCHANGED <<box, free, rec, used>>
  BY <1>1, <1>2, <1>3, <1>6 DEF Leave
<1>7. \/ /\ box' = made
         /\ Advance([req EXCEPT !.todo = @ \ {k}, !.ips = @ \ {ip}, !.rows = @ \union {row}, !.at = at])
         /\ UNCHANGED <<free, rec, used>>
      \/ \E left \in BOOLEAN :
           /\ box' = IF left THEN made ELSE box
           /\ Pool(free \union {ip}, [Idle EXCEPT !.op = req.op, !.id = req.id, !.at = "failed"],
                   (IF left THEN {"unclean"} ELSE {})
                     \union (IF req.rows = {} /\ last THEN {} ELSE {"cut_create"}), Either)
      \/ Leave({"raised"}) /\ UNCHANGED <<box, free, rec, used>>
  BY DEF Build
<1> HIDE DEF ip, last, made, row, at
<1>8. CASE \E left \in BOOLEAN :
           /\ box' = IF left THEN made ELSE box
           /\ Pool(free \union {ip}, [Idle EXCEPT !.op = req.op, !.id = req.id, !.at = "failed"],
                   (IF left THEN {"unclean"} ELSE {})
                     \union (IF req.rows = {} /\ last THEN {} ELSE {"cut_create"}), Either)
  BY <1>1, <1>2, <1>3, <1>5, <1>8 DEF ip, last, made, row
<1> QED BY <1>4, <1>6, <1>7, <1>8 DEF ip, last, made, row, at

LEMMA StartNewIs ==
  ASSUME Hand, StartNew
  PROVE  \E r \in req.rows :
           /\ req.rows = {r} /\ req.op = "scaleout" /\ req.id \in Id /\ req.at = "new"
           /\ \/ /\ r.host \in alive /\ box' = [box EXCEPT ![Place(r)] = "running"]
                 /\ Goes("commit", req.todo) /\ mishap \subseteq mishap'
              \/ Goes("commit", req.todo) /\ mishap' = mishap \union {"ignored"} /\ UNCHANGED box
              \/ req' = Idle /\ mishap' = mishap \union {"raised"} /\ UNCHANGED box
<1>1. req.op = "scaleout" /\ req.id \in Id /\ req.at = "new"
  <2>1. req.at = "new" /\ req.op \in Ops
    BY Values DEF StartNew, Hand
  <2> QED BY <2>1 DEF Hand, Handled, PhasesOf, Ops, Growth, Moves
<1>2. PICK r : req.rows = {r}
  <2>1. Cardinality(req.rows) = 1 /\ IsFiniteSet(req.rows)
    <3>1. req.todo = {}
      BY <1>1 DEF Hand, Handled
    <3>2. Cardinality(req.todo) = 0
      BY <3>1, FS_EmptySet
    <3> QED BY <1>1, <3>2, Counted DEF Growth, Wanted
  <2> QED BY <2>1, FS_Singleton, Zenon
<1>3. (CHOOSE q \in req.rows : TRUE) = r
  BY <1>2
<1>4. CASE /\ r.host \in alive
           /\ box' = [box EXCEPT ![<<r.id, r.cid, r.host>>] = "running"]
           /\ Advance([req EXCEPT !.at = "commit"])
  <2>1. Goes("commit", req.todo)
    BY <1>4, Words, GoesTo DEF Advance, Hand
  <2> QED BY <1>1, <1>2, <1>4, <2>1 DEF Place, Advance
<1>5. CASE Leave({"raised"}) /\ UNCHANGED box
  BY <1>1, <1>2, <1>5 DEF Leave
<1>6. CASE UNCHANGED box /\ req' = [req EXCEPT !.at = "commit"] /\ mishap' = mishap \union {"ignored"}
  <2>1. Goes("commit", req.todo)
    BY <1>6, Words, GoesTo DEF Hand
  <2> QED BY <1>1, <1>2, <1>6, <2>1
<1> QED BY <1>3, <1>4, <1>5, <1>6 DEF StartNew

\* The loops over the containers a cluster has.
LEMMA InLoop ==
  ASSUME Hand, NEW k, Next1(k), req.at \in {"drop", "gateway", "start", "stop"} \union Moves
  PROVE  /\ req.id \in Id /\ k \in req.todo /\ k = Min(req.todo) /\ k \in CidsOf(req.id)
         /\ RowOf(req.id, k) \in RowsOf(req.id) /\ RowOf(req.id, k).cid = k
         /\ RowOf(req.id, k).id = req.id /\ RowOf(req.id, k) \in con
         /\ \A r \in RowsOf(req.id) : r.cid = k => r = RowOf(req.id, k)
<1>1. req.id \in Id
  BY DEF Hand, Handled, PhasesOf, Moves
<1>2. k \in req.todo /\ k = Min(req.todo) /\ k \in CidsOf(req.id)
  BY NextIs DEF Hand, Handled
<1> QED BY <1>1, <1>2, RowIs DEF Hand, Numbered, RowsOf

\* Place(r) names the volume a step works on.
LEMMA DropIs ==
  ASSUME Hand, NEW k \in Cid, Drop(k)
  PROVE  LET r == RowOf(req.id, k) IN
         /\ req.at = "drop" /\ req.op \in Removal /\ k \in req.todo /\ req.id \in Id
         /\ \/ /\ box' = [box EXCEPT ![Place(r)] = "none"]
               /\ Goes("drop", req.todo \ {k}) /\ mishap \subseteq mishap'
            \/ /\ Goes("drop", req.todo \ {k}) /\ mishap' = mishap \union {"ignored"} /\ UNCHANGED box
            \/ /\ req' = Idle /\ mishap \subseteq mishap'
               /\ \/ UNCHANGED box
                  \/ box' = [box EXCEPT ![Place(r)] = "none"] /\ "unanswered" \in mishap'
               /\ req.op # "release" => "refunded" \in mishap'
               /\ req.op # "scalein" /\ ~First(req.id) => "cut_delete" \in mishap'
<1> DEFINE r == RowOf(req.id, k)
           cut == (IF req.op = "release" THEN {} ELSE {"refunded"})
                  \union (IF req.op # "scalein" /\ ~First(req.id) THEN {"cut_delete"} ELSE {})
<1>1. req.at = "drop" /\ req.op \in Removal
  <2>1. req.at = "drop" /\ req.op \in Ops
    BY Values DEF Drop, Hand
  <2> QED BY <2>1 DEF Hand, Handled, PhasesOf, Ops, Removal, Moves
<1>2. k \in req.todo /\ r.cid = k /\ req.id \in Id
  BY <1>1, InLoop DEF Drop
<1>3. CASE box' = [box EXCEPT ![<<r.id, k, r.host>>] = "none"] /\ Advance([req EXCEPT !.todo = @ \ {k}])
  <2>1. Goes("drop", req.todo \ {k}) /\ mishap \subseteq mishap'
    BY <1>1, <1>3, GoesOn DEF Advance, Hand
  <2> QED BY <1>1, <1>2, <1>3, <2>1 DEF Place
<1>4. CASE UNCHANGED box /\ req' = [req EXCEPT !.todo = @ \ {k}] /\ mishap' = mishap \union {"ignored"}
  <2>1. Goes("drop", req.todo \ {k})
    BY <1>1, <1>4, GoesOn DEF Hand
  <2> QED BY <1>1, <1>2, <1>4, <2>1
<1>5. CASE Leave(cut) /\ UNCHANGED <<box, used>>
  BY <1>1, <1>2, <1>5 DEF Leave
<1>6. CASE box' = [box EXCEPT ![<<r.id, k, r.host>>] = "none"] /\ Leave(cut \union {"unanswered"})
  BY <1>1, <1>2, <1>6 DEF Leave, Place
<1> QED BY <1>3, <1>4, <1>5, <1>6 DEF Drop

LEMMA StartBoxIs ==
  ASSUME Hand, NEW k \in Cid, StartBox(k)
  PROVE  LET r == RowOf(req.id, k) IN
         /\ req.at = "start" /\ k \in req.todo /\ req.id \in Id
         /\ \/ /\ box' = [box EXCEPT ![Place(r)] = IF @ = "none" THEN "none" ELSE "running"]
               /\ Goes("start", req.todo \ {k}) /\ mishap \subseteq mishap'
            \/ Goes("start", req.todo \ {k}) /\ mishap' = mishap \union {"ignored"} /\ UNCHANGED box
            \/ /\ req' = Idle /\ UNCHANGED box
               /\ mishap' = mishap \union IF First(req.id) THEN {} ELSE {"cut_start"}
<1> DEFINE r == RowOf(req.id, k)
<1>1. req.at = "start"
  BY DEF StartBox
<1>2. k \in req.todo /\ r.cid = k /\ req.id \in Id
  BY <1>1, InLoop DEF StartBox
<1>3. CASE /\ box' = [box EXCEPT ![<<r.id, k, r.host>>] = IF @ = "none" THEN "none" ELSE "running"]
           /\ Advance([req EXCEPT !.todo = @ \ {k}])
  <2>1. Goes("start", req.todo \ {k}) /\ mishap \subseteq mishap'
    BY <1>1, <1>3, GoesOn DEF Advance, Hand
  <2> QED BY <1>1, <1>2, <1>3, <2>1 DEF Place
<1>4. CASE UNCHANGED box /\ req' = [req EXCEPT !.todo = @ \ {k}] /\ mishap' = mishap \union {"ignored"}
  <2>1. Goes("start", req.todo \ {k})
    BY <1>1, <1>4, GoesOn DEF Hand
  <2> QED BY <1>1, <1>2, <1>4, <2>1
<1>5. CASE Leave(IF First(req.id) THEN {} ELSE {"cut_start"}) /\ UNCHANGED <<box, used>>
  BY <1>1, <1>2, <1>5 DEF Leave
<1> QED BY <1>3, <1>4, <1>5 DEF StartBox

\* What follows the stop of a cluster.
StopEnds(causes) ==
  \/ /\ req.op = "stopall" /\ mishap \union causes \subseteq mishap'
     /\ \E id \in req.more :
          \/ /\ id \in Stoppable
             /\ Made("stopall", id, "stop", CidsOf(id), req.rows, req.ips, req.workers, req.pre, req.more \ {id})
          \/ /\ id \notin Stoppable
             /\ Made("stopall", id, "skip", {}, req.rows, req.ips, req.workers, req.pre, req.more \ {id})
  \/ /\ req.op = "migrate" /\ Goes("move", {r.cid : r \in req.rows}) /\ mishap \union causes \subseteq mishap'
  \/ /\ req' = Idle /\ mishap' = mishap \union causes
     /\ req.op # "migrate"

LEMMA AfterStopIs == ASSUME Shapes, NEW causes, AfterStop(causes) PROVE StopEnds(causes)
<1>1. CASE req.op = "stopall" /\ req.more # {}
  <2> DEFINE id == Min(req.more)
             more == req.more \ {id}
             todo == IF id \in Stoppable THEN CidsOf(id) ELSE {}
             at == IF id \in Stoppable THEN "stop" ELSE "skip"
  <2>1. id \in req.more
    <3>1. req.more \in SUBSET Nat
      BY Values DEF Id
    <3> QED BY <1>1, <3>1, Least
  <2>2. req' = [req EXCEPT !.id = id, !.more = more, !.todo = todo, !.at = at]
    BY <1>1 DEF AfterStop
  <2>3. id \in 0..MaxId /\ more \in SUBSET Id /\ todo \in SUBSET Nat /\ at \in Phases
    BY <2>1, Values, Words
  <2>4. mishap \union causes \subseteq mishap'
    BY <1>1 DEF AfterStop
  <2> HIDE DEF id, more, todo, at
  <2>5. req \in Requests /\ req' \in Requests
    BY <2>2, <2>3, Values, Zenon DEF Requests
  <2>6. Made("stopall", id, at, todo, req.rows, req.ips, req.workers, req.pre, more)
    BY <1>1, <2>2, <2>5, SMT DEF Made, Requests
  <2> QED BY <1>1, <2>1, <2>4, <2>6 DEF StopEnds, todo, at, more
<1>2. CASE req.op = "migrate"
  <2> DEFINE t == {r.cid : r \in req.rows}
  <2>1. req' = [req EXCEPT !.at = "move", !.todo = t] /\ mishap' = mishap \union causes
    BY <1>2 DEF AfterStop
  <2>2. t \in SUBSET Nat
    BY Values DEF Row, Cid
  <2> HIDE DEF t
  <2>3. Goes("move", t)
    BY <2>1, <2>2, Words, GoesBoth
  <2> QED BY <1>2, <2>1, <2>3 DEF StopEnds, t
<1>3. CASE ~(req.op = "stopall" /\ req.more # {}) /\ req.op # "migrate"
  BY <1>3 DEF AfterStop, Leave, StopEnds
<1> QED BY <1>1, <1>2, <1>3

LEMMA StopBoxIs ==
  ASSUME Hand, NEW k \in Cid, StopBox(k)
  PROVE  LET r == RowOf(req.id, k)
             cut == IF First(req.id) THEN {} ELSE {"cut_stop"} IN
         /\ req.at = "stop" /\ k \in req.todo /\ req.id \in Id
         /\ \/ /\ box' = [box EXCEPT ![Place(r)] = IF @ = "none" THEN "none" ELSE "stopped"]
               /\ Goes("stop", req.todo \ {k}) /\ mishap \subseteq mishap'
            \/ Goes("stop", req.todo \ {k}) /\ mishap' = mishap \union {"unstopped"} /\ UNCHANGED box
            \/ StopEnds(cut) /\ UNCHANGED box
            \/ req' = Idle /\ mishap' = mishap \union cut /\ UNCHANGED box
<1> DEFINE r == RowOf(req.id, k)
           cut == IF First(req.id) THEN {} ELSE {"cut_stop"}
<1>1. req.at = "stop"
  BY DEF StopBox
<1>2. k \in req.todo /\ r.cid = k /\ req.id \in Id
  BY <1>1, InLoop DEF StopBox
<1>3. CASE /\ box' = [box EXCEPT ![<<r.id, k, r.host>>] = IF @ = "none" THEN "none" ELSE "stopped"]
           /\ Advance([req EXCEPT !.todo = @ \ {k}])
  <2>1. Goes("stop", req.todo \ {k}) /\ mishap \subseteq mishap'
    BY <1>1, <1>3, GoesOn DEF Advance, Hand
  <2> QED BY <1>1, <1>2, <1>3, <2>1 DEF Place
<1>4. CASE AfterStop(cut) /\ UNCHANGED box
  BY <1>1, <1>2, <1>4, AfterStopIs DEF Hand
<1>5. CASE Leave(cut) /\ UNCHANGED box
  BY <1>1, <1>2, <1>5 DEF Leave
<1>6. CASE UNCHANGED box /\ req' = [req EXCEPT !.todo = @ \ {k}] /\ mishap' = mishap \union {"unstopped"}
  <2>1. Goes("stop", req.todo \ {k})
    BY <1>1, <1>6, GoesOn DEF Hand
  <2> QED BY <1>1, <1>2, <1>6, <2>1
<1> QED BY <1>3, <1>4, <1>5, <1>6 DEF StopBox

\* A migration ends, or starts the cluster again.
MoveEnds ==
  /\ mishap \subseteq mishap'
  /\ \/ req' = Idle
     \/ Startable(req.id) /\ Goes("gateway", CidsOf(req.id)) /\ Overlap(req, rec) \subseteq mishap'

LEMMA AfterMoveIs == ASSUME Shapes, NEW causes, AfterMove(causes) PROVE MoveEnds /\ causes \subseteq mishap'
<1> DEFINE q == [req EXCEPT !.at = "gateway", !.todo = CidsOf(req.id)]
<1>1. CASE req' = q /\ Startable(req.id) /\ mishap' = mishap \union causes \union Overlap(q, rec)
  <2>1. Goes("gateway", CidsOf(req.id))
    BY <1>1, Words, Values, GoesBoth
  <2>2. Overlap(q, rec) = Overlap(req, rec)
    <3>1. q.id = req.id
      BY <1>1, <2>1 DEF Goes, Made
    <3> QED BY <3>1 DEF Overlap
  <2> QED BY <1>1, <2>1, <2>2 DEF MoveEnds
<1>2. CASE req' = Idle /\ mishap' = mishap \union causes \union Overlap(Idle, rec)
  BY <1>2 DEF MoveEnds
<1> QED BY <1>1, <1>2 DEF AfterMove

LEMMA Migrates == ASSUME Hand, req.at \in Moves PROVE req.op = "migrate" /\ req.id \in Id
<1>1. req.op \in Ops
  BY Values DEF Hand
<1> QED BY <1>1 DEF Hand, Handled, PhasesOf, Ops, Moves

LEMMA MoveSaveIs ==
  ASSUME Hand, NEW k \in Cid, MoveSave(k)
  PROVE  LET r == RowOf(req.id, k) IN
         /\ req.at = "move" /\ k \in req.todo /\ req.id \in Id
         /\ \/ /\ status[req.id] = "stopped" /\ mishap \subseteq mishap' /\ Enders
               /\ \/ box' = [box EXCEPT ![Place(r)] = IF @ = "none" THEN "none" ELSE "stopped"]
                  \/ box' = box /\ "unstopped" \in mishap'
               /\ rec' = rec \/ "crossed" \in mishap'
               /\ free' = free
               /\ Goes("saved", req.todo) \/ (req' = Idle /\ {"crossed", "raised"} \subseteq mishap')
            \/ MoveEnds /\ UNCHANGED <<box, free, rec>>
<1> DEFINE r == RowOf(req.id, k)
           q == [req EXCEPT !.at = "saved"]
<1>1. req.at = "move"
  BY DEF MoveSave
<1>2. k \in req.todo /\ r.cid = k /\ req.id \in Id
  BY <1>1, InLoop DEF MoveSave, Moves
<1>3. ASSUME NEW causes, Pool(free, q, causes, Either)
      PROVE  /\ mishap \union causes \subseteq mishap' /\ Enders /\ free' = free
             /\ rec' = rec \/ "crossed" \in mishap'
             /\ Goes("saved", req.todo) \/ (req' = Idle /\ {"crossed", "raised"} \subseteq mishap')
  <2>1. req' = q => Goes("saved", req.todo)
    BY GoesTo, Words DEF Hand
  <2> HIDE DEF q
  <2> QED BY <1>3, <2>1, PoolIs DEF Crosses, Enders
<1>4. CASE /\ box' = [box EXCEPT ![<<r.id, k, r.host>>] = IF @ = "none" THEN "none" ELSE "stopped"]
           /\ Pool(free, q, {}, Either) /\ status[req.id] = "stopped"
  <2>1. box' = [box EXCEPT ![Place(r)] = IF @ = "none" THEN "none" ELSE "stopped"]
    BY <1>2, <1>4 DEF Place
  <2> HIDE DEF q
  <2> QED BY <1>1, <1>2, <1>3, <1>4, <2>1
<1>5. CASE box' = box /\ Pool(free, q, {"unstopped"}, Either) /\ status[req.id] = "stopped"
  <2> HIDE DEF q
  <2> QED BY <1>1, <1>2, <1>3, <1>5
<1>6. CASE AfterMove({}) /\ UNCHANGED <<box, free, rec>>
  BY <1>1, <1>2, <1>6, AfterMoveIs DEF Hand
<1>7. CASE Leave({}) /\ UNCHANGED <<box, free, rec>>
  BY <1>1, <1>2, <1>7 DEF Leave, MoveEnds
<1> QED BY <1>4, <1>5, <1>6, <1>7 DEF MoveSave

LEMMA TargetIs ==
  ASSUME Hand, req.at \in {"saved", "built", "moved"}
  PROVE  \E w \in Worker : req.workers = {w} /\ (CHOOSE x \in req.workers : TRUE) = w
<1>1. PICK w \in Worker : req.workers = {w}
  BY Migrates DEF Hand, Moving, Moves
<1> QED BY <1>1

LEMMA MoveBuildIs ==
  ASSUME Hand, NEW k \in Cid, MoveBuild(k)
  PROVE  /\ req.at = "saved" /\ k \in req.todo /\ k = Min(req.todo) /\ req.id \in Id
         /\ \/ /\ box' = [box EXCEPT ![Target] = "stopped"]
               /\ Goes("built", req.todo) /\ mishap \subseteq mishap'
            \/ MoveEnds /\ UNCHANGED box
            \/ MoveEnds /\ box' = [box EXCEPT ![Target] = "stopped"] /\ "unclean" \in mishap'
<1> DEFINE w == CHOOSE w \in req.workers : TRUE
<1>1. req.at = "saved"
  BY DEF MoveBuild
<1>2. k \in req.todo /\ k = Min(req.todo) /\ req.id \in Id
  BY <1>1, InLoop DEF MoveBuild, Moves
<1>3. CASE /\ box' = [box EXCEPT ![<<req.id, k, w>>] = "stopped"]
           /\ Advance([req EXCEPT !.at = "built"])
  <2>1. Goes("built", req.todo) /\ mishap \subseteq mishap'
    BY <1>1, <1>3, GoesTo, Words DEF Advance, Hand
  <2> QED BY <1>1, <1>2, <1>3, <2>1 DEF Target
<1>4. CASE AfterMove({}) /\ UNCHANGED box
  BY <1>1, <1>2, <1>4, AfterMoveIs DEF Hand
<1>5. CASE Leave({}) /\ UNCHANGED box
  BY <1>1, <1>2, <1>5 DEF Leave, MoveEnds
<1>6. CASE AfterMove({"unclean"}) /\ box' = [box EXCEPT ![<<req.id, k, w>>] = "stopped"]
  <2>1. MoveEnds /\ "unclean" \in mishap'
    BY <1>6, AfterMoveIs DEF Hand
  <2>2. box' = [box EXCEPT ![Target] = "stopped"]
    BY <1>2, <1>6 DEF Target
  <2> QED BY <1>1, <1>2, <2>1, <2>2
<1> QED BY <1>3, <1>4, <1>5, <1>6 DEF MoveBuild

LEMMA MoveCommitIs ==
  ASSUME Hand, NEW k \in Cid, MoveCommit(k)
  PROVE  /\ req.at = "built" /\ k \in req.todo /\ k = Min(req.todo) /\ req.id \in Id
         /\ \E r \in req.rows, q \in Row :
              /\ r.cid = k /\ r = RowOf(req.id, k) /\ r \in con
              /\ Trace(r, q) /\ Place(q) = Target /\ q.host \in req.workers
              /\ con' = (con \ {r}) \union {q}
         /\ Goes("moved", req.todo) /\ mishap \subseteq mishap'
<1> DEFINE w == CHOOSE w \in req.workers : TRUE
           r == RowOf(req.id, k)
           new == [r EXCEPT !.host = w]
<1>1. req.at = "built"
  BY DEF MoveCommit
<1>2. k \in req.todo /\ k = Min(req.todo) /\ req.id \in Id /\ r \in con /\ r.cid = k /\ r.id = req.id
  BY <1>1, InLoop DEF MoveCommit, Moves
<1>3. r \in req.rows
  <2>1. PICK q \in req.rows : q.cid = k
    BY <1>1, <1>2, Migrates DEF Hand, Moving, Moves
  <2>2. q \in con /\ q.id = req.id
    BY <1>1, <1>2, <2>1, Migrates DEF Hand, Moving, Moves, Handled
  <2> QED BY <1>2, <2>1, <2>2 DEF Hand, Numbered
<1>4. w \in Worker /\ w \in req.workers
  BY <1>1, TargetIs
<1>5. new \in Row /\ Trace(r, new) /\ new.host = w
  <2>1. r \in Row
    BY <1>2 DEF Hand, Shapes
  <2> HIDE DEF r, w
  <2> QED BY <1>4, <2>1 DEF Row, Trace
<1>6. Place(new) = Target
  BY <1>2, <1>5 DEF Place, Target, Trace
<1>7. Goes("moved", req.todo) /\ mishap \subseteq mishap'
  BY GoesTo, Words DEF MoveCommit, Advance, Hand
<1>8. con' = (con \ {r}) \union {new}
  BY DEF MoveCommit
<1> HIDE DEF new
<1> QED BY <1>1, <1>2, <1>3, <1>4, <1>5, <1>6, <1>7, <1>8

LEMMA MoveDropIs ==
  ASSUME Hand, NEW k \in Cid, MoveDrop(k)
  PROVE  /\ req.at = "moved" /\ k \in req.todo /\ k = Min(req.todo) /\ req.id \in Id
         /\ \E old \in req.rows :
              /\ old.cid = k
              /\ \/ /\ box' = [box EXCEPT ![Place(old)] = "none"]
                    /\ Goes("move", req.todo \ {k}) /\ mishap \subseteq mishap'
                 \/ box' = [box EXCEPT ![Place(old)] = "none"] /\ req' = Idle /\ mishap' = mishap
                 \/ Goes("move", req.todo \ {k}) /\ mishap' = mishap \union {"ignored"} /\ UNCHANGED box
                 \/ req' = Idle /\ mishap' = mishap \union {"raised"} /\ UNCHANGED box
<1> DEFINE old == CHOOSE r \in req.rows : r.cid = k
<1>1. req.at = "moved"
  BY DEF MoveDrop
<1>2. k \in req.todo /\ k = Min(req.todo) /\ req.id \in Id
  BY <1>1, InLoop DEF MoveDrop, Moves
<1>3. old \in req.rows /\ old.cid = k
  <2>1. \E q \in req.rows : q.cid = k
    BY <1>1, <1>2, Migrates DEF Hand, Moving, Moves
  <2> QED BY <2>1
<1>4. CASE /\ box' = [box EXCEPT ![<<old.id, k, old.host>>] = "none"]
           /\ Advance([req EXCEPT !.at = "move", !.todo = @ \ {k}])
  <2> DEFINE t == req.todo \ {k}
  <2>1. req' = [req EXCEPT !.at = "move", !.todo = t] /\ t \in SUBSET Nat
    BY <1>4, Values DEF Advance, Hand
  <2> HIDE DEF t
  <2>2. Goes("move", t)
    BY <2>1, GoesBoth, Words DEF Hand
  <2>3. box' = [box EXCEPT ![Place(old)] = "none"]
    BY <1>3, <1>4 DEF Place
  <2> QED BY <1>1, <1>2, <1>3, <1>4, <2>2, <2>3 DEF Advance, t
<1>5. CASE Leave({"raised"}) /\ UNCHANGED box
  BY <1>1, <1>2, <1>3, <1>5 DEF Leave
<1>6. CASE box' = [box EXCEPT ![<<old.id, k, old.host>>] = "none"] /\ Leave({})
  BY <1>1, <1>2, <1>3, <1>6 DEF Leave, Place
<1>7. CASE /\ req' = [req EXCEPT !.at = "move", !.todo = @ \ {k}] /\ UNCHANGED box
           /\ mishap' = mishap \union {"ignored"}
  <2> DEFINE t == req.todo \ {k}
  <2>1. req' = [req EXCEPT !.at = "move", !.todo = t] /\ t \in SUBSET Nat
    BY <1>7, Values DEF Hand
  <2> HIDE DEF t
  <2>2. Goes("move", t)
    BY <2>1, GoesBoth, Words DEF Hand
  <2> QED BY <1>1, <1>2, <1>3, <1>7, <2>2 DEF t
<1> QED BY <1>4, <1>5, <1>6, <1>7 DEF MoveDrop

LEMMA StepIs ==
  ASSUME Hand
  PROVE  /\ Refuse => req.op \in Growth /\ req.at \in {"charged", "failed"} /\ req' = Idle /\ mishap' = mishap
         /\ GatewayFails => /\ req.op = "create" /\ req.at = "build" /\ req.rows = {}
                            /\ req' = Idle /\ mishap' = mishap \union {"kept"}
         /\ DeleteCheck => /\ req.op \in {"delete", "release"} /\ req.at = "check"
                           /\ \/ req' = Idle /\ mishap' = mishap \union IF req.op = "delete" THEN {"refunded"} ELSE {}
                              \/ Goes("drop", req.todo) /\ mishap \subseteq mishap'
         /\ ReleaseAddresses =>
              /\ req.op \in Removal /\ req.at = "drop" /\ req.todo = {} /\ mishap \subseteq mishap'
              /\ \/ /\ Goes("remove", req.todo) /\ free' = free \union {r.ip : r \in req.rows} /\ rec' = rec
                 \/ /\ "crossed" \in mishap' /\ Enders /\ free' \in {free, free \union {r.ip : r \in req.rows}}
                    /\ Goes("remove", req.todo) \/ (req' = Idle /\ "raised" \in mishap')
         /\ DeleteCommit =>
              /\ mishap \subseteq mishap'
              /\ (req.op = "release" /\ Goes("refund", req.todo)) \/ (req.op = "delete" /\ req' = Idle)
              /\ \/ free' = (IF \E i \in Id \ {req.id} : Exists(i) THEN free ELSE Address) /\ rec' = rec
                 \/ "crossed" \in mishap' /\ Enders /\ free' \in {free, Address}
         /\ StartGateway =>
              /\ req.at = "gateway" /\ free' = free /\ mishap \subseteq mishap' /\ Enders
              /\ rec' = rec \/ "crossed" \in mishap'
              /\ \/ Goes("start", req.todo) /\ Overlap(req, rec) \subseteq mishap'
                 \/ req' = Idle /\ {"crossed", "raised"} \subseteq mishap'
         /\ Refund => req.op = "release" /\ req.at = "refund" /\ req' = Idle /\ mishap' = mishap
         /\ StopSkip => req.at = "skip" /\ StopEnds({})
         /\ StopCommit => req.at = "stop" /\ req.todo = {} /\ StopEnds({})
         /\ MoveEnd => req.at = "move" /\ req.todo = {} /\ MoveEnds
<1>1. Shapes /\ req.op \in Ops
  BY Values DEF Hand
<1>2. Refuse => req.op \in Growth /\ req.at \in {"charged", "failed"} /\ req' = Idle /\ mishap' = mishap
  BY <1>1 DEF Refuse, Leave, Hand, Handled, PhasesOf, Ops, Growth, Moves
<1>3. GatewayFails => /\ req.op = "create" /\ req.at = "build" /\ req.rows = {}
                      /\ req' = Idle /\ mishap' = mishap \union {"kept"}
  BY DEF GatewayFails, Leave
<1>4. ASSUME DeleteCheck
      PROVE  /\ req.op \in {"delete", "release"} /\ req.at = "check"
             /\ \/ req' = Idle /\ mishap' = mishap \union IF req.op = "delete" THEN {"refunded"} ELSE {}
                \/ Goes("drop", req.todo) /\ mishap \subseteq mishap'
  <2>1. req.op \in {"delete", "release"} /\ req.at = "check"
    BY <1>1, <1>4 DEF DeleteCheck, Hand, Handled, PhasesOf, Ops, Moves
  <2>2. CASE Leave(IF req.op = "delete" THEN {"refunded"} ELSE {})
    BY <2>1, <2>2 DEF Leave
  <2>3. CASE Advance([req EXCEPT !.at = "drop"])
    BY <1>1, <2>1, <2>3, GoesTo, Words DEF Advance
  <2> QED BY <1>4, <2>2, <2>3 DEF DeleteCheck
<1>5. ASSUME ReleaseAddresses
      PROVE  /\ req.op \in Removal /\ req.at = "drop" /\ req.todo = {} /\ mishap \subseteq mishap'
             /\ \/ /\ Goes("remove", req.todo) /\ free' = free \union {r.ip : r \in req.rows} /\ rec' = rec
                \/ /\ "crossed" \in mishap' /\ Enders /\ free' \in {free, free \union {r.ip : r \in req.rows}}
                   /\ Goes("remove", req.todo) \/ (req' = Idle /\ "raised" \in mishap')
  <2>1. req.op \in Removal /\ req.at = "drop" /\ req.todo = {}
    BY <1>1, <1>5 DEF ReleaseAddresses, Hand, Handled, PhasesOf, Ops, Moves, Removal
  <2> DEFINE q == [req EXCEPT !.at = "remove"]
             new == free \union {r.ip : r \in req.rows}
  <2>2. Pool(new, q, {}, Either)
    BY <1>5 DEF ReleaseAddresses
  <2>3. req' = q => Goes("remove", req.todo)
    BY <1>1, GoesTo, Words
  <2> HIDE DEF q, new
  <2>4. \/ free' = new /\ req' = q /\ rec' = rec /\ mishap' = mishap \union {} \union Overlap(q, rec)
        \/ Crosses(q, {}) /\ free' \in {free, new}
    BY <2>2, PoolIs
  <2>5. mishap \subseteq mishap'
    BY <2>4 DEF Crosses
  <2> QED BY <2>1, <2>3, <2>4, <2>5 DEF Crosses, new
<1>6. ASSUME DeleteCommit
      PROVE  /\ mishap \subseteq mishap'
             /\ (req.op = "release" /\ Goes("refund", req.todo)) \/ (req.op = "delete" /\ req' = Idle)
             /\ \/ free' = (IF \E i \in Id \ {req.id} : Exists(i) THEN free ELSE Address) /\ rec' = rec
                \/ "crossed" \in mishap' /\ Enders /\ free' \in {free, Address}
  <2> DEFINE q == IF req.op = "release" THEN [req EXCEPT !.at = "refund"] ELSE Idle
  <2>1. req' = q => \/ req.op = "release" /\ Goes("refund", req.todo)
                    \/ req.op = "delete" /\ req' = Idle
    BY <1>1, <1>6, GoesTo, Words DEF DeleteCommit
  <2>2. IF \E i \in Id \ {req.id} : Exists(i) THEN Advance(q) /\ UNCHANGED <<free, rec>>
                                              ELSE Pool(Address, q, {}, {"recovery"})
    BY <1>6 DEF DeleteCommit
  <2> HIDE DEF q
  <2>3. CASE \E i \in Id \ {req.id} : Exists(i)
    BY <2>1, <2>2, <2>3 DEF Advance
  <2>4. CASE ~(\E i \in Id \ {req.id} : Exists(i))
    <3>1. {"recovery"} \in SUBSET Either
      BY DEF Either
    <3>2. \/ free' = Address /\ req' = q /\ rec' = rec /\ mishap' = mishap \union {} \union Overlap(q, rec)
          \/ Crosses(q, {}) /\ free' \in {free, Address} /\ req' = q
      BY <2>2, <2>4, <3>1, PoolIs
    <3>3. mishap \subseteq mishap' /\ req' = q
      BY <3>2 DEF Crosses
    <3> QED BY <2>1, <2>4, <3>2, <3>3 DEF Crosses
  <2> QED BY <2>3, <2>4
<1>11. ASSUME StartGateway
       PROVE  /\ req.at = "gateway" /\ free' = free /\ mishap \subseteq mishap' /\ Enders
              /\ rec' = rec \/ "crossed" \in mishap'
              /\ \/ Goes("start", req.todo) /\ Overlap(req, rec) \subseteq mishap'
                 \/ req' = Idle /\ {"crossed", "raised"} \subseteq mishap'
  <2> DEFINE q == [req EXCEPT !.at = "start"]
  <2>1. req.at = "gateway" /\ Pool(free, q, {}, Either)
    BY <1>11 DEF StartGateway
  <2>2. req' = q => Goes("start", req.todo)
    BY <1>1, GoesTo, Words
  <2>3. q.id = req.id
    BY <1>1, SMT DEF Shapes, Requests
  <2>4. Overlap(q, rec) = Overlap(req, rec)
    BY <2>3 DEF Overlap
  <2> HIDE DEF q
  <2>5. \/ free' = free /\ req' = q /\ rec' = rec /\ mishap' = mishap \union {} \union Overlap(q, rec)
        \/ Crosses(q, {}) /\ free' = free
    BY <2>1, PoolIs
  <2> QED BY <2>1, <2>2, <2>4, <2>5 DEF Crosses, Enders
<1>7. Refund => req.op = "release" /\ req.at = "refund" /\ req' = Idle /\ mishap' = mishap
  BY <1>1 DEF Refund, Leave, Hand, Handled, PhasesOf, Ops, Moves
<1>8. StopSkip => req.at = "skip" /\ StopEnds({})
  BY <1>1, AfterStopIs DEF StopSkip
<1>9. StopCommit => req.at = "stop" /\ req.todo = {} /\ StopEnds({})
  BY <1>1, AfterStopIs DEF StopCommit
<1>10. MoveEnd => req.at = "move" /\ req.todo = {} /\ MoveEnds
  BY <1>1, AfterMoveIs DEF MoveEnd
<1> QED BY <1>2, <1>3, <1>4, <1>5, <1>6, <1>7, <1>8, <1>9, <1>10, <1>11

\* The request a step leaves is one.
LEMMA MadeType ==
  ASSUME Shapes
  PROVE  /\ req' = Idle => req' \in Requests
         /\ \A at, todo : Goes(at, todo) => req' \in Requests
         /\ \A causes : StopEnds(causes) => req' \in Requests
         /\ MoveEnds \/ Failed => req' \in Requests
BY IdleType DEF Goes, Made, StopEnds, MoveEnds, Failed

LEMMA EnterShapes ==
  ASSUME Shapes, NewRequest
  PROVE  Shapes'
<1>1. req' \in Requests
  BY CreateEnterIs, StopAllEnterIs, ScaleOutEnterIs, StartEnterIs, StopEnterIs, ScaleInEnterIs, DeleteEnterIs,
     ReleaseEnterIs, MigrateEnterIs DEF NewRequest, Made
<1>2. UNCHANGED <<db_vars, box, free, node_vars, rec>>
  BY DEF NewRequest, CreateEnter, StopAllEnter, ScaleOutEnter, StartEnter, StopEnter, ScaleInEnter, DeleteEnter,
         ReleaseEnter, MigrateEnter
<1>3. usage' \in Nat
  <2>1. usage \in Nat /\ \A id \in Id : Less(usage, Cardinality(RowsOf(id))) \in Nat
    BY LessType, Finite DEF Shapes
  <2>2. Less(usage, 1) \in Nat /\ usage + 1 \in Nat
    BY <2>1, LessType
  <2> QED BY <2>1, <2>2 DEF NewRequest, CreateEnter, StopAllEnter, ScaleOutEnter, StartEnter, StopEnter,
             ScaleInEnter, DeleteEnter, ReleaseEnter, MigrateEnter, Charge
<1> QED BY <1>1, <1>2, <1>3 DEF Shapes, db_vars, node_vars

\* The thread that recovers, field by field.
Puts(todo, id, rows, at, boot) ==
  /\ rec'.todo = todo /\ rec'.id = id /\ rec'.rows = rows /\ rec'.at = at /\ rec'.boot = boot
  /\ rec' \in Recoveries

LEMMA RecValues ==
  ASSUME Shapes
  PROVE  /\ rec \in Recoveries /\ rec.todo \in SUBSET Id /\ rec.id \in 0..MaxId /\ rec.rows \in SUBSET Row
         /\ rec.boot \in BOOLEAN /\ Resting \in Recoveries /\ TRUE \in BOOLEAN
         /\ Stoppable \in SUBSET Id
<1>1. Resting \in Recoveries
  BY VclusterAssumption DEF Resting, Recoveries, Tasks
<1> QED BY <1>1 DEF Shapes, Recoveries, Stoppable

LEMMA TaskWords ==
  /\ "rest" \in Tasks /\ "pick" \in Tasks /\ "gateway" \in Tasks /\ "box" \in Tasks /\ "good" \in Tasks
  /\ "bad" \in Tasks /\ "dead" \in Tasks
BY DEF Tasks

LEMMA DeadPuts == ASSUME Shapes, rec' = Dead(rec) PROVE Puts({}, 0, {}, "dead", rec.boot)
<1>1. rec' = [Resting EXCEPT !.at = "dead", !.boot = rec.boot]
  BY DEF Dead
<1>2. rec' \in Recoveries
  BY <1>1, RecValues, TaskWords, Zenon DEF Recoveries
<1> QED BY <1>1, <1>2, SMT DEF Puts, Resting

LEMMA EndersType == ASSUME Shapes, Enders PROVE rec' \in Recoveries
BY RecValues, DeadPuts DEF Enders, Puts

\* A request leaves the recovery alone, but for its pool.
LEMMA PoolEnders == ASSUME NEW new, NEW q, NEW causes, NEW may_raise, Pool(new, q, causes, may_raise) PROVE Enders
<1>1. \E ends \in {"none"} \union may_raise :
        /\ rec' = rec \/ (rec.at = "gateway" /\ rec' = Dead(rec))
        /\ rec' # rec => "ended" \in mishap'
  BY DEF Pool
<1> QED BY <1>1 DEF Enders

LEMMA RequestEnders == ASSUME RequestStep PROVE Enders
<1>1. Reserve \/ ReleaseAddresses \/ StartGateway => Enders
  BY PoolEnders DEF Reserve, ReleaseAddresses, StartGateway
<1>2. DeleteCommit => Enders
  BY PoolEnders DEF DeleteCommit, Enders
<1>3. ASSUME NEW k \in Cid, MoveSave(k) PROVE Enders
  <2>1. Enders \/ rec' = rec
    BY <1>3, PoolEnders DEF MoveSave
  <2> QED BY <2>1 DEF Enders
<1>4. ASSUME NEW k \in Cid, NEW w \in Worker, Build(k, w) PROVE Enders
  <2>1. Enders \/ rec' = rec
    BY <1>4, PoolEnders DEF Build
  <2> QED BY <2>1 DEF Enders
<1>5. CASE rec' = rec
  BY <1>5 DEF Enders
<1> QED BY <1>1, <1>2, <1>3, <1>4, <1>5
     DEF RequestStep, Refuse, GatewayFails, StartNew, CreateCommit, ScaleOutCommit, DeleteCheck, ScaleInCommit,
         Refund, StartCommit, StopSkip, StopCommit, MoveEnd, Drop, StartBox, StopBox, MoveBuild, MoveCommit, MoveDrop

LEMMA RequestShapes ==
  ASSUME Hand, RequestStep
  PROVE  Shapes'
<1> USE DEF db_vars, node_vars
<1>0. Shapes /\ usage \in Nat /\ Less(usage, 1) \in Nat
  BY LessType DEF Hand, Shapes
<1>24. rec' \in Recoveries
  BY <1>0, RequestEnders, EndersType
<1>1. CASE Refuse
  BY <1>0, <1>1, StepIs, MadeType DEF Refuse, Shapes
<1>2. CASE Reserve
  <2>1. req' \in Requests /\ free' \subseteq Address
    BY <1>0, <1>2, ReserveIs, IdleType DEF Shapes, Made
  <2>2. nextid' \in Nat \ {0} /\ UNCHANGED <<defaultsize, status, con, nextcid, box, usage, node_vars>>
    BY <1>0, <1>2 DEF Reserve, Shapes
  <2> QED BY <1>0, <1>24, <2>1, <2>2 DEF Shapes
<1>3. CASE GatewayFails
  BY <1>0, <1>3, StepIs, MadeType DEF GatewayFails, Shapes
<1>4. CASE StartNew
  <2>1. req' \in Requests
    BY <1>0, <1>4, StartNewIs, MadeType
  <2>2. box' \in [Id \X Cid \X Worker -> {"none", "stopped", "running"}]
    BY <1>0, <1>4 DEF StartNew, Shapes
  <2> QED BY <1>0, <1>4, <2>1, <2>2 DEF StartNew, Shapes
<1>5. CASE CreateCommit
  <2>1. con \union req.rows \subseteq Row /\ req.id \in Id
    BY <1>0, <1>5, Values DEF Shapes, CreateCommit, Hand, Handled
  <2>2. IsFiniteSet(con \union req.rows)
    BY <1>0, <1>5, Counted, FS_Union DEF Shapes, CreateCommit, Growth
  <2> QED BY <1>0, <1>5, <2>1, <2>2, MadeType DEF CreateCommit, Leave, Shapes, Status
<1>6. CASE ScaleOutCommit
  <2>1. con \union req.rows \subseteq Row
    BY <1>0, <1>6, Values DEF Shapes
  <2>2. IsFiniteSet(con \union req.rows)
    BY <1>0, <1>6, Counted, FS_Union DEF Shapes, ScaleOutCommit, Growth
  <2>3. req' = Idle /\ con' = con \union req.rows
        /\ UNCHANGED <<defaultsize, status, nextid, box, free, usage, node_vars, rec>>
    BY <1>6 DEF ScaleOutCommit, Leave
  <2>4. nextcid' \in [Id -> Nat]
    <3>1. nextcid[req.id] + 1 \in Nat
      BY <1>0, <1>6 DEF ScaleOutCommit, Shapes, Hand, Handled
    <3> QED BY <1>0, <1>6, <3>1 DEF ScaleOutCommit, Shapes
  <2> QED BY <1>0, <2>1, <2>2, <2>3, <2>4, MadeType DEF Shapes
<1>7. CASE DeleteCheck
  BY <1>0, <1>7, StepIs, MadeType DEF DeleteCheck, Shapes
<1>8. CASE ReleaseAddresses
  <2>1. free \union {r.ip : r \in req.rows} \subseteq Address
    BY <1>0, Values DEF Shapes, Row
  <2>2. free' \subseteq Address /\ req' \in Requests
    BY <1>0, <1>8, <2>1, StepIs, MadeType DEF Shapes
  <2> QED BY <1>0, <1>8, <1>24, <2>2 DEF ReleaseAddresses, Shapes
<1>9. CASE ScaleInCommit
  <2>1. con \ req.rows \subseteq Row /\ IsFiniteSet(con \ req.rows)
    BY <1>0, FS_Difference DEF Shapes
  <2> QED BY <1>0, <1>9, <2>1, MadeType DEF ScaleInCommit, Leave, Shapes
<1>10. CASE DeleteCommit
  <2>1. con \ req.rows \subseteq Row /\ IsFiniteSet(con \ req.rows)
    BY <1>0, FS_Difference DEF Shapes
  <2>2. free' \subseteq Address
    BY <1>0, <1>10, StepIs DEF Shapes
  <2>3. req' \in Requests /\ status' \in [Id -> Status]
    BY <1>0, <1>10, StepIs, MadeType DEF DeleteCommit, Shapes, Status
  <2> QED BY <1>0, <1>10, <1>24, <2>1, <2>2, <2>3 DEF DeleteCommit, Shapes
<1>11. CASE Refund
  <2>1. IsFiniteSet(req.rows)
    BY DEF Hand, Handled
  <2>2. usage' \in Nat
    BY <1>0, <1>11, <2>1, FS_CardinalityType, LessType DEF Refund, Shapes
  <2>3. req' = Idle /\ UNCHANGED <<db_vars, box, free, node_vars, rec>>
    BY <1>11 DEF Refund, Leave
  <2> QED BY <1>0, <2>2, <2>3, MadeType DEF Shapes
<1>12. CASE StartCommit
  BY <1>0, <1>12, MadeType DEF StartCommit, Leave, Shapes, Status
<1>13. CASE StopSkip
  BY <1>0, <1>13, StepIs, MadeType DEF StopSkip, Shapes
<1>14. CASE StopCommit
  BY <1>0, <1>14, StepIs, MadeType DEF StopCommit, Shapes, Status
<1>15. CASE MoveEnd
  BY <1>0, <1>15, StepIs, MadeType DEF MoveEnd, Shapes
<1>25. CASE StartGateway
  <2>1. free' = free /\ req' \in Requests
    BY <1>0, <1>25, StepIs, MadeType
  <2> QED BY <1>0, <1>24, <1>25, <2>1 DEF StartGateway, Shapes
<1>16. ASSUME NEW k \in Cid, Drop(k) PROVE Shapes'
  BY <1>0, <1>16, DropIs, MadeType DEF Drop, Shapes
<1>17. ASSUME NEW k \in Cid, StartBox(k) PROVE Shapes'
  BY <1>0, <1>17, StartBoxIs, MadeType DEF StartBox, Shapes
<1>18. ASSUME NEW k \in Cid, StopBox(k) PROVE Shapes'
  BY <1>0, <1>18, StopBoxIs, MadeType DEF StopBox, Shapes
<1>19. ASSUME NEW k \in Cid, MoveSave(k) PROVE Shapes'
  <2>1. free' = free /\ req' \in Requests
    BY <1>0, <1>19, MoveSaveIs, MadeType
  <2>2. box' \in [Id \X Cid \X Worker -> {"none", "stopped", "running"}]
    BY <1>0, <1>19, MoveSaveIs DEF Shapes
  <2> QED BY <1>0, <1>19, <1>24, <2>1, <2>2 DEF MoveSave, Shapes
<1>20. ASSUME NEW k \in Cid, MoveBuild(k) PROVE Shapes'
  BY <1>0, <1>20, MoveBuildIs, MadeType DEF MoveBuild, Shapes
<1>21. ASSUME NEW k \in Cid, MoveCommit(k) PROVE Shapes'
  <2>1. PICK r \in con, q \in Row : con' = (con \ {r}) \union {q}
    BY <1>21, MoveCommitIs
  <2>2. con' \subseteq Row /\ IsFiniteSet(con')
    BY <1>0, <2>1, FS_RemoveElement, FS_AddElement DEF Shapes
  <2> QED BY <1>0, <1>21, <2>2, MoveCommitIs, MadeType DEF MoveCommit, Shapes
<1>22. ASSUME NEW k \in Cid, MoveDrop(k) PROVE Shapes'
  BY <1>0, <1>22, MoveDropIs, MadeType DEF MoveDrop, Shapes
<1>23. ASSUME NEW k \in Cid, NEW w \in Worker, Build(k, w) PROVE Shapes'
  <2>1. free' \subseteq Address
    BY <1>0, <1>23, BuildIs DEF Shapes
  <2>2. req' \in Requests
    BY <1>0, <1>23, BuildIs, MadeType DEF Made
  <2>3. box' \in [Id \X Cid \X Worker -> {"none", "stopped", "running"}]
    BY <1>0, <1>23, BuildIs DEF Shapes
  <2>4. UNCHANGED <<db_vars, usage, node_vars>>
    BY <1>23, BuildIs
  <2> QED BY <1>0, <1>24, <2>1, <2>2, <2>3, <2>4 DEF Shapes
<1> QED BY <1>1, <1>2, <1>3, <1>4, <1>5, <1>6, <1>7, <1>8, <1>9, <1>10, <1>11, <1>12, <1>13, <1>14, <1>15,
           <1>16, <1>17, <1>18, <1>19, <1>20, <1>21, <1>22, <1>23, <1>25 DEF RequestStep

\* RecoverNext(todo), once it is the thread's record.
LEMMA NextPuts ==
  ASSUME Shapes, NEW todo \in SUBSET Id, rec' = RecoverNext(todo)
  PROVE  IF todo = {} THEN rec' = Resting /\ Puts({}, 0, {}, "rest", FALSE) ELSE Puts(todo, 0, {}, "pick", rec.boot)
<1>1. CASE todo = {}
  <2>1. rec' = Resting /\ rec' \in Recoveries
    BY <1>1, RecValues DEF RecoverNext
  <2> QED BY <1>1, <2>1 DEF Puts, Resting
<1>2. CASE todo # {}
  <2>1. rec' = [Resting EXCEPT !.todo = todo, !.at = "pick", !.boot = rec.boot]
    BY <1>2 DEF RecoverNext
  <2>2. "pick" \in Tasks
    BY TaskWords
  <2>3. rec' \in Recoveries
    BY <2>1, <2>2, RecValues, Zenon DEF Recoveries
  <2>4. Puts(todo, 0, {}, "pick", rec.boot)
    BY <2>1, <2>3, SMT DEF Puts, Resting
  <2> QED BY <1>2, <2>4
<1> QED BY <1>1, <1>2

LEMMA TakeIs ==
  ASSUME Shapes, RecoverTake
  PROVE  LET due == {id \in Stoppable : \E r \in RowsOf(id) : r.host = Head(queue)} IN
         /\ rec = Resting /\ queue # <<>> /\ queue' = Tail(queue) /\ mishap' = mishap \union Overlap(req, rec')
         /\ IF due = {} THEN rec' = Resting /\ Puts({}, 0, {}, "rest", FALSE) ELSE Puts(due, 0, {}, "pick", FALSE)
<1> DEFINE due == {id \in Stoppable : \E r \in RowsOf(id) : r.host = Head(queue)}
<1>1. due \in SUBSET Id
  BY RecValues
<1>2. /\ rec = Resting /\ queue # <<>> /\ queue' = Tail(queue) /\ mishap' = mishap \union Overlap(req, rec')
      /\ rec' = IF due = {} THEN Resting ELSE [Resting EXCEPT !.todo = due, !.at = "pick"]
  BY DEF RecoverTake, Recover
<1> HIDE DEF due
<1>3. CASE due = {}
  <2>1. rec' = Resting /\ rec' \in Recoveries
    BY <1>2, <1>3, RecValues
  <2>2. Puts({}, 0, {}, "rest", FALSE)
    BY <2>1 DEF Puts, Resting
  <2> QED BY <1>2, <1>3, <2>1, <2>2 DEF due
<1>4. CASE due # {}
  <2>1. rec' = [Resting EXCEPT !.todo = due, !.at = "pick"]
    BY <1>2, <1>4
  <2>2. "pick" \in Tasks
    BY TaskWords
  <2>3. rec' \in Recoveries
    BY <1>1, <2>1, <2>2, RecValues, Zenon DEF Recoveries
  <2>4. Puts(due, 0, {}, "pick", FALSE)
    BY <2>1, <2>3, SMT DEF Puts, Resting
  <2> QED BY <1>2, <1>4, <2>4 DEF due
<1> QED BY <1>3, <1>4

LEMMA PickIs ==
  ASSUME Shapes, NEW id \in Id, RecoverPick(id)
  PROVE  LET todo == rec.todo \ {id} IN
         /\ rec.at = "pick" /\ id \in rec.todo /\ mishap' = mishap \union Overlap(req, rec')
         /\ \/ /\ status[id] = "none"
               /\ IF todo = {} THEN rec' = Resting /\ Puts({}, 0, {}, "rest", FALSE)
                               ELSE Puts(todo, 0, {}, "pick", rec.boot)
            \/ status[id] = "stopped" /\ Puts(todo, id, rec.rows, "good", rec.boot)
            \/ /\ status[id] \notin {"none", "stopped"}
               /\ Puts(todo, id, RowsOf(id), IF RowsOf(id) = {} THEN "bad" ELSE "gateway", rec.boot)
<1> DEFINE todo == rec.todo \ {id}
           at == IF RowsOf(id) = {} THEN "bad" ELSE "gateway"
<1>1. /\ rec.at = "pick" /\ id \in rec.todo /\ mishap' = mishap \union Overlap(req, rec')
      /\ todo \in SUBSET Id /\ id \in 0..MaxId /\ RowsOf(id) \in SUBSET Row
  BY RecValues, Values DEF RecoverPick, Recover
<1>2. CASE status[id] = "none"
  <2>1. rec' = RecoverNext(todo)
    BY <1>2 DEF RecoverPick, Recover
  <2> HIDE DEF todo
  <2>2. IF todo = {} THEN rec' = Resting /\ Puts({}, 0, {}, "rest", FALSE) ELSE Puts(todo, 0, {}, "pick", rec.boot)
    BY <1>1, <2>1, NextPuts
  <2> QED BY <1>1, <1>2, <2>2 DEF todo
<1>3. CASE status[id] = "stopped"
  <2>1. rec' = [rec EXCEPT !.todo = todo, !.id = id, !.at = "good"]
    BY <1>3 DEF RecoverPick, Recover
  <2>2. "good" \in Tasks
    BY TaskWords
  <2> HIDE DEF todo
  <2>3. rec' \in Recoveries /\ rec \in Recoveries
    BY <1>1, <2>1, <2>2, RecValues, Zenon DEF Recoveries
  <2>4. Puts(todo, id, rec.rows, "good", rec.boot)
    BY <2>1, <2>3, SMT DEF Puts, Recoveries
  <2> QED BY <1>1, <1>3, <2>4 DEF todo
<1>4. CASE status[id] \notin {"none", "stopped"}
  <2>1. rec' = [rec EXCEPT !.todo = todo, !.id = id, !.rows = RowsOf(id), !.at = at]
    BY <1>4 DEF RecoverPick, Recover
  <2>2. at \in Tasks
    BY TaskWords
  <2> HIDE DEF todo, at
  <2>3. rec' \in Recoveries /\ rec \in Recoveries
    BY <1>1, <2>1, <2>2, RecValues, Zenon DEF Recoveries
  <2>4. Puts(todo, id, RowsOf(id), at, rec.boot)
    BY <2>1, <2>3, SMT DEF Puts, Recoveries
  <2> QED BY <1>1, <1>4, <2>4 DEF todo, at
<1> QED BY <1>2, <1>3, <1>4

LEMMA RecoverGatewayIs ==
  ASSUME Shapes, RecoverGateway
  PROVE  /\ rec.at = "gateway" /\ mishap' = mishap \union Overlap(req, rec')
         /\ Puts(rec.todo, rec.id, rec.rows, "box", rec.boot)
<1>1. rec' = [rec EXCEPT !.at = "box"] /\ mishap' = mishap \union Overlap(req, rec') /\ rec.at = "gateway"
  BY DEF RecoverGateway, Recover
<1>2. rec' \in Recoveries /\ rec \in Recoveries
  BY <1>1, RecValues, TaskWords, Zenon DEF Recoveries
<1> QED BY <1>1, <1>2, SMT DEF Puts, Recoveries

LEMMA RecoverDiesIs ==
  ASSUME Shapes, RecoverDies
  PROVE  /\ rec.at \in {"rest", "pick", "gateway"} /\ mishap' = mishap \union {"ended"}
         /\ Puts({}, 0, {}, "dead", rec.boot)
BY DeadPuts DEF RecoverDies, Resting

LEMMA BoxIs ==
  ASSUME Shapes, Restores, RecoverBox
  PROVE  /\ rec.at = "box"
         /\ \/ mishap' = mishap \union Overlap(req, rec')
            \/ mishap' = mishap \union {"ignored"}
         /\ \E r \in rec.rows :
              \/ /\ r.host \in alive /\ box' = [box EXCEPT ![Place(r)] = Recovered(@)]
                 /\ Puts(rec.todo, rec.id, rec.rows \ {r}, "box", rec.boot)
              \/ /\ Puts(rec.todo, rec.id, rec.rows \ {r}, "box", rec.boot)
                 /\ mishap' = mishap \union {"ignored"} /\ UNCHANGED box
              \/ Puts(rec.todo, rec.id, rec.rows, "bad", rec.boot) /\ UNCHANGED box
<1> DEFINE cids == {r.cid : r \in rec.rows}
           k == Min(cids)
           r == CHOOSE r \in rec.rows : r.cid = k
<1>1. r \in rec.rows /\ r.cid = k
  <2>1. cids \in SUBSET Nat /\ cids # {}
    BY RecValues DEF RecoverBox, Row, Cid
  <2>2. k \in cids
    BY <2>1, Least
  <2> HIDE DEF k
  <2> QED BY <2>2
<1>2. /\ rec.at = "box"
      /\ \/ /\ r.host \in alive
            /\ box' = [box EXCEPT ![<<r.id, k, r.host>>] = Recovered(@)]
            /\ Recover([rec EXCEPT !.rows = @ \ {r}])
         \/ UNCHANGED box /\ rec' = [rec EXCEPT !.rows = @ \ {r}] /\ mishap' = mishap \union {"ignored"}
         \/ Recover([rec EXCEPT !.at = "bad"]) /\ UNCHANGED box
  BY DEF RecoverBox, Reach
<1> HIDE DEF k, r
<1>3. CASE rec' = [rec EXCEPT !.rows = @ \ {r}]
  <2> DEFINE rows == rec.rows \ {r}
  <2>1. rec' = [rec EXCEPT !.rows = rows]
    BY <1>3
  <2>2. rows \in SUBSET Row
    BY RecValues
  <2> HIDE DEF rows
  <2>3. rec' \in Recoveries /\ rec \in Recoveries
    BY <2>1, <2>2, RecValues, Zenon DEF Recoveries
  <2>4. Puts(rec.todo, rec.id, rows, "box", rec.boot)
    BY <1>2, <2>1, <2>3, SMT DEF Puts, Recoveries
  <2>5. CASE r.host \in alive /\ box' = [box EXCEPT ![<<r.id, k, r.host>>] = Recovered(@)]
             /\ mishap' = mishap \union Overlap(req, rec')
    <3>1. box' = [box EXCEPT ![Place(r)] = Recovered(@)]
      BY <1>1, <2>5 DEF Place
    <3> QED BY <1>1, <1>2, <2>4, <2>5, <3>1 DEF rows
  <2>6. CASE UNCHANGED box /\ mishap' = mishap \union {"ignored"}
    BY <1>1, <1>2, <2>4, <2>6 DEF rows
  <2>7. CASE Recover([rec EXCEPT !.at = "bad"]) /\ UNCHANGED box
    <3>1. rec' = [rec EXCEPT !.at = "bad"] /\ rec.at = "box" /\ rec \in Recoveries
      BY <1>2, <2>7, RecValues DEF Recover
    <3>2. rec'.at = "bad" /\ rec'.at = "box"
      BY <2>4, <3>1, SMT DEF Recoveries, Puts
    <3> QED BY <3>2
  <2> QED BY <1>2, <2>5, <2>6, <2>7 DEF Recover
<1>4. CASE Recover([rec EXCEPT !.at = "bad"]) /\ UNCHANGED box
  <2>1. rec' = [rec EXCEPT !.at = "bad"] /\ mishap' = mishap \union Overlap(req, rec') /\ UNCHANGED box
    BY <1>4 DEF Recover
  <2>2. "bad" \in Tasks
    BY TaskWords
  <2>3. rec' \in Recoveries /\ rec \in Recoveries
    BY <2>1, <2>2, RecValues, Zenon DEF Recoveries
  <2>4. Puts(rec.todo, rec.id, rec.rows, "bad", rec.boot)
    BY <2>1, <2>3, SMT DEF Puts, Recoveries
  <2> QED BY <1>1, <1>2, <2>1, <2>4
<1> QED BY <1>2, <1>3, <1>4 DEF Recover

LEMMA PortsIs ==
  ASSUME Shapes, RecoverPorts
  PROVE  /\ rec.at = "box" /\ rec.rows = {}
         /\ \/ /\ mishap' = mishap \union Overlap(req, rec')
               /\ \/ Puts(rec.todo, rec.id, {}, "good", rec.boot)
                  \/ Puts(rec.todo, rec.id, {}, "bad", rec.boot)
            \/ Puts({}, 0, {}, "dead", rec.boot) /\ mishap' = mishap \union {"ended"}
<1>1. rec.at = "box" /\ rec.rows = {}
  BY DEF RecoverPorts
<1>2. ASSUME NEW a \in {"good", "bad"}, Recover([rec EXCEPT !.at = a])
      PROVE  mishap' = mishap \union Overlap(req, rec') /\ Puts(rec.todo, rec.id, {}, a, rec.boot)
  <2>1. rec' = [rec EXCEPT !.at = a] /\ mishap' = mishap \union Overlap(req, rec')
    BY <1>2 DEF Recover
  <2>2. a \in Tasks
    BY TaskWords
  <2>3. rec' \in Recoveries /\ rec \in Recoveries
    BY <2>1, <2>2, RecValues, Zenon DEF Recoveries
  <2> QED BY <1>1, <2>1, <2>3, SMT DEF Puts, Recoveries
<1>3. rec' = Dead(rec) => Puts({}, 0, {}, "dead", rec.boot)
  BY DeadPuts
<1> QED BY <1>1, <1>2, <1>3 DEF RecoverPorts

LEMMA MarkIs ==
  ASSUME Shapes, RecoverMark
  PROVE  /\ rec.at \in {"good", "bad"} /\ mishap' = mishap \union Overlap(req, rec')
         /\ status' = IF Exists(rec.id)
                        THEN [status EXCEPT ![rec.id] = IF rec.at = "good" THEN "running" ELSE "error"]
                        ELSE status
         /\ IF rec.todo = {} THEN rec' = Resting /\ Puts({}, 0, {}, "rest", FALSE)
                             ELSE Puts(rec.todo, 0, {}, "pick", rec.boot)
<1>1. rec' = RecoverNext(rec.todo)
  BY DEF RecoverMark, Recover, Left
<1>2. rec.todo \in SUBSET Id
  BY RecValues
<1>3. IF rec.todo = {} THEN rec' = Resting /\ Puts({}, 0, {}, "rest", FALSE)
                       ELSE Puts(rec.todo, 0, {}, "pick", rec.boot)
  BY <1>1, <1>2, NextPuts
<1> QED BY <1>3 DEF RecoverMark, Recover

LEMMA CrashIs ==
  ASSUME Shapes, Crash
  PROVE  /\ req' = Idle /\ queue' = <<>>
         /\ mishap' = mishap \union (IF req = Idle THEN {} ELSE {"crash"})
                             \union (IF req.at = "remove" THEN {"torn"} ELSE {})
         /\ UNCHANGED <<db_vars, box, free, usage, listed, alive>>
         /\ IF Stoppable = {} THEN rec' = Resting /\ Puts({}, 0, {}, "rest", FALSE)
                              ELSE Puts(Stoppable, 0, {}, "pick", TRUE)
<1>1. CASE Stoppable = {}
  <2>1. rec' = Resting /\ rec' \in Recoveries
    BY <1>1, RecValues DEF Crash
  <2>2. Puts({}, 0, {}, "rest", FALSE)
    BY <2>1 DEF Puts, Resting
  <2> QED BY <1>1, <2>1, <2>2 DEF Crash
<1>2. CASE Stoppable # {}
  <2>1. rec' = [Resting EXCEPT !.todo = Stoppable, !.at = "pick", !.boot = TRUE]
    BY <1>2 DEF Crash
  <2>2. "pick" \in Tasks
    BY TaskWords
  <2>3. rec' \in Recoveries
    BY <2>1, <2>2, RecValues, Zenon DEF Recoveries
  <2>4. Puts(Stoppable, 0, {}, "pick", TRUE)
    BY <2>1, <2>3, SMT DEF Puts, Resting
  <2> QED BY <1>2, <2>4 DEF Crash
<1> QED BY <1>1, <1>2

LEMMA OtherShapes ==
  ASSUME Shapes, Restores, RecoveryStep \/ NodeStep
  PROVE  Shapes'
<1> USE DEF db_vars, node_vars
<1>1. CASE RecoverTake
  <2>1. rec' \in Recoveries
    BY <1>1, TakeIs DEF Puts
  <2>2. queue' \in Seq(Worker)
    BY <1>1 DEF RecoverTake, Shapes
  <2> QED BY <1>1, <2>1, <2>2 DEF RecoverTake, Shapes
<1>2. CASE RecoverBox
  <2>1. rec' \in Recoveries
    BY <1>2, BoxIs DEF Puts
  <2>2. box' \in [Id \X Cid \X Worker -> {"none", "stopped", "running"}]
    BY <1>2, BoxIs DEF Shapes, Recovered
  <2> QED BY <1>2, <2>1, <2>2 DEF RecoverBox, Shapes
<1>3. CASE RecoverPorts
  BY <1>3, PortsIs DEF Puts, RecoverPorts, Shapes
<1>4. CASE RecoverMark
  <2>1. rec' \in Recoveries /\ status' \in [Id -> Status]
    BY <1>4, MarkIs DEF Puts, Shapes, Status
  <2> QED BY <1>4, <2>1 DEF RecoverMark, Shapes
<1>5. ASSUME NEW id \in Id, RecoverPick(id) PROVE Shapes'
  <2>1. rec' \in Recoveries
    BY <1>5, PickIs DEF Puts
  <2> QED BY <1>5, <2>1 DEF RecoverPick, Shapes
<1>6. CASE Crash
  <2>1. rec' \in Recoveries
    BY <1>6, CrashIs DEF Puts
  <2>2. queue' \in Seq(Worker)
    BY <1>6, CrashIs
  <2> QED BY <1>6, <2>1, <2>2, CrashIs, MadeType DEF Shapes
<1>7. ASSUME NEW w \in Worker, Die(w) \/ Forget(w) \/ Return(w) PROVE Shapes'
  <2>1. CASE Die(w)
    BY <2>1 DEF Die, Shapes
  <2>2. CASE Forget(w)
    BY <2>2 DEF Forget, Shapes
  <2>3. CASE Return(w)
    <3>1. queue' \in Seq(Worker) /\ alive' \subseteq Worker /\ listed' \subseteq Worker
      BY <2>3 DEF Return, Shapes
    <3> QED BY <2>3, <3>1 DEF Return, Shapes
  <2> QED BY <1>7, <2>1, <2>2, <2>3
<1>8. CASE RecoverGateway
  BY <1>8, RecoverGatewayIs DEF Puts, RecoverGateway, Shapes
<1>9. CASE RecoverDies
  BY <1>9, RecoverDiesIs DEF Puts, RecoverDies, Shapes
<1> QED BY <1>1, <1>2, <1>3, <1>4, <1>5, <1>6, <1>7, <1>8, <1>9 DEF RecoveryStep, NodeStep

-----------------------------------------------------------------------------
(* What a request has in hand.                                             *)

Parts == Handled /\ Grows /\ Removes /\ Moving

LEMMA IdleParts == ASSUME req' = Idle PROVE Parts'
BY FS_EmptySet DEF Idle, Parts, Handled, Grows, Removes, Moving, PhasesOf, Growth, Removal, Moves

\* The rows and whether a cluster exists, if nothing of that changes.
Still == con' = con /\ nextid' = nextid /\ nextcid' = nextcid /\ \A id \in Id : Exists(id)' = Exists(id)

LEMMA StillNumbered == ASSUME Shapes, Numbered, Still PROVE Numbered'
<1>1. \A r \in con : r.id \in Id
  BY DEF Shapes, Row
<1> QED BY <1>1 DEF Numbered, Still

LEMMA SameStill == ASSUME UNCHANGED db_vars PROVE Still
BY DEF Still, db_vars, Exists

LEMMA UnmovedParts ==
  ASSUME Hand, Still, defaultsize' = defaultsize, req' = req
  PROVE  Parts' /\ Numbered'
<1>1. /\ con' = con /\ nextid' = nextid /\ nextcid' = nextcid /\ req.more \in SUBSET Id
      /\ \A id \in Id : Exists(id)' = Exists(id)
      /\ \A id : CidsOf(id)' = CidsOf(id) /\ RowsOf(id)' = RowsOf(id)
  BY Values DEF Still, CidsOf, RowsOf, Hand
<1>2. Handled'
  <2>1. Handled
    BY DEF Hand
  <2>2. req.op \notin {"none", "create"} /\ req.id \in Id /\ req.at # "refund" => Exists(req.id)'
    BY <1>1, <2>1 DEF Handled
  <2>3. ASSUME NEW id \in req.more PROVE Exists(id)'
    <3>1. id \in Id
      BY <1>1
    <3>2. Exists(id)
      BY <2>1 DEF Handled
    <3> QED BY <1>1, <3>1, <3>2, Zenon
  <2>4. req.at \in {"drop", "gateway", "start", "stop"} \union Moves => req.todo \subseteq CidsOf(req.id)'
    <3>1. CidsOf(req.id)' = CidsOf(req.id)
      BY <1>1 DEF CidsOf, RowsOf
    <3> QED BY <2>1, <3>1 DEF Handled
  <2> QED BY <2>1, <2>2, <2>3, <2>4 DEF Handled
<1>3. Grows'
  <2>1. Wanted' = Wanted /\ NewCids' = NewCids
    BY <1>1 DEF Wanted, NewCids
  <2>2. req.op = "create" => req.id \in Id
    BY DEF Hand, Handled
  <2> QED BY <1>1, <2>1, <2>2 DEF Hand, Grows
<1>4. Removes'
  BY <1>1 DEF Hand, Removes
<1>5. Moving'
  BY <1>1 DEF Hand, Moving, Trace
<1>6. Numbered'
  BY StillNumbered DEF Hand
<1> QED BY <1>2, <1>3, <1>4, <1>5, <1>6 DEF Parts

\* A request that has just begun.
LEMMA EnterParts ==
  ASSUME Hand, NewRequest
  PROVE  Parts' /\ Numbered'
<1>0. UNCHANGED db_vars /\ Shapes
  BY DEF Hand, NewRequest, CreateEnter, StopAllEnter, ScaleOutEnter, StartEnter, StopEnter, ScaleInEnter,
         DeleteEnter, ReleaseEnter, MigrateEnter
<1>1. /\ Numbered' /\ con' = con /\ status' = status /\ nextid' = nextid /\ Shapes
      /\ \A id : CidsOf(id)' = CidsOf(id) /\ RowsOf(id)' = RowsOf(id) /\ Exists(id)' = Exists(id)
  BY <1>0, SameStill, StillNumbered DEF Hand, db_vars, CidsOf, RowsOf, Exists
<1>2. \A id \in Id : IsFiniteSet(RowsOf(id)) /\ \A r \in RowsOf(id) : r \in con /\ r.id = id
  BY <1>0, Finite DEF RowsOf
<1>3. IsFiniteSet({}) /\ \A x : IsFiniteSet({x})
  BY FS_EmptySet, FS_Singleton, Zenon
<1>4. CASE CreateEnter
  <2>1. nextid \in Id
    BY <1>0, <1>4, VclusterAssumption DEF CreateEnter, Id, Shapes
  <2>2. ~Exists(nextid)
    BY <1>0, <2>1 DEF Hand, Numbered, Shapes
  <2>3. Made("create", nextid, "charged", {}, {}, {}, {}, "none", {})
    BY <1>0, <1>4, CreateEnterIs
  <2> QED BY <1>1, <1>3, <2>1, <2>2, <2>3
          DEF Made, Parts, Handled, Grows, Removes, Moving, PhasesOf, Growth, Removal, Moves
<1>5. CASE StopAllEnter
  <2>1. Made("stopall", 0, "skip", {}, {}, {}, {}, "none", {id \in Id : Exists(id)})
    BY <1>0, <1>5, StopAllEnterIs
  <2>2. 0 \notin Id
    BY DEF Id
  <2> QED BY <1>1, <1>3, <2>1, <2>2
          DEF Made, Parts, Handled, Grows, Removes, Moving, PhasesOf, Growth, Removal, Moves
<1>6. ASSUME NEW id \in Id, ScaleOutEnter(id) PROVE Parts'
  BY <1>0, <1>1, <1>3, <1>6, ScaleOutEnterIs
     DEF ScaleOutEnter, Made, Parts, Handled, Grows, Removes, Moving, PhasesOf, Growth, Removal, Moves
<1>7. ASSUME NEW id \in Id, StartEnter(id) PROVE Parts'
  BY <1>0, <1>1, <1>3, <1>7, StartEnterIs
     DEF StartEnter, Startable, Exists, Made, Parts, Handled, Grows, Removes, Moving, PhasesOf, Growth, Removal, Moves
<1>8. ASSUME NEW id \in Id, StopEnter(id) PROVE Parts'
  BY <1>0, <1>1, <1>3, <1>8, StopEnterIs
     DEF StopEnter, Stoppable, Exists, Made, Parts, Handled, Grows, Removes, Moving, PhasesOf, Growth, Removal, Moves
<1>9. ASSUME NEW id \in Id, NEW k \in Cid, ScaleInEnter(id, k) PROVE Parts'
  <2>1. RowOf(id, k) \in con /\ RowOf(id, k).id = id /\ RowOf(id, k).cid = k /\ k \in CidsOf(id)
    BY <1>9, RowIs DEF ScaleInEnter
  <2>2. Exists(id)
    BY <2>1 DEF Hand, Numbered
  <2>3. Made("scalein", id, "drop", {k}, {RowOf(id, k)}, {}, {}, "none", {})
    BY <1>0, <1>9, ScaleInEnterIs
  <2> DEFINE r == RowOf(id, k)
  <2> HIDE DEF r
  <2>4. Made("scalein", id, "drop", {k}, {r}, {}, {}, "none", {}) /\ r \in con /\ r.id = id /\ r.cid = k
    BY <2>1, <2>3 DEF r
  <2> QED BY <1>1, <1>3, <2>1, <2>2, <2>4
          DEF Made, Parts, Handled, Grows, Removes, Moving, PhasesOf, Growth, Removal, Moves
<1>10. ASSUME NEW id \in Id, DeleteEnter(id) \/ ReleaseEnter(id) PROVE Parts'
  <2>1. Exists(id)
    BY <1>10 DEF DeleteEnter, ReleaseEnter
  <2>2. \A r, q \in RowsOf(id) : r.cid = q.cid => r = q
    BY <1>2 DEF Hand, Numbered
  <2>3. CidsOf(id) = {r.cid : r \in RowsOf(id)} /\ RowsOf(id) \subseteq con
    BY <1>2 DEF CidsOf
  <2>4. \/ Made("delete", id, "check", CidsOf(id), RowsOf(id), {}, {}, "none", {})
        \/ Made("release", id, "check", CidsOf(id), RowsOf(id), {}, {}, "none", {})
    BY <1>0, <1>10, DeleteEnterIs, ReleaseEnterIs
  <2>5. Handled'
    <3>1. IsFiniteSet(RowsOf(id)) /\ \A r \in RowsOf(id) : r.id = id
      BY <1>2
    <3> QED BY <1>1, <3>1, <2>1, <2>2, <2>4 DEF Made, Handled, PhasesOf, Moves
  <2>6. Removes'
    BY <1>1, <1>2, <2>3, <2>4 DEF Made, Removes, Removal
  <2> QED BY <2>4, <2>5, <2>6 DEF Parts, Made, Grows, Moving, Growth
<1>11. ASSUME NEW id \in Id, NEW src \in Worker, NEW dst \in Worker, MigrateEnter(id, src, dst) PROVE Parts'
  <2> DEFINE rows == {r \in RowsOf(id) : r.host = src}
  <2>1. Exists(id) /\ src # dst
    BY <1>11 DEF MigrateEnter
  <2>2. /\ rows \subseteq con /\ {r.cid : r \in rows} \subseteq CidsOf(id)
        /\ \A r \in rows : r.host = src /\ r.id = id /\ r.cid \in CidsOf(id) /\ Trace(r, r)
    BY <1>2 DEF CidsOf, Trace
  <2>3. \A r, q \in rows : r.cid = q.cid => r = q
    BY <1>2 DEF Hand, Numbered
  <2>4. IsFiniteSet(rows)
    <3>1. rows \in SUBSET RowsOf(id)
      OBVIOUS
    <3> QED BY <1>2, <3>1, FS_Subset
  <2>5. \/ Made("migrate", id, "stop", CidsOf(id), rows, {}, {dst}, status[id], {})
        \/ Made("migrate", id, "move", {r.cid : r \in rows}, rows, {}, {dst}, status[id], {})
    BY <1>0, <1>11, MigrateEnterIs
  <2> HIDE DEF rows
  <2>6. Handled'
    BY <1>1, <2>1, <2>2, <2>3, <2>4, <2>5 DEF Made, Handled, PhasesOf, Moves
  <2>7. Moving'
    BY <1>1, <2>1, <2>2, <2>5 DEF Trace, Made, Moving, Moves
  <2> QED BY <2>5, <2>6, <2>7 DEF Parts, Made, Grows, Removes, Removal, Growth
<1> QED BY <1>1, <1>4, <1>5, <1>6, <1>7, <1>8, <1>9, <1>10, <1>11 DEF NewRequest

LEMMA StillReads ==
  ASSUME Hand, Still
  PROVE  /\ \A id : CidsOf(id)' = CidsOf(id) /\ RowsOf(id)' = RowsOf(id)
         /\ \A id \in req.more : Exists(id)' /\ id \in Id
<1>1. req.more \in SUBSET Id
  BY Values DEF Hand
<1>2. \A id \in req.more : Exists(id)
  BY DEF Hand, Handled
<1>3. \A id \in req.more : Exists(id)' /\ id \in Id
  BY <1>1, <1>2 DEF Still
<1>4. \A id : CidsOf(id)' = CidsOf(id) /\ RowsOf(id)' = RowsOf(id)
  BY DEF Still, CidsOf, RowsOf
<1> QED BY <1>3, <1>4 

\* A step that advances within what is in hand.
LEMMA GoesHandled ==
  ASSUME Hand, Still, NEW a, NEW t, Goes(a, t), a \in PhasesOf(req.op), req.id \in Id,
         a \in {"drop", "gateway", "start", "stop"} \union Moves => t \subseteq CidsOf(req.id),
         a \in {"skip", "charged", "failed", "new", "commit", "remove"} => t = {},
         a # "build" => req.ips = {}, req.op \notin {"none", "create"} => Exists(req.id)
  PROVE  Handled'
<1>1. /\ req'.op = req.op /\ req'.id = req.id /\ req'.at = a /\ req'.todo = t /\ req'.rows = req.rows
      /\ req'.ips = req.ips /\ req'.more = req.more
  BY DEF Goes, Made
<1>2. /\ CidsOf(req.id)' = CidsOf(req.id) /\ Exists(req.id)' = Exists(req.id)
      /\ \A id \in req.more : Exists(id)'
  BY <1>1, StillReads DEF CidsOf, RowsOf, Still, Exists
<1>3. /\ req.op # "none" /\ IsFiniteSet(req.rows) /\ \A r \in req.rows : r.id = req.id
      /\ \A r, q \in req.rows : r.cid = q.cid => r = q
      /\ req.op # "stopall" => req.more = {}
      /\ req.op = "stopall" => req.rows = {}
  <2>1. req.op # "none"
    <3>1. Idle.id \notin Id
      BY DEF Idle, Id
    <3> QED BY <3>1 DEF Hand, Handled
  <2> QED BY <2>1 DEF Hand, Handled
<1>4. \A id \in req'.more : Exists(id)'
  BY <1>1, <1>2
<1> QED BY <1>1, <1>2, <1>3, <1>4 DEF Handled

LEMMA StopEndsParts ==
  ASSUME Hand, Still, req.at \in {"stop", "skip"}, NEW causes, StopEnds(causes)
  PROVE  Parts'
<1>0. Shapes /\ req.op \in {"stop", "stopall", "migrate"} /\ req.ips = {}
  <2>1. req.op \in Ops
    BY Values DEF Hand
  <2> QED BY <2>1 DEF Hand, Handled, PhasesOf, Ops, Moves
<1>1. CASE req' = Idle
  BY <1>1, IdleParts
<1>2. CASE req.op = "migrate" /\ Goes("move", {r.cid : r \in req.rows})
  <2> DEFINE t == {r.cid : r \in req.rows}
  <2>1. req.at = "stop" /\ req.id \in Id /\ Exists(req.id) /\ req.rows \subseteq con
    BY <1>0, <1>2 DEF Hand, Handled, PhasesOf, Moves, Moving
  <2>2. t \subseteq CidsOf(req.id)
    BY <2>1 DEF CidsOf, RowsOf, Hand, Handled
  <2> HIDE DEF t
  <2>3. Goes("move", t)
    BY <1>2 DEF t
  <2>4. Handled'
    BY <1>0, <1>2, <2>1, <2>2, <2>3, GoesHandled DEF PhasesOf, Moves
  <2>5. Moving'
    <3>1. /\ \E w \in Worker : req.workers = {w}
          /\ \A q \in req.rows : q.host \notin req.workers /\ \E r \in con : Trace(q, r)
      BY <1>2 DEF Hand, Moving
    <3> QED BY <1>2, <2>1, <2>3, <3>1 DEF Moving, Moves, Goes, Made, Trace, Still, t
  <2> QED BY <1>2, <2>3, <2>4, <2>5 DEF Parts, Goes, Made, Grows, Removes, Growth, Removal
<1>3. ASSUME req.op = "stopall", NEW id \in req.more, NEW t, NEW a,
             a \in {"stop", "skip"}, t = IF a = "stop" THEN CidsOf(id) ELSE {},
             Made("stopall", id, a, t, req.rows, req.ips, req.workers, req.pre, req.more \ {id})
      PROVE  Parts'
  <2>1. /\ id \in Id /\ Exists(id)' /\ CidsOf(id)' = CidsOf(id)
        /\ \A i \in req.more : Exists(i)'
    BY StillReads
  <2>2. req.rows = {} /\ IsFiniteSet({})
    BY <1>3, FS_EmptySet DEF Hand, Handled
  <2>3. /\ req'.op = "stopall" /\ req'.id = id /\ req'.at = a /\ req'.todo = t /\ req'.rows = {}
        /\ req'.ips = {} /\ req'.more = req.more \ {id}
    BY <1>0, <1>3, <2>2 DEF Made
  <2>4. Exists(req.id)' /\ CidsOf(req.id)' = CidsOf(id)
    BY <2>1, <2>3 DEF Exists, CidsOf, RowsOf
  <2>5. \A i \in req'.more : Exists(i)'
    BY <2>1, <2>3
  <2>6. Handled'
    BY <1>3, <2>1, <2>2, <2>3, <2>4, <2>5 DEF Handled, PhasesOf, Moves
  <2> QED BY <2>3, <2>6 DEF Parts, Grows, Removes, Moving, Growth, Removal
<1>4. CASE \E id \in req.more :
             \/ Made("stopall", id, "stop", CidsOf(id), req.rows, req.ips, req.workers, req.pre, req.more \ {id})
             \/ Made("stopall", id, "skip", {}, req.rows, req.ips, req.workers, req.pre, req.more \ {id})
  <2>1. req.op = "stopall"
    BY <1>4 DEF Hand, Handled
  <2>2. PICK id \in req.more :
          \/ Made("stopall", id, "stop", CidsOf(id), req.rows, req.ips, req.workers, req.pre, req.more \ {id})
          \/ Made("stopall", id, "skip", {}, req.rows, req.ips, req.workers, req.pre, req.more \ {id})
    BY <1>4
  <2>3. PICK t, a : /\ a \in {"stop", "skip"} /\ t = IF a = "stop" THEN CidsOf(id) ELSE {}
                    /\ Made("stopall", id, a, t, req.rows, req.ips, req.workers, req.pre, req.more \ {id})
    BY <2>2
  <2> QED BY <1>3, <2>1, <2>2, <2>3
<1> QED BY <1>1, <1>2, <1>4 DEF StopEnds

LEMMA MoveEndsParts ==
  ASSUME Hand, Still, req.at \in Moves, MoveEnds
  PROVE  Parts'
<1>1. CASE req' = Idle
  BY <1>1, IdleParts
<1>2. CASE Goes("gateway", CidsOf(req.id))
  <2>1. req.op = "migrate" /\ req.id \in Id /\ req.ips = {} /\ Exists(req.id)
    BY Migrates DEF Hand, Handled, Moves
  <2> DEFINE t == CidsOf(req.id)
  <2> HIDE DEF t
  <2>2. Goes("gateway", t)
    BY <1>2 DEF t
  <2>3. Handled'
    BY <2>1, <2>2, GoesHandled DEF PhasesOf, Moves, t
  <2>4. Moving'
    <3>1. /\ \E w \in Worker : req.workers = {w}
          /\ \A q \in req.rows : q.host \notin req.workers /\ \E r \in con : Trace(q, r)
      BY <2>1 DEF Hand, Moving
    <3> QED BY <2>1, <2>2, <3>1 DEF Moving, Moves, Goes, Made, Trace, Still
  <2> QED BY <2>1, <2>2, <2>3, <2>4 DEF Parts, Goes, Made, Grows, Removes, Growth, Removal
<1> QED BY <1>1, <1>2 DEF MoveEnds

\* Containers are added to what a request has built.
LEMMA BuildParts ==
  ASSUME Hand, NEW k \in Cid, NEW w \in Worker, Build(k, w)
  PROVE  Parts' /\ Numbered'
<1> DEFINE ip == Min(req.ips)
           row == [id |-> req.id, cid |-> k, host |-> w, ip |-> ip]
           at == IF ~(req.todo = {k}) THEN "build"
                 ELSE IF req.op = "scaleout" /\ req.pre = "running" THEN "new" ELSE "commit"
           todo == req.todo \ {k}
           ips == req.ips \ {ip}
           rows == req.rows \union {row}
<1>1. UNCHANGED db_vars /\ Still
  BY SameStill DEF Build
<1>2. Numbered'
  BY <1>1, StillNumbered DEF Hand
<1>3. req.op \in Growth /\ req.id \in Id /\ req.at = "build" /\ k \in req.todo /\ ip \in req.ips
  BY BuildIs
<1>4. CASE req' = Idle
  BY <1>2, <1>4, IdleParts
<1>5. CASE Made(req.op, req.id, at, todo, rows, ips, req.workers, req.pre, req.more)
  <2>1. /\ IsFiniteSet(rows) /\ IsFiniteSet(todo) /\ IsFiniteSet(ips)
        /\ Cardinality(todo) = Cardinality(req.todo) - 1 /\ Cardinality(ips) = Cardinality(req.ips) - 1
        /\ Cardinality(req.todo) \in Nat /\ Cardinality(req.rows) \in Nat
        /\ Cardinality(req.rows) + Cardinality(req.todo) = Wanted /\ Cardinality(req.ips) = Cardinality(req.todo)
    BY <1>3, Counted, FS_AddElement, FS_RemoveElement
  <2>2. \A r \in req.rows : r.cid \in NewCids \ req.todo
    BY <1>3 DEF Hand, Grows
  <2>3. row \notin req.rows
    BY <1>3, <2>2
  <2>4. Cardinality(rows) = Cardinality(req.rows) + 1
    BY <1>3, <2>1, <2>3, Counted, FS_AddElement
  <2>5. at # "build" => todo = {} /\ ips = {}
    <3>1. CASE req.todo = {k}
      <4>1. todo = {} /\ Cardinality(todo) = 0
        BY <3>1, FS_EmptySet
      <4>2. ips = {}
        BY <2>1, <4>1, FS_EmptySet
      <4> QED BY <4>1, <4>2
    <3> QED BY <3>1
  <2>6. /\ \A r \in rows : r.id = req.id /\ r.cid \in NewCids \ todo
        /\ \A r, q \in rows : r.cid = q.cid => r = q
    <3>1. k \in NewCids
      BY <1>3 DEF Hand, Grows
    <3>2. \A r \in req.rows : r.id = req.id
      BY DEF Hand, Handled
    <3>3. \A r, q \in req.rows : r.cid = q.cid => r = q
      BY DEF Hand, Handled
    <3> QED BY <1>3, <2>2, <3>1, <3>2, <3>3
  <2>7. at \in PhasesOf(req.op) /\ at \in {"build", "new", "commit"} /\ (at = "new" => req.pre = "running")
    BY <1>3 DEF PhasesOf, Growth
  <2>8. todo \subseteq NewCids
    BY <1>3 DEF Hand, Grows
  <2>9. req.op # "stopall" /\ req.op # "none" /\ req.more = {} /\ (req.op # "create" => Exists(req.id))
    BY <1>3 DEF Growth, Hand, Handled
  <2>10. /\ req'.op = req.op /\ req'.id = req.id /\ req'.at = at /\ req'.todo = todo /\ req'.rows = rows
         /\ req'.ips = ips /\ req'.pre = req.pre /\ req'.more = req.more
    BY <1>5 DEF Made
  <2> HIDE DEF at, todo, rows, ips, row, ip
  <2>11. Exists(req.id)' = Exists(req.id) /\ NewCids' = NewCids /\ Wanted' = Wanted
    BY <1>1, <2>10 DEF db_vars, Exists, NewCids, Wanted
  <2>12. Handled'
    BY <1>3, <2>1, <2>5, <2>6, <2>7, <2>9, <2>10, <2>11 DEF Handled, Moves
  <2>13. Grows'
    <3>1. req.op = "create" => ~Exists(req.id) /\ req.id < nextid
      BY <1>3 DEF Hand, Grows
    <3> QED BY <1>1, <1>3, <2>1, <2>4, <2>6, <2>7, <2>8, <2>10, <2>11, <3>1 DEF Grows, db_vars
  <2> QED BY <1>2, <1>3, <2>10, <2>12, <2>13 DEF Parts, Removes, Moving, Growth, Removal
<1>6. CASE Failed
  <2>1. /\ req'.op = req.op /\ req'.id = req.id /\ req'.at = "failed" /\ req'.todo = {} /\ req'.rows = {}
        /\ req'.ips = {} /\ req'.pre = "none" /\ req'.more = {}
    BY <1>6 DEF Failed, Made
  <2>2. Exists(req.id)' = Exists(req.id) /\ nextid' = nextid
    BY <1>1, <2>1 DEF db_vars, Exists
  <2>3. req.op = "create" => ~Exists(req.id) /\ req.id < nextid
    BY <1>3 DEF Hand, Grows
  <2>4. req.op # "create" => Exists(req.id)
    BY <1>3 DEF Growth, Hand, Handled
  <2>5. Handled'
    BY <1>3, <2>1, <2>2, <2>4, FS_EmptySet DEF Handled, PhasesOf, Growth, Moves
  <2>6. Grows'
    BY <2>1, <2>2, <2>3 DEF Grows
  <2> QED BY <1>2, <1>3, <2>1, <2>5, <2>6 DEF Parts, Removes, Moving, Growth, Removal
<1> QED BY <1>4, <1>5, <1>6, BuildIs

\* The steps that write rows.
LEMMA CommitParts ==
  ASSUME Hand, CreateCommit \/ ScaleOutCommit
  PROVE  Parts' /\ Numbered'
<1>1. req' = Idle /\ con' = con \union req.rows /\ nextid' = nextid /\ req.op \in Growth /\ req.at = "commit"
  BY DEF CreateCommit, ScaleOutCommit, Leave, Growth
<1>2. /\ req.id \in Id /\ req.todo = {} /\ \A r \in req.rows : r.id = req.id /\ r.cid \in NewCids
      /\ \A r, q \in req.rows : r.cid = q.cid => r = q
  <2>1. req.id \in Id /\ req.todo = {} /\ \A r \in req.rows : r.id = req.id
    BY <1>1 DEF Hand, Handled, Growth
  <2>2. \A r, q \in req.rows : r.cid = q.cid => r = q
    BY DEF Hand, Handled
  <2>3. \A r \in req.rows : r.cid \in NewCids
    BY <1>1 DEF Hand, Grows
  <2> QED BY <2>1, <2>2, <2>3
<1>3. Shapes /\ Numbered /\ Grows
  BY DEF Hand
<1>4. CASE CreateCommit
  <2>1. /\ status' = [status EXCEPT ![req.id] = "stopped"] /\ nextcid' = [nextcid EXCEPT ![req.id] = defaultsize]
        /\ req.op = "create"
    BY <1>4 DEF CreateCommit
  <2>2. ~Exists(req.id) /\ req.id < nextid
    BY <1>1, <1>3, <2>1 DEF Grows
  <2>3. \A r \in con : r.id # req.id /\ r.id \in Id
    BY <1>3, <2>2 DEF Numbered, Shapes, Row
  <2>4. \A id \in Id : Exists(id)' <=> (id = req.id \/ Exists(id))
    BY <1>2, <1>3, <2>1 DEF Exists, Shapes
  <2>5. \A r \in req.rows : r.cid < defaultsize
    BY <1>2, <1>3, <2>1 DEF NewCids, Shapes
  <2>6. \A r \in con' : Exists(r.id)' /\ r.cid < nextcid'[r.id]
    BY <1>1, <1>2, <1>3, <2>1, <2>3, <2>4, <2>5 DEF Numbered, Shapes
  <2>7. \A r, q \in con' : r.id = q.id /\ r.cid = q.cid => r = q
    BY <1>1, <1>2, <1>3, <2>3 DEF Numbered
  <2>8. \A id \in Id : id >= nextid' => ~Exists(id)'
    <3>1. \A id \in Id : id >= nextid => ~Exists(id)
      BY <1>3 DEF Numbered
    <3>2. nextid \in Nat /\ \A id \in Id : id \in Nat
      BY <1>3 DEF Shapes, Id
    <3> QED BY <1>1, <1>2, <2>2, <2>4, <3>1, <3>2
  <2> QED BY <1>1, <2>6, <2>7, <2>8, IdleParts DEF Numbered
<1>5. CASE ScaleOutCommit
  <2>1. status' = status /\ nextcid' = [nextcid EXCEPT ![req.id] = @ + 1] /\ req.op = "scaleout"
    BY <1>5 DEF ScaleOutCommit
  <2>2. Exists(req.id)
    BY <1>1, <1>2, <2>1 DEF Hand, Handled
  <2>3. \A r \in con : r.id \in Id /\ r.cid \in Nat
    BY <1>3 DEF Shapes, Row, Cid
  <2>4. \A r \in req.rows : r.cid = nextcid[req.id]
    BY <1>2, <2>1 DEF NewCids
  <2>5. \A id \in Id : nextcid[id] \in Nat /\ nextcid'[id] = IF id = req.id THEN nextcid[id] + 1 ELSE nextcid[id]
    BY <1>2, <1>3, <2>1 DEF Shapes
  <2>6. \A r \in con : r.cid < nextcid[r.id]
    BY <1>3 DEF Numbered
  <2>7. \A r \in con' : Exists(r.id)' /\ r.cid < nextcid'[r.id]
    <3>1. \A r \in con : Exists(r.id)
      BY <1>3 DEF Numbered
    <3> QED BY <1>1, <1>2, <2>1, <2>2, <2>3, <2>4, <2>5, <2>6, <3>1 DEF Exists
  <2>8. \A r, q \in con' : r.id = q.id /\ r.cid = q.cid => r = q
    <3>1. \A r, q \in con : r.id = q.id /\ r.cid = q.cid => r = q
      BY <1>3 DEF Numbered
    <3>2. \A r \in con : \A q \in req.rows : ~(r.id = q.id /\ r.cid = q.cid)
      BY <1>2, <2>3, <2>4, <2>5, <2>6
    <3> QED BY <1>1, <1>2, <3>1, <3>2
  <2> QED BY <1>1, <1>3, <2>1, <2>7, <2>8, IdleParts DEF Numbered, Exists
<1> QED BY <1>4, <1>5

\* The steps that remove rows.
LEMMA RemoveParts ==
  ASSUME Hand, ScaleInCommit \/ DeleteCommit
  PROVE  Parts' /\ Numbered'
<1>1. /\ con' = con \ req.rows /\ nextid' = nextid /\ nextcid' = nextcid /\ req.at = "remove" /\ req.op \in Removal
      /\ defaultsize' = defaultsize
  BY DEF ScaleInCommit, DeleteCommit, Removal
<1>2. Shapes /\ Numbered /\ Removes /\ req.id \in Id
  BY <1>1 DEF Hand, Handled, Removal
<1>3. CASE ScaleInCommit
  <2>1. req' = Idle /\ status' = status
    BY <1>3 DEF ScaleInCommit, Leave
  <2> QED BY <1>1, <1>2, <2>1, IdleParts DEF Numbered, Exists
<1>4. CASE DeleteCommit
  <2>1. status' = [status EXCEPT ![req.id] = "none"] /\ req.op \in {"delete", "release"}
    BY <1>4 DEF DeleteCommit
  <2>2. \A r \in con' : r.id # req.id /\ r \in con /\ r.id \in Id
    BY <1>1, <1>2, <2>1 DEF Removes, RowsOf, Shapes, Row
  <2>3. \A id \in Id : Exists(id)' => Exists(id)
    BY <1>2, <2>1 DEF Exists, Shapes
  <2>4. \A id \in Id : id # req.id => Exists(id)' = Exists(id)
    BY <1>2, <2>1 DEF Exists, Shapes
  <2>5. Numbered'
    <3>1. \A r \in con' : Exists(r.id)' /\ r.cid < nextcid'[r.id]
      BY <1>1, <1>2, <2>2, <2>4 DEF Numbered
    <3>2. \A r, q \in con' : r.id = q.id /\ r.cid = q.cid => r = q
      BY <1>2, <2>2 DEF Numbered
    <3>3. \A id \in Id : id >= nextid' => ~Exists(id)'
      BY <1>1, <1>2, <2>3 DEF Numbered
    <3> QED BY <3>1, <3>2, <3>3 DEF Numbered
  <2>6. CASE req' = Idle
    BY <2>5, <2>6, IdleParts
  <2>7. CASE req.op = "release" /\ Goes("refund", req.todo)
    <3>1. /\ req'.op = "release" /\ req'.id = req.id /\ req'.at = "refund" /\ req'.rows = req.rows
          /\ req'.ips = req.ips /\ req'.more = req.more /\ req'.todo = req.todo
      BY <2>7 DEF Goes, Made
    <3>2. /\ req.ips = {} /\ req.more = {} /\ IsFiniteSet(req.rows) /\ \A r \in req.rows : r.id = req.id
          /\ \A r, q \in req.rows : r.cid = q.cid => r = q
      <4>1. req.ips = {} /\ req.more = {}
        BY <1>1, <2>7 DEF Hand, Handled
      <4>2. \A r, q \in req.rows : r.cid = q.cid => r = q
        BY DEF Hand, Handled
      <4> QED BY <4>1, <4>2 DEF Hand, Handled
    <3>3. Handled'
      BY <1>2, <3>1, <3>2 DEF Handled, PhasesOf, Moves
    <3> QED BY <2>5, <3>1, <3>3 DEF Parts, Grows, Removes, Moving, Growth
  <2> QED BY <1>4, <2>6, <2>7, StepIs
<1> QED BY <1>3, <1>4

\* The row of a container that was moved.
LEMMA MoveCommitParts ==
  ASSUME Hand, NEW k \in Cid, MoveCommit(k)
  PROVE  Parts' /\ Numbered'
<1>1. PICK r \in req.rows, q \in Row :
        /\ r.cid = k /\ r \in con
        /\ Trace(r, q) /\ q.host \in req.workers /\ con' = (con \ {r}) \union {q}
  BY MoveCommitIs
<1>2. /\ Shapes /\ Numbered /\ Handled /\ Moving
      /\ status' = status /\ nextid' = nextid /\ nextcid' = nextcid /\ defaultsize' = defaultsize
  BY DEF Hand, MoveCommit
<1>3. /\ req.at = "built" /\ k \in req.todo /\ k = Min(req.todo) /\ req.id \in Id /\ req.op = "migrate"
      /\ Goes("moved", req.todo)
  BY MoveCommitIs, Migrates DEF Moves
<1>4. /\ req'.op = req.op /\ req'.id = req.id /\ req'.at = "moved" /\ req'.rows = req.rows /\ req'.workers = req.workers
      /\ req'.ips = req.ips /\ req'.more = req.more /\ req'.todo = req.todo
  BY <1>3 DEF Goes, Made
<1>5. Numbered'
  <2>1. \A p \in con' : \E o \in con : p.id = o.id /\ p.cid = o.cid
    BY <1>1 DEF Trace
  <2>2. \A p \in con' : Exists(p.id)' /\ p.cid < nextcid'[p.id]
    BY <1>2, <2>1 DEF Numbered, Exists
  <2>3. \A p, o \in con' : p.id = o.id /\ p.cid = o.cid => p = o
    BY <1>1, <1>2 DEF Numbered, Trace
  <2> QED BY <1>2, <2>2, <2>3 DEF Numbered, Exists
<1>6. CidsOf(req.id)' = CidsOf(req.id) /\ Exists(req.id)'
  <2>1. Exists(req.id)
    BY <1>2, <1>3 DEF Handled
  <2>2. \A c : (\E p \in con : p.id = req.id /\ p.cid = c) <=> (\E p \in con' : p.id = req.id /\ p.cid = c)
    BY <1>1 DEF Trace
  <2> QED BY <1>2, <1>4, <2>1, <2>2 DEF CidsOf, RowsOf, Exists
<1>7. Handled'
  <2>1. /\ req.todo \subseteq CidsOf(req.id) /\ req.ips = {} /\ req.more = {}
        /\ IsFiniteSet(req.rows) /\ \A p \in req.rows : p.id = req.id
    BY <1>2, <1>3 DEF Handled, Moves
  <2>2. \A p, o \in req.rows : p.cid = o.cid => p = o
    BY <1>2 DEF Handled
  <2> QED BY <1>3, <1>4, <1>6, <2>1, <2>2 DEF Handled, PhasesOf, Moves
<1>8. Moving'
  <2>1. \A p \in req.rows : p.host \notin req.workers /\ \E o \in con : Trace(p, o)
    BY <1>2, <1>3 DEF Moving
  <2>2. \A p \in req.rows : \E o \in con' : Trace(p, o)
    BY <1>1, <2>1 DEF Trace
  <2>3. /\ \E w \in Worker : req.workers = {w}
        /\ req.todo \subseteq {p.cid : p \in req.rows} /\ req.todo # {}
        /\ \A p \in req.rows : p.cid \in req.todo => p \in con
    BY <1>2, <1>3 DEF Moving, Moves
  <2>4. ASSUME NEW p \in req.rows, p.cid \in req.todo
        PROVE  IF p.cid = Min(req.todo) THEN \E o \in con' : Trace(p, o) /\ o.host \in req.workers
                                        ELSE p \in con'
    <3>1. CASE p.cid = k
      <4>1. p = r
        BY <1>1, <1>2, <3>1 DEF Handled
      <4> QED BY <1>1, <1>3, <3>1, <4>1
    <3>2. CASE p.cid # k
      BY <1>1, <1>3, <2>3, <2>4, <3>2
    <3> QED BY <3>1, <3>2
  <2> QED BY <1>3, <1>4, <2>1, <2>2, <2>3, <2>4 DEF Moving, Moves, Trace
<1> QED BY <1>3, <1>4, <1>5, <1>7, <1>8 DEF Parts, Grows, Removes, Growth, Removal

LEMMA RequestParts ==
  ASSUME Hand, RequestStep
  PROVE  Parts' /\ Numbered'
<1>0. Shapes /\ Handled /\ Numbered /\ req.op \in Ops
  BY Values DEF Hand
<1>1. ASSUME Refuse \/ GatewayFails \/ Refund PROVE Parts' /\ Numbered'
  <2>1. req' = Idle /\ UNCHANGED db_vars
    BY <1>1, StepIs DEF Refuse, GatewayFails, Refund
  <2> QED BY <1>0, <2>1, IdleParts, SameStill, StillNumbered
<1>2. CASE Reserve
  <2>1. /\ req.op \in Growth /\ req.id \in Id /\ req.at = "charged"
        /\ NewCids \in SUBSET Nat /\ Cardinality(NewCids) = Wanted
    BY <1>2, ReserveIs
  <2>11. /\ UNCHANGED <<defaultsize, status, con, nextcid>>
         /\ nextid' = IF req.op = "create" /\ req' # Idle THEN nextid + 1 ELSE nextid
    BY <1>2 DEF Reserve
  <2>12. CASE req' = Idle
    <3>1. Still
      BY <2>11, <2>12 DEF Still, Exists
    <3> QED BY <1>0, <2>12, <3>1, IdleParts, StillNumbered
  <2> SUFFICES ASSUME req' # Idle PROVE Parts' /\ Numbered'
    BY <2>12
  <2>2. PICK ips : /\ Cardinality(ips) = Wanted
                   /\ Made(req.op, req.id, "build", NewCids, {}, ips, listed, status[req.id], req.more)
    BY <1>2, ReserveIs
  <2>3. /\ UNCHANGED <<defaultsize, status, con, nextcid>>
        /\ nextid' = IF req.op = "create" THEN nextid + 1 ELSE nextid
    BY <2>11
  <2>4. /\ req'.op = req.op /\ req'.id = req.id /\ req'.at = "build" /\ req'.todo = NewCids /\ req'.rows = {}
        /\ req'.ips = ips /\ req'.more = req.more
    BY <2>2 DEF Made
  <2>5. Numbered'
    <3>1. nextid \in Nat /\ nextid' \in Nat /\ nextid' >= nextid
      BY <1>0, <2>3 DEF Shapes
    <3>2. \A id \in Id : id \in Nat /\ (id >= nextid => ~Exists(id))
      BY <1>0 DEF Numbered, Id
    <3>3. \A id \in Id : id >= nextid' => ~Exists(id)'
      BY <2>3, <3>1, <3>2 DEF Exists
    <3> QED BY <1>0, <2>3, <3>3 DEF Numbered, Exists
  <2>6. Exists(req.id)' = Exists(req.id) /\ NewCids' = NewCids /\ Wanted' = Wanted
    BY <2>3, <2>4 DEF Exists, NewCids, Wanted
  <2>7. req.op # "stopall" /\ req.op # "none" /\ req.more = {} /\ (req.op # "create" => Exists(req.id))
    BY <1>0, <2>1 DEF Growth, Handled
  <2>8. IsFiniteSet({}) /\ Cardinality({}) = 0 /\ Wanted \in Nat
    BY <1>0, FS_EmptySet DEF Wanted, Shapes
  <2>9. Handled'
    BY <2>1, <2>4, <2>6, <2>7, <2>8 DEF Handled, PhasesOf, Growth, Moves
  <2>10. Grows'
    <3>1. req.op = "create" => ~Exists(req.id) /\ req.id < nextid'
      BY <1>0, <2>1, <2>3 DEF Hand, Grows, Shapes
    <3> QED BY <2>1, <2>2, <2>4, <2>6, <2>8, <3>1 DEF Grows
  <2> QED BY <2>1, <2>4, <2>5, <2>9, <2>10 DEF Parts, Removes, Moving, Growth, Removal
<1>3. CASE StartNew
  <2>1. UNCHANGED db_vars
    BY <1>3 DEF StartNew
  <2>2. Still /\ Numbered'
    BY <1>0, <2>1, SameStill, StillNumbered
  <2>3. CASE req' = Idle
    BY <2>2, <2>3, IdleParts
  <2>4. CASE Goes("commit", req.todo) /\ req.op = "scaleout" /\ req.id \in Id /\ req.at = "new"
    <3>1. req.todo = {} /\ req.ips = {} /\ Exists(req.id)
      BY <1>0, <2>4 DEF Handled
    <3>2. Handled'
      BY <2>2, <2>4, <3>1, GoesHandled DEF PhasesOf, Moves
    <3>3. Grows'
      <4>1. /\ req'.op = req.op /\ req'.id = req.id /\ req'.at = "commit" /\ req'.todo = req.todo
            /\ req'.rows = req.rows /\ req'.ips = req.ips
        BY <2>4 DEF Goes, Made
      <4>2. NewCids' = NewCids /\ Wanted' = Wanted
        BY <2>1, <4>1 DEF NewCids, Wanted, db_vars
      <4>3. /\ req.todo \subseteq NewCids /\ \A r \in req.rows : r.cid \in NewCids \ req.todo
            /\ Cardinality(req.rows) + Cardinality(req.todo) = Wanted
            /\ Cardinality(req.ips) = Cardinality(req.todo)
        BY <2>4 DEF Hand, Grows, Growth
      <4> QED BY <2>4, <4>1, <4>2, <4>3 DEF Grows
    <3> QED BY <2>2, <2>4, <3>2, <3>3 DEF Parts, Goes, Made, Removes, Moving, Removal
  <2> QED BY <1>3, <2>3, <2>4, StartNewIs
<1>4. CASE DeleteCheck
  <2>1. UNCHANGED db_vars /\ req.op \in {"delete", "release"} /\ req.at = "check"
    BY <1>4, StepIs DEF DeleteCheck
  <2>2. Still /\ Numbered'
    BY <1>0, <2>1, SameStill, StillNumbered
  <2>3. CASE req' = Idle
    BY <2>2, <2>3, IdleParts
  <2>4. CASE Goes("drop", req.todo)
    <3>1. req.id \in Id /\ req.ips = {} /\ Exists(req.id)
      BY <1>0, <2>1 DEF Handled
    <3>2. /\ req.rows \subseteq con /\ RowsOf(req.id) \subseteq req.rows /\ req.todo \subseteq {r.cid : r \in req.rows}
      BY <2>1 DEF Hand, Removes, Removal
    <3>3. req.todo \subseteq CidsOf(req.id)
      BY <1>0, <3>2 DEF CidsOf, RowsOf, Handled
    <3>4. Handled'
      BY <2>1, <2>2, <2>4, <3>1, <3>3, GoesHandled DEF PhasesOf, Moves
    <3>5. Removes'
      BY <2>1, <2>4, <3>2 DEF Removes, Removal, Goes, Made, db_vars, RowsOf
    <3> QED BY <2>1, <2>2, <2>4, <3>4, <3>5 DEF Parts, Goes, Made, Grows, Moving, Growth
  <2> QED BY <1>4, <2>3, <2>4, StepIs
<1>5. CASE ReleaseAddresses
  <2>6. UNCHANGED db_vars
    BY <1>5 DEF ReleaseAddresses
  <2>2. Still /\ Numbered'
    BY <1>0, <2>6, SameStill, StillNumbered
  <2>7. CASE req' = Idle
    BY <2>2, <2>7, IdleParts
  <2> SUFFICES ASSUME req' # Idle PROVE Parts' /\ Numbered'
    BY <2>7
  <2>1. UNCHANGED db_vars /\ req.op \in Removal /\ req.at = "drop" /\ req.todo = {} /\ Goes("remove", req.todo)
    BY <1>5, <2>6, StepIs
  <2>3. req.id \in Id /\ req.ips = {} /\ Exists(req.id)
    BY <1>0, <2>1 DEF Handled, Removal
  <2>4. Handled'
    BY <2>1, <2>2, <2>3, GoesHandled DEF PhasesOf, Moves, Removal
  <2>5. Removes'
    BY <2>1 DEF Hand, Removes, Removal, Goes, Made, db_vars, RowsOf
  <2> QED BY <2>1, <2>2, <2>4, <2>5 DEF Parts, Goes, Made, Grows, Moving, Growth, Removal
<1>6. CASE StartCommit
  <2>1. req' = Idle /\ status' = [status EXCEPT ![req.id] = "running"] /\ req.at = "start"
        /\ con' = con /\ nextid' = nextid /\ nextcid' = nextcid
    BY <1>6 DEF StartCommit, Leave
  <2>2. req.id \in Id /\ Exists(req.id)
    BY <1>0, <2>1 DEF Handled, PhasesOf, Ops, Moves
  <2>3. Still
    BY <1>0, <2>1, <2>2 DEF Still, Exists, Shapes
  <2> QED BY <1>0, <2>1, <2>3, IdleParts, StillNumbered
<1>7. CASE StopSkip
  <2>1. UNCHANGED db_vars /\ req.at = "skip" /\ StopEnds({})
    BY <1>7, StepIs DEF StopSkip
  <2> QED BY <1>0, <2>1, SameStill, StillNumbered, StopEndsParts
<1>8. CASE StopCommit
  <2>1. req.at = "stop" /\ StopEnds({}) /\ status' = [status EXCEPT ![req.id] = "stopped"]
        /\ con' = con /\ nextid' = nextid /\ nextcid' = nextcid
    BY <1>8, StepIs DEF StopCommit
  <2>2. req.id \in Id /\ Exists(req.id)
    BY <1>0, <2>1 DEF Handled, PhasesOf, Ops, Moves
  <2>3. Still
    BY <1>0, <2>1, <2>2 DEF Still, Exists, Shapes
  <2> QED BY <1>0, <2>1, <2>3, StopEndsParts, StillNumbered
<1>9. CASE MoveEnd
  <2>1. UNCHANGED db_vars /\ req.at = "move" /\ MoveEnds
    BY <1>9, StepIs DEF MoveEnd
  <2> QED BY <1>0, <2>1, SameStill, StillNumbered, MoveEndsParts DEF Moves
<1>10. ASSUME NEW k \in Cid, Drop(k) PROVE Parts' /\ Numbered'
  <2>1. UNCHANGED db_vars /\ req.op \in Removal /\ req.at = "drop" /\ req.id \in Id
    BY <1>10, DropIs DEF Drop
  <2>2. Still /\ Numbered'
    BY <1>0, <2>1, SameStill, StillNumbered
  <2>3. CASE req' = Idle
    BY <2>2, <2>3, IdleParts
  <2>4. CASE Goes("drop", req.todo \ {k})
    <3>1. req.ips = {} /\ Exists(req.id) /\ req.todo \subseteq CidsOf(req.id)
      BY <1>0, <2>1 DEF Handled, Removal
    <3> DEFINE t == req.todo \ {k}
    <3>2. t \subseteq CidsOf(req.id) /\ t \subseteq req.todo
      BY <3>1
    <3> HIDE DEF t
    <3>3. Goes("drop", t)
      BY <2>4 DEF t
    <3>4. Handled'
      BY <2>1, <2>2, <3>1, <3>2, <3>3, GoesHandled DEF PhasesOf, Moves, Removal
    <3>5. Removes'
      BY <2>1, <3>2, <3>3 DEF Hand, Removes, Removal, Goes, Made, db_vars, RowsOf
    <3> QED BY <2>1, <2>2, <3>3, <3>4, <3>5 DEF Parts, Goes, Made, Grows, Moving, Growth, Removal
  <2> QED BY <1>10, <2>3, <2>4, DropIs
<1>11. ASSUME NEW k \in Nat,
              StartGateway \/ (k \in Cid /\ (StartBox(k) \/ StopBox(k) \/ MoveSave(k) \/ MoveBuild(k) \/ MoveDrop(k)))
       PROVE  Parts' /\ Numbered'
  <2>1. UNCHANGED db_vars
    BY <1>11 DEF StartGateway, StartBox, StopBox, MoveSave, MoveBuild, MoveDrop
  <2>2. Still /\ Numbered'
    BY <1>0, <2>1, SameStill, StillNumbered
  <2>3. CASE req' = Idle
    BY <2>2, <2>3, IdleParts
  <2>4. CASE MoveEnds /\ req.at \in Moves
    BY <2>2, <2>4, MoveEndsParts
  <2>5. CASE req.at = "stop" /\ \E causes : StopEnds(causes)
    BY <2>2, <2>5, StopEndsParts
  <2>6. ASSUME NEW a, NEW t, Goes(a, t), t \subseteq req.todo, req.id \in Id,
               \/ req.at \in {"gateway", "start"} /\ a = "start"
               \/ req.at = "stop" /\ a = "stop"
               \/ req.at = "move" /\ a = "saved" /\ t # {}
               \/ req.at = "saved" /\ a = "built" /\ t # {}
               \/ req.at = "moved" /\ a = "move" /\ t = req.todo \ {Min(req.todo)}
        PROVE  Parts'
    <3>1. req.ips = {} /\ Exists(req.id) /\ t \subseteq CidsOf(req.id) /\ a \in PhasesOf(req.op)
      <4>1. req.ips = {} /\ Exists(req.id)
        BY <1>0, <2>6 DEF Handled, PhasesOf, Ops, Moves
      <4>2. t \subseteq CidsOf(req.id)
        BY <1>0, <2>6 DEF Handled, Moves
      <4>3. a \in PhasesOf(req.op)
        BY <1>0, <2>6 DEF Handled, PhasesOf, Ops, Moves
      <4> QED BY <4>1, <4>2, <4>3
    <3>2. Handled'
      BY <2>2, <2>6, <3>1, GoesHandled DEF Moves
    <3>3. /\ req'.op = req.op /\ req'.at = a /\ req'.todo = t /\ req'.rows = req.rows /\ req'.workers = req.workers
          /\ con' = con
      BY <2>2, <2>6 DEF Goes, Made, Still
    <3>4. req.op \notin Growth \union Removal
      BY <1>0, <2>6 DEF Handled, PhasesOf, Ops, Growth, Removal, Moves
    <3>5. Moving'
      <4>1. CASE req.op = "migrate"
        <5>1. /\ \E w \in Worker : req.workers = {w}
              /\ \A q \in req.rows : q.host \notin req.workers /\ \E r \in con : Trace(q, r)
          BY <4>1 DEF Hand, Moving
        <5>2. a \in Moves => t \subseteq {q.cid : q \in req.rows}
          BY <2>6, <4>1 DEF Hand, Moving, Moves
        <5>3. a = "stop" => req.rows \subseteq con
          BY <2>6, <4>1 DEF Hand, Moving
        <5>4. a \in {"move", "saved", "built"} => \A q \in req.rows : q.cid \in t => q \in con
          BY <2>6, <4>1 DEF Hand, Moving
        <5> QED BY <2>6, <3>3, <4>1, <5>1, <5>2, <5>3, <5>4 DEF Moving, Moves, Trace
      <4> QED BY <3>3, <4>1 DEF Moving
    <3> QED BY <3>2, <3>3, <3>4, <3>5 DEF Parts, Grows, Removes
  <2>7. CASE k \in Cid /\ StartBox(k)
    BY <2>2, <2>3, <2>6, <2>7, StartBoxIs
  <2>8. CASE k \in Cid /\ StopBox(k)
    BY <2>2, <2>3, <2>5, <2>6, <2>8, StopBoxIs
  <2>9. CASE k \in Cid /\ MoveSave(k)
    BY <2>2, <2>3, <2>4, <2>6, <2>9, MoveSaveIs DEF Moves
  <2>10. CASE k \in Cid /\ MoveBuild(k)
    BY <2>2, <2>4, <2>6, <2>10, MoveBuildIs DEF Moves
  <2>11. CASE k \in Cid /\ MoveDrop(k)
    BY <2>2, <2>3, <2>6, <2>11, MoveDropIs
  <2>12. CASE StartGateway
    <3>1. req.id \in Id
      BY <1>0, <2>12, StepIs DEF Handled, PhasesOf, Ops, Moves
    <3> QED BY <2>2, <2>3, <2>6, <2>12, <3>1, StepIs
  <2> QED BY <1>11, <2>7, <2>8, <2>9, <2>10, <2>11, <2>12
<1>12. CASE StartGateway
  BY <1>11, <1>12
<1>13. ASSUME NEW k \in Cid, StartBox(k) \/ StopBox(k) \/ MoveSave(k) \/ MoveBuild(k) \/ MoveDrop(k)
       PROVE  Parts' /\ Numbered'
  <2>1. k \in Nat
    BY DEF Cid
  <2> QED BY <1>11, <1>13, <2>1
<1> QED BY <1>1, <1>2, <1>3, <1>4, <1>5, <1>6, <1>7, <1>8, <1>9, <1>10, <1>12, <1>13,
           BuildParts, CommitParts, RemoveParts, MoveCommitParts DEF RequestStep

\* The recovery and the nodes change neither rows nor whether a cluster exists.
LEMMA OtherStill ==
  ASSUME Shapes, RecoveryStep \/ NodeStep
  PROVE  Still /\ defaultsize' = defaultsize /\ con' = con /\ (req' = req \/ req' = Idle)
<1>1. ASSUME UNCHANGED db_vars, req' = req \/ req' = Idle
      PROVE  Still /\ defaultsize' = defaultsize /\ con' = con /\ (req' = req \/ req' = Idle)
  BY <1>1, SameStill DEF db_vars
<1>2. CASE RecoverMark
  <2>1. /\ con' = con /\ nextid' = nextid /\ nextcid' = nextcid /\ defaultsize' = defaultsize /\ req' = req
        /\ \/ status' = status
           \/ /\ Exists(rec.id)
              /\ \/ status' = [status EXCEPT ![rec.id] = "running"]
                 \/ status' = [status EXCEPT ![rec.id] = "error"]
    BY <1>2 DEF RecoverMark
  <2>2. status \in [Id -> Status]
    BY DEF Shapes
  <2>3. \A id \in Id : Exists(id)' <=> Exists(id)
    BY <2>1, <2>2 DEF Exists
  <2>4. \A id \in Id : Exists(id)' = Exists(id)
    BY <2>3 DEF Exists
  <2> QED BY <2>1, <2>4 DEF Still
<1>3. CASE RecoverTake \/ RecoverGateway \/ RecoverDies \/ RecoverBox \/ RecoverPorts \/ \E id \in Id : RecoverPick(id)
  BY <1>1, <1>3 DEF RecoverTake, RecoverGateway, RecoverDies, RecoverBox, RecoverPorts, RecoverPick
<1>4. CASE Crash
  BY <1>1, <1>4 DEF Crash
<1>5. CASE \E w \in Worker : Die(w) \/ Forget(w) \/ Return(w)
  BY <1>1, <1>5 DEF Die, Forget, Return
<1> QED BY <1>2, <1>3, <1>4, <1>5 DEF RecoveryStep, NodeStep

LEMMA RestoresStep ==
  ASSUME Shapes, Restores, [Next]_vars
  PROVE  Restores'
<1>1. CASE rec' = rec
  BY <1>1 DEF Restores
<1>2. CASE rec' = Resting
  BY <1>2 DEF Restores, Resting
<1>3. ASSUME NEW todo, NEW boot, Puts(todo, 0, {}, "pick", boot) PROVE Restores'
  BY <1>3 DEF Puts, Restores
<1>4. CASE NewRequest \/ UNCHANGED vars \/ \E w \in Worker : Die(w) \/ Forget(w) \/ Return(w)
  BY <1>1, <1>4 DEF NewRequest, CreateEnter, StopAllEnter, ScaleOutEnter, StartEnter, StopEnter, ScaleInEnter,
     DeleteEnter, ReleaseEnter, MigrateEnter, vars, Die, Forget, Return
<1>11. CASE rec' = Dead(rec)
  BY <1>11, DeadPuts DEF Restores, Puts
<1>12. CASE RequestStep
  BY <1>1, <1>11, <1>12, RequestEnders DEF Enders
<1>13. CASE RecoverGateway
  BY <1>13, RecoverGatewayIs DEF Restores, Puts
<1>14. CASE RecoverDies
  BY <1>11, <1>14 DEF RecoverDies
<1>5. CASE RecoverTake
  BY <1>2, <1>3, <1>5, TakeIs
<1>6. CASE Crash
  BY <1>2, <1>3, <1>6, CrashIs
<1>7. CASE RecoverMark
  BY <1>2, <1>3, <1>7, MarkIs
<1>8. ASSUME NEW id \in Id, RecoverPick(id) PROVE Restores'
  <2>1. CASE Puts(rec.todo \ {id}, id, rec.rows, "good", rec.boot)
    BY <1>8, <2>1, PickIs DEF Restores, Puts
  <2>2. CASE Puts(rec.todo \ {id}, id, RowsOf(id), IF RowsOf(id) = {} THEN "bad" ELSE "gateway", rec.boot)
    BY <2>2 DEF Restores, Puts, RowsOf
  <2>3. CASE rec' = Resting \/ Puts(rec.todo \ {id}, 0, {}, "pick", rec.boot)
    BY <1>2, <1>3, <2>3
  <2> QED BY <1>8, <2>1, <2>2, <2>3, PickIs
<1>9. CASE RecoverBox
  <2>1. /\ rec.at = "box"
        /\ \/ \E r \in rec.rows : Puts(rec.todo, rec.id, rec.rows \ {r}, "box", rec.boot)
           \/ Puts(rec.todo, rec.id, rec.rows, "bad", rec.boot)
    BY <1>9, BoxIs
  <2> QED BY <2>1 DEF Restores, Puts
<1>10. CASE RecoverPorts
  <2>1. /\ rec.at = "box"
        /\ \/ Puts(rec.todo, rec.id, {}, "good", rec.boot)
           \/ Puts(rec.todo, rec.id, {}, "bad", rec.boot)
           \/ Puts({}, 0, {}, "dead", rec.boot)
    BY <1>10, PortsIs
  <2> QED BY <2>1 DEF Restores, Puts
<1> QED BY <1>4, <1>5, <1>6, <1>7, <1>8, <1>9, <1>10, <1>12, <1>13, <1>14 DEF Next, RecoveryStep, NodeStep

HandInv == Hand /\ Restores

LEMMA HandInit == Init => HandInv
<1> SUFFICES ASSUME Init PROVE HandInv
  OBVIOUS
<1>1. req = Idle /\ rec = Resting /\ con = {} /\ \A id \in Id : ~Exists(id)
  BY DEF Init, Exists
<1>2. Shapes
  <2>1. box \in [Id \X Cid \X Worker -> {"none", "stopped", "running"}]
    BY DEF Init
  <2>2. Resting \in Recoveries
    BY VclusterAssumption DEF Resting, Recoveries, Tasks
  <2> QED BY <2>1, <2>2, IdleType, FS_EmptySet, VclusterAssumption DEF Init, Shapes, Status
<1>3. Handled /\ Grows /\ Removes /\ Moving
  BY <1>1, FS_EmptySet DEF Idle, Handled, Grows, Removes, Moving, PhasesOf, Growth, Removal, Moves
<1>4. Numbered /\ Restores
  BY <1>1 DEF Numbered, Restores, Resting
<1> QED BY <1>2, <1>3, <1>4 DEF HandInv, Hand

LEMMA HandStep == HandInv /\ [Next]_vars => HandInv'
<1> SUFFICES ASSUME HandInv, [Next]_vars PROVE HandInv'
  OBVIOUS
<1>1. Hand /\ Shapes /\ Restores
  BY DEF HandInv, Hand
<1>2. Restores'
  BY <1>1, RestoresStep
<1>3. CASE NewRequest
  BY <1>1, <1>2, <1>3, EnterShapes, EnterParts DEF HandInv, Hand, Parts
<1>4. CASE RequestStep
  BY <1>1, <1>2, <1>4, RequestShapes, RequestParts DEF HandInv, Hand, Parts
<1>5. CASE RecoveryStep \/ NodeStep
  <2>1. Still /\ defaultsize' = defaultsize /\ (req' = req \/ req' = Idle)
    BY <1>1, <1>5, OtherStill
  <2>2. Parts' /\ Numbered'
    BY <1>1, <2>1, UnmovedParts, IdleParts, StillNumbered DEF Hand
  <2> QED BY <1>1, <1>2, <1>5, <2>2, OtherShapes DEF HandInv, Hand, Parts
<1>6. CASE UNCHANGED vars
  <2>1. Still /\ defaultsize' = defaultsize /\ req' = req
    BY <1>6 DEF vars, Still, Exists
  <2>2. Parts' /\ Numbered'
    BY <1>1, <2>1, UnmovedParts
  <2>3. Shapes'
    BY <1>1, <1>6 DEF vars, Shapes
  <2> QED BY <1>2, <2>2, <2>3 DEF HandInv, Hand, Parts
<1> QED BY <1>3, <1>4, <1>5, <1>6 DEF Next

\* What a request has in hand is what its phase says, identities are given out
\* once, and the recovery thread's rows are those of its cluster.
THEOREM HandCorrect == Spec => []HandInv
BY HandInit, HandStep, PTL DEF Spec

-----------------------------------------------------------------------------
(* Kinds of steps.                                                         *)

\* A request begins.
Begins ==
  /\ req = Idle /\ UNCHANGED <<db_vars, box, free, node_vars, rec>> /\ req'.ips = {}
  /\ req'.op \in Ops \ {"none"}
  /\ req'.op \in Growth => req'.rows = {}
  /\ req'.at \in {"charged", "drop", "check", "gateway", "stop", "skip", "move"}
  /\ mishap' = mishap \union Overlap(req', rec)

LEMMA EnterBegins == ASSUME Shapes, NewRequest PROVE Begins
<1>1. CASE CreateEnter
  BY <1>1, CreateEnterIs DEF CreateEnter, Enter, Made, Begins, Ops
<1>2. CASE StopAllEnter
  BY <1>2, StopAllEnterIs DEF StopAllEnter, Enter, Made, Begins, Growth, Ops
<1>3. ASSUME NEW id \in Id, ScaleOutEnter(id) PROVE Begins
  BY <1>3, ScaleOutEnterIs DEF ScaleOutEnter, Enter, Made, Begins, Ops
<1>4. ASSUME NEW id \in Id, StartEnter(id) PROVE Begins
  BY <1>4, StartEnterIs DEF StartEnter, Enter, Made, Begins, Growth, Ops
<1>5. ASSUME NEW id \in Id, StopEnter(id) PROVE Begins
  BY <1>5, StopEnterIs DEF StopEnter, Enter, Made, Begins, Growth, Ops
<1>6. ASSUME NEW id \in Id, NEW k \in Cid, ScaleInEnter(id, k) PROVE Begins
  BY <1>6, ScaleInEnterIs DEF ScaleInEnter, Enter, Made, Begins, Growth, Ops
<1>7. ASSUME NEW id \in Id, DeleteEnter(id) PROVE Begins
  BY <1>7, DeleteEnterIs DEF DeleteEnter, Enter, Made, Begins, Growth, Ops
<1>8. ASSUME NEW id \in Id, ReleaseEnter(id) PROVE Begins
  BY <1>8, ReleaseEnterIs DEF ReleaseEnter, Enter, Made, Begins, Growth, Ops
<1>9. ASSUME NEW id \in Id, NEW src \in Worker, NEW dst \in Worker, MigrateEnter(id, src, dst) PROVE Begins
  BY <1>9, MigrateEnterIs DEF MigrateEnter, Enter, Made, Begins, Growth, Ops
<1> QED BY <1>1, <1>2, <1>3, <1>4, <1>5, <1>6, <1>7, <1>8, <1>9 DEF NewRequest

\* A request that starts, stops or moves containers works on boxes and status.
Plain ==
  /\ con' = con /\ free' = free /\ usage' = usage /\ defaultsize' = defaultsize
  /\ req.op \notin Growth \union Removal
  /\ req' = Idle \/ (req'.op = req.op /\ req'.rows = req.rows /\ req'.ips = req.ips)

LEMMA PlainSteps ==
  ASSUME Hand,
         \/ StartGateway \/ StartCommit \/ StopSkip \/ StopCommit \/ MoveEnd
         \/ \E k \in Cid : StartBox(k) \/ StopBox(k) \/ MoveSave(k) \/ MoveBuild(k) \/ MoveDrop(k)
  PROVE  Plain
<1>1. con' = con /\ free' = free /\ usage' = usage /\ defaultsize' = defaultsize
  <2>1. StartGateway \/ (\E k \in Cid : MoveSave(k)) => free' = free
    BY StepIs, MoveSaveIs
  <2> QED BY <2>1 DEF StartGateway, StartCommit, StopSkip, StopCommit, MoveEnd, StartBox, StopBox, MoveSave, MoveBuild,
             MoveDrop, db_vars
<1>2. req.at \in {"gateway", "start", "skip", "stop"} \union Moves
  BY DEF StartGateway, StartCommit, StopSkip, StopCommit, MoveEnd, StartBox, StopBox, MoveSave, MoveBuild, MoveDrop,
         Moves
<1>3. req.op \notin Growth \union Removal
  <2>1. Handled /\ req.op \in Ops
    BY Values DEF Hand
  <2> QED BY <1>2, <2>1 DEF Handled, PhasesOf, Ops, Growth, Removal, Moves
<1>4. ASSUME req' = Idle PROVE Plain
  BY <1>1, <1>3, <1>4 DEF Plain
<1>5. ASSUME NEW a, NEW t, Goes(a, t) PROVE Plain
  BY <1>1, <1>3, <1>5 DEF Plain, Goes, Made
<1>6. ASSUME MoveEnds PROVE Plain
  BY <1>4, <1>5, <1>6 DEF MoveEnds
<1>7. ASSUME NEW causes, StopEnds(causes) PROVE Plain
  <2>1. ASSUME NEW id \in Id, NEW a, NEW t,
               Made("stopall", id, a, t, req.rows, req.ips, req.workers, req.pre, req.more \ {id}),
               req.op = "stopall"
        PROVE  Plain
    BY <1>1, <1>3, <2>1 DEF Plain, Made
  <2>2. req.more \in SUBSET Id
    BY Values DEF Hand
  <2> QED BY <1>4, <1>5, <1>7, <2>1, <2>2 DEF StopEnds
<1>8. CASE StartCommit
  BY <1>4, <1>8 DEF StartCommit, Leave
<1>9. CASE StopSkip \/ StopCommit \/ MoveEnd
  BY <1>6, <1>7, <1>9, StepIs
<1>10. ASSUME NEW k \in Cid, StartBox(k) PROVE Plain
  BY <1>4, <1>5, <1>10, StartBoxIs
<1>11. ASSUME NEW k \in Cid, StopBox(k) PROVE Plain
  BY <1>4, <1>5, <1>7, <1>11, StopBoxIs
<1>12. ASSUME NEW k \in Cid, MoveSave(k) PROVE Plain
  BY <1>4, <1>5, <1>6, <1>12, MoveSaveIs
<1>13. ASSUME NEW k \in Cid, MoveBuild(k) PROVE Plain
  BY <1>5, <1>6, <1>13, MoveBuildIs
<1>14. ASSUME NEW k \in Cid, MoveDrop(k) PROVE Plain
  BY <1>4, <1>5, <1>14, MoveDropIs
<1>15. CASE StartGateway
  BY <1>4, <1>5, <1>15, StepIs
<1> QED BY <1>8, <1>9, <1>10, <1>11, <1>12, <1>13, <1>14, <1>15

\* The others of a step that is the recovery's or a worker's.
Aside == UNCHANGED <<con, free, usage, defaultsize, req>>

LEMMA AsideSteps ==
  ASSUME RecoveryStep \/ RecoverDies \/ (\E w \in Worker : Die(w) \/ Forget(w) \/ Return(w)) \/ UNCHANGED vars
  PROVE  Aside
BY DEF RecoveryStep, RecoverTake, RecoverGateway, RecoverDies, RecoverBox, RecoverPorts, RecoverMark, RecoverPick, Die, Forget, Return, vars,
   db_vars, Aside

\* Trouble is not forgotten.
LEMMA Grown == ASSUME Hand, [Next]_vars PROVE mishap \subseteq mishap'
<1>1. CASE NewRequest
  BY <1>1, EnterBegins DEF Begins, Hand
<1>2. ASSUME NEW causes, StopEnds(causes) PROVE mishap \subseteq mishap'
  BY <1>2 DEF StopEnds
<1>3. ASSUME MoveEnds PROVE mishap \subseteq mishap'
  BY <1>3 DEF MoveEnds
<1>4. CASE Refuse \/ GatewayFails \/ DeleteCheck \/ ReleaseAddresses \/ DeleteCommit \/ Refund \/ StartGateway
  BY <1>4, StepIs
<1>5. CASE StopSkip \/ StopCommit \/ MoveEnd
  BY <1>2, <1>3, <1>5, StepIs
<1>6. CASE Reserve
  BY <1>6, ReserveIs
<1>7. CASE StartNew
  BY <1>7, StartNewIs
<1>8. CASE CreateCommit \/ ScaleOutCommit \/ ScaleInCommit \/ StartCommit
  BY <1>8 DEF CreateCommit, ScaleOutCommit, ScaleInCommit, StartCommit, Leave
<1>9. ASSUME NEW k \in Cid, \/ Drop(k) \/ StartBox(k) \/ StopBox(k)
                            \/ MoveSave(k) \/ MoveBuild(k) \/ MoveCommit(k) \/ MoveDrop(k)
      PROVE  mishap \subseteq mishap'
  <2>1. CASE Drop(k)
    BY <2>1, DropIs
  <2>2. CASE StartBox(k)
    BY <2>2, StartBoxIs
  <2>3. CASE StopBox(k)
    BY <1>2, <2>3, StopBoxIs
  <2>4. CASE MoveSave(k) \/ MoveBuild(k)
    BY <1>3, <2>4, MoveSaveIs, MoveBuildIs
  <2>5. CASE MoveCommit(k) \/ MoveDrop(k)
    BY <2>5, MoveCommitIs, MoveDropIs
  <2> QED BY <1>9, <2>1, <2>2, <2>3, <2>4, <2>5
<1>10. ASSUME NEW k \in Cid, NEW w \in Worker, Build(k, w) PROVE mishap \subseteq mishap'
  BY <1>10, BuildIs
<1>11. CASE RecoveryStep
  BY <1>11 DEF RecoveryStep, RecoverTake, RecoverGateway, RecoverBox, RecoverPorts, RecoverMark, RecoverPick, Recover
<1>12. CASE NodeStep
  BY <1>12 DEF NodeStep, Crash, RecoverDies, Die, Forget, Return
<1>13. CASE UNCHANGED vars
  BY <1>13 DEF vars
<1> QED BY <1>1, <1>4, <1>5, <1>6, <1>7, <1>8, <1>9, <1>10, <1>11, <1>12, <1>13 DEF Next, RequestStep

\* A change to the pool that the recovery does not cross is made.
LEMMA Smooth ==
  ASSUME Hand, "crossed" \notin mishap'
  PROVE  /\ Reserve => \E ips \in SUBSET free :
              /\ Cardinality(ips) = Wanted /\ free' = free \ ips /\ rec' = rec
              /\ Made(req.op, req.id, "build", NewCids, {}, ips, listed, status[req.id], req.more)
         /\ ReleaseAddresses =>
              Goes("remove", req.todo) /\ free' = free \union {r.ip : r \in req.rows} /\ rec' = rec
         /\ DeleteCommit =>
              free' = (IF \E i \in Id \ {req.id} : Exists(i) THEN free ELSE Address) /\ rec' = rec
<1>1. ASSUME Reserve
      PROVE  \E ips \in SUBSET free :
               /\ Cardinality(ips) = Wanted /\ free' = free \ ips /\ rec' = rec
               /\ Made(req.op, req.id, "build", NewCids, {}, ips, listed, status[req.id], req.more)
  BY <1>1, ReserveIs
<1>2. ASSUME ReleaseAddresses
      PROVE  Goes("remove", req.todo) /\ free' = free \union {r.ip : r \in req.rows} /\ rec' = rec
  BY <1>2, StepIs
<1>3. ASSUME DeleteCommit
      PROVE  free' = (IF \E i \in Id \ {req.id} : Exists(i) THEN free ELSE Address) /\ rec' = rec
  BY <1>3, StepIs
<1> QED BY <1>1, <1>2, <1>3

-----------------------------------------------------------------------------
(* Addresses.                                                              *)

\* What a removal gives back is in the pool before the rows go.
Back == req.at \in {"remove", "refund"} => \A r \in req.rows : r.ip \in free
Returned == Unless({"crossed"}, Back)

\* No address has two owners; those of a growing request are its own.
Once ==
  /\ \A r, q \in con : r.ip = q.ip => r = q
  /\ \A r \in con : r.ip \in free => req.at = "remove" /\ r \in req.rows
  /\ req.op \in Growth =>
       /\ \A r, q \in req.rows : r.ip = q.ip => r = q
       /\ \A r \in req.rows : r.ip \notin free \union req.ips /\ \A q \in con : q.ip # r.ip
       /\ req.ips \cap free = {} /\ \A q \in con : q.ip \notin req.ips
Single == Unless({"torn", "crossed"}, Once)

\* The steps of a request that grows its cluster.
GrowthStep ==
  \/ Refuse \/ Reserve \/ GatewayFails \/ StartNew \/ CreateCommit \/ ScaleOutCommit
  \/ \E k \in Cid, w \in Worker : Build(k, w)

LEMMA Growing ==
  ASSUME Hand, GrowthStep
  PROVE  req.op \in Growth /\ (req' = Idle \/ req'.op = req.op) /\ con \subseteq con' /\ defaultsize' = defaultsize
<1>1. CASE Refuse \/ GatewayFails
  BY <1>1, StepIs DEF Refuse, GatewayFails, Growth, db_vars
<1>2. CASE Reserve
  BY <1>2, ReserveIs DEF Reserve, Made
<1>3. CASE StartNew
  BY <1>3, StartNewIs DEF StartNew, Goes, Made, Growth, db_vars
<1>4. CASE CreateCommit \/ ScaleOutCommit
  BY <1>4 DEF CreateCommit, ScaleOutCommit, Leave, Growth
<1>5. ASSUME NEW k \in Cid, NEW w \in Worker, Build(k, w)
      PROVE  req.op \in Growth /\ (req' = Idle \/ req'.op = req.op) /\ con \subseteq con' /\ defaultsize' = defaultsize
  <2>1. con' = con /\ defaultsize' = defaultsize
    BY <1>5 DEF Build, db_vars
  <2> QED BY <1>5, <2>1, BuildIs DEF Made, Failed
<1> QED BY <1>1, <1>2, <1>3, <1>4, <1>5 DEF GrowthStep

LEMMA StepCases ==
  ASSUME Hand, [Next]_vars
  PROVE  \/ Begins \/ Plain \/ Aside \/ GrowthStep \/ Crash
         \/ DeleteCheck \/ ReleaseAddresses \/ ScaleInCommit \/ DeleteCommit \/ Refund
         \/ \E k \in Cid : Drop(k) \/ MoveCommit(k)
BY EnterBegins, PlainSteps, AsideSteps DEF Next, RequestStep, NodeStep, RecoveryStep, GrowthStep, Hand

LEMMA IdleIs == Idle.op = "none" /\ Idle.at = "" /\ Idle.rows = {} /\ Idle.ips = {} /\ Idle.id = 0 /\ Idle.todo = {}
BY DEF Idle

LEMMA ReturnedStep ==
  ASSUME Hand, Hand', Returned, [Next]_vars
  PROVE  Returned'
<1> SUFFICES ASSUME "crossed" \notin mishap' PROVE Back'
  BY DEF Returned, Unless
<1>0. Back
  BY Grown DEF Returned, Unless
<1>1. CASE req'.op \notin Removal
  <2>1. Handled' /\ req'.op \in Ops
    BY DEF Hand, Shapes, Requests
  <2> QED BY <1>1, <2>1 DEF Handled, PhasesOf, Ops, Removal, Back, Moves
<1>2. CASE req' = Idle
  BY <1>2, IdleIs DEF Back
<1>3. CASE Begins
  BY <1>3 DEF Begins, Back
<1>4. CASE Plain
  BY <1>1, <1>2, <1>4 DEF Plain
<1>5. CASE Aside
  BY <1>0, <1>5 DEF Aside, Back
<1>6. CASE GrowthStep
  BY <1>1, <1>2, <1>6, Growing DEF Growth, Removal
<1>7. CASE Crash
  BY <1>2, <1>7 DEF Crash
<1>8. CASE DeleteCheck \/ Refund
  BY <1>0, <1>2, <1>8, StepIs DEF Goes, Made, Back
<1>9. CASE ReleaseAddresses
  <2>1. req'.rows = req.rows /\ free' = free \union {r.ip : r \in req.rows}
    BY <1>9, Smooth DEF Goes, Made
  <2> QED BY <2>1 DEF Back
<1>10. CASE ScaleInCommit
  BY <1>2, <1>10 DEF ScaleInCommit, Leave
<1>11. CASE DeleteCommit
  <2>1. req.at = "remove" /\ (free' = free \/ free' = Address)
    BY <1>11, Smooth DEF DeleteCommit
  <2>2. ASSUME req'.rows = req.rows PROVE Back'
    <3>1. \A r \in req.rows : r.ip \in Address
      BY Values DEF Hand, Row
    <3> QED BY <1>0, <2>1, <2>2, <3>1 DEF Back
  <2> QED BY <1>2, <1>11, <2>2, StepIs DEF Goes, Made
<1>12. ASSUME NEW k \in Cid, Drop(k) PROVE Back'
  BY <1>0, <1>2, <1>12, DropIs DEF Goes, Made, Back
<1>13. ASSUME NEW k \in Cid, MoveCommit(k) PROVE Back'
  BY <1>13, MoveCommitIs DEF Goes, Made, Back
<1> QED BY <1>3, <1>4, <1>5, <1>6, <1>7, <1>8, <1>9, <1>10, <1>11, <1>12, <1>13, StepCases

LEMMA SinglePlain ==
  ASSUME Once, con' = con, free' = free, req.at # "remove",
         \/ req'.op \notin Growth
         \/ req'.rows = {} /\ req'.ips = {}
         \/ req.op \in Growth /\ req'.rows = req.rows /\ req'.ips \subseteq req.ips
  PROVE  Once'
BY DEF Once

LEMMA SingleIdle ==
  ASSUME Once, con' = con, free' \subseteq free, req.at # "remove", req' = Idle
  PROVE  Once'
BY IdleIs DEF Once, Growth

LEMMA SingleBuild ==
  ASSUME Hand, Once, "crossed" \notin mishap', NEW k \in Cid, NEW w \in Worker, Build(k, w)
  PROVE  Once'
<1> DEFINE ip == Min(req.ips)
           row == [id |-> req.id, cid |-> k, host |-> w, ip |-> ip]
<1>1. /\ req.op \in Growth /\ req.at = "build" /\ ip \in req.ips /\ row.ip = ip
  BY BuildIs
<1>2. con' = con
  BY DEF Build, db_vars
<1>3. \A q \in con : q.ip # ip
  BY <1>1 DEF Once
<1>4. CASE /\ req'.op = req.op /\ req'.rows = req.rows \union {row} /\ req'.ips = req.ips \ {ip} /\ free' = free
  <2> HIDE DEF row
  <2>1. /\ \A r, q \in req.rows : r.ip = q.ip => r = q
        /\ \A r \in req.rows : r.ip \notin free \union req.ips /\ \A q \in con : q.ip # r.ip
        /\ req.ips \cap free = {} /\ \A q \in con : q.ip \notin req.ips
    BY <1>1 DEF Once
  <2>2. \A r, q \in req'.rows : r.ip = q.ip => r = q
    BY <1>1, <1>4, <2>1
  <2>3. \A r \in req'.rows : r.ip \notin free' \union req'.ips
    BY <1>1, <1>4, <2>1
  <2>4. \A r \in req'.rows : \A q \in con' : q.ip # r.ip
    BY <1>1, <1>2, <1>3, <1>4, <2>1
  <2>5. req'.ips \cap free' = {} /\ \A q \in con' : q.ip \notin req'.ips
    BY <1>2, <1>4, <2>1
  <2>6. \A r \in con : r.ip \notin free
    BY <1>1 DEF Once
  <2>7. \A r, q \in con : r.ip = q.ip => r = q
    BY DEF Once
  <2> QED BY <1>2, <1>4, <2>2, <2>3, <2>4, <2>5, <2>6, <2>7 DEF Once
<1>5. CASE Failed /\ free' = free \union {ip}
  <2> HIDE DEF ip
  <2>1. req'.rows = {} /\ req'.ips = {} /\ \A r \in con : r.ip \notin free'
    BY <1>1, <1>3, <1>5 DEF Once, Failed, Made
  <2> QED BY <1>2, <2>1 DEF Once
<1>6. CASE req' = Idle /\ free' = free
  BY <1>1, <1>2, <1>6, SingleIdle
<1> QED BY <1>4, <1>5, <1>6, BuildIs DEF Made

LEMMA SingleCommit ==
  ASSUME Hand, Once, CreateCommit \/ ScaleOutCommit
  PROVE  Once'
<1>1. /\ req.op \in Growth /\ req.at = "commit" /\ req' = Idle /\ con' = con \union req.rows /\ free' = free
  BY DEF CreateCommit, ScaleOutCommit, Leave, Growth
<1>2. /\ \A r, q \in con : r.ip = q.ip => r = q
      /\ \A r \in con : r.ip \notin free
  BY <1>1 DEF Once
<1>3. /\ \A r, q \in req.rows : r.ip = q.ip => r = q
      /\ \A r \in req.rows : r.ip \notin free
      /\ \A r \in req.rows : \A q \in con : q.ip # r.ip
  BY <1>1 DEF Once
<1>4. \A r, q \in con' : r.ip = q.ip => r = q
  BY <1>1, <1>2, <1>3
<1>5. \A r \in con' : r.ip \notin free'
  BY <1>1, <1>2, <1>3
<1> QED BY <1>1, <1>4, <1>5, IdleIs DEF Once, Growth

LEMMA SingleRemove ==
  ASSUME Hand, Once, "crossed" \notin mishap', ReleaseAddresses \/ ScaleInCommit \/ DeleteCommit
  PROVE  Once'
<1>1. CASE ReleaseAddresses
  <2>1. /\ req.at = "drop" /\ req'.at = "remove" /\ req'.rows = req.rows /\ req'.op \notin Growth
        /\ con' = con /\ free' = free \union {r.ip : r \in req.rows} /\ req.rows \subseteq con
    BY <1>1, StepIs, Smooth DEF ReleaseAddresses, Goes, Made, Growth, Removal, db_vars, Hand, Removes
  <2>2. \A r, q \in con : r.ip = q.ip => r = q
    BY DEF Once
  <2>3. \A r \in con : r.ip \notin free
    BY <2>1 DEF Once
  <2>4. \A r \in con : r.ip \in free' => r \in req.rows
    BY <2>1, <2>2, <2>3
  <2> QED BY <2>1, <2>2, <2>4 DEF Once
<1>2. ASSUME con' = con \ req.rows, req.at = "remove", req'.op \notin Growth, free' = free \/ con' = {}
      PROVE  Once'
  BY <1>2 DEF Once
<1>3. CASE ScaleInCommit
  BY <1>2, <1>3, IdleIs DEF ScaleInCommit, Leave, Growth
<1>4. CASE DeleteCommit
  <2>1. req.at = "remove" /\ req.op \in {"delete", "release"} /\ con' = con \ req.rows
        /\ free' = IF \E i \in Id \ {req.id} : Exists(i) THEN free ELSE Address
    BY <1>4, Smooth DEF DeleteCommit
  <2>2. req'.op \notin Growth
    BY <1>4, StepIs, IdleIs DEF Goes, Made, Growth
  <2>3. ASSUME ~ \E i \in Id \ {req.id} : Exists(i) PROVE con' = {}
    <3>1. RowsOf(req.id) \subseteq req.rows
      BY <2>1 DEF Hand, Removes, Removal
    <3>2. \A r \in con : r.id \in Id /\ Exists(r.id)
      BY DEF Hand, Shapes, Numbered, Row
    <3> QED BY <2>1, <2>3, <3>1, <3>2 DEF RowsOf
  <2> QED BY <1>2, <2>1, <2>2, <2>3
<1> QED BY <1>1, <1>3, <1>4

LEMMA SingleMove ==
  ASSUME Hand, Once, NEW k \in Cid, MoveCommit(k)
  PROVE  Once'
<1>1. PICK r, q \in Row : /\ r \in con /\ q.ip = r.ip /\ con' = (con \ {r}) \union {q}
  BY MoveCommitIs, Values DEF Trace, Hand
<1>2. req.at = "built" /\ req'.op = req.op /\ free' = free /\ req.op \notin Growth
  BY MoveCommitIs, Migrates DEF MoveCommit, Goes, Made, Growth, Moves
<1>3. /\ \A a, b \in con : a.ip = b.ip => a = b
      /\ \A a \in con : a.ip \notin free
  BY <1>2 DEF Once
<1>4. \A a, b \in con' : a.ip = b.ip => a = b
  BY <1>1, <1>3
<1>5. \A a \in con' : a.ip \notin free'
  BY <1>1, <1>2, <1>3
<1> QED BY <1>2, <1>4, <1>5 DEF Once

LEMMA SingleStep ==
  ASSUME Hand, Hand', Single, [Next]_vars
  PROVE  Single'
<1> SUFFICES ASSUME "torn" \notin mishap', "crossed" \notin mishap' PROVE Once'
  BY DEF Single, Unless
<1>0. Once /\ "torn" \notin mishap
  BY Grown DEF Single, Unless
<1>1. Handled /\ req.op \in Ops /\ Handled' /\ req'.op \in Ops
  BY DEF Hand, Shapes, Requests
<1>2. ASSUME req.op \notin Removal PROVE req.at # "remove"
  BY <1>1, <1>2 DEF Handled, PhasesOf, Ops, Removal, Moves
<1>3. CASE Begins
  BY <1>0, <1>2, <1>3, IdleIs, SinglePlain DEF Begins, db_vars, Removal
<1>4. CASE Plain
  BY <1>0, <1>2, <1>4, IdleIs, SinglePlain DEF Plain, Growth
<1>5. CASE Aside
  BY <1>0, <1>5 DEF Aside, Once
<1>6. CASE GrowthStep
  <2>1. req.op \in Growth /\ req.at # "remove"
    BY <1>2, <1>6, Growing DEF Growth, Removal
  <2>2. CASE Refuse \/ GatewayFails
    BY <1>0, <2>1, <2>2, StepIs, SingleIdle DEF Refuse, GatewayFails, db_vars
  <2>3. CASE Reserve
    <3>1. PICK ips \in SUBSET free : /\ free' = free \ ips /\ req'.rows = {} /\ req'.ips = ips
      BY <2>3, Smooth DEF Made
    <3>2. con' = con
      BY <2>3 DEF Reserve
    <3>3. \A r \in con : r.ip \notin free
      BY <1>0, <2>1 DEF Once
    <3>4. \A r, q \in con : r.ip = q.ip => r = q
      BY <1>0 DEF Once
    <3> QED BY <3>1, <3>2, <3>3, <3>4 DEF Once
  <2>4. CASE StartNew
    <3>1. con' = con /\ free' = free
      BY <2>4 DEF StartNew, db_vars
    <3> QED BY <1>0, <2>1, <2>4, <3>1, StartNewIs, SingleIdle, SinglePlain DEF Goes, Made
  <2>5. CASE CreateCommit \/ ScaleOutCommit
    BY <1>0, <2>5, SingleCommit
  <2>6. CASE \E k \in Cid, w \in Worker : Build(k, w)
    BY <1>0, <2>6, SingleBuild
  <2> QED BY <1>6, <2>2, <2>3, <2>4, <2>5, <2>6 DEF GrowthStep
<1>7. CASE Crash
  <2>1. req.at # "remove" /\ req' = Idle /\ con' = con /\ free' = free
    BY <1>7, CrashIs DEF Crash, db_vars, Hand
  <2> QED BY <1>0, <2>1, SingleIdle
<1>8. CASE DeleteCheck \/ Refund \/ \E k \in Cid : Drop(k)
  <2>1. con' = con /\ free' = free
    BY <1>8 DEF DeleteCheck, Refund, Drop, db_vars
  <2>2. req.at # "remove" /\ req.op \notin Growth /\ (req' = Idle \/ req'.op = req.op)
    BY <1>8, StepIs, DropIs DEF Goes, Made, Growth, Removal
  <2> QED BY <1>0, <2>1, <2>2, SingleIdle, SinglePlain
<1>9. CASE ReleaseAddresses \/ ScaleInCommit \/ DeleteCommit
  BY <1>0, <1>9, SingleRemove
<1>10. ASSUME NEW k \in Cid, MoveCommit(k) PROVE Once'
  BY <1>0, <1>10, SingleMove
<1> QED BY <1>3, <1>4, <1>5, <1>6, <1>7, <1>8, <1>9, <1>10, StepCases

LEMMA PoolInit == Init => Returned /\ Single
BY IdleIs DEF Init, Returned, Back, Single, Once, Unless, Growth

\* No two containers have one address, and the pool holds the address of a
\* container only between a removal's two writes, unless the master was
\* restarted right there, or a request and the recovery used the pool at a time
\* (httprest.py, vclustermgr.py, network.py).
THEOREM AddressesSafe == Spec => []AddressOnce
<1> DEFINE Inv == HandInv /\ Returned /\ Single
<1>1. Init => Inv
  BY HandInit, PoolInit
<1>2. Inv /\ [Next]_vars => Inv'
  BY HandStep, ReturnedStep, SingleStep DEF HandInv
<1>3. Inv => AddressOnce
  BY DEF Single, AddressOnce, Unless, Once
<1> QED BY <1>1, <1>2, <1>3, PTL DEF Spec

\* An address that is not free is a container's, or one of a growing request.
Accounted ==
  Unless({"kept", "cut_create", "raised", "crossed", "crash"},
    Address \ free \subseteq {r.ip : r \in con}
                             \union (IF req.op \in Growth THEN {r.ip : r \in req.rows} \union req.ips ELSE {}))

\* The same without the operator, as the steps need it.
Owned == \A a \in Address \ free :
           \/ \E r \in con : r.ip = a
           \/ req.op \in Growth /\ (a \in req.ips \/ \E r \in req.rows : r.ip = a)

LEMMA OwnedIs == Accounted <=> Unless({"kept", "cut_create", "raised", "crossed", "crash"}, Owned)
BY DEF Accounted, Owned, Unless

\* The first container of a cluster failed: its one address was all there was.
LEMMA OnlyOne ==
  ASSUME Hand, NEW k, req.op \in Growth, req.at = "build", req.todo = {k}
  PROVE  req.ips = {Min(req.ips)}
<1>1. Cardinality(req.ips) = Cardinality(req.todo) /\ IsFiniteSet(req.ips)
  BY Counted
<1>2. Cardinality({k}) = 1
  BY FS_Singleton, Zenon
<1>3. \E a : req.ips = {a}
  <2>1. Cardinality(req.ips) = 1
    BY <1>1, <1>2
  <2> QED BY <1>1, <2>1, FS_Singleton
<1>4. req.ips \in SUBSET Nat
  BY Values DEF Hand, Address
<1> QED BY <1>3, <1>4, Least

LEMMA OwnedStep ==
  ASSUME Hand, Hand', Returned, Accounted, [Next]_vars
  PROVE  Accounted'
<1> DEFINE C == {"kept", "cut_create", "raised", "crossed", "crash"}
<1> SUFFICES ASSUME C \cap mishap' = {} PROVE Owned'
  BY OwnedIs DEF Accounted, Owned, Unless
<1>0. Owned /\ C \cap mishap = {}
  BY Grown, OwnedIs DEF Unless
<1>a. "crossed" \notin mishap' /\ "raised" \notin mishap' /\ "cut_create" \notin mishap'
  OBVIOUS
<1>b. Back
  BY Grown, <1>a DEF Returned, Unless
<1> HIDE DEF C
<1>1. Handled /\ req.op \in Ops
  BY Values DEF Hand
<1>2. ASSUME con' = con, free \subseteq free', req.op \notin Growth PROVE Owned'
  BY <1>0, <1>2 DEF Owned
<1>3. CASE Begins
  BY <1>2, <1>3, IdleIs DEF Begins, db_vars, Growth
<1>4. CASE Plain
  BY <1>2, <1>4 DEF Plain
<1>5. CASE Aside
  BY <1>0, <1>5 DEF Aside, Owned
<1>6. CASE GrowthStep
  <2>1. req.op \in Growth
    BY <1>6, Growing
  <2>2. CASE Refuse
    <3>1. req.rows = {} /\ req.ips = {} /\ con' = con /\ free' = free
      BY <1>1, <2>1, <2>2, StepIs DEF Refuse, Handled, Hand, Grows, db_vars
    <3> QED BY <1>0, <3>1 DEF Owned
  <2>3. CASE Reserve
    <3>1. PICK ips : free' = free \ ips /\ req'.op = req.op /\ req'.ips = ips
      BY <1>a, <2>3, Smooth DEF Made
    <3>2. con' = con /\ req.ips = {} /\ req.rows = {}
      BY <1>1, <2>1, <2>3, ReserveIs DEF Reserve, Handled, Hand, Grows
    <3> QED BY <1>0, <2>1, <3>1, <3>2 DEF Owned
  <2>4. CASE GatewayFails
    <3>1. "kept" \in mishap'
      BY <2>4, StepIs
    <3> QED BY <3>1 DEF C
  <2>5. CASE StartNew
    <3>1. con' = con /\ free' = free
      BY <2>5 DEF StartNew, db_vars
    <3>2. "raised" \notin mishap'
      BY DEF C
    <3>3. req'.op = req.op /\ req'.ips = req.ips /\ req'.rows = req.rows
      BY <2>5, <3>2, StartNewIs DEF Goes, Made
    <3> QED BY <1>0, <3>1, <3>3 DEF Owned
  <2>6. CASE CreateCommit \/ ScaleOutCommit
    <3>1. con' = con \union req.rows /\ free' = free /\ req.ips = {}
      BY <1>1, <2>6 DEF CreateCommit, ScaleOutCommit, Handled
    <3> QED BY <1>0, <3>1 DEF Owned
  <2>7. ASSUME NEW k \in Cid, NEW w \in Worker, Build(k, w) PROVE Owned'
    <3> DEFINE ip == Min(req.ips)
               row == [id |-> req.id, cid |-> k, host |-> w, ip |-> ip]
    <3>1. con' = con /\ req.at = "build"
      BY <2>7 DEF Build, db_vars
    <3>2. CASE req'.op = req.op /\ req'.rows = req.rows \union {row} /\ req'.ips = req.ips \ {ip} /\ free' = free
      <4>1. row.ip = ip
        OBVIOUS
      <4> HIDE DEF row, ip
      <4> QED BY <1>0, <2>1, <3>1, <3>2, <4>1 DEF Owned
    <3>3. CASE free' = free \union {ip} /\ req.rows = {} /\ req.todo = {k}
      <4>1. req.ips = {ip}
        BY <2>1, <3>1, <3>3, OnlyOne
      <4> HIDE DEF ip
      <4> QED BY <1>0, <3>1, <3>3, <4>1 DEF Owned
    <3> QED BY <1>a, <2>7, <3>2, <3>3, BuildIs DEF Made
  <2> QED BY <1>6, <2>2, <2>3, <2>4, <2>5, <2>6, <2>7 DEF GrowthStep
<1>7. CASE Crash
  <2>1. con' = con /\ free' = free /\ req = Idle
    BY <1>7 DEF Crash, db_vars, C
  <2> QED BY <1>2, <2>1, IdleIs DEF Growth
<1>8. CASE DeleteCheck \/ Refund \/ ReleaseAddresses \/ \E k \in Cid : Drop(k)
  <2>1. con' = con /\ free \subseteq free'
    BY <1>a, <1>8, Smooth DEF DeleteCheck, Refund, Drop, ReleaseAddresses, db_vars
  <2>2. req.op \notin Growth
    BY <1>8, StepIs, DropIs DEF Growth, Removal
  <2> QED BY <1>2, <2>1, <2>2
<1>9. CASE ScaleInCommit \/ DeleteCommit
  <2>1. /\ con' = con \ req.rows /\ (free' = free \/ free' = Address) /\ req.at = "remove"
        /\ req.op \notin Growth
    BY <1>a, <1>9, Smooth DEF ScaleInCommit, DeleteCommit, Growth
  <2>2. \A r \in req.rows : r.ip \in free
    BY <1>b, <2>1 DEF Back
  <2> QED BY <1>0, <2>1, <2>2 DEF Owned
<1>10. ASSUME NEW k \in Cid, MoveCommit(k) PROVE Owned'
  <2>1. PICK r, q \in Row : q.ip = r.ip /\ con' = (con \ {r}) \union {q}
    BY <1>10, MoveCommitIs, Values DEF Trace, Hand
  <2>2. free' = free /\ req.op \notin Growth
    BY <1>10, MoveCommitIs, Migrates DEF MoveCommit, Growth, Moves
  <2> QED BY <1>0, <2>1, <2>2 DEF Owned
<1> QED BY <1>3, <1>4, <1>5, <1>6, <1>7, <1>8, <1>9, <1>10, StepCases

\* No address is lost to the user's pool but on the paths that are named: each
\* operation gives back, or writes to a row, what it took.
THEOREM AddressesReturned == Spec => []AddressKept
<1> DEFINE Inv == HandInv /\ Returned /\ Accounted
<1>1. Init => Inv
  BY HandInit, PoolInit DEF Init, Accounted, Unless
<1>2. Inv /\ [Next]_vars => Inv'
  BY HandStep, ReturnedStep, OwnedStep DEF HandInv
<1>3. Inv => AddressKept
  BY DEF Accounted, AddressKept, Unless
<1> QED BY <1>1, <1>2, <1>3, PTL DEF Spec

-----------------------------------------------------------------------------
(* The usage.                                                              *)

\* What is charged for, or was released, ahead of the rows.
Ahead(q) == CASE q.op \in Growth -> 1
              [] q.op \in {"delete", "scalein"} -> -Cardinality(q.rows)
              [] q.at = "refund" -> Cardinality(q.rows)
              [] OTHER -> 0

Balanced == Unless({"raised", "refunded", "crash"}, defaultsize = 1 => usage = Cardinality(con) + Ahead(req))

LEMMA AheadOf ==
  ASSUME NEW q, q.op \in Ops, q.at \in PhasesOf(q.op)
  PROVE  /\ q.op \in Growth => Ahead(q) = 1
         /\ q.op \in {"delete", "scalein"} => Ahead(q) = -Cardinality(q.rows)
         /\ q.op = "release" /\ q.at = "refund" => Ahead(q) = Cardinality(q.rows)
         /\ q.op = "release" /\ q.at # "refund" => Ahead(q) = 0
         /\ q.op \notin Growth \union Removal => Ahead(q) = 0
<1>1. q.op # "release" => q.at # "refund"
  BY DEF PhasesOf, Ops, Moves
<1>2. q.op \in Growth => Ahead(q) = 1
  BY <1>1 DEF Ahead, Growth
<1>3. q.op \in {"delete", "scalein"} => Ahead(q) = -Cardinality(q.rows)
  <2>1. ASSUME q.op = "delete" \/ q.op = "scalein", q.at # "refund" PROVE Ahead(q) = -Cardinality(q.rows)
    BY <2>1, Zenon DEF Ahead, Growth
  <2> QED BY <1>1, <2>1
<1>4. q.op = "release" /\ q.at = "refund" => Ahead(q) = Cardinality(q.rows)
  BY Zenon DEF Ahead, Growth
<1>5. q.op = "release" /\ q.at # "refund" => Ahead(q) = 0
  BY DEF Ahead, Growth
<1>6. q.op \notin Growth \union Removal => Ahead(q) = 0
  BY <1>1 DEF Ahead, Removal
<1> QED BY <1>2, <1>3, <1>4, <1>5, <1>6

LEMMA AheadIdle == req' = Idle => Ahead(req') = 0
BY IdleIs DEF Ahead, Growth

LEMMA Counts ==
  ASSUME Shapes, NEW rows \in SUBSET con
  PROVE  /\ IsFiniteSet(rows) /\ Cardinality(rows) \in Nat /\ Cardinality(con) \in Nat
         /\ Cardinality(rows) =< Cardinality(con)
         /\ Cardinality(con \ rows) = Cardinality(con) - Cardinality(rows)
<1>1. IsFiniteSet(rows) /\ Cardinality(rows) =< Cardinality(con)
  BY FS_Subset DEF Shapes
<1>2. Cardinality(con \ rows) = Cardinality(con) - Cardinality(con \cap rows)
  BY FS_Difference DEF Shapes
<1>3. con \cap rows = rows
  OBVIOUS
<1> QED BY <1>1, <1>2, <1>3, FS_CardinalityType DEF Shapes

LEMMA CommitCounts ==
  ASSUME Hand, CreateCommit \/ ScaleOutCommit
  PROVE  Cardinality(con') = Cardinality(con) + Wanted /\ Wanted \in Nat
<1>1. /\ req.op \in Growth /\ req.at = "commit" /\ con' = con \union req.rows /\ req.todo = {}
  BY DEF CreateCommit, ScaleOutCommit, Growth, Hand, Handled
<1>2. Cardinality(req.rows) = Wanted /\ IsFiniteSet(req.rows)
  <2>1. Cardinality(req.rows) + Cardinality(req.todo) = Wanted /\ IsFiniteSet(req.rows) /\ Cardinality(req.rows) \in Nat
    BY <1>1, Counted
  <2>2. Cardinality(req.todo) = 0
    BY <1>1, FS_EmptySet
  <2> QED BY <2>1, <2>2
<1>3. con \cap req.rows = {}
  <2>1. \A r \in req.rows : r.id = req.id /\ r.cid \in NewCids
    BY <1>1 DEF Hand, Handled, Grows
  <2>2. \A r \in con : Exists(r.id) /\ r.cid < nextcid[r.id] /\ nextcid[r.id] \in Nat /\ r.cid \in Nat
    BY DEF Hand, Shapes, Numbered, Row, Cid
  <2>3. CASE req.op = "create"
    BY <2>1, <2>2, <2>3 DEF Hand, Grows, Growth
  <2>4. CASE req.op = "scaleout"
    BY <2>1, <2>2, <2>4 DEF NewCids
  <2> QED BY <1>1, <2>3, <2>4 DEF Growth
<1>4. IsFiniteSet(con)
  BY DEF Hand, Shapes
<1>5. Cardinality(con \union req.rows) = Cardinality(con) + Cardinality(req.rows) - Cardinality(con \cap req.rows)
  BY <1>2, <1>4, FS_Union
<1>6. Cardinality(con \cap req.rows) = 0
  BY <1>3, FS_EmptySet
<1> QED BY <1>1, <1>2, <1>4, <1>5, <1>6, FS_CardinalityType

LEMMA MoveCounts ==
  ASSUME Hand, NEW k \in Cid, MoveCommit(k)
  PROVE  Cardinality(con') = Cardinality(con)
<1>1. PICK r, q \in Row : /\ r \in con /\ Trace(r, q) /\ con' = (con \ {r}) \union {q}
  BY MoveCommitIs, Values DEF Hand
<1> DEFINE rest == con \ {r}
<1>2. q \notin rest
  BY <1>1 DEF Trace, Hand, Numbered
<1>3. IsFiniteSet(rest) /\ Cardinality(rest) = Cardinality(con) - 1
  BY <1>1, FS_RemoveElement DEF Hand, Shapes
<1>4. con' = rest \union {q}
  BY <1>1
<1>5. Cardinality(con) \in Nat
  BY FS_CardinalityType DEF Hand, Shapes
<1> HIDE DEF rest
<1>6. Cardinality(rest \union {q}) = Cardinality(rest) + 1
  BY <1>2, <1>3, FS_AddElement
<1> QED BY <1>3, <1>4, <1>5, <1>6

LEMMA BalancedEnter ==
  ASSUME Hand, Hand', NewRequest, usage = Cardinality(con)
  PROVE  usage' = Cardinality(con') + Ahead(req')
<1>0. /\ req'.op \in Ops /\ req'.at \in PhasesOf(req'.op) /\ con' = con
      /\ usage \in Nat /\ Cardinality(con) \in Nat /\ con \subseteq con
  BY EnterBegins, FS_CardinalityType DEF Begins, db_vars, Hand, Shapes, Requests, Handled
<1>1. ASSUME usage' = usage + 1, req'.op \in Growth PROVE usage' = Cardinality(con') + Ahead(req')
  <2>1. Ahead(req') = 1
    BY <1>0, <1>1, AheadOf
  <2> QED BY <1>0, <1>1, <2>1
<1>2. ASSUME usage' = usage, req'.op \notin Growth \union Removal \/ (req'.op = "release" /\ req'.at = "check")
      PROVE  usage' = Cardinality(con') + Ahead(req')
  <2>1. Ahead(req') = 0
    BY <1>0, <1>2, AheadOf
  <2> QED BY <1>0, <1>2, <2>1
<1>3. ASSUME NEW rows \in SUBSET con, usage' = Less(usage, Cardinality(rows)), req'.rows = rows,
             req'.op \in {"delete", "scalein"}
      PROVE  usage' = Cardinality(con') + Ahead(req')
  <2>1. Cardinality(rows) \in Nat /\ Cardinality(rows) =< Cardinality(con)
    BY Counts DEF Hand
  <2>2. Ahead(req') = -Cardinality(rows)
    BY <1>0, <1>3, AheadOf
  <2> QED BY <1>0, <1>3, <2>1, <2>2 DEF Less
<1>4. CASE CreateEnter
  BY <1>1, <1>4, CreateEnterIs DEF CreateEnter, Charge, Made, Growth, Hand
<1>5. CASE StopAllEnter
  BY <1>2, <1>5, StopAllEnterIs DEF StopAllEnter, Made, Growth, Removal, Hand
<1>6. ASSUME NEW id \in Id, ScaleOutEnter(id) PROVE usage' = Cardinality(con') + Ahead(req')
  BY <1>1, <1>6, ScaleOutEnterIs DEF ScaleOutEnter, Charge, Made, Growth, Hand
<1>7. ASSUME NEW id \in Id, StartEnter(id) PROVE usage' = Cardinality(con') + Ahead(req')
  BY <1>2, <1>7, StartEnterIs DEF StartEnter, Made, Growth, Removal, Hand
<1>8. ASSUME NEW id \in Id, StopEnter(id) PROVE usage' = Cardinality(con') + Ahead(req')
  BY <1>2, <1>8, StopEnterIs DEF StopEnter, Made, Growth, Removal, Hand
<1>9. ASSUME NEW id \in Id, NEW k \in Cid, ScaleInEnter(id, k) PROVE usage' = Cardinality(con') + Ahead(req')
  <2> DEFINE rows == {RowOf(id, k)}
  <2>1. k \in CidsOf(id) /\ usage' = Less(usage, 1)
    BY <1>9 DEF ScaleInEnter
  <2>2. req'.op = "scalein" /\ req'.rows = rows
    BY <1>9, ScaleInEnterIs DEF Made, Hand
  <2>3. rows \in SUBSET con
    BY <2>1, RowIs
  <2>4. Cardinality(rows) = 1
    BY FS_Singleton, Zenon
  <2> HIDE DEF rows
  <2> QED BY <1>3, <2>1, <2>2, <2>3, <2>4
<1>10. ASSUME NEW id \in Id, DeleteEnter(id) PROVE usage' = Cardinality(con') + Ahead(req')
  <2>1. req'.op = "delete" /\ req'.rows = RowsOf(id) /\ usage' = Less(usage, Cardinality(RowsOf(id)))
    BY <1>10, DeleteEnterIs DEF DeleteEnter, Made, Hand
  <2>2. RowsOf(id) \in SUBSET con
    BY DEF RowsOf
  <2> QED BY <1>3, <2>1, <2>2
<1>11. ASSUME NEW id \in Id, ReleaseEnter(id) PROVE usage' = Cardinality(con') + Ahead(req')
  BY <1>2, <1>11, ReleaseEnterIs DEF ReleaseEnter, Made, Hand
<1>12. ASSUME NEW id \in Id, NEW src \in Worker, NEW dst \in Worker, MigrateEnter(id, src, dst)
       PROVE  usage' = Cardinality(con') + Ahead(req')
  BY <1>2, <1>12, MigrateEnterIs DEF MigrateEnter, Made, Growth, Removal, Hand
<1> QED BY <1>4, <1>5, <1>6, <1>7, <1>8, <1>9, <1>10, <1>11, <1>12 DEF NewRequest

LEMMA SameSize == ASSUME Hand, [Next]_vars PROVE defaultsize' = defaultsize
BY StepCases, Growing DEF Begins, db_vars, Plain, Aside, Crash, DeleteCheck, ReleaseAddresses, ScaleInCommit,
   DeleteCommit, Refund, Drop, MoveCommit

LEMMA BalancedStep ==
  ASSUME Hand, Hand', Balanced, [Next]_vars
  PROVE  Balanced'
<1> DEFINE C == {"raised", "refunded", "crash"}
<1> SUFFICES ASSUME C \cap mishap' = {}, defaultsize' = 1 PROVE usage' = Cardinality(con') + Ahead(req')
  BY DEF Balanced, Unless
<1>0. C \cap mishap = {} /\ defaultsize = 1 /\ usage = Cardinality(con) + Ahead(req)
  <2>1. C \cap mishap = {} /\ defaultsize = 1
    BY Grown, SameSize
  <2> QED BY <2>1 DEF Balanced, Unless
<1>1. "raised" \notin mishap' /\ "refunded" \notin mishap' /\ "crash" \notin mishap'
  OBVIOUS
<1> HIDE DEF C
<1>2. /\ req.op \in Ops /\ req.at \in PhasesOf(req.op) /\ req'.op \in Ops /\ req'.at \in PhasesOf(req'.op)
      /\ usage \in Nat /\ Cardinality(con) \in Nat /\ Cardinality(req.rows) \in Nat
  BY FS_CardinalityType DEF Hand, Shapes, Requests, Handled
<1>3. /\ req.op \in Growth => Ahead(req) = 1
      /\ req.op \in {"delete", "scalein"} => Ahead(req) = -Cardinality(req.rows)
      /\ req.op = "release" /\ req.at = "refund" => Ahead(req) = Cardinality(req.rows)
      /\ req.op = "release" /\ req.at # "refund" => Ahead(req) = 0
      /\ req.op \notin Growth \union Removal => Ahead(req) = 0
  BY <1>2, AheadOf
<1>4. /\ req'.op \in Growth => Ahead(req') = 1
      /\ req'.op \in {"delete", "scalein"} => Ahead(req') = -Cardinality(req'.rows)
      /\ req'.op = "release" /\ req'.at = "refund" => Ahead(req') = Cardinality(req'.rows)
      /\ req'.op = "release" /\ req'.at # "refund" => Ahead(req') = 0
      /\ req'.op \notin Growth \union Removal => Ahead(req') = 0
  BY <1>2, AheadOf
<1>5. req' = Idle => Ahead(req') = 0
  BY AheadIdle
<1>6. CASE NewRequest
  <2>1. req = Idle
    BY <1>6, EnterBegins DEF Begins, Hand
  <2>2. usage = Cardinality(con)
    <3>1. req.op \notin Growth \union Removal
      BY <2>1, IdleIs DEF Growth, Removal
    <3> QED BY <1>0, <1>2, <1>3, <3>1
  <2> QED BY <1>6, <2>2, BalancedEnter
<1>7. CASE Plain
  BY <1>0, <1>3, <1>4, <1>5, <1>7 DEF Plain
<1>8. CASE Aside
  BY <1>0, <1>8 DEF Aside
<1>9. CASE GrowthStep
  <2>1. req.op \in Growth /\ usage = Cardinality(con) + 1
    BY <1>0, <1>3, <1>9, Growing
  <2>2. CASE req' = Idle /\ usage' = Less(usage, 1) /\ con' = con
    BY <1>2, <1>5, <2>1, <2>2 DEF Less
  <2>3. CASE req'.op = req.op /\ usage' = usage /\ con' = con
    BY <1>4, <2>1, <2>3
  <2>4. CASE Refuse \/ GatewayFails
    BY <2>2, <2>4, StepIs DEF Refuse, GatewayFails, db_vars
  <2>5. CASE Reserve
    BY <1>1, <2>3, <2>5, ReserveIs DEF Reserve, Made
  <2>6. CASE StartNew
    <3>1. con' = con /\ usage' = usage
      BY <2>6 DEF StartNew, db_vars
    <3> QED BY <1>1, <2>3, <2>6, <3>1, StartNewIs DEF Goes, Made
  <2>7. CASE CreateCommit \/ ScaleOutCommit
    <3>1. usage' = usage /\ req' = Idle
      BY <2>7 DEF CreateCommit, ScaleOutCommit, Leave
    <3>2. Cardinality(con') = Cardinality(con) + 1
      BY <1>0, <2>7, CommitCounts DEF Wanted
    <3> QED BY <1>2, <1>5, <2>1, <3>1, <3>2
  <2>8. ASSUME NEW k \in Cid, NEW w \in Worker, Build(k, w) PROVE usage' = Cardinality(con') + Ahead(req')
    <3>1. con' = con /\ usage' = usage
      BY <2>8 DEF Build, db_vars
    <3> QED BY <1>1, <2>3, <2>8, <3>1, BuildIs DEF Made, Failed
  <2> QED BY <1>9, <2>4, <2>5, <2>6, <2>7, <2>8 DEF GrowthStep
<1>10. CASE Crash
  <2>1. con' = con /\ usage' = usage /\ req' = Idle /\ req = Idle
    BY <1>1, <1>10, CrashIs DEF Crash, db_vars, Hand
  <2> QED BY <1>0, <1>5, <2>1
<1>11. CASE DeleteCheck \/ ReleaseAddresses \/ \E k \in Cid : Drop(k)
  <2>1. con' = con /\ usage' = usage /\ req.at # "refund" /\ req.op \in Removal
    BY <1>11, StepIs, DropIs DEF DeleteCheck, ReleaseAddresses, Drop, db_vars, Removal
  <2>2. CASE req'.op = req.op /\ req'.rows = req.rows /\ req'.at # "refund"
    BY <1>0, <1>3, <1>4, <2>1, <2>2 DEF Removal
  <2>3. CASE req' = Idle
    <3>1. req.op = "release"
      BY <1>1, <1>11, <2>3, StepIs, DropIs, IdleIs DEF Goes, Made, Removal
    <3> QED BY <1>0, <1>2, <1>3, <1>5, <2>1, <2>3, <3>1
  <2> QED BY <1>11, <2>2, <2>3, StepIs, DropIs DEF Goes, Made
<1>12. CASE ScaleInCommit \/ DeleteCommit
  <2>1. /\ con' = con \ req.rows /\ usage' = usage /\ req.at = "remove"
        /\ req.op \in Removal
    BY <1>12 DEF ScaleInCommit, DeleteCommit, Removal
  <2>2. req.rows \in SUBSET con
    BY <2>1 DEF Hand, Removes
  <2>3. Cardinality(con') = Cardinality(con) - Cardinality(req.rows)
    BY <2>1, <2>2, Counts DEF Hand
  <2>4. CASE req' = Idle /\ req.op # "release"
    BY <1>0, <1>2, <1>3, <1>5, <2>1, <2>3, <2>4 DEF Removal
  <2>5. CASE req.op = "release" /\ req'.op = req.op /\ req'.at = "refund" /\ req'.rows = req.rows
    BY <1>0, <1>2, <1>3, <1>4, <2>1, <2>3, <2>5
  <2>6. CASE ScaleInCommit
    BY <2>4, <2>6 DEF ScaleInCommit, Leave
  <2> QED BY <1>12, <2>4, <2>5, <2>6, StepIs DEF Goes, Made
<1>13. CASE Refund
  <2>1. req.op = "release" /\ req.at = "refund" /\ req' = Idle /\ con' = con /\ usage' = Less(usage, Cardinality(req.rows))
    BY <1>13, StepIs DEF Refund, db_vars
  <2> QED BY <1>0, <1>2, <1>3, <1>5, <2>1 DEF Less
<1>14. ASSUME NEW k \in Cid, MoveCommit(k) PROVE usage' = Cardinality(con') + Ahead(req')
  <2>1. Cardinality(con') = Cardinality(con) /\ usage' = usage
    BY <1>14, MoveCounts DEF MoveCommit
  <2>2. req.op = "migrate" /\ req'.op = "migrate"
    BY <1>14, MoveCommitIs, Migrates DEF Goes, Made, Moves
  <2> QED BY <1>0, <1>3, <1>4, <2>1, <2>2 DEF Growth, Removal
<1>15. CASE UNCHANGED vars
  BY <1>8, <1>15, AsideSteps
<1> QED BY <1>6, <1>7, <1>8, <1>9, <1>10, <1>11, <1>12, <1>13, <1>14, <1>15, PlainSteps, AsideSteps
        DEF Next, RequestStep, RecoveryStep, NodeStep, GrowthStep

\* For clusters of one container at creation the usage that the quota is
\* checked against is the number of the user's containers, whatever the
\* interleaving of failures, but for the named causes (userManager.py
\* usageInc, usageRecover, usageRelease).
THEOREM UsageCorrect == Spec => []UsageMatches
<1> DEFINE Inv == HandInv /\ Balanced
<1>1. Init => Inv
  <2>1. ASSUME Init PROVE Balanced
    <3>1. con = {} /\ usage = 0 /\ req = Idle
      BY <2>1 DEF Init
    <3>2. Cardinality(con) = 0 /\ Ahead(req) = 0
      BY <3>1, FS_EmptySet, IdleIs DEF Ahead, Growth
    <3> QED BY <3>1, <3>2 DEF Balanced, Unless
  <2> QED BY <2>1, HandInit
<1>2. Inv /\ [Next]_vars => Inv'
  BY HandStep, BalancedStep DEF HandInv
<1>3. Inv => UsageMatches
  BY Zenon DEF Balanced, Ahead, UsageMatches, Unless, Growth
<1> QED BY <1>1, <1>2, <1>3, PTL DEF Spec

-----------------------------------------------------------------------------
(* Containers and rows.                                                    *)

\* A container without a row is one of a growing request, or the copy or the
\* original of the container that moves; what a removal has passed is gone.
Tidy ==
  /\ \A b \in DOMAIN box : box[b] # "none" =>
       \/ \E r \in con : Place(r) = b
       \/ req.op \in Growth /\ \E r \in req.rows : Place(r) = b
       \/ req.at = "built" /\ b = Target
       \/ req.at = "moved" /\ \E q \in req.rows : q.cid = Min(req.todo) /\ b = Place(q)
  /\ req.at \in {"check", "drop", "remove"} =>
       \A r \in req.rows : r.cid \notin req.todo => box[Place(r)] = "none"
Kept == Unless({"cut_create", "unclean", "raised", "ignored", "crash"}, Tidy)

\* A row without a container is one of those that a removal has passed.
Whole ==
  /\ \A r \in con : box[Place(r)] = "none" =>
       req.at \in {"drop", "remove"} /\ r \in req.rows /\ r.cid \notin req.todo
  /\ req.op \in Growth => \A r \in req.rows : box[Place(r)] # "none"
  /\ req.at = "built" => box[Target] # "none"
Backed == Unless({"cut_delete", "unanswered", "crossed", "crash"}, Whole)

\* A step makes no container and takes none away.
NoneKept == DOMAIN box' = DOMAIN box /\ \A b \in DOMAIN box : box'[b] = "none" <=> box[b] = "none"

LEMMA Placed == ASSUME Shapes, NEW r \in Row PROVE Place(r) \in DOMAIN box
<1>1. DOMAIN box = Id \X Cid \X Worker
  BY DEF Shapes
<1>2. r.id \in Id /\ r.cid \in Cid /\ r.host \in Worker
  BY DEF Row
<1> QED BY <1>1, <1>2 DEF Place

LEMMA Put ==
  ASSUME Shapes, NEW p \in DOMAIN box, NEW v, box' = [box EXCEPT ![p] = v]
  PROVE  DOMAIN box' = DOMAIN box /\ box'[p] = v /\ \A b \in DOMAIN box : b # p => box'[b] = box[b]
OBVIOUS

LEMMA Turn ==
  ASSUME Shapes, NEW p \in DOMAIN box, NEW v, v # "none", box' = [box EXCEPT ![p] = IF @ = "none" THEN "none" ELSE v]
  PROVE  NoneKept
BY DEF NoneKept

LEMMA AsideBoxes ==
  ASSUME Shapes, Restores, RecoveryStep \/ NodeStep \/ UNCHANGED vars
  PROVE  NoneKept
<1>1. CASE box' = box
  BY <1>1 DEF NoneKept
<1>2. CASE RecoverBox
  <2>1. ASSUME NEW r \in rec.rows, box' = [box EXCEPT ![Place(r)] = Recovered(@)] PROVE NoneKept
    <3>1. Place(r) \in DOMAIN box
      BY RecValues, Placed
    <3> QED BY <2>1, <3>1, Turn DEF Recovered
  <2> QED BY <1>1, <1>2, <2>1, BoxIs
<1>3. ASSUME NEW w \in Worker, Die(w) PROVE NoneKept
  <2>1. box' = [b \in DOMAIN box |-> IF b[3] = w /\ box[b] = "running" THEN "stopped" ELSE box[b]]
    BY <1>3 DEF Die
  <2> QED BY <2>1 DEF NoneKept
<1> QED BY <1>1, <1>2, <1>3 DEF RecoveryStep, RecoverTake, RecoverGateway, RecoverPorts, RecoverMark, RecoverPick,
                               NodeStep, Crash, RecoverDies, Forget, Return, vars

\* Steps of a request that neither grows, removes nor has a container between
\* two hosts.
Quiet ==
  /\ con' = con /\ NoneKept
  /\ req.op \notin Growth /\ req.at \notin {"check", "drop", "remove", "built", "moved"}
  /\ req'.op \notin Growth /\ req'.at \notin {"check", "drop", "remove", "built"}

LEMMA QuietSteps ==
  ASSUME Hand,
         \/ StartGateway \/ StartCommit \/ StopSkip \/ StopCommit \/ MoveEnd
         \/ \E k \in Cid : StartBox(k) \/ StopBox(k) \/ MoveSave(k)
         \/ UNCHANGED box /\ MoveEnds /\ \E k \in Cid : MoveBuild(k)
  PROVE  Quiet
<1>1. con' = con /\ req.op \notin Growth /\ (req' = Idle \/ req'.op = req.op)
  BY PlainSteps DEF Plain
<1>2. req.at \in {"gateway", "start", "skip", "stop", "move", "saved"}
  BY DEF StartGateway, StartCommit, StopSkip, StopCommit, MoveEnd, StartBox, StopBox, MoveSave, MoveBuild
<1>3. ASSUME NoneKept, req'.at \in {"", "gateway", "start", "stop", "skip", "move", "saved"} PROVE Quiet
  BY <1>1, <1>2, <1>3, IdleIs DEF Quiet, Growth
<1>4. ASSUME MoveEnds PROVE req'.at \in {"", "gateway", "start", "stop", "skip", "move", "saved"}
  BY <1>4, IdleIs DEF MoveEnds, Goes, Made
<1>5. ASSUME NEW causes, StopEnds(causes) PROVE req'.at \in {"", "gateway", "start", "stop", "skip", "move", "saved"}
  BY <1>5, IdleIs DEF StopEnds, Goes, Made
<1>6. UNCHANGED box => NoneKept
  BY DEF NoneKept
<1>7. CASE StartCommit
  BY <1>3, <1>6, <1>7, IdleIs DEF StartCommit, Leave
<1>8. CASE StopSkip \/ StopCommit \/ MoveEnd
  BY <1>3, <1>4, <1>5, <1>6, <1>8, StepIs DEF StopSkip, StopCommit, MoveEnd
<1>9. ASSUME NEW k \in Cid, StartBox(k) \/ StopBox(k) \/ MoveSave(k) PROVE Quiet
  <2> DEFINE p == Place(RowOf(req.id, k))
  <2>1. p \in DOMAIN box
    <3>1. RowOf(req.id, k) \in con
      BY <1>9, InLoop DEF StartBox, StopBox, MoveSave, Moves
    <3> QED BY <3>1, Placed DEF Hand, Shapes
  <2> HIDE DEF p
  <2>2. /\ \/ box' = [box EXCEPT ![p] = IF @ = "none" THEN "none" ELSE "running"]
           \/ box' = [box EXCEPT ![p] = IF @ = "none" THEN "none" ELSE "stopped"]
           \/ box' = box
        /\ \/ req' = Idle \/ MoveEnds \/ (\E causes : StopEnds(causes))
           \/ \E a \in {"start", "stop", "saved"} : \E t : Goes(a, t)
    <3>1. CASE StartBox(k)
      BY <3>1, StartBoxIs DEF p
    <3>2. CASE StopBox(k)
      BY <3>2, StopBoxIs DEF p
    <3>3. CASE MoveSave(k)
      BY <3>3, MoveSaveIs DEF p
    <3> QED BY <1>9, <3>1, <3>2, <3>3
  <2>3. NoneKept
    BY <1>6, <2>1, <2>2, Turn DEF Hand
  <2>4. req'.at \in {"", "gateway", "start", "stop", "skip", "move", "saved"}
    BY <1>4, <1>5, <2>2, IdleIs DEF Goes, Made
  <2> QED BY <1>3, <2>3, <2>4
<1>10. CASE UNCHANGED box /\ MoveEnds /\ \E k \in Cid : MoveBuild(k)
  BY <1>3, <1>4, <1>6, <1>10
<1>11. CASE StartGateway
  BY <1>3, <1>6, <1>11, IdleIs, StepIs DEF StartGateway, Goes, Made
<1> QED BY <1>7, <1>8, <1>9, <1>10, <1>11

\* What a migration's step does to the target it builds on.
LEMMA TargetIn ==
  ASSUME Hand, req.at \in {"saved", "built", "moved"}
  PROVE  Target \in DOMAIN box
<1>1. req.id \in Id /\ req.op = "migrate"
  BY Migrates DEF Moves
<1>2. (CHOOSE x \in req.workers : TRUE) \in Worker
  BY TargetIs
<1>3. Min(req.todo) \in Cid
  <2>1. req.todo # {} /\ req.todo \subseteq {q.cid : q \in req.rows}
    BY <1>1 DEF Hand, Moving, Moves
  <2>2. Min(req.todo) \in req.todo
    BY <2>1, Values, Least DEF Hand
  <2> QED BY <2>1, <2>2, Values DEF Hand, Row
<1> QED BY <1>1, <1>2, <1>3 DEF Target, Hand, Shapes

LEMMA SameTarget ==
  ASSUME req'.id = req.id, req'.todo = req.todo, req'.workers = req.workers
  PROVE  Target' = Target
BY DEF Target

LEMMA KeptQuiet == ASSUME Tidy, Quiet PROVE Tidy'
BY DEF Tidy, Quiet, NoneKept

\* A step that changes no row, and neither makes nor takes a container.
LEMMA KeptSame ==
  ASSUME Hand, Tidy, NoneKept, con' = con, req' = req
  PROVE  Tidy'
<1>1. Target' = Target
  BY SameTarget
<1>2. req.at \in {"check", "drop", "remove"} => \A r \in req.rows : r.cid \notin req.todo => box'[Place(r)] = "none"
  <2>1. \A r \in req.rows : Place(r) \in DOMAIN box
    BY Placed, Values DEF Hand
  <2> QED BY <2>1 DEF Tidy, NoneKept
<1>3. \A b \in DOMAIN box' : box'[b] # "none" => b \in DOMAIN box /\ box[b] # "none"
  BY DEF NoneKept
<1> QED BY <1>1, <1>2, <1>3 DEF Tidy

LEMMA KeptEnter ==
  ASSUME Hand, Hand', Tidy, NewRequest
  PROVE  Tidy'
<1>1. req = Idle /\ con' = con /\ box' = box /\ req'.at \notin {"built", "moved", "remove"}
  BY EnterBegins DEF Begins, db_vars, Hand
<1>2. \A b \in DOMAIN box : box[b] # "none" => \E r \in con : Place(r) = b
  BY <1>1, IdleIs DEF Tidy, Growth
<1>3. ASSUME req'.at \in {"check", "drop"} PROVE \A r \in req'.rows : r.cid \in req'.todo
  <2>1. CASE CreateEnter
    BY <1>3, <2>1, CreateEnterIs DEF Made, Hand
  <2>2. CASE StopAllEnter
    BY <1>3, <2>2, StopAllEnterIs DEF Made, Hand
  <2>3. ASSUME NEW id \in Id, ScaleOutEnter(id) \/ StartEnter(id) \/ StopEnter(id)
        PROVE  \A r \in req'.rows : r.cid \in req'.todo
    BY <1>3, <2>3, ScaleOutEnterIs, StartEnterIs, StopEnterIs DEF Made, Hand
  <2>4. ASSUME NEW id \in Id, NEW k \in Cid, ScaleInEnter(id, k) PROVE \A r \in req'.rows : r.cid \in req'.todo
    <3>1. RowOf(id, k).cid = k
      BY <2>4, RowIs DEF ScaleInEnter
    <3> QED BY <2>4, <3>1, ScaleInEnterIs DEF Made, Hand
  <2>5. ASSUME NEW id \in Id, DeleteEnter(id) \/ ReleaseEnter(id) PROVE \A r \in req'.rows : r.cid \in req'.todo
    BY <2>5, DeleteEnterIs, ReleaseEnterIs DEF Made, Hand, CidsOf
  <2>6. ASSUME NEW id \in Id, NEW src \in Worker, NEW dst \in Worker, MigrateEnter(id, src, dst)
        PROVE  \A r \in req'.rows : r.cid \in req'.todo
    BY <1>3, <2>6, MigrateEnterIs DEF Made, Hand
  <2> QED BY <2>1, <2>2, <2>3, <2>4, <2>5, <2>6 DEF NewRequest
<1> QED BY <1>1, <1>2, <1>3 DEF Tidy

LEMMA KeptGrowth ==
  ASSUME Hand, Hand', Tidy, GrowthStep, "cut_create" \notin mishap', "unclean" \notin mishap', "raised" \notin mishap'
  PROVE  Tidy'
<1>1. req.op \in Growth /\ req.at \notin {"built", "moved", "check", "drop", "remove"}
  <2>1. req.op \in Growth
    BY Growing
  <2> QED BY <2>1 DEF Hand, Handled, PhasesOf, Growth, Moves
<1>2. req'.at \notin {"check", "drop", "remove"}
  <2>1. req'.op \in Growth \/ req' = Idle
    BY Growing
  <2> QED BY <2>1, IdleIs DEF Hand, Handled, PhasesOf, Growth, Moves
<1>3. \A b \in DOMAIN box : box[b] # "none" => \E r \in con \union req.rows : Place(r) = b
  BY <1>1 DEF Tidy
<1>4. ASSUME box' = box, con' = con, req.rows = {} PROVE Tidy'
  BY <1>2, <1>3, <1>4 DEF Tidy
<1>5. ASSUME box' = box, con' = con \union req.rows PROVE Tidy'
  BY <1>2, <1>3, <1>5 DEF Tidy
<1>6. ASSUME NEW r \in Row, NEW v, box' = [box EXCEPT ![Place(r)] = v], con' = con, req'.op = req.op,
             req'.rows = req.rows \union {r}
      PROVE  Tidy'
  <2>1. DOMAIN box' = DOMAIN box /\ \A b \in DOMAIN box : b # Place(r) => box'[b] = box[b]
    BY <1>6, Placed, Put DEF Hand
  <2>2. \A b \in DOMAIN box' : box'[b] # "none" =>
          (\E q \in con' : Place(q) = b) \/ (\E q \in req'.rows : Place(q) = b)
    BY <1>3, <1>6, <2>1
  <2> QED BY <1>1, <1>2, <1>6, <2>2 DEF Tidy
<1>7. CASE Refuse
  BY <1>4, <1>7, StepIs DEF Refuse, Hand, Grows, db_vars
<1>8. CASE Reserve
  BY <1>1, <1>4, <1>8, ReserveIs DEF Reserve, Hand, Grows
<1>9. CASE GatewayFails
  BY <1>4, <1>9, StepIs DEF GatewayFails, db_vars
<1>10. CASE StartNew
  <2>1. con' = con
    BY <1>10 DEF StartNew, db_vars
  <2>2. PICK r \in req.rows : /\ req.rows = {r} /\ (box' = box \/ box' = [box EXCEPT ![Place(r)] = "running"])
                              /\ req'.op = req.op /\ req'.rows = req.rows
    BY <1>10, StartNewIs DEF Goes, Made
  <2>3. r \in Row
    BY Values DEF Hand
  <2>4. CASE box' = box
    BY <1>1, <1>2, <1>3, <2>1, <2>2, <2>4 DEF Tidy
  <2> QED BY <1>6, <2>1, <2>2, <2>3, <2>4
<1>11. CASE CreateCommit \/ ScaleOutCommit
  BY <1>5, <1>11 DEF CreateCommit, ScaleOutCommit
<1>12. ASSUME NEW k \in Cid, NEW w \in Worker, Build(k, w) PROVE Tidy'
  <2> DEFINE row == [id |-> req.id, cid |-> k, host |-> w, ip |-> Min(req.ips)]
  <2>1. con' = con
    BY <1>12 DEF Build, db_vars
  <2>2. row \in Row /\ Place(row) = <<req.id, k, w>>
    BY <1>12, BuildIs DEF Place
  <2>3. \/ /\ box' = [box EXCEPT ![<<req.id, k, w>>] = "stopped"]
           /\ req'.op = req.op /\ req'.rows = req.rows \union {row}
        \/ UNCHANGED box /\ req.rows = {}
    BY <1>12, BuildIs DEF Made
  <2> HIDE DEF row
  <2> QED BY <1>4, <1>6, <2>1, <2>2, <2>3
<1> QED BY <1>7, <1>8, <1>9, <1>10, <1>11, <1>12 DEF GrowthStep

LEMMA KeptRemoval ==
  ASSUME Hand, Hand', Tidy, "ignored" \notin mishap',
         DeleteCheck \/ ReleaseAddresses \/ ScaleInCommit \/ DeleteCommit \/ Refund \/ \E k \in Cid : Drop(k)
  PROVE  Tidy'
<1>1. req.op \in Removal /\ req.at \in {"check", "drop", "remove", "refund"}
  BY StepIs, DropIs DEF DeleteCheck, ReleaseAddresses, ScaleInCommit, DeleteCommit, Refund, Drop, Removal
<1>2. /\ \A b \in DOMAIN box : box[b] # "none" => \E r \in con : Place(r) = b
      /\ req.at # "refund" => \A r \in req.rows : r.cid \notin req.todo => box[Place(r)] = "none"
  BY <1>1 DEF Tidy, Growth, Removal
<1>3. CASE /\ box' = box /\ con' = con
           /\ \/ req'.at \notin {"check", "drop", "remove"}
              \/ req.at # "refund" /\ req'.rows = req.rows /\ req'.todo = req.todo
  BY <1>2, <1>3 DEF Tidy
<1>4. CASE DeleteCheck \/ ReleaseAddresses \/ Refund
  <2>1. box' = box /\ con' = con
    BY <1>4 DEF DeleteCheck, ReleaseAddresses, Refund, db_vars
  <2>2. \/ req' = Idle
        \/ req.at # "refund" /\ req'.rows = req.rows /\ req'.todo = req.todo
    BY <1>4, StepIs DEF Goes, Made
  <2> QED BY <1>3, <2>1, <2>2, IdleIs
<1>5. CASE ScaleInCommit \/ DeleteCommit
  <2>1. /\ req.at = "remove" /\ con' = con \ req.rows /\ box' = box /\ req'.at \in {"", "refund"}
    BY <1>5, StepIs, IdleIs DEF ScaleInCommit, DeleteCommit, Leave, Goes, Made
  <2>2. \A r \in req.rows : box[Place(r)] = "none"
    BY <1>2, <2>1 DEF Hand, Handled
  <2>3. \A b \in DOMAIN box' : box'[b] # "none" => \E r \in con' : Place(r) = b
    BY <1>2, <2>1, <2>2
  <2> QED BY <2>1, <2>3 DEF Tidy
<1>6. ASSUME NEW k \in Cid, Drop(k) PROVE Tidy'
  <2> DEFINE r == RowOf(req.id, k)
  <2>1. con' = con /\ req.at = "drop"
    BY <1>6 DEF Drop, db_vars
  <2>2. r \in con /\ \A q \in RowsOf(req.id) : q.cid = k => q = r
    BY <1>6, InLoop DEF Drop
  <2>3. req.rows \subseteq con /\ \A q \in req.rows : q.id = req.id
    BY <1>1, <2>1 DEF Hand, Removes, Handled
  <2>4. \A q \in req.rows : q.cid = k => q = r
    BY <2>2, <2>3 DEF RowsOf
  <2> HIDE DEF r
  <2>5. CASE /\ box' = [box EXCEPT ![Place(r)] = "none"]
             /\ req'.at = "drop" /\ req'.todo = req.todo \ {k} /\ req'.rows = req.rows
    <3>1. Place(r) \in DOMAIN box /\ \A q \in req.rows : Place(q) \in DOMAIN box
      BY <2>2, <2>3, Placed DEF Hand, Shapes
    <3>2. DOMAIN box' = DOMAIN box /\ box'[Place(r)] = "none" /\ \A b \in DOMAIN box : b # Place(r) => box'[b] = box[b]
      BY <2>5, <3>1, Put DEF Hand
    <3>3. \A b \in DOMAIN box' : box'[b] # "none" => \E q \in con' : Place(q) = b
      BY <1>2, <2>1, <3>2
    <3>4. ASSUME NEW q \in req.rows, q.cid \notin req.todo \ {k} PROVE box'[Place(q)] = "none"
      <4>1. CASE q.cid = k
        BY <2>4, <3>2, <4>1
      <4>2. CASE q.cid \notin req.todo
        BY <1>2, <2>1, <3>1, <3>2, <4>2
      <4> QED BY <3>4, <4>1, <4>2
    <3> QED BY <2>5, <3>3, <3>4 DEF Tidy
  <2>6. CASE UNCHANGED box /\ req' = Idle
    BY <1>3, <2>1, <2>6, IdleIs
  <2>7. CASE box' = [box EXCEPT ![Place(r)] = "none"] /\ req' = Idle
    <3>1. Place(r) \in DOMAIN box
      BY <2>2, Placed DEF Hand, Shapes
    <3>2. DOMAIN box' = DOMAIN box /\ box'[Place(r)] = "none" /\ \A b \in DOMAIN box : b # Place(r) => box'[b] = box[b]
      BY <2>7, <3>1, Put DEF Hand
    <3>3. \A b \in DOMAIN box' : box'[b] # "none" => \E q \in con' : Place(q) = b
      BY <1>2, <2>1, <3>2
    <3> QED BY <2>7, <3>3, IdleIs DEF Tidy
  <2> QED BY <1>6, <2>5, <2>6, <2>7, DropIs DEF Goes, Made, r
<1> QED BY <1>4, <1>5, <1>6

LEMMA KeptMove ==
  ASSUME Hand, Tidy, "raised" \notin mishap', "ignored" \notin mishap', NEW k \in Cid,
         MoveCommit(k) \/ MoveDrop(k) \/ (MoveBuild(k) /\ Goes("built", req.todo) /\ box' = [box EXCEPT ![Target] = "stopped"])
  PROVE  Tidy'
<1>1. req.at \in {"saved", "built", "moved"} /\ k = Min(req.todo) /\ req.op \notin Growth
  <2>1. req.at \in {"saved", "built", "moved"} /\ k = Min(req.todo)
    BY MoveCommitIs, MoveDropIs, MoveBuildIs
  <2> QED BY <2>1, Migrates DEF Moves, Growth
<1>2. CASE MoveBuild(k) /\ Goes("built", req.todo) /\ box' = [box EXCEPT ![Target] = "stopped"]
  <2>1. Target' = Target /\ con' = con /\ req.at = "saved" /\ req'.at = "built"
    BY <1>2, SameTarget DEF MoveBuild, Goes, Made, db_vars
  <2>2. Target \in DOMAIN box
    BY <1>1, TargetIn
  <2>3. DOMAIN box' = DOMAIN box /\ \A b \in DOMAIN box : b # Target => box'[b] = box[b]
    BY <1>2, <2>2, Put DEF Hand
  <2> QED BY <1>1, <2>1, <2>3 DEF Tidy
<1>3. CASE MoveCommit(k)
  <2>1. PICK r \in req.rows, q \in Row : /\ r.cid = k /\ Place(q) = Target /\ con' = (con \ {r}) \union {q}
    BY <1>3, MoveCommitIs
  <2>2. box' = box /\ req.at = "built" /\ req'.at = "moved" /\ req'.todo = req.todo /\ req'.rows = req.rows
    BY <1>3, MoveCommitIs DEF MoveCommit, Goes, Made
  <2>3. \A b \in DOMAIN box : box[b] # "none" => (\E p \in con : Place(p) = b) \/ b = Target
    BY <1>1, <2>2 DEF Tidy
  <2>4. \A b \in DOMAIN box : box[b] # "none" =>
          \/ \E p \in con' : Place(p) = b
          \/ \E p \in req.rows : p.cid = Min(req.todo) /\ b = Place(p)
    BY <1>1, <2>1, <2>3
  <2> QED BY <2>2, <2>4 DEF Tidy
<1>4. CASE MoveDrop(k)
  <2>1. PICK old \in req.rows : /\ old.cid = k /\ box' = [box EXCEPT ![Place(old)] = "none"]
                                /\ req'.at \in {"move", ""} /\ req'.op \notin Growth
    BY <1>1, <1>4, IdleIs, MoveDropIs DEF Goes, Made, Growth
  <2>2. con' = con /\ req.at = "moved"
    BY <1>4 DEF MoveDrop, db_vars
  <2>3. \A q \in req.rows : q.cid = k => q = old
    BY <2>1 DEF Hand, Handled
  <2>4. Place(old) \in DOMAIN box
    BY Placed, Values DEF Hand
  <2>5. /\ DOMAIN box' = DOMAIN box /\ box'[Place(old)] = "none"
        /\ \A b \in DOMAIN box : b # Place(old) => box'[b] = box[b]
    BY <2>1, <2>4, Put DEF Hand
  <2>6. \A b \in DOMAIN box : box[b] # "none" => (\E p \in con : Place(p) = b) \/ b = Place(old)
    BY <1>1, <2>2, <2>3 DEF Tidy
  <2>7. \A b \in DOMAIN box' : box'[b] # "none" => \E p \in con' : Place(p) = b
    BY <2>2, <2>5, <2>6
  <2> QED BY <2>1, <2>7 DEF Tidy
<1> QED BY <1>2, <1>3, <1>4

\* A copy that failed is left where it was made.
Spoils == MoveEnds /\ box' = [box EXCEPT ![Target] = "stopped"] /\ "unclean" \in mishap'

\* The request's steps, by what they do to the containers.
LEMMA BoxCases ==
  ASSUME Hand, RequestStep
  PROVE  \/ GrowthStep \/ Quiet
         \/ DeleteCheck \/ ReleaseAddresses \/ ScaleInCommit \/ DeleteCommit \/ Refund \/ (\E k \in Cid : Drop(k))
         \/ \E k \in Cid : \/ MoveCommit(k) \/ MoveDrop(k)
                           \/ MoveBuild(k) /\ Goes("built", req.todo) /\ box' = [box EXCEPT ![Target] = "stopped"]
                           \/ MoveBuild(k) /\ Spoils
<1>1. ASSUME NEW k \in Cid, MoveBuild(k)
      PROVE  Quiet \/ Spoils \/ (Goes("built", req.todo) /\ box' = [box EXCEPT ![Target] = "stopped"])
  BY <1>1, MoveBuildIs, QuietSteps DEF Spoils
<1> QED BY <1>1, QuietSteps DEF RequestStep, GrowthStep

LEMMA KeptStep ==
  ASSUME HandInv, HandInv', Kept, [Next]_vars
  PROVE  Kept'
<1> DEFINE C == {"cut_create", "unclean", "raised", "ignored", "crash"}
<1> SUFFICES ASSUME C \cap mishap' = {} PROVE Tidy'
  BY DEF Kept, Unless
<1>0. Hand /\ Hand' /\ Restores
  BY DEF HandInv
<1>1. Tidy
  <2>1. C \cap mishap = {}
    BY <1>0, Grown
  <2> QED BY <2>1 DEF Kept, Unless
<1>2. /\ "cut_create" \notin mishap' /\ "unclean" \notin mishap' /\ "raised" \notin mishap'
      /\ "ignored" \notin mishap' /\ "crash" \notin mishap'
  OBVIOUS
<1> HIDE DEF C
<1>3. CASE NewRequest
  BY <1>0, <1>1, <1>3, KeptEnter
<1>4. CASE RequestStep
  BY <1>0, <1>1, <1>2, <1>4, BoxCases, KeptGrowth, KeptQuiet, KeptRemoval, KeptMove DEF Spoils
<1>5. CASE RecoveryStep \/ NodeStep \/ UNCHANGED vars
  <2>1. con' = con /\ req' = req
    <3>1. CASE Crash
      BY <1>0, <1>2, <3>1, CrashIs DEF Hand, db_vars
    <3> QED BY <1>5, <3>1, AsideSteps DEF Aside, NodeStep
  <2>2. NoneKept
    BY <1>0, <1>5, AsideBoxes DEF Hand
  <2> QED BY <1>0, <1>1, <2>1, <2>2, KeptSame
<1> QED BY <1>3, <1>4, <1>5 DEF Next

LEMMA BoxesInit == Init => Kept /\ Backed
BY IdleIs DEF Init, Kept, Tidy, Backed, Whole, Unless, Growth

\* A container on a worker is that of a row, or of the request that is at
\* work: no path but the named ones leaves one behind.
THEOREM NothingLeft == Spec => []NoStray
<1> DEFINE Inv == HandInv /\ Kept
<1>1. Init => Inv
  BY HandInit, BoxesInit
<1>2. Inv /\ [Next]_vars => Inv'
  BY HandStep, KeptStep
<1>3. Inv => NoStray
  <2> SUFFICES ASSUME Inv, {"cut_create", "unclean", "raised", "ignored", "crash"} \cap mishap = {}, NEW b \in DOMAIN box,
                      box[b] # "none"
               PROVE  \/ \E r \in con \union req.rows : <<r.id, r.cid, r.host>> = b
                      \/ req.op = "migrate" /\ req.id = b[1]
    BY DEF NoStray, Unless
  <2>1. Tidy
    BY DEF Kept, Unless
  <2>2. CASE req.at = "built" /\ b = Target
    <3>1. req.op = "migrate"
      BY <2>2, Migrates DEF HandInv, Moves
    <3> QED BY <2>2, <3>1 DEF Target
  <2> QED BY <2>1, <2>2 DEF Tidy, Place
<1> QED BY <1>1, <1>2, <1>3, PTL DEF Spec

LEMMA RowPlaces ==
  ASSUME Shapes
  PROVE  /\ \A r \in con : Place(r) \in DOMAIN box
         /\ \A r \in req.rows : Place(r) \in DOMAIN box
BY Placed, Values DEF Shapes

LEMMA BackedQuiet == ASSUME Hand, Whole, Quiet PROVE Whole'
BY RowPlaces DEF Whole, Quiet, NoneKept, Hand

LEMMA BackedSame ==
  ASSUME Hand, Whole, NoneKept, con' = con, req' = req
  PROVE  Whole'
<1>1. Target' = Target /\ (req.at = "built" => Target \in DOMAIN box)
  BY SameTarget, TargetIn
<1>2. \A r \in con : box'[Place(r)] = "none" <=> box[Place(r)] = "none"
  BY RowPlaces DEF NoneKept, Hand
<1>3. \A r \in req.rows : box'[Place(r)] = "none" <=> box[Place(r)] = "none"
  BY RowPlaces DEF NoneKept, Hand
<1> QED BY <1>1, <1>2, <1>3 DEF Whole, NoneKept

LEMMA BackedEnter ==
  ASSUME Hand, Whole, NewRequest
  PROVE  Whole'
BY EnterBegins, IdleIs DEF Begins, db_vars, Hand, Whole

LEMMA BackedGrowth ==
  ASSUME Hand, Hand', Whole, GrowthStep
  PROVE  Whole'
<1>1. req.op \in Growth /\ req.at \notin {"built", "moved", "check", "drop", "remove"}
  <2>1. req.op \in Growth
    BY Growing
  <2> QED BY <2>1 DEF Hand, Handled, PhasesOf, Growth, Moves
<1>2. req'.at # "built"
  <2>1. req'.op \in Growth \/ req' = Idle
    BY Growing
  <2> QED BY <2>1, IdleIs DEF Hand, Handled, PhasesOf, Growth, Moves
<1>3. /\ \A r \in con : box[Place(r)] # "none"
      /\ \A r \in req.rows : box[Place(r)] # "none"
  BY <1>1 DEF Whole
<1>4. ASSUME box' = box, con' = con, req' = Idle \/ req'.rows \in {{}, req.rows} PROVE Whole'
  BY <1>2, <1>3, <1>4, IdleIs DEF Whole
<1>5. ASSUME box' = box, con' = con \union req.rows, req' = Idle PROVE Whole'
  BY <1>2, <1>3, <1>5, IdleIs DEF Whole, Growth
<1>6. ASSUME NEW r \in Row, NEW v, v # "none", box' = [box EXCEPT ![Place(r)] = v], con' = con,
             req'.rows \in {{}, req.rows \union {r}}
      PROVE  Whole'
  <2>1. /\ DOMAIN box' = DOMAIN box /\ box'[Place(r)] = v
        /\ \A b \in DOMAIN box : b # Place(r) => box'[b] = box[b]
    BY <1>6, Placed, Put DEF Hand
  <2>2. \A q \in con : box'[Place(q)] # "none"
    BY <1>3, <1>6, <2>1, RowPlaces DEF Hand
  <2>3. \A q \in req.rows : box'[Place(q)] # "none"
    BY <1>3, <1>6, <2>1, RowPlaces DEF Hand
  <2>4. \A q \in req'.rows : box'[Place(q)] # "none"
    BY <1>6, <2>1, <2>3
  <2> QED BY <1>2, <1>6, <2>2, <2>4 DEF Whole
<1>7. CASE Refuse
  BY <1>4, <1>7, StepIs DEF Refuse, db_vars
<1>8. CASE Reserve
  BY <1>4, <1>8, ReserveIs DEF Reserve, Made
<1>9. CASE GatewayFails
  BY <1>4, <1>9, StepIs DEF GatewayFails, db_vars
<1>10. CASE StartNew
  <2>1. con' = con
    BY <1>10 DEF StartNew, db_vars
  <2>2. CASE box' = box
    BY <1>4, <1>10, <2>1, <2>2, StartNewIs DEF Goes, Made
  <2>3. ASSUME NEW r \in req.rows, req.rows = {r}, box' = [box EXCEPT ![Place(r)] = "running"], req'.rows = req.rows
        PROVE  Whole'
    BY <1>6, <2>1, <2>3, Values DEF Hand
  <2> QED BY <1>10, <2>2, <2>3, StartNewIs DEF Goes, Made
<1>11. CASE CreateCommit \/ ScaleOutCommit
  BY <1>5, <1>11 DEF CreateCommit, ScaleOutCommit, Leave
<1>12. ASSUME NEW k \in Cid, NEW w \in Worker, Build(k, w) PROVE Whole'
  <2> DEFINE row == [id |-> req.id, cid |-> k, host |-> w, ip |-> Min(req.ips)]
  <2>1. con' = con
    BY <1>12 DEF Build, db_vars
  <2>2. row \in Row /\ Place(row) = <<req.id, k, w>>
    BY <1>12, BuildIs DEF Place
  <2>3. \/ box' = [box EXCEPT ![<<req.id, k, w>>] = "stopped"] /\ req'.rows \in {{}, req.rows \union {row}}
        \/ box' = box /\ req'.rows = {}
    BY <1>12, BuildIs, IdleIs DEF Made, Failed
  <2> HIDE DEF row
  <2> QED BY <1>4, <1>6, <2>1, <2>2, <2>3
<1> QED BY <1>7, <1>8, <1>9, <1>10, <1>11, <1>12 DEF GrowthStep

LEMMA BackedRemoval ==
  ASSUME Hand, Hand', Whole, "cut_delete" \notin mishap', "unanswered" \notin mishap', "crossed" \notin mishap',
         DeleteCheck \/ ReleaseAddresses \/ ScaleInCommit \/ DeleteCommit \/ Refund \/ \E k \in Cid : Drop(k)
  PROVE  Whole'
<1>1. req.op \in Removal /\ req.at \in {"check", "drop", "remove", "refund"}
  BY StepIs, DropIs DEF DeleteCheck, ReleaseAddresses, ScaleInCommit, DeleteCommit, Refund, Drop, Removal
<1>2. req'.op \notin Growth /\ req'.at # "built"
  BY StepIs, DropIs, IdleIs DEF Goes, Made, Growth, Removal, ScaleInCommit, Leave
<1>3. \A r \in con : box[Place(r)] = "none" => req.at \in {"drop", "remove"} /\ r \in req.rows /\ r.cid \notin req.todo
  BY DEF Whole
<1>4. CASE DeleteCheck \/ Refund
  <2>1. con' = con /\ box' = box /\ req.at \notin {"drop", "remove"}
    BY <1>4 DEF DeleteCheck, Refund, db_vars
  <2> QED BY <1>2, <1>3, <2>1 DEF Whole
<1>5. CASE ReleaseAddresses
  <2>1. con' = con /\ box' = box /\ req'.at = "remove" /\ req'.rows = req.rows /\ req'.todo = req.todo
    BY <1>5, Smooth DEF ReleaseAddresses, Goes, Made, db_vars
  <2> QED BY <1>2, <1>3, <2>1 DEF Whole
<1>6. CASE ScaleInCommit \/ DeleteCommit
  <2>1. con' = con \ req.rows /\ box' = box
    BY <1>6 DEF ScaleInCommit, DeleteCommit
  <2> QED BY <1>2, <1>3, <2>1 DEF Whole
<1>7. ASSUME NEW k \in Cid, Drop(k) PROVE Whole'
  <2> DEFINE r == RowOf(req.id, k)
  <2>1. con' = con /\ req.at = "drop" /\ k \in req.todo
    BY <1>7, DropIs DEF Drop, db_vars
  <2>2. r \in con /\ r.id = req.id /\ r.cid = k /\ \A q \in RowsOf(req.id) : q.cid = k => q = r
    BY <1>7, InLoop DEF Drop
  <2>3. /\ req.rows \subseteq con /\ \A q \in req.rows : q.id = req.id
        /\ req.op # "scalein" => RowsOf(req.id) \subseteq req.rows
        /\ req.todo \subseteq {q.cid : q \in req.rows}
        /\ req.op = "scalein" => \E q \in con : req.rows = {q}
    BY <1>1, <2>1 DEF Hand, Removes, Handled
  <2>4. r \in req.rows
    <3>1. PICK q \in req.rows : q.cid = k
      BY <2>1, <2>3
    <3>2. q \in RowsOf(req.id)
      BY <2>3 DEF RowsOf
    <3> QED BY <2>2, <3>1, <3>2
  <2> HIDE DEF r
  <2>5. CASE /\ box' = [box EXCEPT ![Place(r)] = "none"]
             /\ req'.at = "drop" /\ req'.todo = req.todo \ {k} /\ req'.rows = req.rows
    <3>1. \A b \in DOMAIN box : b # Place(r) => box'[b] = box[b]
      BY <2>2, <2>5, RowPlaces, Put DEF Hand
    <3>2. ASSUME NEW q \in con, box'[Place(q)] = "none" PROVE q \in req.rows /\ q.cid \notin req.todo \ {k}
      <4>1. CASE Place(q) = Place(r)
        <5>1. q.id = r.id /\ q.cid = r.cid
          BY <4>1 DEF Place
        <5>2. q = r
          BY <2>2, <5>1 DEF Hand, Numbered
        <5> QED BY <2>2, <2>4, <5>2
      <4>2. CASE Place(q) # Place(r)
        <5>1. box[Place(q)] = "none"
          BY <3>1, <3>2, <4>2, RowPlaces DEF Hand
        <5> QED BY <1>3, <5>1
      <4> QED BY <4>1, <4>2
    <3> QED BY <1>2, <2>1, <2>5, <3>2 DEF Whole
  <2>6. CASE UNCHANGED box /\ req' = Idle
    <3>1. req.op # "scalein" => req.todo = CidsOf(req.id)
      BY <1>7, <2>6, DropIs, IdleIs DEF Goes, Made, First, Removal
    <3>2. \A q \in req.rows : q.cid \in req.todo
      <4>1. CASE req.op = "scalein"
        BY <2>1, <2>2, <2>3, <2>4, <4>1
      <4>2. CASE req.op # "scalein"
        BY <2>3, <3>1, <4>2 DEF CidsOf, RowsOf
      <4> QED BY <4>1, <4>2
    <3> QED BY <1>2, <1>3, <2>1, <2>6, <3>2 DEF Whole
  <2>7. CASE box' = box /\ req'.at = "drop" /\ req'.todo = req.todo \ {k} /\ req'.rows = req.rows
    BY <1>2, <1>3, <2>1, <2>7 DEF Whole
  <2> QED BY <1>7, <2>5, <2>6, <2>7, DropIs DEF Goes, Made, r
<1> QED BY <1>4, <1>5, <1>6, <1>7

LEMMA BackedMove ==
  ASSUME Hand, Whole, NEW k \in Cid,
         \/ MoveCommit(k) \/ MoveDrop(k) \/ (MoveBuild(k) /\ Spoils)
         \/ MoveBuild(k) /\ Goes("built", req.todo) /\ box' = [box EXCEPT ![Target] = "stopped"]
  PROVE  Whole'
<1>1. /\ req.at \in {"saved", "built", "moved"} /\ k \in req.todo /\ k = Min(req.todo) /\ req.op = "migrate"
      /\ req.op \notin Growth
  <2>1. req.at \in {"saved", "built", "moved"} /\ k \in req.todo /\ k = Min(req.todo)
    BY MoveCommitIs, MoveDropIs, MoveBuildIs
  <2> QED BY <2>1, Migrates DEF Moves, Growth
<1>2. req'.op \notin Growth
  BY <1>1, MoveCommitIs, MoveDropIs, IdleIs DEF Goes, Made, Growth, Spoils, MoveEnds
<1>3. \A r \in con : box[Place(r)] # "none"
  BY <1>1 DEF Whole
<1>4. CASE MoveBuild(k) /\ Goes("built", req.todo) /\ box' = [box EXCEPT ![Target] = "stopped"]
  <2>1. Target' = Target /\ con' = con /\ Target \in DOMAIN box
    BY <1>1, <1>4, SameTarget, TargetIn DEF MoveBuild, Goes, Made, db_vars
  <2>2. box'[Target] = "stopped" /\ \A b \in DOMAIN box : b # Target => box'[b] = box[b]
    BY <1>4, <2>1, Put DEF Hand
  <2>3. \A r \in con : box'[Place(r)] # "none"
    BY <1>3, <2>2, RowPlaces DEF Hand
  <2> QED BY <1>2, <2>1, <2>2, <2>3 DEF Whole
<1>5. CASE MoveCommit(k)
  <2>1. PICK r \in req.rows, q \in Row : Place(q) = Target /\ con' = (con \ {r}) \union {q}
    BY <1>5, MoveCommitIs
  <2>2. box' = box /\ req.at = "built" /\ req'.at = "moved"
    BY <1>5, MoveCommitIs DEF MoveCommit, Goes, Made
  <2>3. box[Target] # "none"
    BY <2>2 DEF Whole
  <2>4. \A p \in con' : box[Place(p)] # "none"
    BY <1>3, <2>1, <2>3
  <2> QED BY <1>2, <2>2, <2>4 DEF Whole
<1>6. CASE MoveDrop(k)
  <2>1. con' = con /\ req.at = "moved"
    BY <1>6 DEF MoveDrop, db_vars
  <2>2. CASE req'.at # "built" /\ UNCHANGED box
    BY <1>2, <1>3, <2>1, <2>2 DEF Whole
  <2>3. ASSUME NEW old \in req.rows, old.cid = k, box' = [box EXCEPT ![Place(old)] = "none"], req'.at # "built"
        PROVE  Whole'
    <3>1. PICK r \in con : Trace(old, r) /\ r.host \in req.workers
      BY <1>1, <2>1, <2>3 DEF Hand, Moving
    <3>2. old.host \notin req.workers
      BY <1>1 DEF Hand, Moving
    <3>3. \A p \in con : Place(p) # Place(old)
      <4> SUFFICES ASSUME NEW p \in con, Place(p) = Place(old) PROVE FALSE
        OBVIOUS
      <4>1. p.id = old.id /\ p.cid = old.cid /\ p.host = old.host
        BY DEF Place
      <4>2. p = r
        BY <3>1, <4>1 DEF Trace, Hand, Numbered
      <4> QED BY <3>1, <3>2, <4>1, <4>2
    <3>4. \A b \in DOMAIN box : b # Place(old) => box'[b] = box[b]
      BY <2>3, RowPlaces, Put DEF Hand
    <3>5. \A p \in con : box'[Place(p)] # "none"
      BY <1>3, <3>3, <3>4, RowPlaces DEF Hand
    <3> QED BY <1>2, <2>1, <2>3, <3>5 DEF Whole
  <2> QED BY <1>6, <2>2, <2>3, MoveDropIs, IdleIs DEF Goes, Made
<1>7. CASE MoveBuild(k) /\ Spoils
  <2>1. con' = con /\ Target \in DOMAIN box
    BY <1>1, <1>7, TargetIn DEF MoveBuild, db_vars
  <2>2. box'[Target] = "stopped" /\ \A b \in DOMAIN box : b # Target => box'[b] = box[b]
    BY <1>7, <2>1, Put DEF Hand, Spoils
  <2>3. \A r \in con : box'[Place(r)] # "none"
    BY <1>3, <2>2, RowPlaces DEF Hand
  <2>4. req'.at # "built"
    BY <1>7, IdleIs DEF Spoils, MoveEnds, Goes, Made
  <2> QED BY <1>2, <2>1, <2>3, <2>4 DEF Whole
<1> QED BY <1>4, <1>5, <1>6, <1>7

LEMMA BackedStep ==
  ASSUME HandInv, HandInv', Backed, [Next]_vars
  PROVE  Backed'
<1> DEFINE C == {"cut_delete", "unanswered", "crossed", "crash"}
<1> SUFFICES ASSUME C \cap mishap' = {} PROVE Whole'
  BY DEF Backed, Unless
<1>0. Hand /\ Hand' /\ Restores
  BY DEF HandInv
<1>1. Whole
  <2>1. C \cap mishap = {}
    BY <1>0, Grown
  <2> QED BY <2>1 DEF Backed, Unless
<1>2. "cut_delete" \notin mishap' /\ "unanswered" \notin mishap' /\ "crossed" \notin mishap' /\ "crash" \notin mishap'
  OBVIOUS
<1> HIDE DEF C
<1>3. CASE NewRequest
  BY <1>0, <1>1, <1>3, BackedEnter
<1>4. CASE RequestStep
  BY <1>0, <1>1, <1>2, <1>4, BoxCases, BackedGrowth, BackedQuiet, BackedRemoval, BackedMove
<1>5. CASE RecoveryStep \/ NodeStep \/ UNCHANGED vars
  <2>1. con' = con /\ req' = req
    <3>1. CASE Crash
      BY <1>0, <1>2, <3>1, CrashIs DEF Hand, db_vars
    <3> QED BY <1>5, <3>1, AsideSteps DEF Aside, NodeStep
  <2>2. NoneKept
    BY <1>0, <1>5, AsideBoxes DEF Hand
  <2> QED BY <1>0, <1>1, <2>1, <2>2, BackedSame
<1> QED BY <1>3, <1>4, <1>5 DEF Next

\* The row of a cluster that no request has in hand has its container: a
\* removal that ended half-way, after the deletion of a container, or a restart
\* is the only way to a row without one.
THEOREM NothingMissing == Spec => []NoPhantom
<1> DEFINE Inv == HandInv /\ Backed
<1>1. Init => Inv
  BY HandInit, BoxesInit
<1>2. Inv /\ [Next]_vars => Inv'
  BY HandStep, BackedStep
<1>3. Inv => NoPhantom
  <2> SUFFICES ASSUME Inv, {"cut_delete", "unanswered", "crossed", "crash"} \cap mishap = {}, NEW r \in con, r.id # req.id
               PROVE  box[r.id, r.cid, r.host] # "none"
    BY DEF NoPhantom, Unless
  <2>1. box[Place(r)] = "none" => r \in req.rows
    BY DEF Backed, Unless, Whole
  <2>2. \A q \in req.rows : q.id = req.id
    BY DEF HandInv, Hand, Handled
  <2> QED BY <2>1, <2>2 DEF Place
<1> QED BY <1>1, <1>2, <1>3, PTL DEF Spec

-----------------------------------------------------------------------------
(* The status.                                                             *)

\* A request for all clusters does not come back to one.
Onward == req.id \notin req.more

\* The recovery and a request work on different clusters, whose status is
\* then what each of them has read.
Separate ==
  /\ req.id \notin Id \cap InRecovery(rec)
  /\ \A id \in Id \cap InRecovery(rec) : id \in Stoppable
  /\ req.op = "scaleout" /\ req.at \notin {"charged", "failed"} => status[req.id] = req.pre
  /\ req.at \in {"gateway", "start"} => status[req.id] \in {"stopped", "error"}
  /\ req.at = "stop" => req.id \in Stoppable
  /\ req.at \in {"saved", "built", "moved"} => status[req.id] = "stopped"
Apart == Unless({"overlap"}, Separate)

\* No container of a stopped cluster runs, but those that a start has passed.
Rests ==
  /\ \A r \in con : status[r.id] = "stopped" /\ box[Place(r)] = "running" =>
       r.id = req.id /\ req.at = "start" /\ r.cid \notin req.todo
  /\ req.op \in Growth => \A r \in req.rows : box[Place(r)] = "running" =>
       req.op = "scaleout" /\ req.at = "commit" /\ req.pre = "running"
  /\ req.at = "stop" => \A r \in RowsOf(req.id) : r.cid \notin req.todo => box[Place(r)] # "running"
  /\ req.at = "built" => box[Target] # "running"
RestsTold == Unless({"cut_start", "unstopped", "overlap", "crash"}, Rests)

\* A container that should run: its worker is up, and not to be recovered.
Up(w) == w \in alive /\ \A i \in DOMAIN queue : queue[i] # w

\* The containers of a running cluster run, but for those that the recovery
\* has before it and those that a stop has passed.
Runs ==
  /\ \A r \in con : status[r.id] = "running" /\ Up(r.host) /\ box[Place(r)] = "stopped" =>
       \/ r.id \in rec.todo
       \/ r.id = rec.id /\ (rec.at = "bad" \/ (rec.at \in {"gateway", "box"} /\ r \in rec.rows))
       \/ r.id = req.id /\ req.at = "stop" /\ r.cid \notin req.todo
  /\ rec.at \in {"gateway", "box", "good"} =>
       \A r \in RowsOf(rec.id) : Up(r.host) /\ box[Place(r)] = "stopped" => rec.at # "good" /\ r \in rec.rows
  /\ req.at \in {"gateway", "start"} => \A r \in RowsOf(req.id) : r.cid \notin req.todo => box[Place(r)] # "stopped"
  /\ req.op = "scaleout" /\ req.at = "commit" /\ req.pre = "running" =>
       \A r \in req.rows : box[Place(r)] # "stopped"
RunsTold == Unless({"cut_stop", "ignored", "ended", "overlap", "died", "quick"}, Runs)

LEMMA OnwardStep ==
  ASSUME Hand, Onward, [Next]_vars
  PROVE  Onward'
<1>1. ASSUME req' = Idle \/ req' = req PROVE Onward'
  <2>1. Idle.more = {}
    BY DEF Idle
  <2>2. CASE req' = Idle
    BY <2>1, <2>2, Zenon DEF Onward
  <2>3. CASE req' = req
    BY <2>3 DEF Onward
  <2> QED BY <1>1, <2>2, <2>3
<1>2. ASSUME NEW a, NEW t, Goes(a, t) PROVE Onward'
  BY <1>2 DEF Onward, Goes, Made
<1>3. ASSUME req'.more = {} PROVE Onward'
  BY <1>3 DEF Onward
<1>4. ASSUME NEW causes, StopEnds(causes) PROVE Onward'
  BY <1>1, <1>2, <1>4 DEF StopEnds, Onward, Made
<1>5. ASSUME MoveEnds PROVE Onward'
  BY <1>1, <1>2, <1>5 DEF MoveEnds
<1>6. CASE NewRequest
  <2>1. CASE CreateEnter \/ (\E id \in Id : \/ ScaleOutEnter(id) \/ StartEnter(id) \/ StopEnter(id) \/ DeleteEnter(id)
                                             \/ ReleaseEnter(id) \/ \E k \in Cid : ScaleInEnter(id, k))
    BY <1>3, <2>1, CreateEnterIs, ScaleOutEnterIs, StartEnterIs, StopEnterIs, DeleteEnterIs, ReleaseEnterIs,
       ScaleInEnterIs DEF Made, Hand
  <2>2. CASE StopAllEnter
    <3>1. req'.id = 0 /\ req'.more \subseteq Id
      BY <2>2, StopAllEnterIs DEF Made, Hand
    <3> QED BY <3>1 DEF Onward, Id
  <2>3. ASSUME NEW id \in Id, NEW src \in Worker, NEW dst \in Worker, MigrateEnter(id, src, dst) PROVE Onward'
    BY <1>3, <2>3, MigrateEnterIs DEF Made, Hand
  <2> QED BY <1>6, <2>1, <2>2, <2>3 DEF NewRequest
<1>7. CASE Refuse \/ GatewayFails \/ DeleteCheck \/ ReleaseAddresses \/ DeleteCommit \/ Refund \/ StartGateway
  BY <1>1, <1>2, <1>7, StepIs
<1>8. CASE StopSkip \/ StopCommit \/ MoveEnd
  BY <1>4, <1>5, <1>8, StepIs
<1>9. CASE Reserve
  BY <1>1, <1>9, ReserveIs DEF Made, Onward
<1>10. CASE StartNew
  BY <1>1, <1>2, <1>10, StartNewIs
<1>11. CASE CreateCommit \/ ScaleOutCommit \/ ScaleInCommit \/ StartCommit
  BY <1>1, <1>11 DEF CreateCommit, ScaleOutCommit, ScaleInCommit, StartCommit, Leave
<1>12. ASSUME NEW k \in Cid, \/ Drop(k) \/ StartBox(k) \/ StopBox(k)
                             \/ MoveSave(k) \/ MoveBuild(k) \/ MoveCommit(k) \/ MoveDrop(k)
       PROVE  Onward'
  <2>1. CASE Drop(k)
    BY <1>1, <1>2, <2>1, DropIs
  <2>2. CASE StartBox(k)
    BY <1>1, <1>2, <2>2, StartBoxIs
  <2>3. CASE StopBox(k)
    BY <1>1, <1>2, <1>4, <2>3, StopBoxIs
  <2>4. CASE MoveSave(k) \/ MoveBuild(k)
    BY <1>1, <1>2, <1>5, <2>4, MoveSaveIs, MoveBuildIs
  <2>5. CASE MoveCommit(k) \/ MoveDrop(k)
    BY <1>1, <1>2, <2>5, MoveCommitIs, MoveDropIs
  <2> QED BY <1>12, <2>1, <2>2, <2>3, <2>4, <2>5
<1>13. ASSUME NEW k \in Cid, NEW w \in Worker, Build(k, w) PROVE Onward'
  BY <1>1, <1>13, BuildIs DEF Made, Failed, Onward
<1>14. CASE RecoveryStep \/ NodeStep \/ UNCHANGED vars
  BY <1>1, <1>14, OtherStill DEF Hand, vars
<1> QED BY <1>6, <1>7, <1>8, <1>9, <1>10, <1>11, <1>12, <1>13, <1>14 DEF Next, RequestStep

\* Whether a step puts a cluster into two hands is told.
LEMMA AfterStopTells ==
  ASSUME Shapes, NEW causes, AfterStop(causes), rec' = rec
  PROVE  req' = Idle \/ req'.id = req.id \/ Overlap(req', rec') \subseteq mishap'
<1>1. CASE req.op = "stopall" /\ req.more # {}
  <2>1. mishap' = mishap \union causes \union Overlap(req', rec)
    BY <1>1 DEF AfterStop
  <2> QED BY <2>1
<1>2. CASE ~(req.op = "stopall" /\ req.more # {}) /\ req.op = "migrate"
  BY <1>2, AfterStopIs DEF StopEnds, Goes, Made
<1>3. CASE ~(req.op = "stopall" /\ req.more # {}) /\ req.op # "migrate"
  BY <1>3 DEF AfterStop, Leave
<1> QED BY <1>1, <1>2, <1>3

LEMMA RequestTells ==
  ASSUME Hand, RequestStep
  PROVE  Enders /\ (req' = Idle \/ req'.id = req.id \/ Overlap(req', rec') \subseteq mishap')
<1>1. Enders
  BY RequestEnders
<1>2. ASSUME MoveEnds PROVE req' = Idle \/ req'.id = req.id
  BY <1>2 DEF MoveEnds, Goes, Made
<1>3. CASE Refuse \/ GatewayFails \/ DeleteCheck \/ ReleaseAddresses \/ DeleteCommit \/ Refund \/ StartGateway
  BY <1>1, <1>3, StepIs DEF Goes, Made
<1>4. CASE StopSkip \/ StopCommit
  BY <1>1, <1>4, AfterStopTells DEF StopSkip, StopCommit, Hand
<1>5. CASE Reserve \/ StartNew
  BY <1>1, <1>5, ReserveIs, StartNewIs DEF Goes, Made
<1>6. CASE CreateCommit \/ ScaleOutCommit \/ ScaleInCommit \/ StartCommit
  BY <1>1, <1>6 DEF CreateCommit, ScaleOutCommit, ScaleInCommit, StartCommit, Leave
<1>7. ASSUME NEW k \in Cid, StopBox(k) PROVE req' = Idle \/ req'.id = req.id \/ Overlap(req', rec') \subseteq mishap'
  <2>1. CASE AfterStop(IF First(req.id) THEN {} ELSE {"cut_stop"})
    BY <1>7, <2>1, AfterStopTells DEF StopBox, Hand
  <2>2. CASE Leave(IF First(req.id) THEN {} ELSE {"cut_stop"})
    BY <2>2 DEF Leave
  <2>3. CASE req' = [req EXCEPT !.todo = @ \ {k}]
    <3>1. req' = [req EXCEPT !.todo = @ \ {k}]
      BY <2>3
    <3>2. Goes(req.at, req.todo \ {k})
      BY <3>1, GoesOn DEF Hand
    <3> QED BY <3>2 DEF Goes, Made
  <2> QED BY <1>7, <2>1, <2>2, <2>3 DEF StopBox, Advance
<1>8. ASSUME NEW k \in Cid, Drop(k) \/ StartBox(k) \/ MoveCommit(k) \/ MoveDrop(k)
      PROVE  req' = Idle \/ req'.id = req.id
  BY <1>8, DropIs, StartBoxIs, MoveCommitIs, MoveDropIs DEF Goes, Made
<1>9. ASSUME NEW k \in Cid, MoveSave(k) \/ MoveBuild(k) PROVE req' = Idle \/ req'.id = req.id
  BY <1>2, <1>9, MoveSaveIs, MoveBuildIs DEF Goes, Made
<1>10. ASSUME NEW k \in Cid, NEW w \in Worker, Build(k, w) PROVE req' = Idle \/ req'.id = req.id
  BY <1>10, BuildIs DEF Made, Failed
<1>11. CASE MoveEnd
  BY <1>1, <1>2, <1>11, StepIs
<1> QED BY <1>1, <1>3, <1>4, <1>5, <1>6, <1>7, <1>8, <1>9, <1>10, <1>11 DEF RequestStep

LEMMA Seen ==
  ASSUME Hand, Restores, [Next]_vars, "overlap" \notin mishap', req.id \notin Id \cap InRecovery(rec)
  PROVE  req'.id \notin Id \cap InRecovery(rec')
<1>1. ASSUME req' = Idle PROVE req'.id \notin Id \cap InRecovery(rec')
  <2>1. req'.id = 0
    BY <1>1, IdleIs
  <2>2. 0 \notin Id
    BY DEF Id
  <2> QED BY <2>1, <2>2
<1>2. CASE Overlap(req', rec') \subseteq mishap'
  BY <1>2 DEF Overlap
<1>3. CASE rec' = rec /\ req'.id = req.id
  BY <1>3 DEF InRecovery
<1>a. CASE rec' = Dead(rec)
  BY <1>a, DeadPuts DEF Puts, InRecovery, Id, Hand
<1>b. ASSUME req' = req, rec'.todo = rec.todo, rec'.id = rec.id PROVE req'.id \notin Id \cap InRecovery(rec')
  BY <1>b DEF InRecovery
<1>4. CASE NewRequest
  BY <1>2, <1>4, EnterBegins DEF Begins, Hand
<1>5. CASE RequestStep
  BY <1>1, <1>2, <1>3, <1>a, <1>5, RequestTells DEF Enders
<1>6. CASE RecoveryStep
  <2>1. CASE RecoverBox
    BY <1>b, <2>1, BoxIs DEF RecoverBox, Puts, Hand
  <2>2. CASE RecoverPorts
    BY <1>2, <1>a, <2>2 DEF RecoverPorts, Recover
  <2> QED BY <1>2, <1>6, <2>1, <2>2 DEF RecoveryStep, RecoverTake, RecoverGateway, RecoverMark, RecoverPick, Recover
<1>7. CASE NodeStep
  BY <1>1, <1>3, <1>a, <1>7 DEF NodeStep, Crash, RecoverDies, Die, Forget, Return
<1>8. CASE UNCHANGED vars
  BY <1>3, <1>8 DEF vars
<1> QED BY <1>4, <1>5, <1>6, <1>7, <1>8 DEF Next

\* With what a request for a start or a stop begins.
LEMMA EnterPhase ==
  ASSUME Shapes, NewRequest
  PROVE  /\ req'.at # "start"
         /\ req'.at = "gateway" => status[req'.id] \in {"stopped", "error"} /\ req'.todo = CidsOf(req'.id)
         /\ req'.at = "stop" => req'.id \in Stoppable /\ req'.todo = CidsOf(req'.id)
         /\ req'.op = "scaleout" => req'.at = "charged"
<1>1. CASE CreateEnter \/ StopAllEnter
  BY <1>1, CreateEnterIs, StopAllEnterIs DEF Made
<1>2. ASSUME NEW id \in Id, ScaleOutEnter(id) \/ DeleteEnter(id) \/ ReleaseEnter(id)
      PROVE  req'.at \notin {"gateway", "start", "stop"} /\ (req'.op = "scaleout" => req'.at = "charged")
  BY <1>2, ScaleOutEnterIs, DeleteEnterIs, ReleaseEnterIs DEF Made
<1>3. ASSUME NEW id \in Id, NEW k \in Cid, ScaleInEnter(id, k)
      PROVE  req'.at \notin {"gateway", "start", "stop"} /\ req'.op # "scaleout"
  BY <1>3, ScaleInEnterIs DEF Made
<1>4. ASSUME NEW id \in Id, StartEnter(id)
      PROVE  /\ req'.at = "gateway" /\ req'.op # "scaleout"
             /\ status[req'.id] \in {"stopped", "error"} /\ req'.todo = CidsOf(req'.id)
  BY <1>4, StartEnterIs DEF StartEnter, Startable, Made
<1>5. ASSUME NEW id \in Id, StopEnter(id)
      PROVE  req'.at = "stop" /\ req'.op # "scaleout" /\ req'.id \in Stoppable /\ req'.todo = CidsOf(req'.id)
  BY <1>5, StopEnterIs DEF StopEnter, Made
<1>6. ASSUME NEW id \in Id, NEW src \in Worker, NEW dst \in Worker, MigrateEnter(id, src, dst)
      PROVE  /\ req'.at \notin {"gateway", "start"} /\ req'.op # "scaleout"
             /\ req'.at = "stop" => req'.id \in Stoppable /\ req'.todo = CidsOf(req'.id)
  BY <1>6, MigrateEnterIs DEF Made
<1> QED BY <1>1, <1>2, <1>3, <1>4, <1>5, <1>6 DEF NewRequest

\* A request writes the status of its cluster only, the recovery that of its own.
LEMMA StatusSteps ==
  ASSUME Hand, Restores, [Next]_vars
  PROVE  /\ RequestStep => \A id \in Id : id # req.id => status'[id] = status[id]
         /\ RecoverMark => \A id \in Id : id # rec.id => status'[id] = status[id]
         /\ ~RecoverMark /\ ~CreateCommit /\ ~DeleteCommit /\ ~StartCommit /\ ~StopCommit => status' = status
<1>0. status \in [Id -> Status]
  BY DEF Hand, Shapes
<1>1. CreateCommit \/ DeleteCommit \/ StartCommit \/ StopCommit
      => \A id \in Id : id # req.id => status'[id] = status[id]
  BY <1>0 DEF CreateCommit, DeleteCommit, StartCommit, StopCommit
<1>2. RecoverMark => \A id \in Id : id # rec.id => status'[id] = status[id]
  BY <1>0 DEF RecoverMark
<1>3. CASE NewRequest
  BY <1>3, EnterBegins DEF Begins, db_vars, Hand
<1>4. RequestStep /\ ~CreateCommit /\ ~DeleteCommit /\ ~StartCommit /\ ~StopCommit => status' = status
  BY DEF db_vars, RequestStep, Refuse, Reserve, GatewayFails, StartNew, ScaleOutCommit, DeleteCheck, ReleaseAddresses,
     ScaleInCommit, Refund, StartGateway, StopSkip, MoveEnd, Drop, StartBox, StopBox, MoveSave, MoveBuild, MoveCommit, MoveDrop, Build
<1>5. NewRequest \/ NodeStep \/ UNCHANGED vars \/ (RecoveryStep /\ ~RecoverMark) => status' = status
  BY EnterBegins DEF Begins, db_vars, Hand, NodeStep, Crash, RecoverDies, Die, Forget, Return, vars, RecoveryStep, RecoverTake,
     RecoverGateway, RecoverBox, RecoverPorts, RecoverPick
<1>6. RequestStep => \A id \in Id : id # req.id => status'[id] = status[id]
  BY <1>1, <1>4
<1>7. ~RecoverMark /\ ~CreateCommit /\ ~DeleteCommit /\ ~StartCommit /\ ~StopCommit => status' = status
  BY <1>4, <1>5 DEF Next
<1> QED BY <1>2, <1>6, <1>7

\* A request that has something in hand has a cluster.
LEMMA HasCluster == ASSUME Hand, req.at \notin {"", "skip"} PROVE req.id \in Id
BY DEF Hand, Handled, PhasesOf

\* The request's part of Separate.
Own ==
  /\ req.op = "scaleout" /\ req.at \notin {"charged", "failed"} => status[req.id] = req.pre
  /\ req.at \in {"gateway", "start"} => status[req.id] \in {"stopped", "error"}
  /\ req.at = "stop" => req.id \in Stoppable
  /\ req.at \in {"saved", "built", "moved"} => status[req.id] = "stopped"

LEMMA OwnGrowth ==
  ASSUME Hand, Hand', Own, GrowthStep
  PROVE  Own'
<1>1. req.op \in Growth /\ (req' = Idle \/ req'.op = req.op)
  BY Growing
<1>2. req'.at \notin {"gateway", "start", "stop", "saved", "built", "moved"}
  BY <1>1, IdleIs DEF Hand, Handled, PhasesOf, Growth
<1>3. CASE req' = Idle
  BY <1>2, <1>3, IdleIs DEF Own
<1>4. CASE Reserve
  <2>1. req' = Idle \/ (req'.pre = status[req.id] /\ req'.id = req.id)
    BY <1>4, ReserveIs DEF Made
  <2>2. status' = status
    BY <1>4 DEF Reserve
  <2> QED BY <1>2, <1>3, <2>1, <2>2 DEF Own
<1>5. ASSUME req.at \notin {"charged", "failed"}, req'.op = req.op, req'.pre = req.pre, req'.id = req.id, status' = status PROVE Own'
  BY <1>2, <1>5 DEF Own
<1>6. CASE StartNew
  BY <1>3, <1>5, <1>6, StartNewIs DEF StartNew, Goes, Made, db_vars
<1>7. ASSUME NEW k \in Cid, NEW w \in Worker, Build(k, w) PROVE Own'
  <2>1. status' = status /\ req.at = "build"
    BY <1>7 DEF Build, db_vars
  <2>2. CASE Failed
    BY <1>2, <2>2 DEF Failed, Made, Own
  <2> QED BY <1>3, <1>5, <1>7, <2>1, <2>2, BuildIs DEF Made
<1> QED BY <1>3, <1>4, <1>6, <1>7, StepIs DEF GrowthStep, CreateCommit, ScaleOutCommit, Leave

LEMMA OwnRest ==
  ASSUME Hand, Hand', Own, Onward, RequestStep, ~GrowthStep
  PROVE  Own'
<1>0. /\ req.op \in Ops /\ status \in [Id -> Status] /\ Handled /\ Handled' /\ req'.op \in Ops
  BY DEF Hand, Shapes, Requests
<1>1. CASE req' = Idle
  BY <1>1, IdleIs DEF Own
<1>2. ASSUME req'.op \in Removal PROVE Own'
  BY <1>0, <1>2 DEF Own, Handled, PhasesOf, Removal
<1>3. CASE DeleteCheck \/ ReleaseAddresses \/ Refund \/ DeleteCommit
  BY <1>1, <1>2, <1>3, StepIs DEF Goes, Made, Removal
<1>4. CASE ScaleInCommit \/ StartCommit
  BY <1>1, <1>4 DEF ScaleInCommit, StartCommit, Leave
<1>5. ASSUME MoveEnds, status' = status PROVE Own'
  <2>1. CASE req' = Idle
    BY <1>1, <2>1
  <2>2. CASE Startable(req.id) /\ Goes("gateway", CidsOf(req.id))
    <3>1. /\ req'.at = "gateway" /\ req'.id = req.id /\ status'[req.id] \in {"stopped", "error"}
      BY <1>5, <2>2 DEF Goes, Made, Startable
    <3>2. req'.op # "scaleout"
      BY <1>0, <3>1 DEF Handled, PhasesOf
    <3> QED BY <3>1, <3>2 DEF Own
  <2> QED BY <1>5, <2>1, <2>2 DEF MoveEnds
<1>6. ASSUME NEW causes, StopEnds(causes), \A id \in Id : id # req.id => status'[id] = status[id] PROVE Own'
  <2>1. CASE req.op = "migrate" /\ Goes("move", {r.cid : r \in req.rows})
    BY <2>1 DEF Goes, Made, Own
  <2>2. ASSUME NEW id \in req.more, id \in Stoppable, req'.op = "stopall", req'.at = "stop", req'.id = id PROVE Own'
    <3>1. status'[id] = status[id] /\ id \in Id
      BY <1>6, <2>2 DEF Onward, Stoppable
    <3>2. id \in Stoppable'
      BY <2>2, <3>1 DEF Stoppable
    <3> QED BY <2>2, <3>2 DEF Own
  <2>3. ASSUME req'.op = "stopall", req'.at = "skip" PROVE Own'
    BY <2>3 DEF Own
  <2> QED BY <1>1, <1>6, <2>1, <2>2, <2>3 DEF StopEnds, Made
<1>7. CASE StopSkip \/ StopCommit
  <2>1. \E causes : StopEnds(causes)
    BY <1>7, StepIs
  <2>2. \A id \in Id : id # req.id => status'[id] = status[id]
    BY <1>0, <1>7 DEF StopSkip, StopCommit, db_vars
  <2> QED BY <1>6, <2>1, <2>2
<1>8. CASE MoveEnd
  BY <1>5, <1>8, StepIs DEF MoveEnd, db_vars
<1>9. ASSUME NEW a, NEW t, Goes(a, t), status' = status, req.op # "scaleout",
             \/ a = req.at \/ a \in {"drop", "move"}
             \/ a = "start" /\ req.at = "gateway"
             \/ a = "saved" /\ status[req.id] = "stopped"
             \/ a \in {"built", "moved"} /\ req.at \in {"saved", "built"}
      PROVE  Own'
  BY <1>9 DEF Goes, Made, Own, Stoppable
<1>10. ASSUME NEW k \in Cid, \/ Drop(k) \/ StartBox(k) \/ StopBox(k)
                             \/ MoveSave(k) \/ MoveBuild(k) \/ MoveCommit(k) \/ MoveDrop(k)
       PROVE  Own'
  <2>1. status' = status
    BY <1>10 DEF Drop, StartBox, StopBox, MoveSave, MoveBuild, MoveCommit, MoveDrop, db_vars
  <2>2. req.op # "scaleout"
    <3>1. req.at \in {"drop", "start", "stop"} \union Moves
      BY <1>10 DEF Drop, StartBox, StopBox, MoveSave, MoveBuild, MoveCommit, MoveDrop, Moves
    <3> QED BY <1>0, <3>1 DEF Handled, PhasesOf, Moves
  <2>3. CASE Drop(k)
    BY <1>1, <1>9, <2>1, <2>2, <2>3, DropIs
  <2>4. CASE StartBox(k)
    BY <1>1, <1>9, <2>1, <2>2, <2>4, StartBoxIs
  <2>5. CASE StopBox(k)
    <3>1. ASSUME NEW causes, StopEnds(causes) PROVE Own'
      BY <1>6, <2>1, <3>1
    <3> QED BY <1>1, <1>9, <2>1, <2>2, <2>5, <3>1, StopBoxIs
  <2>6. CASE MoveSave(k)
    BY <1>1, <1>5, <1>9, <2>1, <2>2, <2>6, MoveSaveIs
  <2>7. CASE MoveBuild(k)
    BY <1>5, <1>9, <2>1, <2>2, <2>7, MoveBuildIs
  <2>8. CASE MoveCommit(k) \/ MoveDrop(k)
    BY <1>1, <1>9, <2>1, <2>2, <2>8, MoveCommitIs, MoveDropIs
  <2> QED BY <1>10, <2>3, <2>4, <2>5, <2>6, <2>7, <2>8
<1>11. CASE StartGateway
  <2>1. status' = status
    BY <1>11 DEF StartGateway, db_vars
  <2>2. req.op # "scaleout"
    BY <1>0, <1>11, StepIs DEF Handled, PhasesOf
  <2> QED BY <1>1, <1>9, <1>11, <2>1, <2>2, StepIs
<1> QED BY <1>3, <1>4, <1>7, <1>8, <1>10, <1>11 DEF RequestStep, GrowthStep

LEMMA ApartStep ==
  ASSUME HandInv, HandInv', Onward, Apart, [Next]_vars
  PROVE  Apart'
<1> SUFFICES ASSUME "overlap" \notin mishap' PROVE Separate'
  BY DEF Apart, Unless
<1>0. Hand /\ Hand' /\ Restores /\ Shapes /\ status \in [Id -> Status]
  BY DEF HandInv, Hand, Shapes
<1>1. Separate
  <2>1. "overlap" \notin mishap
    BY <1>0, Grown
  <2> QED BY <2>1 DEF Apart, Unless
<1>2. req'.id \notin Id \cap InRecovery(rec')
  BY <1>0, <1>1, Seen DEF Separate
<1>3. \A id \in Id \cap InRecovery(rec) : id \in Stoppable /\ id # req.id
  BY <1>1 DEF Separate
<1>4. Own
  BY <1>1 DEF Separate, Own
<1>5. ASSUME NEW id \in Id, id \in Stoppable, status'[id] = status[id] PROVE id \in Stoppable'
  BY <1>5 DEF Stoppable
<1>6. ASSUME status' = status, \A id \in Id \cap InRecovery(rec') : id \in Stoppable
      PROVE  \A id \in Id \cap InRecovery(rec') : id \in Stoppable'
  BY <1>5, <1>6
<1>7. ASSUME RecoveryStep \/ NodeStep \/ UNCHANGED vars \/ NewRequest, ~RecoverMark PROVE status' = status
  BY <1>0, <1>7, EnterBegins DEF Begins, db_vars, NodeStep, Crash, RecoverDies, Die, Forget, Return, vars,
     RecoveryStep, RecoverTake, RecoverGateway, RecoverBox, RecoverPorts, RecoverPick
<1>8. \A id \in Id \cap InRecovery(rec') : id \in Stoppable'
  <2>1. CASE rec' = rec /\ status' = status
    BY <1>3, <1>6, <2>1 DEF InRecovery
  <2>2. 0 \notin Id
    BY DEF Id
  <2>3. ASSUME NEW todo, NEW boot, todo \subseteq Stoppable, status' = status, NEW at,
               Puts(todo, 0, {}, at, boot)
        PROVE  \A id \in Id \cap InRecovery(rec') : id \in Stoppable'
    BY <1>6, <2>2, <2>3 DEF Puts, InRecovery
  <2>4. rec.todo \subseteq Stoppable
    BY <1>0, <1>3, RecValues DEF InRecovery
  <2>5. CASE NewRequest
    BY <1>0, <2>1, <2>5, EnterBegins DEF Begins, db_vars
  <2>6. CASE RequestStep
    <3>1. InRecovery(rec') \subseteq InRecovery(rec) \union {0}
      BY <1>0, <2>6, RequestTells, DeadPuts DEF Enders, Puts, InRecovery
    <3>2. \A id \in Id : id # req.id => status'[id] = status[id]
      BY <1>0, <2>6, StatusSteps
    <3> QED BY <1>3, <1>5, <2>2, <3>1, <3>2
  <2>7. CASE RecoverTake
    <3> DEFINE due == {id \in Stoppable : \E r \in RowsOf(id) : r.host = Head(queue)}
    <3>1. Puts({}, 0, {}, "rest", FALSE) \/ Puts(due, 0, {}, "pick", FALSE)
      BY <1>0, <2>7, TakeIs
    <3>2. due \subseteq Stoppable /\ status' = status
      BY <2>7 DEF RecoverTake, db_vars
    <3> HIDE DEF due
    <3> QED BY <2>3, <3>1, <3>2
  <2>8. ASSUME NEW id \in Id, RecoverPick(id) PROVE \A i \in Id \cap InRecovery(rec') : i \in Stoppable'
    <3>1. status' = status
      BY <2>8 DEF RecoverPick, db_vars
    <3>2. id \in rec.todo /\ InRecovery(rec') \subseteq InRecovery(rec) \union {0}
      BY <1>0, <2>8, PickIs DEF Puts, InRecovery
    <3> QED BY <1>3, <1>6, <2>2, <3>1, <3>2
  <2>9. CASE RecoverGateway \/ RecoverBox \/ RecoverPorts \/ RecoverDies
    <3>1. status' = status
      BY <2>9 DEF RecoverGateway, RecoverBox, RecoverPorts, RecoverDies, db_vars
    <3>2. InRecovery(rec') \subseteq InRecovery(rec) \union {0}
      BY <1>0, <2>9, RecoverGatewayIs, BoxIs, PortsIs, RecoverDiesIs DEF Puts, InRecovery
    <3> QED BY <1>3, <1>6, <2>2, <3>1, <3>2
  <2>10. CASE RecoverMark
    <3>1. InRecovery(rec') \subseteq rec.todo \union {0}
      BY <1>0, <2>10, MarkIs DEF Puts, InRecovery
    <3>2. \A id \in rec.todo : id \in Stoppable'
      <4> SUFFICES ASSUME NEW id \in rec.todo PROVE id \in Stoppable'
        OBVIOUS
      <4>1. id \in Stoppable /\ id \in Id
        BY <2>4 DEF Stoppable
      <4>2. CASE id = rec.id
        <5>1. status'[id] \in {"running", "error"}
          <6>1. Exists(rec.id)
            BY <4>1, <4>2 DEF Stoppable, Exists
          <6> QED BY <1>0, <2>10, <4>1, <4>2, <6>1, MarkIs
        <5> QED BY <4>1, <5>1 DEF Stoppable
      <4>3. CASE id # rec.id
        BY <1>0, <1>5, <2>10, <4>1, <4>3, StatusSteps
      <4> QED BY <4>2, <4>3
    <3> QED BY <2>2, <3>1, <3>2
  <2>11. CASE Crash
    <3>1. Puts({}, 0, {}, "rest", FALSE) \/ Puts(Stoppable, 0, {}, "pick", TRUE)
      BY <1>0, <2>11, CrashIs
    <3>2. status' = status
      BY <2>11 DEF Crash, db_vars
    <3> QED BY <2>3, <3>1, <3>2
  <2>12. CASE UNCHANGED vars \/ \E w \in Worker : Die(w) \/ Forget(w) \/ Return(w)
    BY <2>1, <2>12 DEF Die, Forget, Return, vars, db_vars
  <2> QED BY <2>5, <2>6, <2>7, <2>8, <2>9, <2>10, <2>11, <2>12 DEF Next, RecoveryStep, NodeStep
<1>9. Own'
  <2>1. CASE NewRequest
    <3>1. status' = status
      BY <1>0, <2>1, EnterBegins DEF Begins, db_vars
    <3>2. req'.at \notin {"saved", "built", "moved"}
      BY <1>0, <2>1, EnterBegins DEF Begins
    <3> QED BY <1>0, <2>1, <3>1, <3>2, EnterPhase DEF Own, Stoppable
  <2>2. CASE RequestStep
    BY <1>0, <1>4, <2>2, OwnGrowth, OwnRest
  <2>3. CASE req' = Idle
    BY <2>3, IdleIs DEF Own
  <2>4. CASE req' = req /\ status' = status
    BY <1>4, <2>4 DEF Own, Stoppable
  <2>5. CASE RecoverMark
    <3>1. req' = req
      BY <2>5 DEF RecoverMark
    <3>2. CASE req.at \in {"", "skip"}
      BY <1>0, <3>1, <3>2 DEF Own, Hand, Handled, PhasesOf
    <3>3. CASE req.at \notin {"", "skip"}
      <4>1. req.id \in Id /\ req.id # rec.id
        BY <1>0, <1>1, <3>3, HasCluster DEF Separate, InRecovery
      <4>2. status'[req.id] = status[req.id]
        BY <1>0, <2>5, <4>1, StatusSteps
      <4> QED BY <1>4, <3>1, <4>1, <4>2 DEF Own, Stoppable
    <3> QED BY <3>2, <3>3
  <2>6. CASE (RecoveryStep /\ ~RecoverMark) \/ NodeStep \/ UNCHANGED vars
    <3>1. status' = status
      BY <1>7, <2>6 DEF RecoverMark, NodeStep, Crash, RecoverDies, Die, Forget, Return, db_vars, vars
    <3>2. req' = req \/ req' = Idle
      BY <1>0, <2>6, OtherStill DEF vars
    <3> QED BY <2>3, <2>4, <3>1, <3>2
  <2> QED BY <2>1, <2>2, <2>5, <2>6 DEF Next
<1> QED BY <1>2, <1>8, <1>9 DEF Separate, Own

LEMMA ApartInit == Init => Onward /\ Apart
<1> SUFFICES ASSUME Init PROVE Onward /\ Apart
  OBVIOUS
<1>1. 0 \notin Id
  BY DEF Id
<1>2. req = Idle /\ rec = Resting
  BY DEF Init
<1>3. Idle.more = {}
  BY DEF Idle
<1>4. Onward
  BY <1>2, <1>3, Zenon DEF Onward
<1>5. InRecovery(rec) = {0}
  BY <1>2 DEF Resting, InRecovery
<1>6. Separate
  BY <1>1, <1>2, <1>5, IdleIs DEF Separate
<1> QED BY <1>4, <1>6 DEF Apart, Unless

\* What is common to the steps after which no container runs that did not.
LEMMA RestsLess ==
  ASSUME con' \subseteq con, req.at # "start", req'.op \notin Growth, req'.at \notin {"stop", "built"},
         \A r \in con' : /\ status'[r.id] = "stopped" => status[r.id] = "stopped"
                         /\ box'[Place(r)] = "running" => box[Place(r)] = "running",
         Rests
  PROVE  Rests'
BY DEF Rests

LEMMA RestsEnter ==
  ASSUME Hand, Rests, NewRequest
  PROVE  Rests'
<1>1. /\ con' = con /\ box' = box /\ status' = status /\ req = Idle /\ req'.at # "built"
      /\ req'.op \in Growth => req'.rows = {}
  BY EnterBegins DEF Begins, db_vars, Hand
<1>2. \A r \in con : ~(status[r.id] = "stopped" /\ box[Place(r)] = "running")
  BY <1>1, IdleIs DEF Rests
<1>3. req'.at = "stop" => \A r \in RowsOf(req'.id) : r.cid \in req'.todo
  BY EnterPhase DEF CidsOf, Hand
<1>4. \A id : RowsOf(id)' = RowsOf(id)
  BY <1>1 DEF RowsOf
<1>5. req'.at = "stop" => \A r \in RowsOf(req.id)' : r.cid \in req'.todo
  BY <1>1, <1>3 DEF RowsOf
<1> QED BY <1>1, <1>2, <1>5 DEF Rests

LEMMA RestsGrowth ==
  ASSUME Hand, Hand', Own, Rests, GrowthStep
  PROVE  Rests'
<1>1. req.op \in Growth /\ req.at \notin {"start", "stop", "built"}
  <2>1. req.op \in Growth
    BY Growing
  <2> QED BY <2>1 DEF Hand, Handled, PhasesOf, Growth, Moves
<1>2. req'.at \notin {"stop", "built"}
  <2>1. req'.op \in Growth \/ req' = Idle
    BY Growing
  <2> QED BY <2>1, IdleIs DEF Hand, Handled, PhasesOf, Growth, Moves
<1>3. /\ \A r \in con : status[r.id] = "stopped" => box[Place(r)] # "running"
      /\ \A r \in req.rows : box[Place(r)] = "running" =>
           req.op = "scaleout" /\ req.at = "commit" /\ req.pre = "running"
  BY <1>1 DEF Rests
<1>4. ASSUME con' = con, status' = status, req' = Idle \/ req'.rows = {},
             \A r \in con : status[r.id] = "stopped" => box'[Place(r)] # "running"
      PROVE  Rests'
  BY <1>2, <1>4, IdleIs DEF Rests
<1>5. CASE Refuse \/ GatewayFails
  BY <1>3, <1>4, <1>5, StepIs DEF Refuse, GatewayFails, db_vars
<1>6. CASE Reserve
  BY <1>3, <1>4, <1>6, ReserveIs DEF Reserve, Made
<1>7. CASE StartNew
  <2>1. con' = con /\ status' = status
    BY <1>7 DEF StartNew, db_vars
  <2>2. CASE req' = Idle /\ box' = box
    BY <1>3, <1>4, <2>1, <2>2
  <2>4. ASSUME box' = box, Goes("commit", req.todo), req.at = "new" PROVE Rests'
    <3>1. req'.rows = req.rows /\ req'.at = "commit"
      BY <2>4 DEF Goes, Made
    <3> QED BY <1>3, <2>1, <2>4, <3>1 DEF Rests
  <2>3. ASSUME NEW r \in req.rows, req.rows = {r}, req.op = "scaleout", req.at = "new",
               box' = [box EXCEPT ![Place(r)] = "running"], Goes("commit", req.todo)
        PROVE  Rests'
    <3>1. req'.op = "scaleout" /\ req'.at = "commit" /\ req'.pre = "running" /\ req.pre = "running"
      BY <2>3 DEF Goes, Made, Hand, Grows, Growth
    <3>2. \A b \in DOMAIN box : b # Place(r) => box'[b] = box[b]
      BY <2>3, RowPlaces, Put DEF Hand
    <3>3. status[req.id] = "running" /\ r.id = req.id
      BY <2>3, <3>1 DEF Own, Hand, Handled
    <3>4. ASSUME NEW p \in con, status[p.id] = "stopped", box'[Place(p)] = "running" PROVE FALSE
      <4>1. Place(p) # Place(r)
        BY <3>3, <3>4 DEF Place
      <4>2. box[Place(p)] = "running"
        BY <3>2, <3>4, <4>1, RowPlaces DEF Hand
      <4> QED BY <1>3, <3>4, <4>2
    <3> QED BY <1>2, <2>1, <3>1, <3>4 DEF Rests
  <2> QED BY <1>7, <2>2, <2>3, <2>4, StartNewIs
<1>8. CASE CreateCommit
  <2>1. /\ con' = con \union req.rows /\ box' = box /\ req' = Idle /\ req.op = "create"
        /\ status' = [status EXCEPT ![req.id] = "stopped"]
    BY <1>8 DEF CreateCommit, Leave
  <2>2. \A r \in con : r.id # req.id /\ r.id \in Id
    BY <2>1 DEF Hand, Grows, Growth, Numbered, Shapes, Row
  <2>3. \A r \in con : status'[r.id] = status[r.id]
    BY <2>1, <2>2 DEF Hand, Shapes
  <2>4. \A r \in req.rows : box[Place(r)] # "running"
    BY <1>3, <2>1
  <2>5. \A r \in con' : status'[r.id] = "stopped" => box'[Place(r)] # "running"
    BY <1>3, <2>1, <2>3, <2>4
  <2> QED BY <2>1, <2>5, IdleIs DEF Rests, Growth
<1>9. CASE ScaleOutCommit
  <2>1. con' = con \union req.rows /\ box' = box /\ req' = Idle /\ req.op = "scaleout" /\ status' = status /\ req.at = "commit"
    BY <1>9 DEF ScaleOutCommit, Leave
  <2>2. status[req.id] = req.pre /\ \A r \in req.rows : r.id = req.id
    BY <2>1 DEF Own, Hand, Handled
  <2>3. \A r \in con' : status'[r.id] = "stopped" => box'[Place(r)] # "running"
    BY <1>3, <2>1, <2>2
  <2> QED BY <2>1, <2>3, IdleIs DEF Rests, Growth
<1>10. ASSUME NEW k \in Cid, NEW w \in Worker, Build(k, w) PROVE Rests'
  <2> DEFINE row == [id |-> req.id, cid |-> k, host |-> w, ip |-> Min(req.ips)]
  <2>1. con' = con /\ status' = status /\ req.at = "build"
    BY <1>10 DEF Build, db_vars
  <2>2. row \in Row /\ Place(row) = <<req.id, k, w>>
    BY <1>10, BuildIs DEF Place
  <2>3. \/ box' = [box EXCEPT ![<<req.id, k, w>>] = "stopped"] /\ req'.rows = req.rows \union {row}
        \/ (box' = [box EXCEPT ![<<req.id, k, w>>] = "stopped"] \/ box' = box) /\ (req' = Idle \/ req'.rows = {})
    BY <1>10, BuildIs DEF Made, Failed
  <2> HIDE DEF row
  <2>4. ASSUME box' = [box EXCEPT ![Place(row)] = "stopped"]
        PROVE  /\ box'[Place(row)] = "stopped" /\ \A b \in DOMAIN box : b # Place(row) => box'[b] = box[b]
               /\ \A p \in con : status[p.id] = "stopped" => box'[Place(p)] # "running"
    <3>1. box'[Place(row)] = "stopped" /\ \A b \in DOMAIN box : b # Place(row) => box'[b] = box[b]
      BY <2>2, <2>4, Placed, Put DEF Hand
    <3>2. \A p \in con : status[p.id] = "stopped" => box'[Place(p)] # "running"
      BY <1>3, <3>1, RowPlaces DEF Hand
    <3> QED BY <3>1, <3>2
  <2>5. CASE box' = [box EXCEPT ![Place(row)] = "stopped"] /\ req'.rows = req.rows \union {row}
    <3>3. \A p \in req.rows : box'[Place(p)] # "running"
      BY <1>3, <2>1, <2>4, <2>5, RowPlaces DEF Hand
    <3>4. \A p \in req'.rows : box'[Place(p)] # "running"
      BY <2>4, <2>5, <3>3
    <3> QED BY <1>2, <2>1, <2>4, <2>5, <3>4 DEF Rests
  <2>6. CASE (box' = [box EXCEPT ![Place(row)] = "stopped"] \/ box' = box) /\ (req' = Idle \/ req'.rows = {})
    BY <1>3, <1>4, <2>1, <2>4, <2>6
  <2> QED BY <2>2, <2>3, <2>5, <2>6
<1> QED BY <1>5, <1>6, <1>7, <1>8, <1>9, <1>10 DEF GrowthStep

LEMMA RestsRemoval ==
  ASSUME Hand, Rests,
         DeleteCheck \/ ReleaseAddresses \/ ScaleInCommit \/ DeleteCommit \/ Refund \/ \E k \in Cid : Drop(k)
  PROVE  Rests'
<1>1. req.op \in Removal /\ req.at \in {"check", "drop", "remove", "refund"}
  BY StepIs, DropIs DEF DeleteCheck, ReleaseAddresses, ScaleInCommit, DeleteCommit, Refund, Drop, Removal
<1>2. req'.op \notin Growth /\ req'.at \notin {"stop", "built"}
  BY StepIs, DropIs, IdleIs DEF Goes, Made, Growth, Removal, ScaleInCommit, Leave
<1>3. con' \subseteq con
  BY DEF DeleteCheck, ReleaseAddresses, ScaleInCommit, DeleteCommit, Refund, Drop, db_vars
<1>4. \A r \in con' : status'[r.id] = "stopped" => status[r.id] = "stopped"
  <2>1. \A r \in con' : r.id \in Id
    BY <1>3 DEF Hand, Shapes, Row
  <2>2. status' = status \/ status' = [status EXCEPT ![req.id] = "none"]
    BY DEF DeleteCheck, ReleaseAddresses, ScaleInCommit, DeleteCommit, Refund, Drop, db_vars
  <2> QED BY <2>1, <2>2 DEF Hand, Shapes
<1>5. \A r \in con' : box'[Place(r)] = "running" => box[Place(r)] = "running"
  <2>1. CASE box' = box
    BY <2>1
  <2>2. ASSUME NEW k \in Cid, Drop(k) PROVE \A r \in con' : box'[Place(r)] = "running" => box[Place(r)] = "running"
    <3>1. ASSUME box' = [box EXCEPT ![Place(RowOf(req.id, k))] = "none"]
          PROVE \A r \in con' : box'[Place(r)] = "running" => box[Place(r)] = "running"
      BY <1>3, <3>1, RowPlaces DEF Hand
    <3> QED BY <2>1, <2>2, <3>1, DropIs
  <2> QED BY <2>1, <2>2 DEF DeleteCheck, ReleaseAddresses, ScaleInCommit, DeleteCommit, Refund
<1> QED BY <1>1, <1>2, <1>3, <1>4, <1>5, RestsLess

LEMMA StoppedEnds ==
  ASSUME Hand, con' = con, box' = box, \A r \in con : status'[r.id] = "stopped" => box[Place(r)] # "running",
         req.op \notin Growth, NEW causes, StopEnds(causes)
  PROVE  Rests'
<1>1. \A id : RowsOf(id)' = RowsOf(id) /\ CidsOf(id)' = CidsOf(id)
  BY DEF RowsOf, CidsOf
<1>2. ASSUME req'.op \notin Growth, req'.at \notin {"stop", "built"} PROVE Rests'
  BY <1>2 DEF Rests
<1>3. ASSUME req'.op \notin Growth, req'.at = "stop", req'.todo = CidsOf(req'.id) PROVE Rests'
  <2>1. \A r \in RowsOf(req.id)' : r.cid \in req'.todo
    BY <1>3 DEF RowsOf, CidsOf
  <2> QED BY <1>3, <2>1 DEF Rests
<1> QED BY <1>2, <1>3, IdleIs DEF StopEnds, Goes, Made, Growth

LEMMA RestsStart ==
  ASSUME Hand, Rests, "cut_start" \notin mishap', StartGateway \/ StartCommit \/ \E k \in Cid : StartBox(k)
  PROVE  Rests'
<1>0. CASE StartGateway
  <2>1. con' = con /\ status' = status /\ box' = box /\ req.at = "gateway"
    BY <1>0 DEF StartGateway, db_vars
  <2>2. req' = Idle \/ (req'.at = "start" /\ req'.op = req.op)
    BY <1>0, StepIs DEF Goes, Made
  <2>3. req.op \notin Growth
    BY <2>1 DEF Hand, Handled, PhasesOf, Growth
  <2> QED BY <2>1, <2>2, <2>3, IdleIs DEF Rests, Growth
<1>a. SUFFICES ASSUME StartCommit \/ \E k \in Cid : StartBox(k) PROVE Rests'
  BY <1>0
<1>1. con' = con /\ req.at = "start"
  BY <1>a DEF StartCommit, StartBox, db_vars
<1>2. req.op \notin Growth
  BY <1>1 DEF Hand, Handled, PhasesOf, Growth
<1>3. \A r \in con : status[r.id] = "stopped" /\ box[Place(r)] = "running" => r.id = req.id /\ r.cid \notin req.todo
  BY DEF Rests
<1>4. CASE StartCommit
  <2>1. status' = [status EXCEPT ![req.id] = "running"] /\ req' = Idle /\ box' = box /\ req.id \in Id
    BY <1>1, <1>4, HasCluster DEF StartCommit, Leave
  <2>2. \A r \in con : status'[r.id] = "stopped" => r.id # req.id /\ status[r.id] = "stopped"
    <3>1. \A r \in con : r.id \in Id
      BY DEF Hand, Shapes, Row
    <3> QED BY <2>1, <3>1 DEF Hand, Shapes
  <2> QED BY <1>1, <1>3, <2>1, <2>2, IdleIs DEF Rests, Growth
<1>5. ASSUME NEW k \in Cid, StartBox(k) PROVE Rests'
  <2> DEFINE r == RowOf(req.id, k)
  <2>1. status' = status
    BY <1>5 DEF StartBox, db_vars
  <2>2. r \in con /\ r.id = req.id /\ r.cid = k
    BY <1>1, <1>5, InLoop DEF StartBox
  <2> HIDE DEF r
  <2>3. CASE box' = [box EXCEPT ![Place(r)] = IF @ = "none" THEN "none" ELSE "running"] /\ Goes("start", req.todo \ {k})
    <3>1. req'.at = "start" /\ req'.op = req.op /\ req'.id = req.id /\ req'.todo = req.todo \ {k}
      BY <2>3 DEF Goes, Made
    <3>2. \A b \in DOMAIN box : b # Place(r) => box'[b] = box[b]
      BY <2>2, <2>3, RowPlaces, Put DEF Hand
    <3>3. ASSUME NEW p \in con, status[p.id] = "stopped", box'[Place(p)] = "running"
          PROVE  p.id = req.id /\ p.cid \notin req.todo \ {k}
      <4>1. CASE Place(p) = Place(r)
        BY <2>2, <4>1 DEF Place
      <4>2. CASE Place(p) # Place(r)
        BY <1>3, <3>2, <3>3, <4>2, RowPlaces DEF Hand
      <4> QED BY <4>1, <4>2
    <3> QED BY <1>1, <1>2, <2>1, <3>1, <3>3 DEF Rests
  <2>4. CASE box' = box /\ Goes("start", req.todo \ {k})
    BY <1>1, <1>2, <1>3, <2>1, <2>4 DEF Rests, Goes, Made
  <2>5. CASE box' = box /\ req' = Idle /\ First(req.id)
    <3>1. \A p \in con : p.id = req.id => p.cid \in req.todo
      BY <2>5 DEF First, CidsOf, RowsOf
    <3> QED BY <1>1, <1>3, <2>1, <2>5, <3>1, IdleIs DEF Rests, Growth
  <2> QED BY <1>5, <2>3, <2>4, <2>5, StartBoxIs DEF r
<1> QED BY <1>a, <1>4, <1>5

LEMMA RestsStop ==
  ASSUME Hand, Rests, "unstopped" \notin mishap', StopSkip \/ StopCommit \/ \E k \in Cid : StopBox(k)
  PROVE  Rests'
<1>1. con' = con /\ req.at \in {"skip", "stop"}
  BY DEF StopSkip, StopCommit, StopBox, db_vars
<1>2. req.op \notin Growth
  BY <1>1 DEF Hand, Handled, PhasesOf, Growth
<1>3. \A r \in con : status[r.id] = "stopped" => box[Place(r)] # "running"
  BY <1>1 DEF Rests
<1>4. CASE StopSkip
  BY <1>1, <1>2, <1>3, <1>4, StepIs, StoppedEnds DEF StopSkip, db_vars
<1>5. CASE StopCommit
  <2>1. status' = [status EXCEPT ![req.id] = "stopped"] /\ box' = box /\ req.at = "stop" /\ req.todo = {} /\ req.id \in Id
    BY <1>1, <1>5, HasCluster DEF StopCommit
  <2>2. \A r \in con : r.id = req.id => box[Place(r)] # "running"
    BY <2>1 DEF Rests, RowsOf
  <2>3. \A r \in con : status'[r.id] = "stopped" => box[Place(r)] # "running"
    <3>1. \A r \in con : r.id \in Id
      BY DEF Hand, Shapes, Row
    <3> QED BY <1>3, <2>1, <2>2, <3>1 DEF Hand, Shapes
  <2> QED BY <1>1, <1>2, <1>5, <2>1, <2>3, StepIs, StoppedEnds
<1>6. ASSUME NEW k \in Cid, StopBox(k) PROVE Rests'
  <2> DEFINE r == RowOf(req.id, k)
  <2>1. status' = status /\ req.at = "stop"
    BY <1>6 DEF StopBox, db_vars
  <2>2. r \in con /\ r.id = req.id /\ r.cid = k /\ \A q \in RowsOf(req.id) : q.cid = k => q = r
    BY <1>6, <2>1, InLoop DEF StopBox
  <2> HIDE DEF r
  <2>3. CASE box' = [box EXCEPT ![Place(r)] = IF @ = "none" THEN "none" ELSE "stopped"] /\ Goes("stop", req.todo \ {k})
    <3>1. req'.at = "stop" /\ req'.op = req.op /\ req'.id = req.id /\ req'.todo = req.todo \ {k}
      BY <2>3 DEF Goes, Made
    <3>2. \A b \in DOMAIN box : b # Place(r) => box'[b] = box[b]
      BY <2>2, <2>3, RowPlaces, Put DEF Hand
    <3>3. box'[Place(r)] # "running"
      BY <2>2, <2>3, RowPlaces DEF Hand
    <3>4. \A p \in con : status[p.id] = "stopped" => box'[Place(p)] # "running"
      BY <1>3, <3>2, <3>3, RowPlaces DEF Hand
    <3>5. ASSUME NEW p \in RowsOf(req.id), p.cid \notin req.todo \ {k} PROVE box'[Place(p)] # "running"
      <4>1. CASE p.cid = k
        BY <2>2, <3>3, <4>1
      <4>2. CASE p.cid # k
        <5>1. box[Place(p)] # "running" /\ p \in con
          BY <2>1, <3>5, <4>2 DEF Rests, RowsOf
        <5> QED BY <3>2, <3>3, <5>1, RowPlaces DEF Hand
      <4> QED BY <4>1, <4>2
    <3>6. RowsOf(req.id)' = RowsOf(req.id)
      BY <1>1, <3>1 DEF RowsOf
    <3> QED BY <1>1, <1>2, <2>1, <3>1, <3>4, <3>5, <3>6 DEF Rests
  <2>4. ASSUME NEW causes, StopEnds(causes), box' = box PROVE Rests'
    BY <1>1, <1>2, <1>3, <2>1, <2>4, StoppedEnds
  <2>5. CASE box' = box /\ req' = Idle
    BY <1>1, <1>3, <2>1, <2>5, IdleIs DEF Rests, Growth
  <2> QED BY <1>6, <2>3, <2>4, <2>5, StopBoxIs DEF r
<1> QED BY <1>4, <1>5, <1>6

LEMMA RestsMove ==
  ASSUME Hand, Rests, "unstopped" \notin mishap',
         MoveEnd \/ \E k \in Cid : MoveSave(k) \/ MoveBuild(k) \/ MoveCommit(k) \/ MoveDrop(k)
  PROVE  Rests'
<1>1. status' = status /\ req.at \in Moves
  BY DEF MoveEnd, MoveSave, MoveBuild, MoveCommit, MoveDrop, Moves, db_vars
<1>2. req.op \notin Growth /\ req.at \notin {"start", "stop"}
  BY <1>1, Migrates DEF Growth, Moves
<1>3. \A r \in con : status[r.id] = "stopped" => box[Place(r)] # "running"
  BY <1>2 DEF Rests
<1>4. ASSUME con' = con, req'.op \notin Growth, req'.at \notin {"stop", "built"},
             \A b \in DOMAIN box : box'[b] = "running" => box[b] = "running"
      PROVE  Rests'
  BY <1>1, <1>2, <1>4, RestsLess, RowPlaces DEF Hand
<1>5. ASSUME MoveEnds, con' = con, box' = box PROVE Rests'
  <2>1. req'.op \notin Growth /\ req'.at \notin {"stop", "built"}
    BY <1>2, <1>5, IdleIs DEF MoveEnds, Goes, Made, Growth
  <2> QED BY <1>4, <1>5, <2>1
<1>6. CASE MoveEnd
  BY <1>5, <1>6, StepIs DEF MoveEnd, db_vars
<1>7. ASSUME NEW k \in Cid, MoveSave(k) PROVE Rests'
  <2>1. con' = con
    BY <1>7 DEF MoveSave, db_vars
  <2>2. Place(RowOf(req.id, k)) \in DOMAIN box
    BY <1>7, InLoop, RowPlaces DEF MoveSave, Moves, Hand
  <2>3. ASSUME box' = [box EXCEPT ![Place(RowOf(req.id, k))] = IF @ = "none" THEN "none" ELSE "stopped"],
               Goes("saved", req.todo) \/ req' = Idle
        PROVE  Rests'
    <3>1. \A b \in DOMAIN box : box'[b] = "running" => box[b] = "running"
      BY <2>2, <2>3
    <3>2. req'.op \notin Growth /\ req'.at \notin {"stop", "built"}
      BY <1>2, <2>3, IdleIs DEF Goes, Made, Growth
    <3> QED BY <1>4, <2>1, <3>1, <3>2
  <2> QED BY <1>5, <1>7, <2>1, <2>3, MoveSaveIs
<1>8. ASSUME NEW k \in Cid, MoveBuild(k) PROVE Rests'
  <2>1. con' = con /\ req.at = "saved"
    BY <1>8 DEF MoveBuild, db_vars
  <2>2. ASSUME box' = [box EXCEPT ![Target] = "stopped"], Goes("built", req.todo) PROVE Rests'
    <3>1. Target' = Target /\ Target \in DOMAIN box
      BY <2>1, <2>2, SameTarget, TargetIn DEF Goes, Made
    <3>2. box'[Target] = "stopped" /\ \A b \in DOMAIN box : b # Target => box'[b] = box[b]
      BY <2>2, <3>1, Put DEF Hand
    <3>3. \A p \in con : status[p.id] = "stopped" => box'[Place(p)] # "running"
      BY <1>3, <3>2, RowPlaces DEF Hand
    <3>4. req'.op \notin Growth /\ req'.at = "built"
      BY <1>2, <2>2 DEF Goes, Made
    <3> QED BY <1>1, <2>1, <3>1, <3>2, <3>3, <3>4 DEF Rests
  <2>3. ASSUME MoveEnds, box' = [box EXCEPT ![Target] = "stopped"] PROVE Rests'
    <3>1. \A b \in DOMAIN box : box'[b] = "running" => box[b] = "running"
      BY <2>1, <2>3, TargetIn
    <3>2. req'.op \notin Growth /\ req'.at \notin {"stop", "built"}
      BY <1>2, <2>3, IdleIs DEF MoveEnds, Goes, Made, Growth
    <3> QED BY <1>4, <2>1, <3>1, <3>2
  <2> QED BY <1>5, <1>8, <2>1, <2>2, <2>3, MoveBuildIs
<1>9. ASSUME NEW k \in Cid, MoveCommit(k) PROVE Rests'
  <2>1. PICK r \in req.rows, q \in Row : Place(q) = Target /\ con' = (con \ {r}) \union {q}
    BY <1>9, MoveCommitIs
  <2>2. box' = box /\ req.at = "built" /\ req'.at = "moved" /\ req'.op = req.op
    BY <1>9, MoveCommitIs DEF MoveCommit, Goes, Made
  <2>3. box[Target] # "running"
    BY <2>2 DEF Rests
  <2>4. \A p \in con' : status[p.id] = "stopped" => box[Place(p)] # "running"
    BY <1>3, <2>1, <2>3
  <2> QED BY <1>1, <1>2, <2>2, <2>4 DEF Rests
<1>10. ASSUME NEW k \in Cid, MoveDrop(k) PROVE Rests'
  <2>1. con' = con
    BY <1>10 DEF MoveDrop, db_vars
  <2>2. PICK old \in req.rows :
               /\ box' = [box EXCEPT ![Place(old)] = "none"] \/ box' = box
               /\ Goes("move", req.todo \ {k}) \/ req' = Idle
    BY <1>10, MoveDropIs
  <2>3. \A b \in DOMAIN box : box'[b] = "running" => box[b] = "running"
    BY <2>2, RowPlaces DEF Hand
  <2>4. req'.op \notin Growth /\ req'.at \notin {"stop", "built"}
    BY <1>2, <2>2, IdleIs DEF Goes, Made, Growth
  <2> QED BY <1>4, <2>1, <2>3, <2>4
<1> QED BY <1>6, <1>7, <1>8, <1>9, <1>10

LEMMA RestsAside ==
  ASSUME Hand, Restores, Separate, Rests, "crash" \notin mishap',
         RecoveryStep \/ NodeStep \/ UNCHANGED vars
  PROVE  Rests'
<1>1. con' = con /\ req' = req
  <2>1. CASE Crash
    BY <2>1, CrashIs DEF Hand, db_vars
  <2> QED BY <2>1, AsideSteps DEF Aside, NodeStep
<1>2. \A id \in Id : status'[id] = "stopped" => status[id] = "stopped"
  <2>1. CASE RecoverMark
    BY <2>1 DEF RecoverMark, Hand, Shapes
  <2>2. CASE ~RecoverMark
    <3>1. status' = status
      BY <2>2 DEF RecoveryStep, RecoverTake, RecoverGateway, RecoverBox, RecoverPorts, RecoverPick,
                  NodeStep, Crash, RecoverDies, Die, Forget,
                  Return, vars, db_vars
    <3> QED BY <3>1
  <2> QED BY <2>1, <2>2
<1>3. \A b \in DOMAIN box : box'[b] = "running" => box[b] = "running" \/ (b[1] = rec.id /\ rec.id \in Id)
  <2>1. CASE box' = box
    BY <2>1
  <2>2. CASE RecoverBox
    <3>1. ASSUME NEW r \in rec.rows, box' = [box EXCEPT ![Place(r)] = Recovered(@)]
          PROVE  \A b \in DOMAIN box : box'[b] = "running" => box[b] = "running" \/ (b[1] = rec.id /\ rec.id \in Id)
      <4>1. r.id = rec.id /\ r \in Row /\ Place(r)[1] = r.id /\ r.id \in Id
        BY RecValues DEF Restores, Place, Row, Hand
      <4>2. Place(r) \in DOMAIN box
        BY <4>1, Placed DEF Hand
      <4>3. \A b \in DOMAIN box : b # Place(r) => box'[b] = box[b]
        BY <3>1, <4>2
      <4> QED BY <4>1, <4>3
    <3> QED BY <2>1, <2>2, <3>1, BoxIs DEF Hand
  <2>3. ASSUME NEW w \in Worker, Die(w) PROVE \A b \in DOMAIN box : box'[b] = "running" => box[b] = "running"
    BY <2>3 DEF Die
  <2> QED BY <2>1, <2>2, <2>3 DEF RecoveryStep, RecoverTake, RecoverGateway, RecoverPorts, RecoverMark,
                                  RecoverPick, NodeStep, Crash, RecoverDies,
                                  Forget, Return, vars
<1>4. rec.id \in Id => rec.id # req.id /\ status[rec.id] # "stopped"
  BY DEF Separate, InRecovery, Stoppable
<1>5. \A r \in con : r.id \in Id /\ Place(r) \in DOMAIN box /\ Place(r)[1] = r.id
  BY RowPlaces DEF Hand, Shapes, Row, Place
<1>6. \A r \in req.rows : r.id = req.id /\ Place(r) \in DOMAIN box /\ Place(r)[1] = r.id
  BY RowPlaces DEF Hand, Handled, Place
<1>7. \A r \in con : status'[r.id] = "stopped" /\ box'[Place(r)] = "running" =>
                       r.id = req.id /\ req.at = "start" /\ r.cid \notin req.todo
  BY <1>2, <1>3, <1>4, <1>5 DEF Rests
<1>8. req.op \in Growth => \A r \in req.rows : box'[Place(r)] = "running" =>
                             req.op = "scaleout" /\ req.at = "commit" /\ req.pre = "running"
  BY <1>3, <1>4, <1>6 DEF Rests
<1>9. req.at = "stop" => \A r \in RowsOf(req.id) : r.cid \notin req.todo => box'[Place(r)] # "running"
  BY <1>3, <1>4, <1>5 DEF Rests, RowsOf
<1>10. req.at = "built" => box'[Target] # "running" /\ Target' = Target
  <2>1. Target[1] = req.id /\ Target' = Target
    BY <1>1 DEF Target
  <2>2. req.at = "built" => Target \in DOMAIN box
    BY TargetIn
  <2> QED BY <1>3, <1>4, <2>1, <2>2 DEF Rests
<1>11. RowsOf(req.id)' = RowsOf(req.id)
  BY <1>1 DEF RowsOf
<1> QED BY <1>1, <1>7, <1>8, <1>9, <1>10, <1>11 DEF Rests

LEMMA RestsStep ==
  ASSUME HandInv, HandInv', Apart, RestsTold, [Next]_vars
  PROVE  RestsTold'
<1> DEFINE C == {"cut_start", "unstopped", "overlap", "crash"}
<1> SUFFICES ASSUME C \cap mishap' = {} PROVE Rests'
  BY DEF RestsTold, Unless
<1>0. Hand /\ Hand' /\ Restores
  BY DEF HandInv
<1>1. Rests /\ Separate
  <2>1. C \cap mishap = {} /\ "overlap" \notin mishap
    BY <1>0, Grown
  <2> QED BY <2>1 DEF RestsTold, Apart, Unless
<1>2. "cut_start" \notin mishap' /\ "unstopped" \notin mishap' /\ "crash" \notin mishap' /\ Own
  BY <1>1 DEF Separate, Own
<1> HIDE DEF C
<1>3. CASE NewRequest
  BY <1>0, <1>1, <1>3, RestsEnter
<1>4. CASE RequestStep
  BY <1>0, <1>1, <1>2, <1>4, RestsGrowth, RestsRemoval, RestsStart, RestsStop, RestsMove
     DEF RequestStep, GrowthStep
<1>5. CASE RecoveryStep \/ NodeStep \/ UNCHANGED vars
  BY <1>0, <1>1, <1>2, <1>5, RestsAside
<1> QED BY <1>3, <1>4, <1>5 DEF Next

LEMMA UpSame == ASSUME UNCHANGED <<alive, queue>> PROVE \A w : Up(w)' <=> Up(w)
BY DEF Up

\* What a request leaves as it is: the clusters it does not have.
Elsewhere ==
  /\ rec' = rec /\ alive' = alive /\ queue' = queue
  /\ \A r \in con' : r.id # req.id =>
       /\ r \in con /\ status'[r.id] = status[r.id]
       /\ box'[Place(r)] = box[Place(r)]

LEMMA ElsewhereSteps ==
  ASSUME Hand, Restores, RequestStep, "ended" \notin mishap'
  PROVE  Elsewhere
<1>1. rec' = rec /\ alive' = alive /\ queue' = queue
  <2>1. UNCHANGED node_vars
    BY DEF RequestStep, Refuse, Reserve, GatewayFails, StartNew, CreateCommit,
       ScaleOutCommit, DeleteCheck, ReleaseAddresses, ScaleInCommit, DeleteCommit, Refund, StartGateway, StartCommit,
       StopSkip, StopCommit, MoveEnd, Drop, StartBox, StopBox, MoveSave, MoveBuild, MoveCommit, MoveDrop, Build
  <2> QED BY <2>1, RequestEnders DEF Enders, node_vars
<1>2. \A r \in con' : r.id # req.id => r \in con
  <2>1. CASE con' = con
    BY <2>1
  <2>2. CASE CreateCommit \/ ScaleOutCommit
    BY <2>2 DEF CreateCommit, ScaleOutCommit, Hand, Handled
  <2>3. CASE ScaleInCommit \/ DeleteCommit
    BY <2>3 DEF ScaleInCommit, DeleteCommit
  <2>4. ASSUME NEW k \in Cid, MoveCommit(k) PROVE \A r \in con' : r.id # req.id => r \in con
    <3>1. PICK r \in req.rows, q \in Row : Trace(r, q) /\ con' = (con \ {r}) \union {q}
      BY <2>4, MoveCommitIs
    <3>2. q.id = req.id
      BY <3>1 DEF Trace, Hand, Handled
    <3> QED BY <3>1, <3>2
  <2> QED BY <2>1, <2>2, <2>3, <2>4 DEF db_vars, RequestStep, Refuse, Reserve, GatewayFails, StartNew, DeleteCheck,
       ReleaseAddresses, Refund, StartGateway, StartCommit, StopSkip, StopCommit, MoveEnd, Drop, StartBox, StopBox, MoveSave,
       MoveBuild, MoveDrop, Build
<1>3. \A r \in con : r.id # req.id => status'[r.id] = status[r.id]
  <2>1. \A id \in Id : id # req.id => status'[id] = status[id]
    BY StatusSteps DEF Next
  <2> QED BY <2>1 DEF Hand, Shapes, Row
<1>4. \A r \in con : r.id # req.id => box'[Place(r)] = box[Place(r)]
  <2>1. CASE box' = box
    BY <2>1
  <2>2. ASSUME NEW p \in DOMAIN box, p[1] = req.id, NEW v, box' = [box EXCEPT ![p] = v]
        PROVE  \A r \in con : r.id # req.id => box'[Place(r)] = box[Place(r)]
    <3>1. \A r \in con : Place(r)[1] = r.id
      BY DEF Place
    <3> QED BY <2>2, <3>1, RowPlaces DEF Hand
  <2>3. ASSUME NEW r, r \in req.rows \union RowsOf(req.id)
        PROVE  Place(r) \in DOMAIN box /\ Place(r)[1] = req.id
    BY <2>3, RowPlaces DEF Hand, Handled, RowsOf, Place
  <2>4. CASE StartNew
    BY <2>1, <2>2, <2>3, <2>4, StartNewIs
  <2>5. ASSUME NEW k \in Cid, NEW w \in Worker, Build(k, w)
        PROVE  \A r \in con : r.id # req.id => box'[Place(r)] = box[Place(r)]
    <3>1. <<req.id, k, w>> \in DOMAIN box /\ <<req.id, k, w>>[1] = req.id
      BY <2>5, BuildIs DEF Hand, Shapes
    <3> QED BY <2>1, <2>2, <2>5, <3>1, BuildIs
  <2>6. ASSUME NEW k \in Cid, Drop(k) \/ StartBox(k) \/ StopBox(k) \/ MoveSave(k)
        PROVE  \A r \in con : r.id # req.id => box'[Place(r)] = box[Place(r)]
    <3> DEFINE p == Place(RowOf(req.id, k))
    <3>1. p \in DOMAIN box /\ p[1] = req.id
      BY <2>3, <2>6, InLoop DEF Drop, StartBox, StopBox, MoveSave, Moves
    <3> HIDE DEF p
    <3>2. \/ box' = [box EXCEPT ![p] = "none"]
          \/ box' = [box EXCEPT ![p] = IF @ = "none" THEN "none" ELSE "running"]
          \/ box' = [box EXCEPT ![p] = IF @ = "none" THEN "none" ELSE "stopped"]
          \/ box' = box
      BY <2>6, DropIs, StartBoxIs, StopBoxIs, MoveSaveIs DEF p
    <3> QED BY <2>1, <2>2, <3>1, <3>2
  <2>7. ASSUME NEW k \in Cid, MoveBuild(k)
        PROVE  \A r \in con : r.id # req.id => box'[Place(r)] = box[Place(r)]
    <3>1. Target[1] = req.id
      BY DEF Target
    <3>2. Target \in DOMAIN box
      BY <2>7, TargetIn DEF MoveBuild
    <3> QED BY <2>1, <2>2, <2>7, <3>1, <3>2, MoveBuildIs
  <2>8. ASSUME NEW k \in Cid, MoveDrop(k)
        PROVE  \A r \in con : r.id # req.id => box'[Place(r)] = box[Place(r)]
    BY <2>1, <2>2, <2>3, <2>8, MoveDropIs
  <2> QED BY <2>1, <2>4, <2>5, <2>6, <2>7, <2>8 DEF RequestStep, Refuse, Reserve, GatewayFails, CreateCommit,
       ScaleOutCommit, DeleteCheck, ReleaseAddresses, ScaleInCommit, DeleteCommit, Refund, StartGateway, StartCommit,
       StopSkip, StopCommit, MoveEnd, MoveCommit
<1> QED BY <1>1, <1>2, <1>3, <1>4 DEF Elsewhere

\* What there is to show of the cluster that a request has.
Late ==
  /\ \A r \in con : r.id = req.id /\ status[r.id] = "running" /\ Up(r.host) /\ box[Place(r)] = "stopped" =>
       req.at = "stop" /\ r.cid \notin req.todo
  /\ req.at \in {"gateway", "start"} => \A r \in RowsOf(req.id) : r.cid \notin req.todo => box[Place(r)] # "stopped"
  /\ req.op = "scaleout" /\ req.at = "commit" /\ req.pre = "running" =>
       \A r \in req.rows : box[Place(r)] # "stopped"

LEMMA LateIs == ASSUME Hand, Separate, Runs PROVE Late
<1>1. \A r \in con : r.id = req.id => r.id \notin rec.todo /\ r.id # rec.id
  BY DEF Separate, InRecovery, Hand, Shapes, Row
<1> QED BY <1>1 DEF Runs, Late

\* The same for the step: the request may have gone on to another cluster.
LateNext ==
  /\ \A r \in con' : r.id = req.id /\ status'[r.id] = "running" /\ Up(r.host) /\ box'[Place(r)] = "stopped" =>
       req'.id = req.id /\ req'.at = "stop" /\ r.cid \notin req'.todo
  /\ req'.at \in {"gateway", "start"} => \A r \in con' : r.id = req'.id /\ r.cid \notin req'.todo => box'[Place(r)] # "stopped"
  /\ req'.op = "scaleout" /\ req'.at = "commit" /\ req'.pre = "running" =>
       \A r \in req'.rows : box'[Place(r)] # "stopped"

LEMMA RunsRequest ==
  ASSUME Hand, Restores, Separate, Runs, Elsewhere, LateNext
  PROVE  Runs'
<1>1. \A w : Up(w)' <=> Up(w)
  BY UpSame DEF Elsewhere
<1>2. \A r \in con' : status'[r.id] = "running" /\ Up(r.host) /\ box'[Place(r)] = "stopped" =>
        \/ r.id \in rec.todo
        \/ r.id = rec.id /\ (rec.at = "bad" \/ (rec.at \in {"gateway", "box"} /\ r \in rec.rows))
        \/ r.id = req'.id /\ req'.at = "stop" /\ r.cid \notin req'.todo
  BY DEF Elsewhere, LateNext, Runs
<1>3. rec.at \in {"gateway", "box", "good"} => \A r \in con' : r.id = rec.id /\ Up(r.host) /\ box'[Place(r)] = "stopped"
                                      => rec.at # "good" /\ r \in rec.rows
  <2>1. rec.at \in {"gateway", "box", "good"} => rec.id # req.id
    BY DEF Restores, Separate, InRecovery
  <2> QED BY <2>1 DEF Elsewhere, Runs, RowsOf
<1>4. rec' = rec
  BY DEF Elsewhere
<1>5. rec'.at \in {"gateway", "box", "good"} =>
        \A r \in RowsOf(rec.id)' : Up(r.host)' /\ box'[Place(r)] = "stopped" => rec'.at # "good" /\ r \in rec'.rows
  BY <1>1, <1>3, <1>4 DEF RowsOf
<1>6. req'.at \in {"gateway", "start"} => \A r \in RowsOf(req.id)' : r.cid \notin req'.todo => box'[Place(r)] # "stopped"
  BY DEF LateNext, RowsOf
<1> QED BY <1>1, <1>2, <1>4, <1>5, <1>6 DEF Runs, LateNext

LEMMA LateGrowth ==
  ASSUME Hand, Hand', Own, Late, "ignored" \notin mishap', GrowthStep
  PROVE  LateNext
<1>1. req.op \in Growth /\ req.at \notin {"gateway", "start", "stop"}
  <2>1. req.op \in Growth
    BY Growing
  <2> QED BY <2>1 DEF Hand, Handled, PhasesOf, Growth
<1>2. req'.at \notin {"gateway", "start", "stop"}
  <2>1. req'.op \in Growth \/ req' = Idle
    BY Growing
  <2> QED BY <2>1, IdleIs DEF Hand, Handled, PhasesOf, Growth
<1>3. \A r \in con : r.id = req.id /\ status[r.id] = "running" /\ Up(r.host) => box[Place(r)] # "stopped"
  BY <1>1 DEF Late
<1>4. ASSUME con' = con, status' = status, box' = box, req' = Idle \/ req'.at = "build" PROVE LateNext
  BY <1>2, <1>3, <1>4, IdleIs DEF LateNext
<1>5. CASE Refuse \/ GatewayFails
  BY <1>4, <1>5, StepIs DEF Refuse, GatewayFails, db_vars
<1>6. CASE Reserve
  BY <1>4, <1>6, ReserveIs DEF Reserve, Made
<1>7. CASE StartNew
  <2>1. con' = con /\ status' = status
    BY <1>7 DEF StartNew, db_vars
  <2>2. CASE req' = Idle /\ box' = box
    BY <1>4, <2>1, <2>2
  <2>3. ASSUME NEW r \in req.rows, req.rows = {r}, box' = [box EXCEPT ![Place(r)] = "running"], Goes("commit", req.todo)
        PROVE  LateNext
    <3>1. box'[Place(r)] = "running" /\ \A b \in DOMAIN box : b # Place(r) => box'[b] = box[b]
      BY <2>3, RowPlaces, Put DEF Hand
    <3>2. \A p \in con : box'[Place(p)] = "stopped" => box[Place(p)] = "stopped"
      BY <3>1, RowPlaces DEF Hand
    <3>3. req'.rows = {r}
      BY <2>3 DEF Goes, Made
    <3> QED BY <1>2, <1>3, <2>1, <3>1, <3>2, <3>3 DEF LateNext
  <2> QED BY <1>7, <2>2, <2>3, StartNewIs DEF Goes
<1>8. CASE CreateCommit
  <2>1. req' = Idle /\ status' = [status EXCEPT ![req.id] = "stopped"] /\ req.op = "create" /\ req.at = "commit"
    BY <1>8 DEF CreateCommit, Leave
  <2>2. status'[req.id] = "stopped"
    BY <2>1, HasCluster DEF Hand, Shapes
  <2> QED BY <2>1, <2>2, IdleIs DEF LateNext
<1>9. CASE ScaleOutCommit
  <2>1. con' = con \union req.rows /\ box' = box /\ req' = Idle /\ req.op = "scaleout" /\ status' = status /\ req.at = "commit"
    BY <1>9 DEF ScaleOutCommit, Leave
  <2>2. status[req.id] = "running" => \A r \in req.rows : box[Place(r)] # "stopped"
    BY <2>1 DEF Own, Late
  <2> QED BY <1>3, <2>1, <2>2, IdleIs DEF LateNext
<1>10. ASSUME NEW k \in Cid, NEW w \in Worker, Build(k, w) PROVE LateNext
  <2>1. con' = con /\ status' = status /\ req.at = "build" /\ k \in req.todo
    BY <1>10, BuildIs DEF Build, db_vars
  <2>3. CASE /\ box' = [box EXCEPT ![<<req.id, k, w>>] = "stopped"] \/ box' = box
             /\ req'.op = "scaleout" /\ req'.pre = "running" => req'.at # "commit"
    <3>1. <<req.id, k, w>> \in DOMAIN box
      BY <1>10, BuildIs DEF Hand, Shapes
    <3>2. \A b \in DOMAIN box : b # <<req.id, k, w>> => box'[b] = box[b]
      BY <2>3, <3>1, Put DEF Hand
    <3>3. \A p \in con : ~(p.id = req.id /\ p.cid = k)
      <4>1. CASE req.op = "create"
        BY <4>1 DEF Hand, Grows, Growth, Numbered
      <4>2. CASE req.op = "scaleout"
        <5>1. k = nextcid[req.id]
          BY <2>1, <4>2 DEF Hand, Grows, Growth, NewCids
        <5> QED BY <5>1, HasCluster, <2>1 DEF Hand, Numbered, Shapes, Row, Cid
      <4> QED BY <1>1, <4>1, <4>2 DEF Growth
    <3>4. \A p \in con : p.id = req.id => box'[Place(p)] = box[Place(p)]
      <4>1. \A p \in con : p.id = req.id => Place(p) # <<req.id, k, w>>
        BY <3>3 DEF Place
      <4> QED BY <3>2, <4>1, RowPlaces DEF Hand
    <3> QED BY <1>2, <1>3, <2>1, <2>3, <3>4 DEF LateNext
  <2>2. req'.op = "scaleout" /\ req'.pre = "running" => req'.at # "commit"
    BY <1>10, BuildIs, IdleIs DEF Made, Failed
  <2> QED BY <1>10, <2>2, <2>3, BuildIs
<1> QED BY <1>5, <1>6, <1>7, <1>8, <1>9, <1>10 DEF GrowthStep

\* A step after which no container of the cluster is stopped that ran.
LEMMA LateLess ==
  ASSUME Late, con' \subseteq con, req.at # "stop", req'.at \notin {"gateway", "start"}, req'.op # "scaleout",
         \A r \in con' : r.id = req.id => /\ status'[r.id] = "running" => status[r.id] = "running"
                                          /\ box'[Place(r)] = "stopped" => box[Place(r)] = "stopped"
  PROVE  LateNext
BY DEF Late, LateNext

LEMMA LateRemoval ==
  ASSUME Hand, Late,
         DeleteCheck \/ ReleaseAddresses \/ ScaleInCommit \/ DeleteCommit \/ Refund \/ \E k \in Cid : Drop(k)
  PROVE  LateNext
<1>1. req.op \in Removal /\ req.at \in {"check", "drop", "remove", "refund"}
  BY StepIs, DropIs DEF DeleteCheck, ReleaseAddresses, ScaleInCommit, DeleteCommit, Refund, Drop, Removal
<1>2. req'.op # "scaleout" /\ req'.at \notin {"gateway", "start"}
  BY <1>1, StepIs, DropIs, IdleIs DEF Goes, Made, Removal, ScaleInCommit, Leave
<1>3. con' \subseteq con
  BY DEF DeleteCheck, ReleaseAddresses, ScaleInCommit, DeleteCommit, Refund, Drop, db_vars
<1>4. \A r \in con' : status'[r.id] = "running" => status[r.id] = "running"
  <2>1. \A r \in con' : r.id \in Id
    BY <1>3 DEF Hand, Shapes, Row
  <2>2. status' = status \/ status' = [status EXCEPT ![req.id] = "none"]
    BY DEF DeleteCheck, ReleaseAddresses, ScaleInCommit, DeleteCommit, Refund, Drop, db_vars
  <2> QED BY <2>1, <2>2 DEF Hand, Shapes
<1>5. \A r \in con' : box'[Place(r)] = "stopped" => box[Place(r)] = "stopped"
  <2>1. CASE box' = box
    BY <2>1
  <2>2. ASSUME NEW k \in Cid, Drop(k) PROVE \A r \in con' : box'[Place(r)] = "stopped" => box[Place(r)] = "stopped"
    <3>1. ASSUME box' = [box EXCEPT ![Place(RowOf(req.id, k))] = "none"]
          PROVE \A r \in con' : box'[Place(r)] = "stopped" => box[Place(r)] = "stopped"
      BY <1>3, <3>1, RowPlaces DEF Hand
    <3> QED BY <2>1, <2>2, <3>1, DropIs
  <2> QED BY <2>1, <2>2 DEF DeleteCheck, ReleaseAddresses, ScaleInCommit, DeleteCommit, Refund
<1> QED BY <1>1, <1>2, <1>3, <1>4, <1>5, LateLess

LEMMA LateStart ==
  ASSUME Hand, Own, Late, "ignored" \notin mishap', StartGateway \/ StartCommit \/ \E k \in Cid : StartBox(k)
  PROVE  LateNext
<1>0. CASE StartGateway
  <2>1. con' = con /\ status' = status /\ box' = box /\ req.at = "gateway"
    BY <1>0 DEF StartGateway, db_vars
  <2>2. req.op # "scaleout" /\ status[req.id] # "running"
    BY <2>1 DEF Hand, Handled, PhasesOf, Own
  <2>3. req' = Idle \/ (req'.op = req.op /\ req'.id = req.id /\ req'.todo = req.todo)
    BY <1>0, StepIs DEF Goes, Made
  <2> QED BY <2>1, <2>2, <2>3, IdleIs DEF Late, LateNext, RowsOf
<1>a. SUFFICES ASSUME StartCommit \/ \E k \in Cid : StartBox(k) PROVE LateNext
  BY <1>0
<1>1. con' = con /\ req.at = "start" /\ req.id \in Id
  <2>1. con' = con /\ req.at = "start"
    BY <1>a DEF StartCommit, StartBox, db_vars
  <2> QED BY <2>1, HasCluster
<1>2. req.op # "scaleout" /\ status[req.id] # "running"
  BY <1>1 DEF Hand, Handled, PhasesOf, Own
<1>3. \A r \in con : r.id = req.id /\ r.cid \notin req.todo => box[Place(r)] # "stopped"
  BY <1>1 DEF Late, RowsOf
<1>4. CASE StartCommit
  <2>1. box' = box /\ req' = Idle /\ req.todo = {}
    BY <1>4 DEF StartCommit, Leave
  <2> QED BY <1>1, <1>3, <2>1, IdleIs DEF LateNext
<1>5. ASSUME NEW k \in Cid, StartBox(k) PROVE LateNext
  <2> DEFINE r == RowOf(req.id, k)
  <2>1. status' = status
    BY <1>5 DEF StartBox, db_vars
  <2>2. r \in con /\ r.id = req.id /\ r.cid = k
    BY <1>1, <1>5, InLoop DEF StartBox
  <2> HIDE DEF r
  <2>3. CASE box' = [box EXCEPT ![Place(r)] = IF @ = "none" THEN "none" ELSE "running"] /\ Goes("start", req.todo \ {k})
    <3>1. req'.at = "start" /\ req'.op = req.op /\ req'.id = req.id /\ req'.todo = req.todo \ {k}
      BY <2>3 DEF Goes, Made
    <3>2. \A b \in DOMAIN box : b # Place(r) => box'[b] = box[b]
      BY <2>2, <2>3, RowPlaces, Put DEF Hand
    <3>3. box'[Place(r)] # "stopped"
      BY <2>2, <2>3, RowPlaces DEF Hand
    <3>4. ASSUME NEW p \in con, p.id = req.id, p.cid \notin req.todo \ {k} PROVE box'[Place(p)] # "stopped"
      <4>1. CASE p.cid = k
        <5>1. p = r
          BY <2>2, <3>4, <4>1 DEF Hand, Numbered
        <5> QED BY <3>3, <5>1
      <4>2. CASE p.cid # k
        <5>1. Place(p) # Place(r) /\ box[Place(p)] # "stopped"
          BY <1>3, <2>2, <3>4, <4>2 DEF Place
        <5> QED BY <3>2, <5>1, RowPlaces DEF Hand
      <4> QED BY <4>1, <4>2
    <3> QED BY <1>1, <1>2, <2>1, <3>1, <3>4 DEF LateNext
  <2>4. CASE box' = box /\ req' = Idle
    BY <1>1, <1>2, <2>1, <2>4, IdleIs DEF LateNext
  <2>5. CASE mishap' = mishap \union {"ignored"}
    BY <2>5
  <2> QED BY <1>5, <2>3, <2>4, <2>5, StartBoxIs DEF r
<1> QED BY <1>a, <1>4, <1>5

\* A stop of the cluster that leaves none behind.
LEMMA LateEnds ==
  ASSUME con' = con, req' = Idle \/ \E causes : StopEnds(causes),
         \A r \in con : r.id = req.id /\ status'[r.id] = "running" /\ Up(r.host) => box'[Place(r)] # "stopped"
  PROVE  LateNext
<1>1. req'.at \notin {"gateway", "start"} /\ req'.op # "scaleout"
  BY IdleIs DEF StopEnds, Goes, Made
<1> QED BY <1>1 DEF LateNext

LEMMA LateStop ==
  ASSUME Hand, Late, "cut_stop" \notin mishap', StopSkip \/ StopCommit \/ \E k \in Cid : StopBox(k)
  PROVE  LateNext
<1>1. con' = con
  BY DEF StopSkip, StopCommit, StopBox, db_vars
<1>2. \A r \in con : r.id = req.id /\ status[r.id] = "running" /\ Up(r.host) /\ box[Place(r)] = "stopped" =>
        req.at = "stop" /\ r.cid \notin req.todo
  BY DEF Late
<1>3. CASE StopSkip
  <2>1. box' = box /\ status' = status /\ req.at = "skip" /\ StopEnds({})
    BY <1>3, StepIs DEF StopSkip, db_vars
  <2> QED BY <1>1, <1>2, <2>1, LateEnds
<1>4. CASE StopCommit
  <2>1. req.at = "stop" /\ StopEnds({}) /\ status' = [status EXCEPT ![req.id] = "stopped"]
    BY <1>4, StepIs DEF StopCommit
  <2>2. status'[req.id] = "stopped"
    BY <2>1, HasCluster DEF Hand, Shapes
  <2> QED BY <1>1, <2>1, <2>2, LateEnds
<1>5. ASSUME NEW k \in Cid, StopBox(k) PROVE LateNext
  <2> DEFINE r == RowOf(req.id, k)
             cut == IF First(req.id) THEN {} ELSE {"cut_stop"}
  <2>1. status' = status /\ req.at = "stop"
    BY <1>5 DEF StopBox, db_vars
  <2>2. r \in con /\ r.id = req.id /\ r.cid = k
    BY <1>5, InLoop DEF StopBox
  <2>3. /\ \/ /\ box' = [box EXCEPT ![Place(r)] = IF @ = "none" THEN "none" ELSE "stopped"]
              /\ Goes("stop", req.todo \ {k})
           \/ Goes("stop", req.todo \ {k}) /\ UNCHANGED box
           \/ StopEnds(cut) /\ UNCHANGED box
           \/ req' = Idle /\ mishap' = mishap \union cut /\ UNCHANGED box
    BY <1>5, StopBoxIs
  <2> HIDE DEF r
  <2>4. CASE box' = [box EXCEPT ![Place(r)] = IF @ = "none" THEN "none" ELSE "stopped"] /\ Goes("stop", req.todo \ {k})
    <3>1. req'.at = "stop" /\ req'.op = req.op /\ req'.id = req.id /\ req'.todo = req.todo \ {k}
      BY <2>4 DEF Goes, Made
    <3>2. \A b \in DOMAIN box : b # Place(r) => box'[b] = box[b]
      BY <2>2, <2>4, RowPlaces, Put DEF Hand
    <3>3. ASSUME NEW p \in con, p.id = req.id, status[p.id] = "running", Up(p.host), box'[Place(p)] = "stopped"
          PROVE  p.cid \notin req.todo \ {k}
      <4>1. CASE p.cid = k
        BY <4>1
      <4>2. CASE p.cid # k
        <5>1. box[Place(p)] = "stopped"
          BY <2>2, <3>2, <3>3, <4>2, RowPlaces DEF Hand, Place
        <5> QED BY <1>2, <3>3, <5>1
      <4> QED BY <4>1, <4>2
    <3>4. req.op # "scaleout"
      BY <2>1 DEF Hand, Handled, PhasesOf
    <3> QED BY <1>1, <2>1, <3>1, <3>3, <3>4 DEF LateNext
  <2>5. ASSUME box' = box, cut \subseteq mishap', req' = Idle \/ StopEnds(cut) PROVE LateNext
    <3>1. First(req.id)
      BY <2>5
    <3>2. \A p \in con : p.id = req.id => p.cid \in req.todo
      BY <3>1 DEF First, CidsOf, RowsOf
    <3> QED BY <1>1, <1>2, <2>1, <2>5, <3>2, LateEnds
  <2>6. ASSUME StopEnds(cut) PROVE cut \subseteq mishap'
    BY <2>6 DEF StopEnds
  <2>7. CASE Goes("stop", req.todo \ {k}) /\ box' = box
    <3>1. req'.at = "stop" /\ req'.op = req.op /\ req'.id = req.id /\ req'.todo = req.todo \ {k}
      BY <2>7 DEF Goes, Made
    <3>2. req.op # "scaleout"
      BY <2>1 DEF Hand, Handled, PhasesOf
    <3> QED BY <1>1, <1>2, <2>1, <2>7, <3>1, <3>2 DEF LateNext
  <2> QED BY <2>3, <2>4, <2>5, <2>6, <2>7
<1> QED BY <1>3, <1>4, <1>5

LEMMA LateMove ==
  ASSUME Hand, Own, Late,
         MoveEnd \/ \E k \in Cid : MoveSave(k) \/ MoveBuild(k) \/ MoveCommit(k) \/ MoveDrop(k)
  PROVE  LateNext
<1>1. status' = status /\ req.at \in Moves
  BY DEF MoveEnd, MoveSave, MoveBuild, MoveCommit, MoveDrop, Moves, db_vars
<1>2. req.op = "migrate" /\ req.at # "stop"
  BY <1>1, Migrates DEF Moves
<1>3. ASSUME status[req.id] = "stopped", NEW a, NEW t, a \notin {"gateway", "start"}, req' = Idle \/ Goes(a, t) PROVE LateNext
  <2>1. req'.at \notin {"gateway", "start"} /\ req'.op # "scaleout"
    BY <1>2, <1>3, IdleIs DEF Goes, Made
  <2> QED BY <1>1, <1>3, <2>1 DEF LateNext
<1>4. ASSUME MoveEnds, con' = con, box' = box PROVE LateNext
  <2>1. req'.op # "scaleout"
    BY <1>2, <1>4, IdleIs DEF MoveEnds, Goes, Made
  <2>2. req'.at \in {"gateway", "start"} => req'.id = req.id /\ req'.todo = CidsOf(req.id)
    BY <1>4, IdleIs DEF MoveEnds, Goes, Made
  <2>3. \A r \in con : r.id = req.id => r.cid \in CidsOf(req.id)
    BY DEF CidsOf, RowsOf
  <2> QED BY <1>1, <1>2, <1>4, <2>1, <2>2, <2>3 DEF Late, LateNext
<1>a. ASSUME MoveEnds, con' = con, status[req.id] = "stopped" PROVE LateNext
  <2>1. req'.op # "scaleout"
    BY <1>2, <1>a, IdleIs DEF MoveEnds, Goes, Made
  <2>2. req'.at \in {"gateway", "start"} => req'.id = req.id /\ req'.todo = CidsOf(req.id)
    BY <1>a, IdleIs DEF MoveEnds, Goes, Made
  <2>3. \A r \in con : r.id = req.id => r.cid \in CidsOf(req.id)
    BY DEF CidsOf, RowsOf
  <2> QED BY <1>1, <1>a, <2>1, <2>2, <2>3 DEF LateNext
<1>5. CASE MoveEnd
  BY <1>4, <1>5, StepIs DEF MoveEnd, db_vars
<1>6. ASSUME NEW k \in Cid, MoveSave(k) PROVE LateNext
  <2>1. con' = con
    BY <1>6 DEF MoveSave, db_vars
  <2> QED BY <1>3, <1>4, <1>6, <2>1, MoveSaveIs
<1>7. ASSUME NEW k \in Cid, MoveBuild(k) PROVE LateNext
  <2>1. con' = con /\ status[req.id] = "stopped"
    BY <1>7 DEF MoveBuild, db_vars, Own
  <2> QED BY <1>3, <1>7, <1>a, <2>1, MoveBuildIs
<1>8. ASSUME NEW k \in Cid, MoveCommit(k) \/ MoveDrop(k) PROVE LateNext
  <2>1. status[req.id] = "stopped"
    BY <1>8 DEF MoveCommit, MoveDrop, Own
  <2>2. req' = Idle \/ Goes("moved", req.todo) \/ Goes("move", req.todo \ {k})
    BY <1>8, MoveCommitIs, MoveDropIs
  <2>3. "moved" \notin {"gateway", "start"} /\ "move" \notin {"gateway", "start"}
    OBVIOUS
  <2> QED BY <1>3, <2>1, <2>2, <2>3
<1> QED BY <1>5, <1>6, <1>7, <1>8

LEMMA RunsEnter ==
  ASSUME Hand, Runs, NewRequest
  PROVE  Runs'
<1>1. con' = con /\ box' = box /\ status' = status /\ rec' = rec /\ alive' = alive /\ queue' = queue /\ req = Idle
  BY EnterBegins DEF Begins, db_vars, node_vars, Hand
<1>2. \A w : Up(w)' <=> Up(w)
  BY <1>1, UpSame
<1>3. req'.at \in {"gateway", "start"} => \A r \in con : r.id = req'.id => r.cid \in req'.todo
  BY EnterPhase DEF CidsOf, RowsOf, Hand
<1>4. req'.op = "scaleout" => req'.at # "commit"
  BY EnterPhase DEF Hand
<1>5. \A r \in con : status[r.id] = "running" /\ Up(r.host) /\ box[Place(r)] = "stopped" =>
        \/ r.id \in rec.todo
        \/ r.id = rec.id /\ (rec.at = "bad" \/ (rec.at \in {"gateway", "box"} /\ r \in rec.rows))
  BY <1>1, IdleIs DEF Runs
<1>6. rec.at \in {"gateway", "box", "good"} =>
        \A r \in RowsOf(rec.id)' : Up(r.host) /\ box[Place(r)] = "stopped" => rec.at # "good" /\ r \in rec.rows
  BY <1>1 DEF Runs, RowsOf
<1>7. req'.at \in {"gateway", "start"} => \A r \in RowsOf(req.id)' : r.cid \notin req'.todo => box[Place(r)] # "stopped"
  BY <1>1, <1>3 DEF RowsOf
<1> QED BY <1>1, <1>2, <1>4, <1>5, <1>6, <1>7 DEF Runs

\* What the recovery leaves to show, once a request shows its own.
Recovers ==
  /\ \A r \in con : status'[r.id] = "running" /\ Up(r.host)' /\ box'[Place(r)] = "stopped" =>
       \/ r.id \in rec'.todo
       \/ r.id = rec'.id /\ (rec'.at = "bad" \/ (rec'.at \in {"gateway", "box"} /\ r \in rec'.rows))
       \/ r.id = req.id /\ req.at = "stop" /\ r.cid \notin req.todo /\ req' = req
  /\ rec'.at \in {"gateway", "box", "good"} =>
       \A r \in con : r.id = rec'.id /\ Up(r.host)' /\ box'[Place(r)] = "stopped" => rec'.at # "good" /\ r \in rec'.rows

LEMMA RunsHeld ==
  ASSUME Hand, Runs, Recovers, con' = con,
         \/ req' = Idle
         \/ req' = req /\ \A b \in DOMAIN box : box'[b] = "stopped" => box[b] = "stopped"
  PROVE  Runs'
<1>1. /\ req'.at \in {"gateway", "start"} => \A r \in RowsOf(req.id)' : r.cid \notin req'.todo => box'[Place(r)] # "stopped"
      /\ req'.op = "scaleout" /\ req'.at = "commit" /\ req'.pre = "running" =>
           \A r \in req'.rows : box'[Place(r)] # "stopped"
  <2>1. CASE req' = Idle
    BY <2>1, IdleIs
  <2>2. CASE req' = req /\ \A b \in DOMAIN box : box'[b] = "stopped" => box[b] = "stopped"
    BY <2>2, RowPlaces DEF Runs, RowsOf, Hand
  <2> QED BY <2>1, <2>2
<1>2. \A r \in con' : status'[r.id] = "running" /\ Up(r.host)' /\ box'[Place(r)] = "stopped" =>
        \/ r.id \in rec'.todo
        \/ r.id = rec'.id /\ (rec'.at = "bad" \/ (rec'.at \in {"gateway", "box"} /\ r \in rec'.rows))
        \/ r.id = req'.id /\ req'.at = "stop" /\ r.cid \notin req'.todo
  BY DEF Recovers
<1>3. rec'.at \in {"gateway", "box", "good"} =>
        \A r \in RowsOf(rec.id)' : Up(r.host)' /\ box'[Place(r)] = "stopped" => rec'.at # "good" /\ r \in rec'.rows
  BY DEF Recovers, RowsOf
<1> QED BY <1>1, <1>2, <1>3 DEF Runs

\* The other actors when they leave the recovery's record as it is.
LEMMA RunsIdle ==
  ASSUME Hand, Runs, con' = con, status' = status, rec' = rec, req' = req,
         \A r \in con : /\ Up(r.host)' => Up(r.host)
                        /\ Up(r.host)' /\ box'[Place(r)] = "stopped" => box[Place(r)] = "stopped"
  PROVE  Recovers
BY DEF Runs, Recovers, RowsOf

LEMMA RunsNodes ==
  ASSUME Hand, Restores, Runs, "died" \notin mishap', "quick" \notin mishap', "ended" \notin mishap', NodeStep \/ UNCHANGED vars
  PROVE  Runs'
<1>1. ASSUME NEW w \in Worker, Die(w) PROVE Runs'
  <2>1. con' = con /\ status' = status /\ rec' = rec /\ req' = req /\ req = Idle /\ queue' = queue /\ alive' = alive \ {w}
    BY <1>1 DEF Die, db_vars
  <2>2. \A b \in DOMAIN box : b[3] # w => box'[b] = box[b]
    BY <1>1 DEF Die
  <2>3. \A h : Up(h)' => Up(h) /\ h # w
    BY <2>1 DEF Up
  <2>4. \A r \in con : Place(r)[3] = r.host
    BY DEF Place
  <2>5. Recovers
    BY <2>1, <2>2, <2>3, <2>4, RunsIdle, RowPlaces DEF Hand
  <2> QED BY <2>1, <2>5, RunsHeld
<1>2. ASSUME con' = con, status' = status, rec' = rec, req' = req, box' = box, \A h \in Worker : Up(h)' => Up(h) PROVE Runs'
  <2>1. Recovers
    BY <1>2, RunsIdle DEF Hand, Shapes, Row
  <2> QED BY <1>2, <2>1, RunsHeld
<1>3. ASSUME NEW w \in Worker, Forget(w) PROVE Runs'
  BY <1>2, <1>3, UpSame DEF Forget, db_vars
<1>4. CASE UNCHANGED vars
  BY <1>2, <1>4, UpSame DEF vars
<1>5. ASSUME NEW w \in Worker, Return(w) PROVE Runs'
  <2>1. /\ con' = con /\ status' = status /\ rec' = rec /\ req' = req /\ box' = box
        /\ alive' = alive \union {w} /\ queue' = Append(queue, w)
    BY <1>5 DEF Return, db_vars
  <2>2. queue \in Seq(Worker)
    BY DEF Hand, Shapes
  <2>3. ASSUME NEW h \in Worker, Up(h)' PROVE Up(h)
    <3>1. h # w
      <4>1. Len(queue) + 1 \in DOMAIN queue' /\ queue'[Len(queue) + 1] = w
        BY <2>1, <2>2
      <4> QED BY <2>3, <4>1 DEF Up
    <3>2. \A i \in DOMAIN queue : i \in DOMAIN queue' /\ queue'[i] = queue[i]
      BY <2>1, <2>2
    <3> QED BY <2>1, <2>3, <3>1, <3>2 DEF Up
  <2> QED BY <1>2, <2>1, <2>3
<1>6. CASE Crash
  <2>1. con' = con /\ status' = status /\ req' = Idle
    BY <1>6, CrashIs DEF db_vars, Hand
  <2>2. \A r \in con : r.id \in Id
    BY DEF Hand, Shapes, Row
  <2>3. \A r \in con : status[r.id] = "running" => r.id \in rec'.todo
    BY <1>6, <2>2, CrashIs DEF Stoppable, Puts, Hand
  <2>4. rec'.at \notin {"gateway", "box", "good"}
    BY <1>6, CrashIs DEF Puts, Hand
  <2>5. Recovers
    BY <2>1, <2>3, <2>4 DEF Recovers
  <2> QED BY <2>1, <2>5, RunsHeld
<1>7. ~RecoverDies
  BY DEF RecoverDies
<1> QED BY <1>1, <1>3, <1>4, <1>5, <1>6, <1>7 DEF NodeStep

LEMMA RunsRecovery ==
  ASSUME Hand, Restores, Separate, Runs, "ignored" \notin mishap', "ended" \notin mishap', RecoveryStep
  PROVE  Runs'
<1>1. con' = con /\ req' = req
  BY AsideSteps DEF Aside
<1>2. Shapes /\ \A r \in con : r.id \in Id /\ r.id # 0
  BY DEF Hand, Shapes, Row, Id
<1>3. \A b \in DOMAIN box : box'[b] = "stopped" => box[b] = "stopped"
  <2>1. CASE RecoverBox
    <3>1. PICK r \in rec.rows : box' = [box EXCEPT ![Place(r)] = Recovered(@)] \/ box' = box
      BY <1>2, <2>1, BoxIs
    <3> QED BY <3>1 DEF Recovered
  <2> QED BY <2>1 DEF RecoveryStep, RecoverTake, RecoverGateway, RecoverPorts, RecoverMark, RecoverPick
<1>4. RecoverTake \/ RecoverGateway \/ RecoverBox \/ RecoverPorts \/ (\E id \in Id : RecoverPick(id)) => status' = status
  BY DEF RecoverTake, RecoverGateway, RecoverBox, RecoverPorts, RecoverPick, db_vars
<1>5. ~RecoverTake => \A h : Up(h)' <=> Up(h)
  <2>1. ~RecoverTake => UNCHANGED <<alive, queue>>
    BY DEF RecoveryStep, RecoverGateway, RecoverBox, RecoverPorts, RecoverMark, RecoverPick, node_vars
  <2> QED BY <2>1, UpSame
<1>6. \A r \in con : box'[Place(r)] = "stopped" => box[Place(r)] = "stopped"
  BY <1>2, <1>3, RowPlaces
<1>7. ASSUME RecoverTake PROVE Recovers
  <2> DEFINE due == {id \in Stoppable : \E r \in RowsOf(id) : r.host = Head(queue)}
  <2>1. /\ rec = Resting /\ queue # <<>> /\ queue' = Tail(queue) /\ rec'.todo = due /\ rec'.at \in {"rest", "pick"}
    BY <1>2, <1>7, TakeIs DEF Puts
  <2>2. rec.todo = {} /\ rec.id = 0
    BY <2>1 DEF Resting
  <2>3. alive' = alive /\ queue \in Seq(Worker)
    BY <1>2, <1>7 DEF RecoverTake, Shapes
  <2>4. ASSUME NEW h, Up(h)', h # Head(queue) PROVE Up(h)
    <3>1. ASSUME NEW i \in DOMAIN queue PROVE queue[i] # h
      <4>1. CASE i = 1
        BY <2>1, <2>3, <2>4, <4>1
      <4>2. CASE i # 1
        <5>1. i - 1 \in DOMAIN queue' /\ queue'[i - 1] = queue[i]
          BY <2>1, <2>3, <4>2
        <5> QED BY <2>4, <5>1 DEF Up
      <4> QED BY <4>1, <4>2
    <3> QED BY <2>3, <2>4, <3>1 DEF Up
  <2>5. \A r \in con : status[r.id] = "running" /\ r.host = Head(queue) => r.id \in due
    BY <1>2 DEF Stoppable, RowsOf
  <2> HIDE DEF due
  <2>6. ASSUME NEW r \in con, status[r.id] = "running", Up(r.host)', box'[Place(r)] = "stopped"
        PROVE  r.id \in rec'.todo \/ (r.id = req.id /\ req.at = "stop" /\ r.cid \notin req.todo)
    <3>1. CASE r.host = Head(queue)
      BY <2>1, <2>5, <2>6, <3>1
    <3>2. CASE r.host # Head(queue)
      BY <1>2, <1>6, <2>2, <2>4, <2>6, <3>2 DEF Runs
    <3> QED BY <3>1, <3>2
  <2>7. rec'.at \notin {"gateway", "box", "good"}
    BY <2>1
  <2> QED BY <1>1, <1>4, <1>7, <2>6, <2>7 DEF Recovers
<1>8. ASSUME NEW id \in Id, RecoverPick(id) PROVE Recovers
  <2>1. rec.at = "pick" /\ id \in rec.todo
    BY <1>2, <1>8, PickIs
  <2>2. status[id] \notin {"none", "stopped"} /\ rec.id = 0
    BY <2>1 DEF Separate, InRecovery, Stoppable, Restores
  <2>3. Puts(rec.todo \ {id}, id, RowsOf(id), IF RowsOf(id) = {} THEN "bad" ELSE "gateway", rec.boot)
    BY <1>2, <1>8, <2>2, PickIs
  <2>4. /\ rec'.todo = rec.todo \ {id} /\ rec'.id = id /\ rec'.rows = RowsOf(id)
        /\ rec'.at = IF RowsOf(id) = {} THEN "bad" ELSE "gateway"
    BY <2>3 DEF Puts
  <2>5. \A r \in con : status[r.id] = "running" /\ Up(r.host) /\ box[Place(r)] = "stopped" =>
          r.id \in rec.todo \/ (r.id = req.id /\ req.at = "stop" /\ r.cid \notin req.todo)
    BY <1>2, <2>2 DEF Runs
  <2>6. \A r \in con : r.id = id => r \in rec'.rows /\ rec'.at = "gateway"
    BY <2>4 DEF RowsOf
  <2>7. (\A h : Up(h)' <=> Up(h)) /\ status' = status
    BY <1>4, <1>5, <1>8, <2>1 DEF RecoverTake, Resting
  <2> QED BY <1>1, <1>6, <2>4, <2>5, <2>6, <2>7 DEF Recovers
<1>9. ASSUME RecoverBox PROVE Recovers
  <2>1. rec.at = "box"
    BY <1>2, <1>9, BoxIs
  <2>2. PICK q \in rec.rows :
          \/ box' = [box EXCEPT ![Place(q)] = Recovered(@)] /\ Puts(rec.todo, rec.id, rec.rows \ {q}, "box", rec.boot)
          \/ Puts(rec.todo, rec.id, rec.rows, "bad", rec.boot)
    BY <1>2, <1>9, BoxIs
  <2>3. CASE Puts(rec.todo, rec.id, rec.rows, "bad", rec.boot)
    <3>1. rec'.todo = rec.todo /\ rec'.id = rec.id /\ rec'.at = "bad"
      BY <2>3 DEF Puts
    <3>2. \A h : Up(h)' <=> Up(h)
      BY <1>5, <2>1 DEF RecoverTake, Resting
    <3> QED BY <1>1, <1>4, <1>6, <1>9, <3>1, <3>2 DEF Recovers, Runs
  <2>4. CASE box' = [box EXCEPT ![Place(q)] = Recovered(@)] /\ Puts(rec.todo, rec.id, rec.rows \ {q}, "box", rec.boot)
    <3>1. rec'.todo = rec.todo /\ rec'.id = rec.id /\ rec'.at = "box" /\ rec'.rows = rec.rows \ {q}
      BY <2>4 DEF Puts
    <3>2. \A h : Up(h)' <=> Up(h)
      BY <1>5, <2>1 DEF RecoverTake, Resting
    <3>3. Place(q) \in DOMAIN box
      BY <1>2, RecValues, Placed
    <3>4. box'[Place(q)] # "stopped"
      BY <2>4, <3>3 DEF Recovered
    <3>5. \A r \in con : box'[Place(r)] = "stopped" => r # q
      BY <3>4
    <3> QED BY <1>1, <1>4, <1>6, <1>9, <2>1, <3>1, <3>2, <3>5 DEF Recovers, Runs, RowsOf
  <2> QED BY <2>2, <2>3, <2>4
<1>10. ASSUME RecoverPorts PROVE Recovers
  <2>1. /\ rec.at = "box" /\ rec.rows = {}
        /\ Puts(rec.todo, rec.id, {}, "good", rec.boot) \/ Puts(rec.todo, rec.id, {}, "bad", rec.boot)
    BY <1>2, <1>10, PortsIs
  <2>2. rec'.todo = rec.todo /\ rec'.id = rec.id /\ rec'.at \in {"good", "bad"}
    BY <2>1 DEF Puts
  <2>3. \A h : Up(h)' <=> Up(h)
    BY <1>5, <2>1 DEF RecoverTake, Resting
  <2>4. \A r \in con : r.id = rec.id /\ Up(r.host) => box[Place(r)] # "stopped"
    BY <2>1 DEF Runs, RowsOf
  <2> QED BY <1>1, <1>4, <1>6, <1>10, <2>1, <2>2, <2>3, <2>4 DEF Recovers, Runs
<1>12. ASSUME RecoverGateway PROVE Recovers
  <2>1. rec.at = "gateway" /\ rec'.todo = rec.todo /\ rec'.id = rec.id /\ rec'.at = "box" /\ rec'.rows = rec.rows
    BY <1>2, <1>12, RecoverGatewayIs DEF Puts
  <2>2. \A h : Up(h)' <=> Up(h)
    BY <1>5, <2>1 DEF RecoverTake, Resting
  <2> QED BY <1>1, <1>4, <1>6, <1>12, <2>1, <2>2 DEF Recovers, Runs, RowsOf
<1>11. ASSUME RecoverMark PROVE Recovers
  <2>1. /\ rec.at \in {"good", "bad"}
        /\ status' = IF Exists(rec.id)
                       THEN [status EXCEPT ![rec.id] = IF rec.at = "good" THEN "running" ELSE "error"]
                       ELSE status
    BY <1>2, <1>11, MarkIs
  <2>2. rec'.todo = rec.todo /\ rec'.at \in {"rest", "pick"}
    BY <1>2, <1>11, MarkIs DEF Puts
  <2>3. \A h : Up(h)' <=> Up(h)
    BY <1>5, <2>1 DEF RecoverTake, Resting
  <2>4. \A r \in con : r.id = rec.id => Exists(rec.id)
    BY DEF Hand, Numbered
  <2>5. ASSUME NEW r \in con, r.id = rec.id, status'[r.id] = "running", Up(r.host) PROVE box[Place(r)] # "stopped"
    <3>1. rec.at = "good"
      BY <1>2, <2>1, <2>4, <2>5 DEF Shapes
    <3> QED BY <2>5, <3>1 DEF Runs, RowsOf
  <2>6. ASSUME NEW r \in con, r.id # rec.id, status'[r.id] = "running", Up(r.host), box[Place(r)] = "stopped"
        PROVE  r.id \in rec.todo \/ (r.id = req.id /\ req.at = "stop" /\ r.cid \notin req.todo)
    <3>1. status[r.id] = "running"
      BY <1>2, <2>1, <2>6 DEF Shapes
    <3> QED BY <2>6, <3>1 DEF Runs
  <2> QED BY <1>1, <1>6, <2>2, <2>3, <2>5, <2>6 DEF Recovers
<1> QED BY <1>1, <1>3, <1>7, <1>8, <1>9, <1>10, <1>11, <1>12, RunsHeld DEF RecoveryStep

LEMMA RunsStep ==
  ASSUME HandInv, HandInv', Apart, RunsTold, [Next]_vars
  PROVE  RunsTold'
<1> DEFINE C == {"cut_stop", "ignored", "ended", "overlap", "died", "quick"}
<1> SUFFICES ASSUME C \cap mishap' = {} PROVE Runs'
  BY DEF RunsTold, Unless
<1>0. Hand /\ Hand' /\ Restores
  BY DEF HandInv
<1>1. Runs /\ Separate
  <2>1. C \cap mishap = {} /\ "overlap" \notin mishap
    BY <1>0, Grown
  <2> QED BY <2>1 DEF RunsTold, Apart, Unless
<1>2. "cut_stop" \notin mishap' /\ "ended" \notin mishap' /\ "ignored" \notin mishap' /\ "died" \notin mishap' /\ "quick" \notin mishap' /\ Own
  BY <1>1 DEF Separate, Own
<1> HIDE DEF C
<1>3. CASE NewRequest
  BY <1>0, <1>1, <1>3, RunsEnter
<1>4. CASE RequestStep
  <2>1. Elsewhere /\ Late
    BY <1>0, <1>1, <1>2, <1>4, ElsewhereSteps, LateIs
  <2>2. LateNext
    BY <1>0, <1>2, <1>4, <2>1, LateGrowth, LateRemoval, LateStart, LateStop, LateMove DEF RequestStep, GrowthStep
  <2> QED BY <1>0, <1>1, <2>1, <2>2, RunsRequest
<1>5. CASE RecoveryStep
  BY <1>0, <1>1, <1>2, <1>5, RunsRecovery
<1>6. CASE NodeStep \/ UNCHANGED vars
  BY <1>0, <1>1, <1>2, <1>6, RunsNodes
<1> QED BY <1>3, <1>4, <1>5, <1>6 DEF Next

LEMMA StatusInit == Init => RestsTold /\ RunsTold
<1> SUFFICES ASSUME Init PROVE RestsTold /\ RunsTold
  OBVIOUS
<1>1. con = {} /\ req = Idle /\ rec = Resting
  BY DEF Init
<1>2. Rests
  BY <1>1, IdleIs DEF Rests, Growth
<1>3. rec.at \notin {"gateway", "box", "good"}
  BY <1>1 DEF Resting
<1>4. Runs
  BY <1>1, <1>3, IdleIs DEF Runs
<1> QED BY <1>2, <1>4 DEF RestsTold, RunsTold, Unless

\* Whatever the numbers of clusters, containers, workers and faults: no
\* container of a stopped cluster runs and those of a running one run on the
\* workers that are up, once neither a handler of the master nor the thread that
\* recovers clusters has the cluster in hand, and unless one of the causes that
\* StatusTells names has occurred.
THEOREM StatusesTrue == Spec => []StatusTells
<1> DEFINE Inv == HandInv /\ Onward /\ Apart /\ RestsTold /\ RunsTold
<1>1. Init => Inv
  BY HandInit, ApartInit, StatusInit
<1>2. Inv /\ [Next]_vars => Inv'
  <2> SUFFICES ASSUME Inv, [Next]_vars PROVE Inv'
    OBVIOUS
  <2>1. HandInv'
    BY HandStep
  <2>2. Onward'
    BY OnwardStep DEF HandInv
  <2> QED BY <2>1, <2>2, ApartStep, RestsStep, RunsStep
<1>3. Inv => StatusTells
  <2> SUFFICES ASSUME Inv PROVE StatusTells
    OBVIOUS
  <2>1. \A r \in con : Place(r) = <<r.id, r.cid, r.host>> /\ r.id \in Id
    BY DEF HandInv, Hand, Shapes, Row, Place
  <2>2. Rests => \A r \in con : status[r.id] = "stopped" /\ r.id \notin {req.id, rec.id} =>
                                  box[r.id, r.cid, r.host] # "running"
    BY <2>1 DEF Rests
  <2>3. Runs => \A r \in con :
          /\ status[r.id] = "running" /\ r.id # req.id
          /\ r.id \notin InRecovery(rec)
          /\ r.host \in alive /\ \A i \in DOMAIN queue : queue[i] # r.host
          => box[r.id, r.cid, r.host] # "stopped"
    BY <2>1 DEF Runs, InRecovery, Up
  <2> QED BY <2>2, <2>3 DEF StatusTells, RestsTold, RunsTold, Unless
<1> QED BY <1>1, <1>2, <1>3, PTL DEF Spec

=============================================================================
