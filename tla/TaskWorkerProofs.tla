--------------------------- MODULE TaskWorkerProofs ---------------------------
(***************************************************************************)
(* Proofs about TaskWorker.tla, for any vnodes, GPUs, handlers and numbers *)
(* of commands and faults: the table of the GPUs tells the truth           *)
(* (GpuTable).                                                             *)
(*                                                                         *)
(* The table alone is not inductive. A container loses its devices when it *)
(* stops, its marks only in release_gpu_device, at the end of stop_vnode,  *)
(* or never, on the other ways out: what is needed is where in its call a  *)
(* container runs and where it has no mark, and that a call that starts a  *)
(* vnode is the only one for it. That two calls overlap is "again".        *)
(***************************************************************************)
EXTENDS TaskWorker, TLAPS

Ups == {"create", "run", "gpu", "ssh", "undo"}
Downs == {"stop", "delete", "release"}
Places == Ups \union Downs \union {"none", "kill"}

Shapes ==
  /\ box \in [Vnode -> {"none", "made", "running"}]
  /\ call \in [Handler -> [v: Vnode \union {""}, at: Places, heard: BOOLEAN]]
  /\ devices \in SUBSET (Vnode \X Gpu)
  /\ gpu_status \in [Gpu -> Vnode \union {""}]
  /\ phase \in [Vnode -> {"idle", "calling", "accepted", "running", "stopping"}]
  /\ vnode_started \subseteq Vnode

\* Only a container that runs has devices; a vnode that was accepted is one the
\* master knows to be started.
Running ==
  /\ \A d \in devices : box[d[1]] = "running"
  /\ \A v \in Vnode : phase[v] = "accepted" => v \in vnode_started

\* The call that starts a vnode is the only one for it, and the master does not
\* take it for started.
Alone ==
  Unless({"again"},
    \A c \in Handler : \A v \in Vnode : call[c].v = v /\ call[c].at \in Ups =>
      /\ \A d \in Handler : call[d].v = v => d = c
      /\ v \notin vnode_started /\ phase[v] \in {"idle", "calling"})

\* Where a call is tells whether the container runs.
Reached ==
  Unless({"again"},
    \A c \in Handler : \A v \in Vnode : call[c].v = v =>
      /\ call[c].at \in {"create", "run"} => box[v] # "running"
      /\ call[c].at \in {"gpu", "ssh"} => box[v] = "running"
      /\ call[c].at = "release" => box[v] = "none")

Killed(c, v) == call[c].v = v /\ call[c].at = "kill" /\ call[c].heard
NoMarks(v) == \A g \in Gpu : gpu_status[g] # v

\* No GPU is marked with a container that is on its way up or was refused its
\* GPUs, so that it may go without a release; nor with one that was released
\* while the master sent it another command.
Unmarked ==
  Unless({"ssh", "again", "parted"},
    \A v \in Vnode :
      /\ (\E c \in Handler : call[c].v = v /\ call[c].at \in {"gpu", "undo"}) => NoMarks(v)
      /\ phase[v] \in {"running", "stopping"} /\ v \notin vnode_started => NoMarks(v)
      /\ v \notin vnode_started /\ (\E c \in Handler : Killed(c, v)) => NoMarks(v))

IInv == Shapes /\ Running /\ Alone /\ Reached /\ Unmarked /\ GpuTable

-----------------------------------------------------------------------------

\* No vnode has the name of the mark of a free GPU, or of a free handler.
LEMMA Named == \A v \in Vnode : v # ""
BY TaskWorkerAssumption

LEMMA FreeCall == Free.v = "" /\ Free.at = "none"
BY DEF Free

\* What the table says the other way round, of a container that does not run.
LEMMA NoMark ==
  ASSUME GpuTable, {"ssh", "again", "parted"} \cap mishap = {}, NEW v \in Vnode,
         box[v] # "running", \A c \in Handler : call[c].v = v => call[c].at \notin Downs
  PROVE  NoMarks(v)
<1> SUFFICES ASSUME NEW g \in Gpu, gpu_status[g] = v PROVE FALSE
  BY DEF NoMarks
<1>1. v # ""
  BY Named
<1>2. box[v] = "running" \/ \E c \in Handler : call[c].v = v /\ call[c].at \in Downs
  BY <1>1 DEF GpuTable, Unless, Downs
<1>3. QED
  BY <1>2

LEMMA Initially == Init => IInv
<1> SUFFICES ASSUME Init PROVE IInv
  OBVIOUS
<1>1. Shapes /\ Running
  BY DEF Init, Shapes, Running, Places, Free
<1>2. Alone /\ Reached /\ Unmarked
  BY Named DEF Init, Alone, Reached, Unmarked, Unless, Ups, Free, Killed
<1>3. GpuTable
  BY DEF Init, GpuTable, Unless
<1>4. QED
  BY <1>1, <1>2, <1>3 DEF IInv

\* How a handler goes on, ...
LEMMA Moves ==
  ASSUME Shapes, NEW c \in Handler, NEW at \in Places, To(c, at)
  PROVE  /\ call' \in [Handler -> [v: Vnode \union {""}, at: Places, heard: BOOLEAN]]
         /\ call'[c].v = call[c].v /\ call'[c].at = at /\ call'[c].heard = call[c].heard
         /\ \A d \in Handler : d # c => call'[d] = call[d]
         /\ UNCHANGED <<phase, vnode_started>>
BY DEF To, Shapes

\* ... and how it ends.
LEMMA Ends ==
  ASSUME Shapes, NEW c \in Handler, NEW v \in Vnode, NEW reply \in {"accepted", "idle"},
         call' = [call EXCEPT ![c] = Free],
         call[c].heard =>
           /\ phase' = [phase EXCEPT ![v] = IF phase[v] = "running" THEN phase[v] ELSE reply]
           /\ vnode_started' = IF reply = "accepted" THEN vnode_started \union {v} ELSE vnode_started \ {v},
         ~call[c].heard => UNCHANGED <<phase, vnode_started>>
  PROVE  /\ call' \in [Handler -> [v: Vnode \union {""}, at: Places, heard: BOOLEAN]]
         /\ call'[c] = Free /\ \A d \in Handler : d # c => call'[d] = call[d]
         /\ phase' \in [Vnode -> {"idle", "calling", "accepted", "running", "stopping"}]
         /\ vnode_started' \subseteq Vnode
         /\ \A w \in Vnode : w # v => phase'[w] = phase[w] /\ (w \in vnode_started' <=> w \in vnode_started)
         /\ phase'[v] # phase[v] => phase'[v] = reply
         /\ phase'[v] = "accepted" /\ call[c].heard => v \in vnode_started'
         /\ reply = "idle" /\ call[c].heard => v \notin vnode_started' /\ phase'[v] # "accepted"
         /\ ~call[c].heard => phase' = phase /\ vnode_started' = vnode_started
         /\ reply = "accepted" => vnode_started \subseteq vnode_started'
<1>1. /\ call' = [call EXCEPT ![c] = Free]
      /\ IF call[c].heard
           THEN /\ phase' = [phase EXCEPT ![v] = IF phase[v] = "running" THEN phase[v]
                                                 ELSE reply]
                /\ vnode_started' = IF reply = "accepted" THEN vnode_started \union {v} ELSE vnode_started \ {v}
           ELSE UNCHANGED <<phase, vnode_started>>
  OBVIOUS
<1>2. Free \in [v: Vnode \union {""}, at: Places, heard: BOOLEAN]
  BY DEF Free, Places
<1>0. /\ call' \in [Handler -> [v: Vnode \union {""}, at: Places, heard: BOOLEAN]]
      /\ call'[c] = Free /\ \A d \in Handler : d # c => call'[d] = call[d]
  BY <1>2, Zenon DEF Shapes
<1>3. CASE call[c].heard
  <2> DEFINE new == IF phase[v] = "running" THEN phase[v] ELSE reply
  <2>1. /\ phase' = [phase EXCEPT ![v] = new]
        /\ vnode_started' = IF reply = "accepted" THEN vnode_started \union {v} ELSE vnode_started \ {v}
        /\ call' = [call EXCEPT ![c] = Free]
    BY <1>1, <1>3
  <2>2. /\ new \in {"idle", "calling", "accepted", "running", "stopping"}
        /\ new # phase[v] => new = reply
        /\ reply = "idle" => new # "accepted"
        /\ new = "accepted" => reply = "accepted" \/ phase[v] = "accepted"
    BY DEF Shapes
  <2> HIDE DEF new
  <2>3. /\ phase' \in [Vnode -> {"idle", "calling", "accepted", "running", "stopping"}]
        /\ phase'[v] = new /\ \A w \in Vnode : w # v => phase'[w] = phase[w]
    BY <2>1, <2>2 DEF Shapes
  <2>5. /\ vnode_started' \subseteq Vnode
        /\ \A w \in Vnode : w # v => (w \in vnode_started' <=> w \in vnode_started)
        /\ reply = "accepted" => v \in vnode_started' /\ vnode_started \subseteq vnode_started'
        /\ reply = "idle" => v \notin vnode_started'
    BY <2>1 DEF Shapes
  <2>6. QED
    BY <1>3, <1>0, <2>2, <2>3, <2>5
<1>4. CASE ~call[c].heard
  BY <1>4, <1>0 DEF Shapes
<1>5. QED
  BY <1>3, <1>4

\* What becomes of a container.
LEMMA Box ==
  ASSUME Shapes, NEW v \in Vnode, NEW state \in {"none", "made", "running"}, Becomes(v, state)
  PROVE  /\ box' \in [Vnode -> {"none", "made", "running"}]
         /\ box'[v] = state /\ \A w \in Vnode : w # v => box'[w] = box[w]
         /\ devices' = IF state = "running" THEN devices ELSE {d \in devices : d[1] # v}
BY DEF Becomes, Shapes

\* Steps that leave containers, calls and GPUs alone, whatever they add to mishap.
LEMMA Elsewhere ==
  ASSUME IInv, UNCHANGED <<box, devices, gpu_status, call, phase, vnode_started>>,
         mishap \subseteq mishap'
  PROVE  IInv'
<1>1. Shapes' /\ Running'
  BY DEF IInv, Shapes, Running
<1>2. Alone'
  BY DEF IInv, Alone, Unless
<1>3. Reached'
  BY DEF IInv, Reached, Unless
<1>4. Unmarked'
  BY DEF IInv, Unmarked, NoMarks, Killed, Unless
<1>5. GpuTable'
  BY DEF IInv, GpuTable, Unless
<1>6. QED
  BY <1>1, <1>2, <1>3, <1>4, <1>5 DEF IInv

-----------------------------------------------------------------------------
(* The calls begin.                                                        *)

LEMMA Begins ==
  ASSUME Shapes, NEW v \in Vnode, NEW at \in Places, NEW c \in Handler, call[c] = Free,
         call' = [call EXCEPT ![c] = [v |-> v, at |-> at, heard |-> TRUE]]
  PROVE  /\ call' \in [Handler -> [v: Vnode \union {""}, at: Places, heard: BOOLEAN]]
         /\ call'[c].v = v /\ call'[c].at = at
         /\ \A d \in Handler : d # c => call'[d] = call[d]
BY DEF Shapes

LEMMA StartVnodeStep == ASSUME IInv, NEW v \in Vnode, StartVnode(v) PROVE IInv'
<1>1. PICK c \in Handler : /\ call[c] = Free
                           /\ call' = [call EXCEPT ![c] = [v |-> v, at |-> "create", heard |-> TRUE]]
  BY DEF StartVnode, Call
<1>2. /\ call' \in [Handler -> [v: Vnode \union {""}, at: Places, heard: BOOLEAN]]
      /\ call'[c].v = v /\ call'[c].at = "create"
      /\ \A d \in Handler : d # c => call'[d] = call[d]
  BY <1>1, Begins DEF IInv, Places, Ups
<1>3. /\ UNCHANGED <<box, devices, gpu_status, vnode_started>> /\ mishap \subseteq mishap'
      /\ v \notin vnode_started
      /\ "again" \notin mishap' => box[v] # "running" /\ \A d \in Handler : call[d].v # v
      /\ phase' = [phase EXCEPT ![v] = "calling"]
  BY DEF StartVnode, box_vars, Served
<1>4. Shapes' /\ Running'
  BY <1>2, <1>3 DEF IInv, Shapes, Running
<1>5. Alone'
  <2> SUFFICES ASSUME "again" \notin mishap', NEW e \in Handler, NEW w \in Vnode,
                      call'[e].v = w, call'[e].at \in Ups
               PROVE  /\ \A d \in Handler : call'[d].v = w => d = e
                      /\ w \notin vnode_started' /\ phase'[w] \in {"idle", "calling"}
    BY DEF Alone, Unless
  <2>1. CASE w = v
    BY <1>2, <1>3, <2>1 DEF IInv, Shapes
  <2>2. CASE w # v
    <3>1. e # c /\ call'[e] = call[e]
      BY <1>2, <2>2
    <3>2. /\ \A d \in Handler : call[d].v = w => d = e
          /\ w \notin vnode_started /\ phase[w] \in {"idle", "calling"}
      BY <1>3, <3>1 DEF IInv, Alone, Unless
    <3>3. \A d \in Handler : call'[d].v = w => call[d].v = w
      BY <1>2, <2>2
    <3>4. phase'[w] = phase[w]
      BY <1>3, <2>2 DEF IInv, Shapes
    <3>5. QED
      BY <1>3, <3>2, <3>3, <3>4
  <2>3. QED
    BY <2>1, <2>2
<1>6. Reached'
  <2> SUFFICES ASSUME "again" \notin mishap', NEW e \in Handler, NEW w \in Vnode, call'[e].v = w
               PROVE  /\ call'[e].at \in {"create", "run"} => box[w] # "running"
                      /\ call'[e].at \in {"gpu", "ssh"} => box[w] = "running"
                      /\ call'[e].at = "release" => box[w] = "none"
    BY <1>3 DEF Reached, Unless
  <2>1. CASE e = c
    BY <1>2, <1>3, <2>1
  <2>2. CASE e # c
    BY <1>2, <1>3, <2>2 DEF IInv, Reached, Unless
  <2>3. QED
    BY <2>1, <2>2
<1>7. Unmarked'
  <2>1. \A w \in Vnode, e \in Handler : call'[e].v = w /\ call'[e].at \in {"gpu", "undo"}
                                         => call[e].v = w /\ call[e].at \in {"gpu", "undo"}
    BY <1>2
  <2>2. \A w \in Vnode : phase'[w] \in {"running", "stopping"} => phase[w] \in {"running", "stopping"}
    BY <1>3 DEF IInv, Shapes
  <2>3. \A w \in Vnode, e \in Handler : Killed(e, w)' => Killed(e, w)
    BY <1>2 DEF Killed
  <2>4. QED
    BY <1>3, <2>1, <2>2, <2>3 DEF IInv, Unmarked, NoMarks, Unless
<1>8. GpuTable'
  <2>1. \A d \in Handler : call[d].at \in Downs => call'[d] = call[d]
    <3>1. call[c].at = "none"
      BY <1>1, FreeCall
    <3>2. QED
      BY <1>2, <3>1 DEF Downs
  <2>2. QED
    BY <1>3, <2>1 DEF IInv, GpuTable, Unless, Downs
<1>9. QED
  BY <1>4, <1>5, <1>6, <1>7, <1>8 DEF IInv

LEMMA ClearSubTaskStep == ASSUME IInv, NEW v \in Vnode, ClearSubTask(v) PROVE IInv'
<1>1. /\ UNCHANGED <<box, devices, gpu_status, vnode_started, mishap>>
      /\ phase[v] \in {"accepted", "running"}
  BY DEF ClearSubTask, box_vars
<1>2. CASE UNCHANGED call /\ phase' = [phase EXCEPT ![v] = "idle"]
  <2>1. Shapes' /\ Running'
    BY <1>1, <1>2 DEF IInv, Shapes, Running
  <2>2. Alone'
    <3>1. \A w \in Vnode : phase'[w] = phase[w] \/ phase'[w] = "idle"
      BY <1>2 DEF IInv, Shapes
    <3>2. QED
      BY <1>1, <1>2, <3>1 DEF IInv, Alone, Unless
  <2>5. Reached'
    BY <1>1, <1>2 DEF IInv, Reached, Unless
  <2>3. Unmarked' /\ GpuTable'
    <3>1. \A w \in Vnode : phase'[w] \in {"running", "stopping"} => phase'[w] = phase[w]
      BY <1>2 DEF IInv, Shapes
    <3>2. Unmarked'
      BY <1>1, <1>2, <3>1 DEF IInv, Unmarked, NoMarks, Killed, Unless
    <3>3. GpuTable'
      BY <1>1, <1>2 DEF IInv, GpuTable, Unless
    <3>4. QED
      BY <3>2, <3>3
  <2>4. QED
    BY <2>1, <2>2, <2>3, <2>5 DEF IInv
<1>3. ASSUME NEW at \in {"kill", "stop"}, Call(v, at), phase' = [phase EXCEPT ![v] = "stopping"],
             at = "stop" => v \in vnode_started \/ phase[v] = "running",
             at = "kill" => phase[v] = "running"
      PROVE  IInv'
  <2>1. PICK c \in Handler : /\ call[c] = Free
                             /\ call' = [call EXCEPT ![c] = [v |-> v, at |-> at, heard |-> TRUE]]
    BY <1>3 DEF Call
  <2>2. /\ call' \in [Handler -> [v: Vnode \union {""}, at: Places, heard: BOOLEAN]]
        /\ call'[c].v = v /\ call'[c].at = at
        /\ \A d \in Handler : d # c => call'[d] = call[d]
    BY <2>1, Begins DEF IInv, Places, Downs
  <2>3. Shapes' /\ Running'
    BY <1>1, <1>3, <2>2 DEF IInv, Shapes, Running
  <2>4. Alone'
    <3> SUFFICES ASSUME "again" \notin mishap, NEW e \in Handler, NEW w \in Vnode,
                        call'[e].v = w, call'[e].at \in Ups
                 PROVE  /\ \A d \in Handler : call'[d].v = w => d = e
                        /\ w \notin vnode_started /\ phase'[w] \in {"idle", "calling"}
      BY <1>1 DEF Alone, Unless
    <3>1. e # c /\ call'[e] = call[e]
      BY <1>3, <2>2 DEF Ups
    <3>2. /\ \A d \in Handler : call[d].v = w => d = e
          /\ w \notin vnode_started /\ phase[w] \in {"idle", "calling"}
      BY <3>1 DEF IInv, Alone, Unless
    <3>3. w # v
      BY <1>1, <3>2
    <3>4. phase'[w] = phase[w]
      BY <1>3, <3>3 DEF IInv, Shapes
    <3>5. QED
      BY <2>2, <3>2, <3>3, <3>4
  <2>5. Reached'
    BY <1>1, <1>3, <2>2 DEF IInv, Reached, Unless
  <2>6. Unmarked'
    <3>1. \A w \in Vnode, e \in Handler : call'[e].v = w /\ call'[e].at \in {"gpu", "undo"}
                                           => call[e].v = w /\ call[e].at \in {"gpu", "undo"}
      BY <2>2
    <3>2. \A w \in Vnode : phase'[w] \in {"running", "stopping"} /\ w \notin vnode_started
                           => phase[w] \in {"running", "stopping"}
      BY <1>1, <1>3 DEF IInv, Shapes, Running
    <3>3. \A w \in Vnode, e \in Handler :
            Killed(e, w)' => Killed(e, w) \/ (w = v /\ phase[w] \in {"running", "stopping"})
      BY <1>3, <2>2 DEF Killed
    <3>4. QED
      BY <1>1, <3>1, <3>2, <3>3 DEF IInv, Unmarked, NoMarks, Unless
  <2>7. GpuTable'
    <3>1. \A d \in Handler : call[d].at \in Downs => call'[d] = call[d]
      <4>1. call[c].at = "none"
        BY <2>1, FreeCall
      <4>2. QED
        BY <2>2, <4>1 DEF Downs
    <3>2. QED
      BY <1>1, <3>1 DEF IInv, GpuTable, Unless, Downs
  <2>8. QED
    BY <2>3, <2>4, <2>5, <2>6, <2>7 DEF IInv
<1>4. QED
  BY <1>1, <1>2, <1>3 DEF ClearSubTask
-----------------------------------------------------------------------------
(* A handler goes on, or ends.                                             *)

\* A handler c of v goes on to a place, or ends: what the invariants say of the
\* calls, when a call that was the only one for v stays it.
LEMMA Onward ==
  ASSUME IInv, NEW c \in Handler, NEW v \in Vnode, call[c].v = v, NEW at \in Places, To(c, at),
         at \in Ups => call[c].at \in Ups, mishap \subseteq mishap'
  PROVE  Alone'
<1>1. /\ call'[c].v = v /\ call'[c].at = at
      /\ \A d \in Handler : d # c => call'[d] = call[d]
      /\ UNCHANGED <<phase, vnode_started>>
  BY Moves DEF IInv
<1> SUFFICES ASSUME "again" \notin mishap', NEW e \in Handler, NEW w \in Vnode,
                    call'[e].v = w, call'[e].at \in Ups
             PROVE  /\ \A d \in Handler : call'[d].v = w => d = e
                    /\ w \notin vnode_started' /\ phase'[w] \in {"idle", "calling"}
  BY DEF Alone, Unless
<1>2. call[e].v = w /\ call[e].at \in Ups
  BY <1>1
<1>3. /\ \A d \in Handler : call[d].v = w => d = e
      /\ w \notin vnode_started /\ phase[w] \in {"idle", "calling"}
  BY <1>2 DEF IInv, Alone, Unless
<1>4. \A d \in Handler : call'[d].v = w => call[d].v = w
  BY <1>1
<1>5. QED
  BY <1>1, <1>3, <1>4

LEMMA Ended ==
  ASSUME IInv, NEW c \in Handler, NEW v \in Vnode, call[c].v = v, NEW reply \in {"accepted", "idle"},
         /\ call'[c] = Free /\ \A d \in Handler : d # c => call'[d] = call[d]
         /\ \A w \in Vnode : w # v => phase'[w] = phase[w] /\ (w \in vnode_started' <=> w \in vnode_started),
         mishap \subseteq mishap'
  PROVE  Alone'
<1> SUFFICES ASSUME "again" \notin mishap', NEW e \in Handler, NEW w \in Vnode,
                    call'[e].v = w, call'[e].at \in Ups
             PROVE  /\ \A d \in Handler : call'[d].v = w => d = e
                    /\ w \notin vnode_started' /\ phase'[w] \in {"idle", "calling"}
  BY DEF Alone, Unless
<1>2. e # c /\ call'[e] = call[e]
  <2>1. w # ""
    BY Named
  <2>2. QED
    BY <2>1, FreeCall
<1>3. /\ \A d \in Handler : call[d].v = w => d = e
      /\ w \notin vnode_started /\ phase[w] \in {"idle", "calling"}
  BY <1>2 DEF IInv, Alone, Unless
<1>4. w # v
  BY <1>2, <1>3
<1>5. \A d \in Handler : call'[d].v = w => call[d].v = w
  <2>1. w # ""
    BY Named
  <2>2. QED
    BY <2>1, FreeCall
<1>6. QED
  BY <1>3, <1>4, <1>5

\* Of a call that starts a vnode, the only one for it, while nothing overlaps.
LEMMA Only ==
  ASSUME IInv, NEW c \in Handler, NEW v \in Vnode, call[c].v = v, call[c].at \in Ups,
         "again" \notin mishap
  PROVE  /\ \A d \in Handler : call[d].v = v => d = c /\ call[d].at \notin Downs
         /\ v \notin vnode_started /\ phase[v] \in {"idle", "calling"}
<1>1. /\ \A d \in Handler : call[d].v = v => d = c
      /\ v \notin vnode_started /\ phase[v] \in {"idle", "calling"}
  BY DEF IInv, Alone, Unless
<1>2. call[c].at \notin Downs
  BY DEF Ups, Downs
<1>3. QED
  BY <1>1, <1>2

\* The handler c of v is then at a place, or free; the other handlers stay.
At2(c, v, at) ==
  /\ call'[c].at = at /\ call'[c].v \in {v, ""}
  /\ \A d \in Handler : d # c => call'[d] = call[d]

Excused == {"ssh", "again", "parted"} \cap mishap # {}

LEMMA ReachedBy ==
  ASSUME IInv, NEW c \in Handler, NEW v \in Vnode, call[c].v = v, NEW at, At2(c, v, at),
         \A w \in Vnode : w # v => box'[w] = box[w], mishap \subseteq mishap',
         "again" \notin mishap' =>
           /\ at \in {"create", "run"} => box'[v] # "running"
           /\ at \in {"gpu", "ssh"} => box'[v] = "running"
           /\ at = "release" => box'[v] = "none",
         call[c].at \in Ups \/ (box'[v] # "running" /\ (box[v] = "none" => box'[v] = "none"))
         \/ box'[v] = box[v]
  PROVE  Reached'
<1> SUFFICES ASSUME "again" \notin mishap', NEW e \in Handler, NEW w \in Vnode, call'[e].v = w
             PROVE  /\ call'[e].at \in {"create", "run"} => box'[w] # "running"
                    /\ call'[e].at \in {"gpu", "ssh"} => box'[w] = "running"
                    /\ call'[e].at = "release" => box'[w] = "none"
  BY DEF Reached, Unless
<1>1. CASE e = c
  <2>1. w = v
    BY <1>1, Named DEF At2
  <2>2. QED
    BY <1>1, <2>1 DEF At2
<1>2. CASE e # c
  <2>1. call'[e] = call[e] /\ call[e].v = w
    BY <1>2 DEF At2
  <2>2. /\ call[e].at \in {"create", "run"} => box[w] # "running"
        /\ call[e].at \in {"gpu", "ssh"} => box[w] = "running"
        /\ call[e].at = "release" => box[w] = "none"
    BY <2>1 DEF IInv, Reached, Unless
  <2>3. CASE w = v
    <3>1. call[e].at \notin Ups /\ call[c].at \notin Ups
      BY <1>2, <2>1, <2>3, Only
    <3>2. QED
      BY <2>1, <2>2, <2>3, <3>1 DEF Ups
  <2>4. QED
    BY <2>1, <2>2, <2>3
<1>3. QED
  BY <1>1, <1>2

LEMMA UnmarkedBy ==
  ASSUME IInv, NEW c \in Handler, NEW v \in Vnode, NEW at, At2(c, v, at), mishap \subseteq mishap',
         \A w \in Vnode : NoMarks(w) => NoMarks(w)' \/ Excused' \/ (w = v /\ call[c].at = "gpu"),
         call[c].v = v, at \in {"gpu", "undo"} => NoMarks(v)' \/ Excused',
         call[c].at = "gpu" => Excused' \/ (v \notin vnode_started /\ phase[v] \in {"idle", "calling"}
                                            /\ \A d \in Handler : call[d].v = v => d = c),
         \A w \in Vnode : phase'[w] \in {"running", "stopping"} /\ w \notin vnode_started' =>
           \/ phase[w] \in {"running", "stopping"} /\ w \notin vnode_started
           \/ NoMarks(w)' \/ Excused',
         at # "kill",
         \A w \in Vnode : w \in vnode_started => w \in vnode_started' \/ NoMarks(w)' \/ Excused'
  PROVE  Unmarked'
<1> SUFFICES ASSUME ~Excused', NEW w \in Vnode
             PROVE  /\ (\E e \in Handler : call'[e].v = w /\ call'[e].at \in {"gpu", "undo"}) => NoMarks(w)'
                    /\ phase'[w] \in {"running", "stopping"} /\ w \notin vnode_started' => NoMarks(w)'
                    /\ w \notin vnode_started' /\ (\E e \in Handler : Killed(e, w)') => NoMarks(w)'
  BY DEF Unmarked, Unless, Excused
<1>1. ~Excused
  BY DEF Excused
<1>2. /\ \A e \in Handler : call[e].v = w /\ call[e].at \in {"gpu", "undo"} => NoMarks(w)
      /\ phase[w] \in {"running", "stopping"} /\ w \notin vnode_started => NoMarks(w)
      /\ \A e \in Handler : w \notin vnode_started /\ Killed(e, w) => NoMarks(w)
  BY <1>1 DEF IInv, Unmarked, Unless, Excused
<1>3. ASSUME NEW e \in Handler, call'[e].v = w, call'[e].at \in {"gpu", "undo"} PROVE NoMarks(w)'
  <2>1. CASE e = c
    BY <1>3, <2>1, Named DEF At2
  <2>2. CASE e # c
    <3>1. call[e].v = w /\ call[e].at \in {"gpu", "undo"}
      BY <1>3, <2>2 DEF At2
    <3>2. QED
      BY <1>2, <2>2, <3>1
  <2>3. QED
    BY <2>1, <2>2
<1>4. ASSUME phase'[w] \in {"running", "stopping"}, w \notin vnode_started' PROVE NoMarks(w)'
  BY <1>2, <1>4
<1>5. ASSUME w \notin vnode_started', NEW e \in Handler, Killed(e, w)' PROVE NoMarks(w)'
  <2>1. e # c /\ call'[e] = call[e]
    BY <1>5 DEF At2, Killed
  <2>2. Killed(e, w)
    BY <1>5, <2>1 DEF Killed
  <2>3. NoMarks(w)' \/ (w \notin vnode_started /\ NoMarks(w))
    BY <1>2, <1>5, <2>2
  <2>4. CASE w = v /\ call[c].at = "gpu"
    BY <2>1, <2>2, <2>4 DEF Killed
  <2>5. QED
    BY <2>3, <2>4
<1>6. QED
  BY <1>3, <1>4, <1>5

\* The table when containers, and no marks, change.
LEMMA TableBy ==
  ASSUME IInv, NEW c \in Handler, NEW v \in Vnode, call[c].v = v, NEW at, At2(c, v, at),
         NEW state \in {"none", "made", "running"}, Becomes(v, state), UNCHANGED gpu_status,
         mishap \subseteq mishap', call'[c].v = v \/ at = "none",
         call[c].at \in Downs => at \in Downs,
         state = "running" \/ at \in Downs \/ NoMarks(v) \/ Excused'
  PROVE  GpuTable'
<1>1. /\ box'[v] = state /\ \A w \in Vnode : w # v => box'[w] = box[w]
      /\ devices' \subseteq devices
  BY Box DEF IInv
<1>2. Unless({"device", "again", "left"}, \A d \in devices : gpu_status[d[2]] = d[1])'
  BY <1>1 DEF IInv, GpuTable, Unless
<1> SUFFICES ASSUME ~Excused', NEW g \in Gpu, NEW w \in Vnode, gpu_status[g] = w
             PROVE  \/ box'[w] = "running"
                    \/ \E e \in Handler : call'[e].v = w /\ call'[e].at \in Downs
  <2>1. \A g \in Gpu : gpu_status[g] \in Vnode \union {""}
    BY DEF IInv, Shapes
  <2>2. QED
    BY <1>2, <2>1 DEF GpuTable, Unless, Excused, Downs
<1>3. box[w] = "running" \/ \E e \in Handler : call[e].v = w /\ call[e].at \in Downs
  BY Named DEF IInv, GpuTable, Unless, Excused, Downs
<1>4. CASE \E e \in Handler : call[e].v = w /\ call[e].at \in Downs
  <2>1. PICK e \in Handler : call[e].v = w /\ call[e].at \in Downs
    BY <1>4
  <2>2. CASE e = c
    BY <2>1, <2>2 DEF At2, Downs
  <2>3. CASE e # c
    BY <2>1, <2>3 DEF At2
  <2>4. QED
    BY <2>2, <2>3
<1>5. CASE box[w] = "running"
  BY <1>1, <1>5 DEF NoMarks, At2, Downs
<1>6. QED
  BY <1>3, <1>4, <1>5


-----------------------------------------------------------------------------
(* A handler changes its container, and no marks.                          *)

LEMMA GoesOn ==
  ASSUME IInv, NEW c \in Handler, NEW v \in Vnode, call[c].v = v, NEW at \in Places,
         at # "kill", To(c, at), NEW state \in {"none", "made", "running"}, Becomes(v, state),
         UNCHANGED gpu_status, mishap \subseteq mishap',
         at \in Ups => call[c].at \in Ups, call[c].at \in Downs => at \in Downs,
         "again" \notin mishap' =>
           /\ at \in {"create", "run"} => state # "running"
           /\ at \in {"gpu", "ssh"} => state = "running"
           /\ at = "release" => state = "none",
         call[c].at \in Ups \/ (state # "running" /\ (box[v] = "none" => state = "none"))
         \/ state = box[v],
         at \in {"gpu", "undo"} => NoMarks(v) \/ Excused',
         state = "running" \/ at \in Downs \/ NoMarks(v) \/ Excused'
  PROVE  IInv'
<1>1. /\ call' \in [Handler -> [v: Vnode \union {""}, at: Places, heard: BOOLEAN]]
      /\ call'[c].v = call[c].v /\ call'[c].at = at
      /\ \A d \in Handler : d # c => call'[d] = call[d]
      /\ UNCHANGED <<phase, vnode_started>>
  BY Moves DEF IInv
<1>2. At2(c, v, at)
  BY <1>1 DEF At2
<1>3. /\ box' \in [Vnode -> {"none", "made", "running"}]
      /\ box'[v] = state /\ \A w \in Vnode : w # v => box'[w] = box[w]
      /\ devices' = IF state = "running" THEN devices ELSE {d \in devices : d[1] # v}
  BY Box DEF IInv
<1>4. Shapes'
  BY <1>1, <1>3 DEF IInv, Shapes
<1>5. Running'
  BY <1>1, <1>3 DEF IInv, Shapes, Running
<1>6. Alone'
  BY Onward
<1>7. Reached'
  BY <1>2, <1>3, ReachedBy
<1>8. Unmarked'
  <2>1. \A w \in Vnode : NoMarks(w) => NoMarks(w)'
    BY DEF NoMarks
  <2>2. call[c].at = "gpu" => Excused' \/ (v \notin vnode_started /\ phase[v] \in {"idle", "calling"}
                                           /\ \A d \in Handler : call[d].v = v => d = c)
    BY Only DEF Excused, Ups
  <2>3. QED
    BY <1>1, <1>2, <2>1, <2>2, UnmarkedBy
<1>9. GpuTable'
  BY <1>1, <1>2, TableBy
<1>10. QED
  BY <1>4, <1>5, <1>6, <1>7, <1>8, <1>9 DEF IInv

LEMMA Refused ==
  ASSUME IInv, NEW c \in Handler, NEW v \in Vnode, call[c].v = v, Answer(c, v, "idle"),
         NEW state \in {"none", "made", "running"}, Becomes(v, state),
         UNCHANGED gpu_status, mishap \subseteq mishap', call[c].at \notin Downs,
         call[c].at \in Ups \/ (state # "running" /\ (box[v] = "none" => state = "none"))
         \/ state = box[v],
         state = "running" \/ NoMarks(v) \/ Excused',
         call[c].at \in Ups \/ v \notin vnode_started \/ ~call[c].heard \/ Excused'
  PROVE  IInv'
<1>1. /\ call' \in [Handler -> [v: Vnode \union {""}, at: Places, heard: BOOLEAN]]
      /\ call'[c] = Free /\ \A d \in Handler : d # c => call'[d] = call[d]
      /\ phase' \in [Vnode -> {"idle", "calling", "accepted", "running", "stopping"}]
      /\ vnode_started' \subseteq Vnode
      /\ \A w \in Vnode : w # v => phase'[w] = phase[w] /\ (w \in vnode_started' <=> w \in vnode_started)
      /\ phase'[v] # phase[v] => phase'[v] = "idle"
      /\ call[c].heard => v \notin vnode_started' /\ phase'[v] # "accepted"
      /\ ~call[c].heard => phase' = phase /\ vnode_started' = vnode_started
  BY Ends DEF IInv, Answer
<1>2. At2(c, v, "none")
  BY <1>1, FreeCall DEF At2
<1>3. /\ box' \in [Vnode -> {"none", "made", "running"}]
      /\ box'[v] = state /\ \A w \in Vnode : w # v => box'[w] = box[w]
      /\ devices' = IF state = "running" THEN devices ELSE {d \in devices : d[1] # v}
  BY Box DEF IInv
<1>4. Shapes'
  BY <1>1, <1>3 DEF IInv, Shapes
<1>5. Running'
  BY <1>1, <1>3 DEF IInv, Shapes, Running
<1>6. Alone'
  BY <1>1, Ended
<1>7. Reached'
  BY <1>2, <1>3, ReachedBy
<1>8. Unmarked'
  <2>1. \A w \in Vnode : NoMarks(w) => NoMarks(w)'
    BY DEF NoMarks
  <2>2. call[c].at \in Ups => Excused' \/ (v \notin vnode_started /\ phase[v] \in {"idle", "calling"}
                                           /\ \A d \in Handler : call[d].v = v => d = c)
    BY Only DEF Excused
  <2>3. \A w \in Vnode : phase'[w] \in {"running", "stopping"} /\ w \notin vnode_started' =>
           \/ phase[w] \in {"running", "stopping"} /\ w \notin vnode_started
           \/ NoMarks(w)' \/ Excused'
    BY <1>1, <2>2
  <2>5. \A w \in Vnode : w \in vnode_started => w \in vnode_started' \/ NoMarks(w)' \/ Excused'
    BY <1>1, <2>2
  <2>4. QED
    BY <1>1, <1>2, <2>1, <2>2, <2>3, <2>5, UnmarkedBy DEF Ups
<1>9. GpuTable'
  BY <1>2, TableBy
<1>10. QED
  BY <1>4, <1>5, <1>6, <1>7, <1>8, <1>9 DEF IInv


-----------------------------------------------------------------------------
(* start_vnode                                                             *)

LEMMA CreateContainerStep ==
  ASSUME IInv, NEW c \in Handler, NEW v \in Vnode, CreateContainer(c, v) PROVE IInv'
<1> DEFINE state == IF box[v] = "running" THEN "running" ELSE "made"
<1>1. /\ call[c].v = v /\ call[c].at = "create" /\ Becomes(v, state) /\ UNCHANGED gpu_status
      /\ state \in {"none", "made", "running"} /\ mishap \subseteq mishap'
  BY DEF CreateContainer, At, NoFault, Fault
<1>2. /\ "again" \notin mishap => box[v] # "running"
      /\ state = "running" \/ NoMarks(v) \/ Excused'
  <2>1. "again" \notin mishap => box[v] # "running"
    BY <1>1 DEF IInv, Reached, Unless
  <2>2. ASSUME ~Excused', box[v] # "running" PROVE NoMarks(v)
    <3>1. {"ssh", "again", "parted"} \cap mishap = {}
      BY <1>1, <2>2 DEF Excused
    <3>2. \A d \in Handler : call[d].v = v => call[d].at \notin Downs
      BY <1>1, <3>1, Only DEF Ups
    <3>3. QED
      BY <2>2, <3>1, <3>2, NoMark DEF IInv
  <2>3. QED
    BY <2>1, <2>2
<1> HIDE DEF state
<1>3. CASE To(c, "run")
  <2>1. "again" \notin mishap' => state # "running"
    BY <1>1, <1>2 DEF state
  <2>2. QED
    BY <1>1, <1>2, <1>3, <2>1, GoesOn DEF Places, Ups, Downs
<1>4. CASE Answer(c, v, "idle")
  BY <1>1, <1>2, <1>4, Refused DEF Ups, Downs
<1>5. QED
  BY <1>3, <1>4 DEF CreateContainer

\* The container of a call that starts it, and that does not run, has no mark.
LEMMA RunContainerStep ==
  ASSUME IInv, NEW c \in Handler, NEW v \in Vnode, RunContainer(c, v) PROVE IInv'
<1>1. /\ call[c].v = v /\ call[c].at = "run" /\ UNCHANGED gpu_status /\ mishap \subseteq mishap'
  BY DEF RunContainer, At, NoFault, Fault
<1>2. NoMarks(v) \/ Excused'
  <2> SUFFICES ASSUME ~Excused' PROVE NoMarks(v)
    OBVIOUS
  <2>1. {"ssh", "again", "parted"} \cap mishap = {}
    BY <1>1 DEF Excused
  <2>2. box[v] # "running"
    BY <1>1, <2>1 DEF IInv, Reached, Unless
  <2>3. \A d \in Handler : call[d].v = v => call[d].at \notin Downs
    BY <1>1, <2>1, Only DEF Ups
  <2>4. QED
    BY <2>1, <2>2, <2>3, NoMark DEF IInv
<1>3. CASE Becomes(v, "running") /\ To(c, "gpu")
  BY <1>1, <1>2, <1>3, GoesOn DEF Places, Ups, Downs
<1>4. CASE Becomes(v, "none") /\ Answer(c, v, "idle")
  BY <1>1, <1>2, <1>4, Refused DEF Ups, Downs
<1>5. QED
  BY <1>3, <1>4 DEF RunContainer

\* A container that stays what it is.
LEMMA Stays ==
  ASSUME IInv, NEW v \in Vnode, UNCHANGED <<box, devices>>
  PROVE  Becomes(v, box[v]) /\ box[v] \in {"none", "made", "running"}
<1>1. box = [box EXCEPT ![v] = box[v]] /\ box[v] \in {"none", "made", "running"}
  BY DEF IInv, Shapes
<1>2. box[v] # "running" => devices = {d \in devices : d[1] # v}
  BY DEF IInv, Running
<1>3. QED
  BY <1>1, <1>2 DEF Becomes

LEMMA AddGpuDeviceStep ==
  ASSUME IInv, NEW c \in Handler, NEW v \in Vnode, AddGpuDevice(c, v) PROVE IInv'
<1>1. /\ call[c].v = v /\ call[c].at = "gpu" /\ UNCHANGED box /\ mishap \subseteq mishap'
  BY DEF AddGpuDevice, At, NoFault, Fault
<1>2. NoMarks(v) \/ Excused
  BY <1>1 DEF IInv, Unmarked, Unless, Excused
<1>3. CASE To(c, "undo") /\ UNCHANGED <<gpu_status, devices>>
  <2>1. Becomes(v, box[v]) /\ box[v] \in {"none", "made", "running"}
    BY <1>1, <1>3, Stays
  <2>2. Excused => Excused'
    BY <1>1 DEF Excused
  <2>3. QED
    BY <1>1, <1>2, <1>3, <2>1, <2>2, GoesOn DEF Places, Ups, Downs
<1>4. ASSUME NEW S \in SUBSET FreeGpus, NEW T \in SUBSET S, NEW name \in {v, ""}, NEW at \in {"ssh", "undo"},
             gpu_status' = Marked(S, name), devices' = Added(v, T), To(c, at),
             name = v => T = S /\ at = "ssh", name = "" => "device" \in mishap' /\ at = "undo"
      PROVE  IInv'
  <2>1. /\ call' \in [Handler -> [v: Vnode \union {""}, at: Places, heard: BOOLEAN]]
        /\ call'[c].v = call[c].v /\ call'[c].at = at
        /\ \A d \in Handler : d # c => call'[d] = call[d]
        /\ UNCHANGED <<phase, vnode_started>>
    BY <1>4, Moves DEF IInv, Places, Ups
  <2>2. At2(c, v, at)
    BY <1>1, <2>1 DEF At2
  <2>3. /\ \A g \in S : gpu_status[g] = "" /\ gpu_status'[g] = name
        /\ \A g \in Gpu \ S : gpu_status'[g] = gpu_status[g]
        /\ S \subseteq Gpu /\ gpu_status' \in [Gpu -> Vnode \union {""}]
    BY <1>4 DEF FreeGpus, Marked, IInv, Shapes
  <2>4. /\ devices' \in SUBSET (Vnode \X Gpu)
        /\ \A d \in devices' : d \in devices \/ (d[1] = v /\ d[2] \in T /\ box[v] = "running")
    BY <1>4, <2>3 DEF Added, IInv, Shapes
  <2>5. Shapes' /\ Running'
    BY <1>1, <2>1, <2>3, <2>4 DEF IInv, Shapes, Running
  <2>6. Alone'
    BY <1>1, <1>4, Onward DEF Places, Ups
  <2>7. Reached'
    <3>1. "again" \notin mishap' => box[v] = "running"
      BY <1>1 DEF IInv, Reached, Unless
    <3>2. QED
      BY <1>1, <1>4, <2>2, <3>1, ReachedBy
  <2>8. \A w \in Vnode : NoMarks(w) => NoMarks(w)' \/ w = v
    BY <2>3, Named DEF NoMarks
  <2>9. name = "" => \A w \in Vnode : NoMarks(w) => NoMarks(w)'
    BY <2>3, Named DEF NoMarks
  <2>10. Excused => Excused'
    BY <1>1 DEF Excused
  <2>11. Unmarked'
    <3>1. Excused' \/ (v \notin vnode_started /\ phase[v] \in {"idle", "calling"}
                       /\ \A d \in Handler : call[d].v = v => d = c)
      BY <1>1, Only DEF Excused, Ups
    <3>2. at \in {"gpu", "undo"} => NoMarks(v)' \/ Excused'
      BY <1>2, <1>4, <2>9, <2>10
    <3>3. QED
      BY <1>1, <2>1, <2>2, <2>8, <3>1, <3>2, UnmarkedBy
  <2>12. GpuTable'
    <3>1. Unless({"device", "again", "left"}, \A d \in devices : gpu_status[d[2]] = d[1])'
      <4> SUFFICES ASSUME {"device", "again", "left"} \cap mishap' = {}, NEW d \in devices'
                   PROVE  gpu_status'[d[2]] = d[1]
        BY DEF Unless
      <4>1. name = v /\ T = S
        BY <1>4
      <4>2. CASE d \in devices
        <5>1. gpu_status[d[2]] = d[1] /\ d[1] \in Vnode /\ d[2] \in Gpu
          BY <1>1, <4>2 DEF IInv, Shapes, GpuTable, Unless
        <5>2. d[1] # ""
          BY <5>1, Named
        <5>3. QED
          BY <2>3, <5>1, <5>2
      <4>3. CASE d[1] = v /\ d[2] \in T
        BY <2>3, <4>1, <4>3
      <4>4. QED
        BY <2>4, <4>2, <4>3
    <3>2. ASSUME ~Excused', NEW g \in Gpu, gpu_status'[g] # ""
          PROVE  \/ box'[gpu_status'[g]] = "running"
                 \/ \E e \in Handler : call'[e].v = gpu_status'[g] /\ call'[e].at \in Downs
      <4>1. CASE g \in S
        <5>1. gpu_status'[g] = v
          BY <2>3, <3>2, <4>1
        <5>2. box[v] = "running"
          BY <1>1, <3>2 DEF IInv, Reached, Unless, Excused
        <5>3. QED
          BY <1>1, <5>1, <5>2
      <4>2. CASE g \notin S
        <5>1. gpu_status'[g] = gpu_status[g]
          BY <2>3, <4>2
        <5>2. \/ box[gpu_status[g]] = "running"
              \/ \E e \in Handler : call[e].v = gpu_status[g] /\ call[e].at \in Downs
          BY <1>1, <3>2, <5>1 DEF IInv, GpuTable, Unless, Excused, Downs
        <5>3. \A e \in Handler : call[e].at \in Downs => call'[e] = call[e]
          BY <1>1, <2>1 DEF Downs
        <5>4. QED
          BY <1>1, <5>1, <5>2, <5>3
      <4>3. QED
        BY <4>1, <4>2
    <3>3. QED
      BY <3>1, <3>2 DEF GpuTable, Unless, Excused, Downs
  <2>13. QED
    BY <2>5, <2>6, <2>7, <2>11, <2>12 DEF IInv
<1>5. CASE \E S \in Choices(v) : gpu_status' = Marked(S, v) /\ devices' = Added(v, S) /\ To(c, "ssh")
  <2>1. PICK S \in SUBSET FreeGpus : gpu_status' = Marked(S, v) /\ devices' = Added(v, S) /\ To(c, "ssh")
    BY <1>5 DEF Choices
  <2>2. v # ""
    BY Named
  <2>3. QED
    BY <1>4, <2>1, <2>2
<1>6. CASE \E S \in Choices(v) : \E T \in SUBSET S :
             /\ "device" \in mishap' /\ gpu_status' = Marked(S, "")
             /\ devices' = Added(v, T) /\ To(c, "undo")
  <2>1. PICK S \in SUBSET FreeGpus : \E T \in SUBSET S :
             /\ "device" \in mishap' /\ gpu_status' = Marked(S, "")
             /\ devices' = Added(v, T) /\ To(c, "undo")
    BY <1>6 DEF Choices
  <2>4. PICK T \in SUBSET S : /\ "device" \in mishap' /\ gpu_status' = Marked(S, "")
                             /\ devices' = Added(v, T) /\ To(c, "undo")
    BY <2>1
  <2>2. v # ""
    BY Named
  <2>3. QED
    BY <1>4, <2>2, <2>4
<1>7. QED
  BY <1>3, <1>5, <1>6 DEF AddGpuDevice, Fault


LEMMA StartSshStep ==
  ASSUME IInv, NEW c \in Handler, NEW v \in Vnode, StartSsh(c, v) PROVE IInv'
<1>1. /\ call[c].v = v /\ call[c].at = "ssh" /\ UNCHANGED <<box, devices, gpu_status>>
      /\ mishap \subseteq mishap'
  BY DEF StartSsh, At, NoFault, Fault, box_vars
<1>2. Becomes(v, box[v]) /\ box[v] \in {"none", "made", "running"}
  BY <1>1, Stays
<1>3. box[v] = "running" \/ Excused'
  BY <1>1 DEF IInv, Reached, Unless, Excused
<1>4. CASE To(c, "undo") /\ "ssh" \in mishap'
  <2>1. Excused'
    BY <1>4 DEF Excused
  <2>2. QED
    BY <1>1, <1>2, <1>4, <2>1, GoesOn DEF Places, Ups, Downs
<1>5. CASE To(c, "undo") /\ box[v] # "running"
  BY <1>1, <1>2, <1>3, <1>5, GoesOn DEF Places, Ups, Downs
<1>6. CASE Answer(c, v, "accepted")
  <2>1. /\ call' \in [Handler -> [v: Vnode \union {""}, at: Places, heard: BOOLEAN]]
        /\ call'[c] = Free /\ \A d \in Handler : d # c => call'[d] = call[d]
        /\ phase' \in [Vnode -> {"idle", "calling", "accepted", "running", "stopping"}]
        /\ vnode_started' \subseteq Vnode
        /\ \A w \in Vnode : w # v => phase'[w] = phase[w] /\ (w \in vnode_started' <=> w \in vnode_started)
        /\ phase'[v] # phase[v] => phase'[v] = "accepted"
        /\ phase'[v] = "accepted" /\ call[c].heard => v \in vnode_started'
        /\ ~call[c].heard => phase' = phase /\ vnode_started' = vnode_started
        /\ vnode_started \subseteq vnode_started'
    BY <1>6, Ends DEF IInv, Answer
  <2>2. At2(c, v, "none")
    BY <2>1, FreeCall DEF At2
  <2>3. Shapes'
    BY <1>1, <2>1 DEF IInv, Shapes
  <2>4. Running'
    BY <1>1, <2>1 DEF IInv, Running
  <2>5. Alone'
    BY <1>1, <2>1, Ended
  <2>6. Reached'
    BY <1>1, <2>2, ReachedBy
  <2>7. Unmarked'
    BY <1>1, <2>1, <2>2, UnmarkedBy DEF NoMarks
  <2>8. GpuTable'
    BY <1>1, <1>2, <1>3, <2>2, TableBy DEF Downs
  <2>9. QED
    BY <2>3, <2>4, <2>5, <2>6, <2>7, <2>8 DEF IInv
<1>7. QED
  BY <1>4, <1>5, <1>6 DEF StartSsh, Fault

LEMMA UndoStep ==
  ASSUME IInv, NEW c \in Handler, NEW v \in Vnode, Undo(c, v) PROVE IInv'
<1>1. /\ call[c].v = v /\ call[c].at = "undo" /\ UNCHANGED <<gpu_status, mishap>>
      /\ Becomes(v, "none") /\ Answer(c, v, "idle")
  BY DEF Undo, At
<1>2. NoMarks(v) \/ Excused'
  BY <1>1 DEF IInv, Unmarked, Unless, Excused
<1>3. QED
  BY <1>1, <1>2, Refused DEF Ups, Downs

-----------------------------------------------------------------------------
(* stop_task, stop_vnode                                                   *)

LEMMA Halts ==
  ASSUME IInv, NEW v \in Vnode, Stopped(v)
  PROVE  \E state \in {"none", "made"} : Becomes(v, state) /\ (box[v] = "none" => state = "none")
BY DEF IInv, Shapes, Stopped

LEMMA StopTaskStep ==
  ASSUME IInv, NEW c \in Handler, NEW v \in Vnode, StopTask(c, v) PROVE IInv'
<1>1. /\ call[c].v = v /\ call[c].at = "kill" /\ UNCHANGED gpu_status /\ mishap \subseteq mishap'
      /\ ~call[c].heard => "parted" \in mishap'
  BY DEF StopTask, At
<1>2. PICK state \in {"none", "made"} : Becomes(v, state) /\ (box[v] = "none" => state = "none")
  BY Halts DEF StopTask
<1>3. CASE To(c, "stop")
  BY <1>1, <1>2, <1>3, GoesOn DEF Places, Ups, Downs
<1>4. CASE Answer(c, v, "idle") /\ ~(call[c].heard /\ v \in vnode_started)
  <2>1. state = "running" \/ NoMarks(v) \/ Excused'
    <3> SUFFICES ASSUME ~Excused' PROVE NoMarks(v)
      OBVIOUS
    <3>1. call[c].heard /\ v \notin vnode_started
      BY <1>1, <1>4 DEF Excused
    <3>2. QED
      BY <1>1, <3>1 DEF IInv, Unmarked, Unless, Excused, Killed
  <2>2. QED
    BY <1>1, <1>2, <1>4, <2>1, Refused DEF Ups, Downs
<1>5. QED
  BY <1>3, <1>4 DEF StopTask

LEMMA StopVnodeStep ==
  ASSUME IInv, NEW c \in Handler, NEW v \in Vnode, StopVnode(c, v) PROVE IInv'
<1>1. /\ call[c].v = v /\ call[c].at = "stop" /\ UNCHANGED <<gpu_status, mishap>> /\ To(c, "delete")
  BY DEF StopVnode, At
<1>2. PICK state \in {"none", "made"} : Becomes(v, state) /\ (box[v] = "none" => state = "none")
  BY Halts DEF StopVnode
<1>3. QED
  BY <1>1, <1>2, GoesOn DEF Places, Ups, Downs

LEMMA DeleteBoxStep ==
  ASSUME IInv, NEW c \in Handler, NEW v \in Vnode, DeleteBox(c, v) PROVE IInv'
<1>1. /\ call[c].v = v /\ call[c].at = "delete" /\ UNCHANGED <<gpu_status, mishap>>
      /\ To(c, "release") /\ Becomes(v, "none")
  BY DEF DeleteBox, At
<1>2. QED
  BY <1>1, GoesOn DEF Places, Ups, Downs

LEMMA ReleaseGpuDeviceStep ==
  ASSUME IInv, NEW c \in Handler, NEW v \in Vnode, ReleaseGpuDevice(c, v) PROVE IInv'
<1>1. /\ call[c].v = v /\ call[c].at = "release" /\ UNCHANGED <<box, devices, mishap>>
      /\ Answer(c, v, "idle") /\ gpu_status' = Marked({g \in Gpu : gpu_status[g] = v}, "")
  BY DEF ReleaseGpuDevice, At
<1>2. /\ call' \in [Handler -> [v: Vnode \union {""}, at: Places, heard: BOOLEAN]]
      /\ call'[c] = Free /\ \A d \in Handler : d # c => call'[d] = call[d]
      /\ phase' \in [Vnode -> {"idle", "calling", "accepted", "running", "stopping"}]
      /\ vnode_started' \subseteq Vnode
      /\ \A w \in Vnode : w # v => phase'[w] = phase[w] /\ (w \in vnode_started' <=> w \in vnode_started)
      /\ phase'[v] # phase[v] => phase'[v] = "idle"
      /\ call[c].heard => v \notin vnode_started' /\ phase'[v] # "accepted"
      /\ ~call[c].heard => phase' = phase /\ vnode_started' = vnode_started
  <2>1. /\ call' = [call EXCEPT ![c] = Free]
        /\ call[c].heard => /\ phase' = [phase EXCEPT ![v] = IF phase[v] = "running" THEN phase[v] ELSE "idle"]
                            /\ vnode_started' = IF "idle" = "accepted" THEN vnode_started \union {v}
                                                ELSE vnode_started \ {v}
        /\ ~call[c].heard => UNCHANGED <<phase, vnode_started>>
    BY <1>1 DEF Answer
  <2>2. QED
    BY <2>1, Ends DEF IInv
<1>3. At2(c, v, "none")
  BY <1>2, FreeCall DEF At2
<1>4. /\ gpu_status' \in [Gpu -> Vnode \union {""}]
      /\ \A g \in Gpu : gpu_status[g] = v => gpu_status'[g] = ""
      /\ \A g \in Gpu : gpu_status[g] # v => gpu_status'[g] = gpu_status[g]
  BY <1>1 DEF Marked, IInv, Shapes
<1>5. Shapes' /\ Running'
  BY <1>1, <1>2, <1>4 DEF IInv, Shapes, Running
<1>6. Alone'
  BY <1>1, <1>2, Ended
<1>7. Reached'
  BY <1>1, <1>3, ReachedBy
<1>8. Unmarked'
  <2>1. NoMarks(v)' /\ \A w \in Vnode : NoMarks(w) => NoMarks(w)'
    BY <1>4, Named DEF NoMarks
  <2>2. \A w \in Vnode : phase'[w] \in {"running", "stopping"} /\ w \notin vnode_started' =>
           \/ phase[w] \in {"running", "stopping"} /\ w \notin vnode_started
           \/ NoMarks(w)' \/ Excused'
    BY <1>2, <2>1
  <2>4. \A w \in Vnode : w \in vnode_started => w \in vnode_started' \/ NoMarks(w)' \/ Excused'
    BY <1>2, <2>1
  <2>3. QED
    BY <1>1, <1>3, <2>1, <2>2, <2>4, UnmarkedBy
<1>9. GpuTable'
  <2>1. Unless({"device", "again", "left"}, \A d \in devices : gpu_status[d[2]] = d[1])'
    <3> SUFFICES ASSUME {"device", "again", "left"} \cap mishap = {}, NEW d \in devices
                 PROVE  gpu_status'[d[2]] = d[1]
      BY <1>1 DEF Unless
    <3>1. gpu_status[d[2]] = d[1] /\ d[2] \in Gpu /\ box[d[1]] = "running"
      BY DEF IInv, Shapes, Running, GpuTable, Unless
    <3>2. box[v] = "none"
      BY <1>1 DEF IInv, Reached, Unless
    <3>3. QED
      BY <1>4, <3>1, <3>2
  <2>2. ASSUME ~Excused', NEW g \in Gpu, gpu_status'[g] # ""
        PROVE  \/ box'[gpu_status'[g]] = "running"
               \/ \E e \in Handler : call'[e].v = gpu_status'[g] /\ call'[e].at \in Downs
    <3>1. gpu_status'[g] = gpu_status[g] /\ gpu_status[g] # v
      BY <1>4, <2>2
    <3>2. \/ box[gpu_status[g]] = "running"
          \/ \E e \in Handler : call[e].v = gpu_status[g] /\ call[e].at \in Downs
      BY <1>1, <2>2, <3>1 DEF IInv, GpuTable, Unless, Excused, Downs
    <3>3. \A e \in Handler : call[e].v = gpu_status[g] => call'[e] = call[e]
      BY <1>1, <1>2, <3>1
    <3>4. QED
      BY <1>1, <3>1, <3>2, <3>3
  <2>3. QED
    BY <2>1, <2>2 DEF GpuTable, Unless, Excused, Downs
<1>10. QED
  BY <1>5, <1>6, <1>7, <1>8, <1>9 DEF IInv

-----------------------------------------------------------------------------
(* What the master learns or forgets.                                      *)

LEMMA Known ==
  ASSUME IInv, UNCHANGED <<box, devices, gpu_status>>, mishap \subseteq mishap',
         call' \in [Handler -> [v: Vnode \union {""}, at: Places, heard: BOOLEAN]],
         \A d \in Handler : call'[d].v = call[d].v /\ call'[d].at = call[d].at,
         \A d \in Handler : call'[d].heard => call[d].heard /\ vnode_started' = vnode_started,
         phase' \in [Vnode -> {"idle", "calling", "accepted", "running", "stopping"}],
         vnode_started' \subseteq vnode_started,
         \A w \in Vnode : phase'[w] = "accepted" => w \in vnode_started',
         \A w \in Vnode : w \notin vnode_started /\ phase[w] \in {"idle", "calling"}
                          => phase'[w] \in {"idle", "calling"},
         \A w \in Vnode : phase'[w] \in {"running", "stopping"} /\ w \notin vnode_started'
                          => phase[w] \in {"running", "stopping"} /\ w \notin vnode_started
  PROVE  IInv'
<1>1. Shapes' /\ Running'
  BY DEF IInv, Shapes, Running
<1>2. Alone'
  <2> SUFFICES ASSUME "again" \notin mishap', NEW e \in Handler, NEW w \in Vnode,
                      call'[e].v = w, call'[e].at \in Ups
               PROVE  /\ \A d \in Handler : call'[d].v = w => d = e
                      /\ w \notin vnode_started' /\ phase'[w] \in {"idle", "calling"}
    BY DEF Alone, Unless
  <2>0. call[e].v = w /\ call[e].at \in Ups /\ "again" \notin mishap
    OBVIOUS
  <2>1. /\ \A d \in Handler : call[d].v = w => d = e
        /\ w \notin vnode_started /\ phase[w] \in {"idle", "calling"}
    <3>1. Alone
      BY DEF IInv
    <3>2. \A c \in Handler : \A v \in Vnode : call[c].v = v /\ call[c].at \in Ups =>
            /\ \A d \in Handler : call[d].v = v => d = c
            /\ v \notin vnode_started /\ phase[v] \in {"idle", "calling"}
      BY <2>0, <3>1 DEF Alone, Unless
    <3>3. QED
      BY <2>0, <3>2, Zenon
  <2>2. QED
    BY <2>1
<1>3. Reached'
  <2> SUFFICES ASSUME "again" \notin mishap', NEW e \in Handler, NEW w \in Vnode, call'[e].v = w
               PROVE  /\ call'[e].at \in {"create", "run"} => box[w] # "running"
                      /\ call'[e].at \in {"gpu", "ssh"} => box[w] = "running"
                      /\ call'[e].at = "release" => box[w] = "none"
    BY DEF Reached, Unless
  <2>1. call[e].v = w /\ call'[e].at = call[e].at /\ "again" \notin mishap
    OBVIOUS
  <2>2. Reached
    BY DEF IInv
  <2>3. /\ call[e].at \in {"create", "run"} => box[w] # "running"
        /\ call[e].at \in {"gpu", "ssh"} => box[w] = "running"
        /\ call[e].at = "release" => box[w] = "none"
    BY <2>1, <2>2 DEF Reached, Unless
  <2>4. QED
    BY <2>1, <2>3
<1>4. Unmarked'
  <2> SUFFICES ASSUME ~Excused', NEW w \in Vnode
               PROVE  /\ (\E e \in Handler : call'[e].v = w /\ call'[e].at \in {"gpu", "undo"}) => NoMarks(w)
                      /\ phase'[w] \in {"running", "stopping"} /\ w \notin vnode_started' => NoMarks(w)
                      /\ w \notin vnode_started' /\ (\E e \in Handler : Killed(e, w)') => NoMarks(w)
    BY DEF Unmarked, Unless, Excused, NoMarks
  <2>1. /\ \A e \in Handler : call[e].v = w /\ call[e].at \in {"gpu", "undo"} => NoMarks(w)
        /\ phase[w] \in {"running", "stopping"} /\ w \notin vnode_started => NoMarks(w)
        /\ \A e \in Handler : w \notin vnode_started /\ Killed(e, w) => NoMarks(w)
    BY DEF IInv, Unmarked, Unless, Excused
  <2>2. \A e \in Handler : Killed(e, w)' => Killed(e, w) /\ vnode_started' = vnode_started
    BY DEF Killed
  <2>3. \A e \in Handler : call'[e].v = w /\ call'[e].at \in {"gpu", "undo"}
                            => call[e].v = w /\ call[e].at \in {"gpu", "undo"}
    OBVIOUS
  <2>4. QED
    BY <2>1, <2>2, <2>3
<1>5. GpuTable'
  <2>1. GpuTable
    BY DEF IInv
  <2>2. Unless({"device", "again", "left"}, \A d \in devices : gpu_status[d[2]] = d[1])'
    BY <2>1 DEF GpuTable, Unless
  <2>3. ASSUME ~Excused', NEW g \in Gpu, gpu_status[g] # ""
        PROVE  \/ box[gpu_status[g]] = "running"
               \/ \E e \in Handler : call'[e].v = gpu_status[g] /\ call'[e].at \in Downs
    <3>1. \/ box[gpu_status[g]] = "running"
          \/ \E e \in Handler : call[e].v = gpu_status[g] /\ call[e].at \in Downs
      BY <2>1, <2>3 DEF GpuTable, Unless, Excused, Downs
    <3>2. QED
      BY <3>1
  <2>4. QED
    BY <2>2, <2>3 DEF GpuTable, Unless, Excused, Downs
<1>6. QED
  BY <1>1, <1>2, <1>3, <1>4, <1>5 DEF IInv

LEMMA StartTaskStep == ASSUME IInv, NEW v \in Vnode, StartTask(v) PROVE IInv'
<1>1. /\ UNCHANGED <<box, devices, gpu_status, call, vnode_started>> /\ mishap \subseteq mishap'
      /\ phase[v] = "accepted" \/ phase[v] = "stopping"
      /\ phase' = [phase EXCEPT ![v] = "running"]
  BY DEF StartTask, box_vars
<1>2. /\ phase' \in [Vnode -> {"idle", "calling", "accepted", "running", "stopping"}]
      /\ phase'[v] = "running" /\ \A w \in Vnode : w # v => phase'[w] = phase[w]
  BY <1>1 DEF IInv, Shapes
<1>3. call \in [Handler -> [v: Vnode \union {""}, at: Places, heard: BOOLEAN]]
  BY DEF IInv, Shapes
<1>4. \A w \in Vnode : phase[w] = "accepted" => w \in vnode_started
  BY DEF IInv, Running
<1>5. QED
  BY <1>1, <1>2, <1>3, <1>4, Known

LEMMA LoseAnswerStep == ASSUME IInv, NEW c \in Handler, LoseAnswer(c) PROVE IInv'
<1>1. /\ UNCHANGED <<box, devices, gpu_status, vnode_started>> /\ mishap \subseteq mishap'
      /\ call' = [call EXCEPT ![c].heard = FALSE]
      /\ phase' = [phase EXCEPT ![call[c].v] = Unanswered(call[c].v)]
  BY DEF LoseAnswer, box_vars, Fault
<1>2. /\ call' \in [Handler -> [v: Vnode \union {""}, at: Places, heard: BOOLEAN]]
      /\ \A d \in Handler : call'[d].v = call[d].v /\ call'[d].at = call[d].at
      /\ \A d \in Handler : call'[d].heard => call[d].heard
  BY <1>1 DEF IInv, Shapes
<1>3. \A w \in Vnode :
        /\ Unanswered(w) \in {phase[w], "accepted", "idle"}
        /\ Unanswered(w) # phase[w] => (Unanswered(w) = "accepted" <=> w \in vnode_started)
  BY DEF Unanswered
<1>4. \A w \in Vnode : phase'[w] = phase[w] \/ phase'[w] = Unanswered(w)
  BY <1>1 DEF IInv, Shapes
<1>5. phase' \in [Vnode -> {"idle", "calling", "accepted", "running", "stopping"}]
  BY <1>1, <1>3 DEF IInv, Shapes
<1>6. \A w \in Vnode : phase[w] = "accepted" => w \in vnode_started
  BY DEF IInv, Running
<1>7. \A w \in Vnode :
        /\ phase'[w] = "accepted" => w \in vnode_started'
        /\ w \notin vnode_started /\ phase[w] \in {"idle", "calling"} => phase'[w] \in {"idle", "calling"}
        /\ phase'[w] \in {"running", "stopping"} => phase'[w] = phase[w]
  BY <1>1, <1>3, <1>4, <1>6
<1>8. /\ vnode_started' \subseteq vnode_started
      /\ \A d \in Handler : call'[d].heard => call[d].heard /\ vnode_started' = vnode_started
  BY <1>1, <1>2
<1>9. QED
  BY <1>1, <1>2, <1>5, <1>7, <1>8, Known

LEMMA MasterRestartStep == ASSUME IInv, MasterRestart PROVE IInv'
<1>1. /\ UNCHANGED <<box, devices, gpu_status>> /\ mishap \subseteq mishap'
      /\ phase' = [v \in Vnode |-> "idle"] /\ vnode_started' = {}
      /\ call' = [d \in Handler |-> [call[d] EXCEPT !.heard = FALSE]]
  BY DEF MasterRestart, box_vars, Fault
<1>2. /\ call' \in [Handler -> [v: Vnode \union {""}, at: Places, heard: BOOLEAN]]
      /\ \A d \in Handler : call'[d].v = call[d].v /\ call'[d].at = call[d].at
      /\ \A d \in Handler : ~call'[d].heard
  BY <1>1 DEF IInv, Shapes
<1>3. QED
  BY <1>1, <1>2, Known

LEMMA WorkerRestartStep == ASSUME IInv, WorkerRestart PROVE IInv'
<1>1. PICK kept \in SUBSET {v \in Vnode : box[v] # "none"} :
        /\ box' = [v \in Vnode |-> IF v \in kept THEN box[v] ELSE "none"]
        /\ devices' = {d \in devices : d[1] \in kept}
        /\ Fault({"restart"} \union IF \E v \in kept : box[v] = "running" THEN {"left"} ELSE {})
  BY DEF WorkerRestart
<1>2. /\ gpu_status' = [g \in Gpu |-> ""] /\ call' = [d \in Handler |-> Free]
      /\ phase' = [v \in Vnode |-> Unanswered(v)] /\ UNCHANGED vnode_started
  BY DEF WorkerRestart
<1>3. /\ phase' \in [Vnode -> {"idle", "calling", "accepted", "running", "stopping"}]
      /\ \A w \in Vnode : phase'[w] = "accepted" => w \in vnode_started
  BY <1>2 DEF IInv, Shapes, Running, Unanswered
<1>4. Free \in [v: Vnode \union {""}, at: Places, heard: BOOLEAN]
  BY DEF Free, Places
<1>5. Shapes'
  BY <1>1, <1>2, <1>3, <1>4 DEF IInv, Shapes
<1>6. Running'
  BY <1>1, <1>2, <1>3 DEF IInv, Shapes, Running
<1>7. Alone' /\ Reached'
  BY <1>2, Named, FreeCall DEF Alone, Reached, Unless
<1>8. Unmarked'
  BY <1>2, Named DEF Unmarked, NoMarks, Killed, Unless
<1>9. GpuTable'
  <2>1. "left" \notin mishap' => \A d \in devices : d[1] \notin kept
    BY <1>1 DEF Fault, IInv, Running
  <2>2. QED
    BY <1>1, <1>2, <2>1 DEF GpuTable, Unless
<1>10. QED
  BY <1>5, <1>6, <1>7, <1>8, <1>9 DEF IInv

LEMMA Inductive == ASSUME IInv, [Next]_vars PROVE IInv'
<1>1. CASE UNCHANGED vars
  BY <1>1, Elsewhere DEF vars, box_vars, master_vars
<1>2. ASSUME NEW v \in Vnode, StartVnode(v) \/ StartTask(v) \/ ClearSubTask(v) PROVE IInv'
  BY <1>2, StartVnodeStep, StartTaskStep, ClearSubTaskStep
<1>3. ASSUME NEW c \in Handler, NEW v \in Vnode, Start(c, v) PROVE IInv'
  BY <1>3, CreateContainerStep, RunContainerStep, AddGpuDeviceStep, StartSshStep, UndoStep DEF Start
<1>4. ASSUME NEW c \in Handler, NEW v \in Vnode, Stop(c, v) PROVE IInv'
  BY <1>4, StopTaskStep, StopVnodeStep, DeleteBoxStep, ReleaseGpuDeviceStep DEF Stop
<1>5. ASSUME NEW m \in Token, WriteScript(m[1], m[2]) \/ EndCommand(m[1], m[2]) PROVE IInv'
  BY <1>5, Elsewhere DEF WriteScript, EndCommand, box_vars, master_vars, NoFault, Fault
<1>6. ASSUME NEW c \in Handler, LoseAnswer(c) PROVE IInv'
  BY <1>6, LoseAnswerStep
<1>7. CASE ReportMsg
  BY <1>7, Elsewhere DEF ReportMsg, box_vars, master_vars, NoFault, Fault
<1>8. CASE WorkerRestart \/ MasterRestart
  BY <1>8, WorkerRestartStep, MasterRestartStep
<1>9. QED
  BY <1>1, <1>2, <1>3, <1>4, <1>5, <1>6, <1>7, <1>8 DEF Next

-----------------------------------------------------------------------------

\* Where the calls of taskworker.py are tells what runs and what is marked.
THEOREM TableCorrect == Spec => []IInv
<1>1. Init => IInv
  BY Initially
<1>2. IInv /\ [Next]_vars => IInv'
  BY Inductive
<1>3. QED
  BY <1>1, <1>2, PTL DEF Spec

\* gpu_status marks a GPU with the container that has it, and each mark is that of
\* a container that runs or is being stopped (taskworker.py, add_gpu_device and
\* release_gpu_device).
THEOREM TableSafe == Spec => []GpuTable
<1>1. IInv => GpuTable
  BY DEF IInv
<1>2. QED
  BY <1>1, TableCorrect, PTL
=============================================================================
