-------------------------------- MODULE Beans --------------------------------
(***************************************************************************)
(* Beans, the money of docklet: what the containers of a user cost, how    *)
(* that is taken from the user's beans, how beans are granted, and what    *)
(* happens to the containers of a user who has none left.                  *)
(*                                                                         *)
(*   worker    src/src/worker/monitor.py: Container_Collector bills each   *)
(*             container once an hour, delete_container what is left       *)
(*   master    src/src/master/monitor.py: Master_Collector bills traffic;  *)
(*             httprest.py passes the bills on, checks the beans of a      *)
(*             request, and stops the clusters of a user                   *)
(*   user      src/user/user.py: the handlers /billing/beans/ and          *)
(*             /beans/..., beansapplicationmgr.py with its robot, and      *)
(*             stopreqmgr.py, a queue and the thread that empties it       *)
(*                                                                         *)
(* A bill is an HTTP request that its sender waits for. Each user has one  *)
(* container that may run, and others that do not and may be deleted. The  *)
(* lock of a user on the master is the deletion that holds it. Beans       *)
(* outside Low .. High are cut off at these bounds, and of cpu time only   *)
(* the difference to the last bill is kept. due and grants are history,    *)
(* and so is mishap, the causes of trouble so far.                         *)
(***************************************************************************)
EXTENDS Integers, FiniteSetsExt, SequencesExt

CONSTANTS
  User,
  App,       \* applications for beans; an application is made once
  Low, High, \* bounds of beans
  First,     \* beans of a new user
  Marks,     \* where a mail is sent: 100, 500 and 1000 (and 0)
  Rich,      \* who has as many beans may not apply for more
  Grant,     \* the number applied for
  MaxQueue,  \* StopAllReqMgr: maxsize
  MaxBytes,  \* bound: traffic, in units of bytes_per_beans
  MaxEvent   \* bound: requests of users and administrators, failures and restarts

ASSUME BeansAssumption ==
  /\ {Low, High, First, Rich, Grant} \subseteq Int /\ Marks \subseteq Int
  /\ Low < 0 /\ First \in 1 .. High
  /\ {MaxQueue, MaxBytes, MaxEvent} \subseteq Nat /\ MaxQueue > 0
  /\ "none" \notin App /\ {"none", "get", "dead"} \intersect User = {}

VARIABLES
  running,  \* containers that run
  pending,  \* start requests whose beans were checked
  fresh,    \* cpu time since increment[...]['lastcputime']
  hour,     \* an hour of running time has ended and was not billed
  bytes,    \* bytes_total of a user's gateway
  net_last, \* net_lastbillings
  proc,     \* a sender of bills and the handler it waits for
  lock,     \* __beans_<user>: its holder
  beans,    \* User.beans
  app,      \* ApplyMsg: owner and status
  robot,    \* ApprovalRobot
  admin,    \* the handler of an administrator's agree
  queue,    \* StopAllReqMgr.q
  stopper,  \* its thread: a user, or where it is
  due,      \* used, and neither debited nor given up
  grants,   \* how often an application was granted
  mishap, used

worker_vars == <<running, pending, fresh, hour, bytes, net_last>>
app_vars == <<app, robot, admin, grants>>
stop_vars == <<queue, stopper>>
vars == <<worker_vars, proc, lock, beans, app_vars, stop_vars, due, mishap, used>>

-----------------------------------------------------------------------------
(* Data.                                                                   *)

Sender == {"collector", "delete", "net"} \X User
Admin == <<"admin", "admin">>
NoOne == <<"none", "none">>
Leaked == <<"leaked", "leaked">>
Cause == {"lost",     \* a bill was not sent or not debited, or its answer was lost
          "crossed",  \* a container's bill was made while another one was
          "robot",    \* the robot wrote what someone else had changed
          "again",    \* an administrator decided a second time
          "gateway",  \* a gateway was made anew
          "restart"}

\* Of a sender: the bill, the cpu time used since it was computed, the beans its
\* handler has read, and whether it holds the user's lock.
Idle == [at |-> "none", amount |-> 0, since |-> 0, read |-> 0, holds |-> "none"]
Made(s, at, amount) == [Idle EXCEPT !.at = at, !.amount = amount, !.holds = IF s[1] = "delete" THEN "lock" ELSE "none"]
Deleting(u) == proc[<<"delete", u>>].holds = "lock"
RobotIdle == [todo |-> {}, app |-> "none", read |-> 0]
AdminIdle == [app |-> "none", read |-> 0]
OwnerOf(a) == app[a].owner
Cut(b) == Max({Low, Min({High, b})})

Init ==
  /\ running \in [User -> BOOLEAN] /\ pending = [u \in User |-> FALSE]
  /\ fresh = [u \in User |-> 0] /\ hour = pending
  /\ bytes = [u \in User |-> 0] /\ net_last = bytes
  /\ proc = [s \in Sender |-> Idle] /\ lock = [u \in User |-> NoOne]
  /\ beans = [u \in User |-> First]
  /\ app \in [App -> {[owner |-> "none", status |-> "none"]}
                    \union [owner: User, status: {"Processing"}]]
  /\ robot = RobotIdle /\ admin = AdminIdle
  /\ queue = <<>> /\ stopper = "get"
  /\ due = [u \in User |-> 0] /\ grants = [a \in App |-> 0]
  /\ mishap = {} /\ used = 0

Spend == used < MaxEvent /\ used' = used + 1
Fault(cause) == Spend /\ mishap' = mishap \union {cause}
NoFault == UNCHANGED <<mishap, used>>
\* due is kept while a bill has not gone wrong for one of these causes.
BillCauses == {"lost", "crossed", "gateway", "restart"}
Account(u, n) ==
  due' = IF mishap \intersect BillCauses = {} THEN [due EXCEPT ![u] = @ + n] ELSE [v \in User |-> 0]
Become(s, r) == proc' = [proc EXCEPT ![s] = r]

-----------------------------------------------------------------------------
(* The container of a user.                                                *)

\* beans_check of a start request, with the beans the token check returned,
\* and, once the user's lock is had, start_cluster.
StartCheck(u) ==
  /\ ~running[u] /\ ~pending[u] /\ beans[u] > 0 /\ Spend
  /\ pending' = [pending EXCEPT ![u] = TRUE]
  /\ UNCHANGED <<running, fresh, hour, bytes, net_last, proc, lock, beans, app_vars,
                 stop_vars, due, mishap>>

StartContainer(u) ==
  /\ pending[u] /\ ~Deleting(u)
  /\ pending' = [pending EXCEPT ![u] = FALSE] /\ running' = [running EXCEPT ![u] = TRUE]
  /\ UNCHANGED <<fresh, hour, bytes, net_last, proc, lock, beans, app_vars, stop_vars,
                 due, mishap, used>>

StopContainer(u) ==
  /\ running[u] /\ ~Deleting(u) /\ Spend /\ running' = [running EXCEPT ![u] = FALSE]
  /\ UNCHANGED <<pending, fresh, hour, bytes, net_last, proc, lock, beans, app_vars,
                 stop_vars, due, mishap>>

\* A container uses cpu time, and now and then an hour ends.
Run(u) ==
  /\ running[u] /\ ~hour[u]
  /\ \/ /\ fresh[u] < 2
        /\ fresh' = [fresh EXCEPT ![u] = @ + 1] /\ Account(u, 1)
        /\ proc' = [s \in Sender |-> IF s[2] = u /\ proc[s].at = "reset"
                                      THEN [proc[s] EXCEPT !.since = @ + 1] ELSE proc[s]]
        /\ \/ hour' = [hour EXCEPT ![u] = TRUE]
           \/ fresh[u] = 0 /\ UNCHANGED hour
     \/ fresh[u] = 2 /\ hour' = [hour EXCEPT ![u] = TRUE] /\ UNCHANGED <<fresh, due, proc>>
  /\ UNCHANGED <<running, pending, bytes, net_last, lock, beans, app_vars, stop_vars, mishap, used>>

Hour(u) == Run(u) /\ hour'[u]

Traffic(u) ==
  /\ running[u] /\ bytes[u] < MaxBytes /\ Spend
  /\ bytes' = [bytes EXCEPT ![u] = @ + 1] /\ Account(u, 1)
  /\ UNCHANGED <<running, pending, fresh, hour, net_last, proc, lock, beans, app_vars,
                 stop_vars, mishap>>

\* The gateway is made anew, with its counters at 0. What was not billed by
\* then is not billed.
NewGateway(u) ==
  /\ bytes[u] > 0 /\ Fault("gateway") /\ bytes' = [bytes EXCEPT ![u] = 0]
  /\ UNCHANGED <<running, pending, fresh, hour, net_last, proc, lock, beans, app_vars,
                 stop_vars, due>>

-----------------------------------------------------------------------------
(* billing_increment, by the collector or by delete_container.             *)

BillsTime(s) == s[1] # "net"

\* The bill is computed from the cpu time since the last one.
Compute(s, u) ==
  /\ proc[s] = Idle
  /\ Become(s, Made(s, "reset", fresh[u]))
  /\ mishap' = IF \E t \in Sender : t[2] = u /\ proc[t].at = "reset"
               THEN mishap \union {"crossed"} ELSE mishap

\* The collector bills a running container when an hour has ended.
CollectorBills(u) ==
  /\ running[u] /\ hour[u] /\ Compute(<<"collector", u>>, u)
  /\ hour' = [hour EXCEPT ![u] = FALSE]
  /\ UNCHANGED <<running, pending, fresh, bytes, net_last, lock, beans, app_vars, stop_vars, due,
                 used>>

\* delete_container bills the rest, when its files are gone.
DeleteContainer(u) ==
  /\ ~running[u] /\ ~pending[u] /\ Spend /\ Compute(<<"delete", u>>, u)
  /\ UNCHANGED <<worker_vars, lock, beans, app_vars, stop_vars, due>>

\* Another container of the user is deleted: what is left to bill of it, one unit,
\* counts as used at that time.
DeleteOther(u) ==
  /\ proc[<<"delete", u>>] = Idle /\ Spend
  /\ Become(<<"delete", u>>, Made(<<"delete", u>>, "send", 1))
  /\ Account(u, 1)
  /\ UNCHANGED <<worker_vars, lock, beans, app_vars, stop_vars, mishap>>

Rebased_mutant(s) == fresh
Rebased(s) == [fresh EXCEPT ![s[2]] = proc[s].since]

\* The mappings of the container have been counted in the database meanwhile.
Reset(s) ==
  /\ proc[s].at = "reset" /\ Become(s, [proc[s] EXCEPT !.at = "send", !.since = 0])
  /\ fresh' = Rebased(s)
  /\ UNCHANGED <<running, pending, hour, bytes, net_last, lock, beans, app_vars, stop_vars, due,
                 mishap, used>>

\* VNode.billing is not written, or the bill does not arrive: it is forgotten.
BillLost(s) ==
  /\ proc[s].at = "send" /\ Become(s, Idle) /\ Fault("lost")
  /\ UNCHANGED <<worker_vars, lock, beans, app_vars, stop_vars, due>>

-----------------------------------------------------------------------------
(* net_billings of Master_Collector.                                       *)

LastBilled(u) == IF bytes[u] < net_last[u] THEN 0 ELSE net_last[u]

NetBilling(u) ==
  /\ proc[<<"net", u>>] = Idle /\ bytes[u] # net_last[u]
  /\ net_last' = [net_last EXCEPT ![u] = LastBilled(u)]
  /\ IF bytes[u] > LastBilled(u)
       THEN Become(<<"net", u>>, Made(<<"net", u>>, "send", bytes[u] - LastBilled(u)))
       ELSE UNCHANGED proc
  /\ UNCHANGED <<running, pending, fresh, hour, bytes, lock, beans, app_vars, stop_vars,
                 due, mishap, used>>

\* The sender has its answer: traffic is noted as billed.
Answered(s) == IF BillsTime(s) THEN net_last ELSE [net_last EXCEPT ![s[2]] = @ + proc[s].amount]

-----------------------------------------------------------------------------
(* The handler of /billing/beans/.                                         *)

Holder_mutant(s) == NoOne
Holder(s) == s

\* The bill arrives, and its handler has the lock at last.
TakeLock(s) ==
  LET u == s[2] IN
  /\ proc[s].at = "send" /\ lock[u] = NoOne
  /\ lock' = [lock EXCEPT ![u] = Holder(s)]
  /\ Become(s, [proc[s] EXCEPT !.at = "commit", !.read = beans[u]])
  /\ UNCHANGED <<worker_vars, beans, app_vars, stop_vars, due, mishap, used>>

After(s) == Cut(proc[s].read - proc[s].amount)
Crosses(s) == \/ proc[s].read > 0 /\ After(s) <= 0
              \/ \E m \in Marks : proc[s].read >= m /\ After(s) < m

\* The handler gives the lock back and answers; the answer may get lost.
Replied(s) == Become(s, Idle) /\ lock' = [lock EXCEPT ![s[2]] = NoOne] /\ net_last' = Answered(s)
Ends(s) == \/ Replied(s) /\ NoFault
           \/ /\ Become(s, Idle) /\ lock' = [lock EXCEPT ![s[2]] = NoOne]
              /\ Fault("lost") /\ UNCHANGED net_last

Asks_mutant(s) == proc[s].read > 0 /\ After(s) <= 0

\* Every bill that leaves no beans asks for a stop, not only the first.
Asks(s) == After(s) <= 0

Debit(s) ==
  /\ proc[s].at = "commit" /\ beans' = [beans EXCEPT ![s[2]] = After(s)]
  /\ Account(s[2], -proc[s].amount)
  /\ IF Asks(s) THEN Become(s, [proc[s] EXCEPT !.at = "put"]) /\ NoFault /\ UNCHANGED <<lock, net_last>>
     ELSE Ends(s)
  /\ UNCHANGED <<running, pending, fresh, hour, bytes, app_vars, stop_vars>>

\* The commit fails: the lock is given back, and the sender told so.
DebitFails(s) ==
  /\ proc[s].at = "commit" /\ Fault("lost") /\ Replied(s)
  /\ UNCHANGED <<running, pending, fresh, hour, bytes, beans, app_vars, stop_vars, due>>

\* The mail, which comes before the commit, cannot be sent. Nothing catches
\* the exception and nobody gives the lock back.
MailFails(s) ==
  /\ proc[s].at = "commit" /\ Crosses(s) /\ Fault("lost")
  /\ lock' = [lock EXCEPT ![s[2]] = Leaked] /\ Become(s, Idle) /\ net_last' = Answered(s)
  /\ UNCHANGED <<running, pending, fresh, hour, bytes, beans, app_vars, stop_vars, due>>

\* q.put waits for room, with the lock held.
AddRequest(s) ==
  /\ proc[s].at = "put" /\ Len(queue) < MaxQueue /\ queue' = Append(queue, s[2]) /\ Ends(s)
  /\ UNCHANGED <<running, pending, fresh, hour, bytes, beans, app_vars, stopper, due>>

-----------------------------------------------------------------------------
(* StopAllReqMgr.                                                          *)

GetRequest ==
  /\ stopper = "get" /\ queue # <<>> /\ stopper' = Head(queue) /\ queue' = Tail(queue)
  /\ UNCHANGED <<worker_vars, proc, lock, beans, app_vars, due, mishap, used>>

Stopped(u) == [running EXCEPT ![u] = FALSE]

\* stopall_cluster on the master, which waits for the user's lock. A cluster that
\* does not stop is passed over; when the master cannot be reached the thread ends.
AskMaster(u) ==
  /\ stopper = u
  /\ \/ ~Deleting(u) /\ running' = Stopped(u) /\ stopper' = "get" /\ NoFault
     \/ ~Deleting(u) /\ stopper' = "get" /\ Spend /\ UNCHANGED mishap /\ UNCHANGED running
     \/ stopper' = "dead" /\ Spend /\ UNCHANGED mishap /\ UNCHANGED running
  /\ UNCHANGED <<pending, fresh, hour, bytes, net_last, proc, lock, beans, app_vars, queue,
                 due>>

-----------------------------------------------------------------------------
(* Applications.                                                           *)

\* apply, under the lock __beansapply_<user>. The applications of a user are
\* numbered, and only the latest is looked at.
Apply(u, a) ==
  /\ app[a].owner = "none" /\ beans[u] < Rich
  /\ ~\E b \in App : app[b] = [owner |-> u, status |-> "Processing"]
  /\ Spend
  /\ app' = [app EXCEPT ![a] = [owner |-> u, status |-> "Processing"]]
  /\ UNCHANGED <<worker_vars, proc, lock, beans, robot, admin, stop_vars, due, grants, mishap>>

\* beans_admin, agree: the locks of the beans and of the application.
AgreeBegins(a) ==
  LET u == OwnerOf(a) IN
  /\ admin = AdminIdle /\ u # "none" /\ lock[u] = NoOne /\ Spend
  /\ lock' = [lock EXCEPT ![u] = Admin]
  /\ admin' = [app |-> a, read |-> beans[u]]
  /\ mishap' = IF app[a].status # "Processing" THEN mishap \union {"again"} ELSE mishap
  /\ UNCHANGED <<worker_vars, proc, beans, app, robot, stop_vars, due, grants>>

Decided_mutant(a, verdict) == app
Decided(a, verdict) == [app EXCEPT ![a].status = verdict]

Granted(a, read) ==
  /\ app' = Decided(a, "Agreed")
  /\ beans' = [beans EXCEPT ![OwnerOf(a)] = Cut(read + Grant)]
  /\ grants' = [grants EXCEPT ![a] = Min({2, @ + 1})]

Agree ==
  LET a == admin.app IN
  /\ admin.app # "none" /\ Granted(a, admin.read)
  /\ admin' = AdminIdle /\ lock' = [lock EXCEPT ![OwnerOf(a)] = NoOne]
  /\ UNCHANGED <<worker_vars, proc, robot, stop_vars, due, mishap, used>>

\* Only the lock of the application is taken, which agree holds to its end.
Reject(a) ==
  /\ OwnerOf(a) # "none" /\ admin.app # a /\ Spend
  /\ app' = Decided(a, "Rejected")
  /\ mishap' = IF app[a].status # "Processing" THEN mishap \union {"again"} ELSE mishap
  /\ UNCHANGED <<worker_vars, proc, lock, beans, robot, admin, stop_vars, due, grants>>

Waiting == {a \in App : app[a].status = "Processing"}

\* The robot takes no lock: it lists what waits, reads the beans of one owner
\* after the other, and writes them.
Writing(u) == \/ admin.app # "none" /\ OwnerOf(admin.app) = u
              \/ \E s \in Sender : s[2] = u /\ proc[s].at = "commit"

RobotRead ==
  /\ robot.app = "none"
  /\ \E todo \in IF robot.todo = {} THEN SUBSET Waiting ELSE {robot.todo} : \E a \in todo :
       robot' = [todo |-> todo \ {a}, app |-> a, read |-> beans[OwnerOf(a)]]
  /\ UNCHANGED <<worker_vars, proc, lock, beans, app, admin, stop_vars, due, grants, mishap, used>>

RobotGrants ==
  LET a == robot.app
      u == OwnerOf(a) IN
  /\ robot.app # "none" /\ Granted(a, robot.read)
  /\ robot' = [RobotIdle EXCEPT !.todo = robot.todo]
  /\ mishap' = IF Writing(u) \/ beans[u] # robot.read \/ app[a].status # "Processing"
               THEN mishap \union {"robot"} ELSE mishap
  /\ UNCHANGED <<worker_vars, proc, lock, admin, stop_vars, due, used>>

-----------------------------------------------------------------------------
(* Restarts.                                                               *)

RestartWorker(u) ==
  /\ Fault("restart") /\ fresh' = [fresh EXCEPT ![u] = 0]
  /\ hour' = [hour EXCEPT ![u] = FALSE]
  /\ proc' = [s \in Sender |-> IF s[2] # u \/ s[1] = "net" THEN proc[s]
                               ELSE IF proc[s].at \in {"reset", "send"} THEN Idle
                               ELSE [proc[s] EXCEPT !.holds = "none"]]
  /\ UNCHANGED <<running, pending, bytes, net_last, lock, beans, app_vars, stop_vars, due>>

\* All the traffic so far counts as not billed. No user's lock is held.
RestartMaster ==
  /\ Fault("restart") /\ net_last' = [u \in User |-> 0] /\ pending' = [u \in User |-> FALSE]
  /\ \A u \in User : proc[<<"net", u>>].at \in {"none", "send"}
  /\ proc' = [s \in Sender |-> IF s[1] = "net" THEN Idle ELSE [proc[s] EXCEPT !.holds = "none"]]
  /\ UNCHANGED <<running, fresh, hour, bytes, lock, beans, app_vars, stop_vars, due>>

\* Locks, queue and the requests under way are gone; the senders get an error.
RestartUser ==
  /\ Fault("restart") /\ lock' = [u \in User |-> NoOne] /\ queue' = <<>> /\ stopper' = "get"
  /\ robot' = RobotIdle /\ admin' = AdminIdle
  /\ proc' = [s \in Sender |-> IF proc[s].at \in {"commit", "put"} THEN Idle
                               ELSE proc[s]]
  /\ UNCHANGED <<worker_vars, beans, app, due, grants>>

-----------------------------------------------------------------------------

Handle(s) == Reset(s) \/ TakeLock(s) \/ Debit(s) \/ AddRequest(s)
Failing(s) == BillLost(s) \/ DebitFails(s) \/ MailFails(s)
Container(u) == \/ StartCheck(u) \/ StartContainer(u) \/ StopContainer(u) \/ Run(u) \/ Traffic(u)
                \/ NewGateway(u) \/ CollectorBills(u) \/ DeleteContainer(u) \/ DeleteOther(u)
                \/ NetBilling(u)
Asking == GetRequest \/ \E u \in User : AskMaster(u)
Applying == \/ \E a \in App : (\E u \in User : Apply(u, a)) \/ AgreeBegins(a) \/ Reject(a)
            \/ Agree \/ RobotRead \/ RobotGrants
Restarting == (\E u \in User : RestartWorker(u)) \/ RestartMaster \/ RestartUser

Next == \/ \E s \in Sender : Handle(s) \/ Failing(s)
        \/ \E u \in User : Container(u)
        \/ Asking \/ Applying \/ Restarting

\* Time passes, the threads and the handlers go on. Users, administrators and
\* the robot need not do anything.
Fairness ==
  /\ \A s \in Sender : WF_vars(Handle(s))
  /\ \A u \in User : WF_vars(Hour(u)) /\ WF_vars(CollectorBills(u))
  /\ WF_vars(Asking) /\ WF_vars(Agree)

Spec == Init /\ [][Next]_vars /\ Fairness

-----------------------------------------------------------------------------
(* Properties.                                                             *)

Unless(causes, P) == mishap \intersect causes # {} \/ P

\* billing_increment, net_billings: what was used and is not debited yet is
\* known as such to someone - in the counters that are read next time, or in
\* one bill under way. Nothing is forgotten, and nothing billed twice.
Bill(s) == IF proc[s].at \in {"send", "commit"} THEN proc[s].amount ELSE 0
Sent(u) == Bill(<<"collector", u>>) + Bill(<<"delete", u>>)
NetOpen(u) == bytes[u] - LastBilled(u)
              - IF proc[<<"net", u>>].at = "put" THEN proc[<<"net", u>>].amount ELSE 0
PaidOnce ==
  Unless(BillCauses,
         \A u \in User : due[u] = fresh[u] + Sent(u) + NetOpen(u))

\* billing_beans and agree write the beans they computed from what they read:
\* nobody has changed the beans in between, the robot excepted.
FreshBeans ==
  Unless({"robot"},
         /\ \A s \in Sender : proc[s].at = "commit" => proc[s].read = beans[s[2]]
         /\ admin.app # "none" => admin.read = beans[OwnerOf(admin.app)])

\* agree and ApprovalRobot.run: an application is granted once if it is
\* agreed, and never if it is not.
GrantedOnce ==
  Unless({"robot", "again"},
         \A a \in App : grants[a] = IF app[a].status = "Agreed" THEN 1 ELSE 0)

\* The stop thread waits for a user's lock, which a deletion holds whose bill waits
\* for room in the queue, or for a lock that is not given back: this is for good.
Jammed ==
  \E u \in User :
    LET d == <<"delete", u>>
        Blocked(s) == proc[s].at = "put" /\ Len(queue) = MaxQueue IN
    /\ stopper = u /\ Deleting(u)
    /\ Blocked(d) \/ (proc[d].at = "send" /\ (lock[u] = Leaked \/ \E s \in Sender : lock[u] = s /\ Blocked(s)))

\* billing_beans: "If your beans are less than or equal to 0, all your
\* worksapces will be stopped." Also those started by a request whose beans
\* were checked before: the next bill asks for a stop again. Unless sending a
\* mail raised, which leaves the lock, the thread ended or everyone waits.
OutOfBeansStops ==
  \A u \in User : (running[u] /\ beans[u] <= 0)
                    ~> (~running[u] \/ beans[u] > 0 \/ lock[u] = Leaked \/ stopper = "dead" \/ Jammed)
=============================================================================
