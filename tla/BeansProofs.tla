------------------------------ MODULE BeansProofs ------------------------------
(***************************************************************************)
(* Proofs about Beans.tla, for any users, applications and bounds: nobody  *)
(* writes beans that someone else has changed meanwhile (FreshBeans), an   *)
(* application is granted once (GrantedOnce), and what was used is billed  *)
(* once (PaidOnce), each unless something went wrong that it names.        *)
(*                                                                         *)
(* The three are about different variables, so each has an invariant of    *)
(* its own: the applications, the locks of the beans, and the bills.       *)
(***************************************************************************)
EXTENDS Beans, TLAPS

Bills == [at: {"none", "reset", "send", "commit", "put"}, amount: Nat, since: Nat, read: Int, holds: {"none", "lock"}]

Shapes ==
  /\ fresh \in [User -> Nat] /\ bytes \in [User -> Nat] /\ net_last \in [User -> Nat]
  /\ proc \in [Sender -> Bills]
  /\ lock = [u \in User |-> lock[u]]
  /\ beans \in [User -> Int] /\ due \in [User -> Int]
  /\ app \in [App -> [owner: User \union {"none"},
                      status: {"none", "Processing", "Agreed", "Rejected"}]]
  /\ grants \in [App -> Nat]
  /\ admin \in [app: App \union {"none"}, read: Int]
  /\ robot \in [todo: SUBSET App, app: App \union {"none"}, read: Int]

\* Who decides about an application has one that was made.
Owned ==
  /\ \A a \in App : app[a].owner = "none" => app[a].status = "none"
  /\ \A a \in robot.todo \union {robot.app, admin.app} : a # "none" => OwnerOf(a) # "none"

\* An administrator that agrees is the only one to decide.
Deciding ==
  Unless({"robot", "again"}, admin.app # "none" => app[admin.app].status = "Processing")

AppInv == Owned /\ Deciding /\ GrantedOnce

\* The handlers that read beans to write them hold the lock of the user.
Holding ==
  /\ \A s \in Sender : proc[s].at \in {"commit", "put"} => lock[s[2]] = s
  /\ admin.app # "none" => lock[OwnerOf(admin.app)] = Admin

BeanInv == Holding /\ FreshBeans

\* A bill that is made is the only one, and made of the cpu time so far; and
\* traffic that is billed was there.
Counted(u) ==
  /\ ~(proc[<<"collector", u>>].at = "reset" /\ proc[<<"delete", u>>].at = "reset")
  /\ \A k \in {"collector", "delete"} : proc[<<k, u>>].at = "reset" =>
       fresh[u] = proc[<<k, u>>].amount + proc[<<k, u>>].since
  /\ proc[<<"net", u>>].at # "reset" /\ net_last[u] <= bytes[u]
  /\ proc[<<"net", u>>].at # "none" => net_last[u] + proc[<<"net", u>>].amount <= bytes[u]
Counting == Unless(BillCauses, \A u \in User : Counted(u))

BillInv == Counting /\ PaidOnce

IInv == Shapes /\ AppInv /\ BeanInv /\ BillInv

-----------------------------------------------------------------------------
(* Data.                                                                   *)

LEMMA Senders ==
  /\ \A s \in Sender : s = <<s[1], s[2]>> /\ s[1] \in {"collector", "delete", "net"} /\ s[2] \in User
                       /\ s # Admin /\ s # NoOne /\ s # Leaked
  /\ \A u \in User : /\ <<"collector", u>> \in Sender /\ <<"delete", u>> \in Sender
                     /\ <<"net", u>> \in Sender
BY DEF Sender, Admin, NoOne, Leaked

LEMMA CutInt == ASSUME NEW b \in Int PROVE Cut(b) \in Int
<1>1. {Low, High} \subseteq Int
  BY BeansAssumption
<1>2. \A x, y \in Int : Min({x, y}) \in Int /\ Max({x, y}) \in Int
  BY DEF Min, Max
<1>3. QED
  BY <1>1, <1>2 DEF Cut

LEMMA Granting == ASSUME NEW n \in Nat PROVE Min({2, n + 1}) \in Nat /\ (n = 0 => Min({2, n + 1}) = 1)
BY DEF Min

LEMMA IdleBill == Idle \in Bills /\ Idle.at = "none" /\ Idle.amount = 0 /\ Idle.since = 0
BY DEF Idle, Bills

\* The bill that is made of an idle sender.
LEMMA NewBill ==
  ASSUME NEW t, NEW at, NEW n
  PROVE  /\ Made(t, at, n).at = at /\ Made(t, at, n).amount = n /\ Made(t, at, n).since = 0
         /\ n \in Nat /\ at \in {"reset", "send"} => Made(t, at, n) \in Bills
<1>1. PICK h \in {"none", "lock"} : h = IF t[1] = "delete" THEN "lock" ELSE "none"
  OBVIOUS
<1> DEFINE q == [at |-> "none", amount |-> 0, since |-> 0, read |-> 0, holds |-> "none"]
<1> DEFINE r == [at |-> at, amount |-> 0, since |-> 0, read |-> 0, holds |-> "none"]
<1> DEFINE x == [at |-> at, amount |-> n, since |-> 0, read |-> 0, holds |-> "none"]
<1> DEFINE y == [at |-> at, amount |-> n, since |-> 0, read |-> 0, holds |-> h]
<1>2. [q EXCEPT !.at = at] = r
  OBVIOUS
<1>3. [r EXCEPT !.amount = n] = x
  OBVIOUS
<1>4. [x EXCEPT !.holds = h] = y
  OBVIOUS
<1>5. Made(t, at, n) = [[[q EXCEPT !.at = at] EXCEPT !.amount = n] EXCEPT !.holds = h]
  BY <1>1, Zenon DEF Idle, Made
<1>6. Made(t, at, n) = y
  BY <1>2, <1>3, <1>4, <1>5, Zenon
<1>7. n \in Nat /\ at \in {"reset", "send"} => y \in Bills
  BY DEF Bills
<1>8. y.at = at /\ y.amount = n /\ y.since = 0
  OBVIOUS
<1>9. QED
  BY <1>6, <1>7, <1>8, Zenon

-----------------------------------------------------------------------------
(* The shapes of the variables.                                            *)

LEMMA AccountShape ==
  ASSUME Shapes, NEW u \in User, NEW n \in Int, Account(u, n) PROVE due' \in [User -> Int]
BY DEF Shapes, Account

\* Other variables than these have no shape here.
LEMMA ShapesAside ==
  ASSUME Shapes, UNCHANGED <<fresh, bytes, net_last, proc, lock, beans, due, app, grants, admin, robot>>
  PROVE  Shapes'
BY DEF Shapes

LEMMA ContainerShapes == ASSUME Shapes, NEW u \in User, Container(u) PROVE Shapes'
<1>1. CASE StartCheck(u) \/ StartContainer(u) \/ StopContainer(u)
  BY <1>1, ShapesAside DEF StartCheck, StartContainer, StopContainer, app_vars
<1>2. CASE Run(u)
  <2>1. UNCHANGED <<bytes, net_last, lock, beans, app_vars>>
    BY <1>2 DEF Run
  <2>2. CASE UNCHANGED <<fresh, due, proc>>
    BY <2>1, <2>2 DEF Shapes, app_vars
  <2>3. CASE /\ fresh' = [fresh EXCEPT ![u] = @ + 1] /\ Account(u, 1)
             /\ proc' = [s \in Sender |-> IF s[2] = u /\ proc[s].at = "reset"
                                          THEN [proc[s] EXCEPT !.since = @ + 1] ELSE proc[s]]
    <3>1. fresh' \in [User -> Nat]
      BY <2>3 DEF Shapes
    <3>2. proc' \in [Sender -> Bills]
      BY <2>3 DEF Shapes, Bills
    <3>3. QED
      BY <2>1, <2>3, <3>1, <3>2, AccountShape DEF Shapes, app_vars
  <2>4. QED
    BY <1>2, <2>2, <2>3 DEF Run
<1>3. CASE Traffic(u)
  BY <1>3, AccountShape DEF Traffic, Shapes, app_vars
<1>4. CASE NewGateway(u)
  BY <1>4 DEF NewGateway, Shapes, app_vars
<1>5. CASE CollectorBills(u) \/ DeleteContainer(u)
  <2>1. PICK s \in Sender : Compute(s, u)
    BY <1>5, Senders DEF CollectorBills, DeleteContainer
  <2>2. proc' \in [Sender -> Bills]
    <3>1. fresh[s[2]] \in Nat /\ fresh[u] \in Nat
      BY Senders DEF Shapes
    <3>2. Become(s, Made(s, "reset", fresh[u])) /\ Made(s, "reset", fresh[u]) \in Bills
      BY <2>1, <3>1, NewBill DEF Compute
    <3>3. QED
      BY <3>2 DEF Become, Shapes
  <2>3. QED
    BY <1>5, <2>2 DEF CollectorBills, DeleteContainer, worker_vars, Shapes, app_vars
<1>6. CASE NetBilling(u)
  <2>1. LastBilled(u) \in Nat /\ bytes[u] \in Nat
    BY DEF LastBilled, Shapes
  <2>2. proc' \in [Sender -> Bills]
    <3>1. ASSUME NEW n \in Nat, Become(<<"net", u>>, Made(<<"net", u>>, "send", n))
          PROVE  proc' \in [Sender -> Bills]
      <4>1. Made(<<"net", u>>, "send", n) \in Bills
        BY NewBill
      <4>2. QED
        BY <3>1, <4>1 DEF Become, Shapes
    <3>2. bytes[u] > LastBilled(u) => bytes[u] - LastBilled(u) \in Nat
      BY <2>1
    <3>3. CASE bytes[u] > LastBilled(u)
      BY <1>6, <3>1, <3>2, <3>3 DEF NetBilling, Become, Shapes
    <3>4. CASE ~(bytes[u] > LastBilled(u))
      BY <1>6, <3>4 DEF NetBilling, Shapes
    <3>5. QED
      BY <3>3, <3>4
  <2>3. QED
    BY <1>6, <2>1, <2>2 DEF NetBilling, Shapes, app_vars
<1>7. CASE DeleteOther(u)
  <2>1. Become(<<"delete", u>>, Made(<<"delete", u>>, "send", 1)) /\ Made(<<"delete", u>>, "send", 1) \in Bills
    BY <1>7, NewBill DEF DeleteOther
  <2>2. proc' \in [Sender -> Bills]
    BY <2>1 DEF Become, Shapes
  <2>3. Account(u, 1) /\ UNCHANGED <<fresh, bytes, net_last, lock, beans, app, grants, admin, robot>>
    BY <1>7 DEF DeleteOther, worker_vars, app_vars
  <2>4. QED
    BY <2>2, <2>3, AccountShape DEF Shapes
<1>8. QED
  BY <1>1, <1>2, <1>3, <1>4, <1>5, <1>6, <1>7 DEF Container

LEMMA HandleShapes == ASSUME Shapes, NEW s \in Sender, Handle(s) \/ Failing(s) PROVE Shapes'
<1> DEFINE u == s[2]
<1>1. u \in User /\ proc[s] \in Bills /\ beans[u] \in Int
  BY Senders DEF Shapes
<1>2. Answered(s) \in [User -> Nat]
  BY <1>1 DEF Answered, Shapes, Bills
<1>3. CASE Reset(s)
  <2>1. proc' \in [Sender -> Bills]
    BY <1>1, <1>3 DEF Reset, Become, Shapes, Bills
  <2>2. fresh' \in [User -> Nat]
    BY <1>1, <1>3 DEF Reset, Rebased, Shapes, Bills
  <2>3. QED
    BY <1>3, <2>1, <2>2 DEF Reset, Shapes, app_vars
<1>4. CASE BillLost(s)
  <2>1. proc' \in [Sender -> Bills]
    BY <1>4, IdleBill DEF BillLost, Become, Shapes
  <2>2. QED
    BY <1>4, <2>1 DEF BillLost, worker_vars, Shapes, app_vars
<1>5. CASE TakeLock(s)
  <2>1. proc' \in [Sender -> Bills]
    BY <1>1, <1>5 DEF TakeLock, Become, Shapes, Bills
  <2>2. QED
    BY <1>5, <2>1 DEF TakeLock, worker_vars, Shapes, app_vars
<1>6. ASSUME Become(s, Idle) PROVE proc' \in [Sender -> Bills]
  BY <1>6, IdleBill DEF Become, Shapes
<1>7. CASE Debit(s)
  <2>1. beans' \in [User -> Int]
    <3>1. After(s) \in Int
      BY <1>1, CutInt DEF After, Bills
    <3>2. QED
      BY <1>7, <3>1 DEF Debit, Shapes
  <2>2. due' \in [User -> Int]
    BY <1>1, <1>7, AccountShape DEF Debit, Bills
  <2>3. proc' \in [Sender -> Bills]
    BY <1>1, <1>6, <1>7 DEF Debit, Ends, Replied, Become, Shapes, Bills
  <2>4. net_last' \in [User -> Nat] /\ lock' = [v \in User |-> lock'[v]]
    BY <1>2, <1>7 DEF Debit, Ends, Replied, Shapes
  <2>5. QED
    BY <1>7, <2>1, <2>2, <2>3, <2>4 DEF Debit, Shapes, app_vars
<1>8. CASE DebitFails(s) \/ MailFails(s) \/ AddRequest(s)
  <2>1. proc' \in [Sender -> Bills]
    BY <1>6, <1>8 DEF DebitFails, MailFails, AddRequest, Ends, Replied
  <2>2. net_last' \in [User -> Nat] /\ lock' = [v \in User |-> lock'[v]]
    BY <1>2, <1>8 DEF DebitFails, MailFails, AddRequest, Ends, Replied, Shapes
  <2>3. QED
    BY <1>8, <2>1, <2>2 DEF DebitFails, MailFails, AddRequest, Shapes, app_vars
<1>9. QED
  BY <1>3, <1>4, <1>5, <1>7, <1>8 DEF Handle, Failing

LEMMA ApplyingShapes == ASSUME Shapes, Owned, Applying PROVE Shapes'
<1>1. UNCHANGED <<fresh, bytes, net_last, proc, due>>
  BY DEF Applying, Apply, AgreeBegins, Agree, Reject, RobotRead, RobotGrants, worker_vars
<1>2. \A a \in App, v \in {"Processing", "Agreed", "Rejected"} : \A u \in User :
        /\ [app EXCEPT ![a].status = v] \in [App -> [owner: User \union {"none"},
                      status: {"none", "Processing", "Agreed", "Rejected"}]]
        /\ [app EXCEPT ![a] = [owner |-> u, status |-> v]] \in [App -> [owner: User \union {"none"},
                      status: {"none", "Processing", "Agreed", "Rejected"}]]
  BY DEF Shapes
<1>3. ASSUME NEW a \in App, NEW read \in Int, Granted(a, read), OwnerOf(a) \in User
      PROVE  /\ app' \in [App -> [owner: User \union {"none"},
                                  status: {"none", "Processing", "Agreed", "Rejected"}]]
             /\ beans' \in [User -> Int] /\ grants' \in [App -> Nat]
  <2>1. Cut(read + Grant) \in Int
    BY <1>3, CutInt, BeansAssumption
  <2>2. beans' \in [User -> Int]
    BY <1>3, <2>1 DEF Granted, Shapes
  <2>3. grants' \in [App -> Nat]
    <3>1. grants[a] \in Nat
      BY DEF Shapes
    <3>2. Min({2, grants[a] + 1}) \in Nat
      BY <3>1, Granting, Zenon
    <3>3. QED
      BY <1>3, <3>2 DEF Granted, Shapes
  <2>4. QED
    BY <1>2, <1>3, <2>2, <2>3 DEF Granted, Decided
<1>4. ASSUME NEW a \in App, NEW u \in User, Apply(u, a) PROVE Shapes'
  BY <1>1, <1>2, <1>4 DEF Apply, Shapes
<1>5. ASSUME NEW a \in App, AgreeBegins(a) PROVE Shapes'
  <2>1. OwnerOf(a) \in User /\ beans[OwnerOf(a)] \in Int
    BY <1>5 DEF AgreeBegins, OwnerOf, Shapes
  <2>2. QED
    BY <1>1, <1>5, <2>1 DEF AgreeBegins, Shapes
<1>6. ASSUME NEW a \in App, Reject(a) PROVE Shapes'
  <2>1. OwnerOf(a) \in User
    BY <1>6 DEF Reject, OwnerOf, Shapes
  <2>2. QED
    BY <1>1, <1>2, <1>6, <2>1 DEF Reject, Decided, Shapes
<1>7. CASE Agree
  <2>1. admin.app \in App /\ admin.read \in Int /\ OwnerOf(admin.app) \in User
    BY <1>7 DEF Agree, Owned, OwnerOf, Shapes
  <2>2. QED
    <3>1. /\ admin' = AdminIdle /\ UNCHANGED robot
          /\ lock' = [lock EXCEPT ![OwnerOf(admin.app)] = NoOne]
      BY <1>7 DEF Agree
    <3>4. AdminIdle \in [app: App \union {"none"}, read: Int]
      BY DEF AdminIdle
    <3>5. lock' = [u \in User |-> lock'[u]]
      BY <3>1 DEF Shapes
    <3>2. Granted(admin.app, admin.read)
      BY <1>7 DEF Agree
    <3>3. QED
      BY <1>1, <1>3, <2>1, <3>1, <3>2, <3>4, <3>5 DEF Shapes
<1>8. CASE RobotRead
  <2>1. PICK todo \in SUBSET App, a \in App :
          /\ robot' = [todo |-> todo \ {a}, app |-> a, read |-> beans[OwnerOf(a)]]
          /\ OwnerOf(a) \in User
    <3>1. PICK todo \in IF robot.todo = {} THEN SUBSET Waiting ELSE {robot.todo} :
            \E a \in todo : robot' = [todo |-> todo \ {a}, app |-> a, read |-> beans[OwnerOf(a)]]
      BY <1>8 DEF RobotRead
    <3>2. \A b \in todo : b \in App /\ OwnerOf(b) # "none"
      BY <3>1, BeansAssumption DEF Waiting, Owned, OwnerOf, Shapes
    <3>3. QED
      BY <3>1, <3>2 DEF OwnerOf, Shapes
  <2>2. beans[OwnerOf(a)] \in Int
    BY <2>1 DEF Shapes
  <2>3. QED
    BY <1>1, <1>8, <2>1, <2>2 DEF RobotRead, Shapes
<1>9. CASE RobotGrants
  <2>1. robot.app \in App /\ robot.read \in Int /\ OwnerOf(robot.app) \in User
    BY <1>9 DEF RobotGrants, Owned, OwnerOf, Shapes
  <2>2. robot' \in [todo: SUBSET App, app: App \union {"none"}, read: Int]
    BY <1>9 DEF RobotGrants, RobotIdle, Shapes
  <2>3. QED
    BY <1>1, <1>3, <1>9, <2>1, <2>2 DEF RobotGrants, Shapes
<1>10. QED
  BY <1>4, <1>5, <1>6, <1>7, <1>8, <1>9 DEF Applying

LEMMA RestartingShapes == ASSUME Shapes, Restarting PROVE Shapes'
<1>1. ASSUME NEW u \in User, RestartWorker(u) PROVE Shapes'
  <2>1. proc' \in [Sender -> Bills]
    <3>1. \A s \in Sender : proc[s] \in Bills /\ [proc[s] EXCEPT !.holds = "none"] \in Bills
      BY DEF Shapes, Bills
    <3>2. QED
      BY <1>1, <3>1, IdleBill DEF RestartWorker, Shapes
  <2>2. QED
    BY <1>1, <2>1 DEF RestartWorker, Shapes, app_vars
<1>2. CASE RestartMaster
  <2>1. proc' \in [Sender -> Bills]
    <3>1. \A s \in Sender : proc[s] \in Bills /\ [proc[s] EXCEPT !.holds = "none"] \in Bills
      BY DEF Shapes, Bills
    <3>2. QED
      BY <1>2, <3>1, IdleBill DEF RestartMaster, Shapes
  <2>2. QED
    BY <1>2, <2>1 DEF RestartMaster, Shapes, app_vars
<1>3. CASE RestartUser
  <2>1. proc' \in [Sender -> Bills]
    BY <1>3, IdleBill DEF RestartUser, Shapes
  <2>2. QED
    BY <1>3, <2>1 DEF RestartUser, RobotIdle, AdminIdle, worker_vars, Shapes
<1>4. QED
  BY <1>1, <1>2, <1>3 DEF Restarting

-----------------------------------------------------------------------------
(* The applications.                                                       *)

LEMMA AppAside ==
  ASSUME AppInv, UNCHANGED app_vars, mishap \subseteq mishap' PROVE AppInv'
<1>1. UNCHANGED <<app, robot, admin, grants>>
  BY DEF app_vars
<1>2. Owned' /\ Deciding'
  BY <1>1 DEF AppInv, Owned, OwnerOf, Deciding, Unless
<1>3. GrantedOnce'
  BY <1>1 DEF AppInv, GrantedOnce, Unless
<1>4. QED
  BY <1>2, <1>3 DEF AppInv

\* Whoever decides: an application that waits is decided, or it is a mishap.
LEMMA AppDecided ==
  ASSUME Shapes, AppInv, NEW a \in App, OwnerOf(a) # "none", mishap \subseteq mishap',
         NEW verdict \in {"Agreed", "Rejected"}, app' = Decided(a, verdict),
         IF verdict = "Agreed" THEN grants' = [grants EXCEPT ![a] = Min({2, @ + 1})]
                               ELSE UNCHANGED grants,
         {"robot", "again"} \intersect mishap' = {} => app[a].status = "Processing",
         admin' = admin \/ admin' = AdminIdle,
         {"robot", "again"} \intersect mishap' = {} => admin'.app # a,
         robot' = robot \/ (robot'.todo = robot.todo /\ robot'.app = "none")
  PROVE  AppInv'
<1>1. /\ app' = [b \in App |-> app'[b]]
      /\ \A b \in App \ {a} : app'[b] = app[b]
      /\ app'[a].owner = app[a].owner /\ app'[a].status = verdict
  BY DEF Decided, Shapes
<1>2. \A b \in App : app'[b].owner = app[b].owner
  BY <1>1
<1>3. Owned'
  <2>1. \A b \in App : app'[b].owner = "none" => app'[b].status = "none"
    BY <1>1 DEF AppInv, Owned, OwnerOf
  <2>2. \A b \in robot'.todo \union {robot'.app, admin'.app} :
          b # "none" => b \in App /\ b \in robot.todo \union {robot.app, admin.app}
    BY DEF Shapes, AdminIdle
  <2>3. QED
    BY <1>2, <2>1, <2>2 DEF AppInv, Owned, OwnerOf
<1>4. Deciding'
  <2>1. admin.app \in App \union {"none"} /\ AdminIdle.app = "none"
    BY DEF Shapes, AdminIdle
  <2>2. QED
    BY <1>1, <2>1 DEF AppInv, Deciding, Unless
<1>5. GrantedOnce'
  <2>1. SUFFICES ASSUME {"robot", "again"} \intersect mishap' = {}, NEW b \in App
                 PROVE  grants'[b] = IF app'[b].status = "Agreed" THEN 1 ELSE 0
    BY DEF GrantedOnce, Unless
  <2>2. grants[b] = IF app[b].status = "Agreed" THEN 1 ELSE 0
    BY <2>1 DEF AppInv, GrantedOnce, Unless
  <2>3. CASE b # a
    BY <1>1, <2>2, <2>3 DEF Shapes
  <2>4. CASE b = a
    <3>1. grants[a] \in Nat /\ grants[a] = 0
      BY <2>1, <2>2, <2>4
    <3>2. Min({2, grants[a] + 1}) = 1
      BY <3>1, Granting, Zenon
    <3>3. QED
      BY <1>1, <2>4, <3>1, <3>2 DEF Shapes
  <2>5. QED
    BY <2>3, <2>4
<1>6. QED
  BY <1>3, <1>4, <1>5 DEF AppInv

LEMMA ApplyingApp == ASSUME Shapes, AppInv, Applying PROVE AppInv'
<1>1. ASSUME NEW a \in App, NEW u \in User, Apply(u, a) PROVE AppInv'
  <2>1. /\ app[a].owner = "none" /\ app[a].status = "none"
        /\ app' = [app EXCEPT ![a] = [owner |-> u, status |-> "Processing"]]
        /\ UNCHANGED <<robot, admin, grants, mishap>>
    BY <1>1 DEF Apply, AppInv, Owned
  <2>2. /\ app'[a].owner = u /\ app'[a].status = "Processing" /\ u # "none"
        /\ \A b \in App \ {a} : app'[b] = app[b]
    BY <2>1, BeansAssumption DEF Shapes
  <2>3. Owned'
    BY <2>1, <2>2 DEF AppInv, Owned, OwnerOf, Shapes
  <2>4. Deciding'
    BY <2>1, <2>2 DEF AppInv, Deciding, Unless, Shapes
  <2>5. GrantedOnce'
    BY <2>1, <2>2 DEF AppInv, GrantedOnce, Unless
  <2>6. QED
    BY <2>3, <2>4, <2>5 DEF AppInv
<1>2. ASSUME NEW a \in App, AgreeBegins(a) PROVE AppInv'
  <2>1. /\ OwnerOf(a) # "none" /\ admin' = [app |-> a, read |-> beans[OwnerOf(a)]]
        /\ UNCHANGED <<app, robot, grants>> /\ mishap \subseteq mishap'
        /\ "again" \notin mishap' => app[a].status = "Processing"
    BY <1>2 DEF AgreeBegins
  <2>2. Owned'
    BY <2>1 DEF AppInv, Owned, OwnerOf
  <2>3. Deciding'
    BY <2>1 DEF Deciding, Unless
  <2>4. GrantedOnce'
    BY <2>1 DEF AppInv, GrantedOnce, Unless
  <2>5. QED
    BY <2>2, <2>3, <2>4 DEF AppInv
<1>3. ASSUME NEW a \in App, Reject(a) PROVE AppInv'
  <2>1. /\ OwnerOf(a) # "none" /\ admin.app # a /\ app' = Decided(a, "Rejected")
        /\ UNCHANGED <<robot, admin, grants>> /\ mishap \subseteq mishap'
        /\ "again" \notin mishap' => app[a].status = "Processing"
    BY <1>3 DEF Reject
  <2>2. QED
    BY <2>1, AppDecided
<1>4. CASE Agree
  <2> DEFINE a == admin.app
  <2>1. /\ a # "none" /\ app' = Decided(a, "Agreed") /\ admin' = AdminIdle
        /\ grants' = [grants EXCEPT ![a] = Min({2, @ + 1})] /\ UNCHANGED <<robot, mishap>>
    BY <1>4 DEF Agree, Granted
  <2>2. a \in App /\ OwnerOf(a) # "none" /\ AdminIdle.app # a
    BY <2>1, BeansAssumption DEF AppInv, Owned, Shapes, AdminIdle
  <2>3. {"robot", "again"} \intersect mishap = {} => app[a].status = "Processing"
    BY <2>1 DEF AppInv, Deciding, Unless
  <2> HIDE DEF a
  <2>4. QED
    BY <2>1, <2>2, <2>3, AppDecided
<1>5. CASE RobotRead
  <2>1. PICK todo \in IF robot.todo = {} THEN SUBSET Waiting ELSE {robot.todo} :
          \E a \in todo : robot' = [todo |-> todo \ {a}, app |-> a, read |-> beans[OwnerOf(a)]]
    BY <1>5 DEF RobotRead
  <2>2. \A b \in todo : OwnerOf(b) # "none"
    BY <2>1, BeansAssumption DEF Waiting, AppInv, Owned, OwnerOf, Shapes
  <2>3. UNCHANGED <<app, admin, grants, mishap>>
    BY <1>5 DEF RobotRead
  <2>4. Owned'
    BY <2>1, <2>2, <2>3 DEF AppInv, Owned, OwnerOf
  <2>5. Deciding' /\ GrantedOnce'
    BY <2>3 DEF AppInv, Deciding, GrantedOnce, Unless
  <2>6. QED
    BY <2>4, <2>5 DEF AppInv
<1>6. CASE RobotGrants
  <2> DEFINE a == robot.app
  <2>1. /\ a # "none" /\ app' = Decided(a, "Agreed") /\ UNCHANGED admin
        /\ grants' = [grants EXCEPT ![a] = Min({2, @ + 1})]
        /\ mishap \subseteq mishap'
        /\ "robot" \notin mishap' => ~Writing(OwnerOf(a)) /\ app[a].status = "Processing"
    BY <1>6 DEF RobotGrants, Granted
  <2>2. robot'.todo = robot.todo /\ robot'.app = "none"
    BY <1>6 DEF RobotGrants, RobotIdle
  <2>3. a \in App /\ OwnerOf(a) # "none"
    BY <2>1 DEF AppInv, Owned, Shapes
  <2>4. "robot" \notin mishap' => admin.app # a
    BY <2>1 DEF Writing
  <2> HIDE DEF a
  <2>5. QED
    BY <2>1, <2>2, <2>3, <2>4, AppDecided
<1>7. QED
  BY <1>1, <1>2, <1>3, <1>4, <1>5, <1>6 DEF Applying

\* The steps of the others leave the applications alone, but for a restart of
\* the user service, which forgets who was about to decide.
LEMMA AppStep == ASSUME Shapes, AppInv, Next PROVE AppInv'
<1>1. ASSUME NEW s \in Sender, Handle(s) \/ Failing(s) PROVE AppInv'
  BY <1>1, AppAside DEF Handle, Reset, TakeLock, Debit, AddRequest, Failing, BillLost, DebitFails,
     MailFails, Ends, Fault, NoFault
<1>2. ASSUME NEW u \in User, Container(u) PROVE AppInv'
  BY <1>2, AppAside DEF Container, StartCheck, StartContainer, StopContainer, Run, Traffic,
     NewGateway, CollectorBills, DeleteContainer, DeleteOther, NetBilling, Compute, Fault, NoFault
<1>3. CASE Asking
  BY <1>3, AppAside DEF Asking, GetRequest, AskMaster, NoFault
<1>4. CASE RestartUser
  <2>1. UNCHANGED <<app, grants>> /\ mishap \subseteq mishap'
    BY <1>4 DEF RestartUser, Fault
  <2>2. robot'.todo = {} /\ robot'.app = "none" /\ admin'.app = "none"
    BY <1>4 DEF RestartUser, RobotIdle, AdminIdle
  <2>3. QED
    BY <2>1, <2>2 DEF AppInv, Owned, OwnerOf, Deciding, GrantedOnce, Unless
<1>5. CASE RestartMaster \/ \E u \in User : RestartWorker(u)
  BY <1>5, AppAside DEF RestartMaster, RestartWorker, Fault
<1>6. QED
  BY <1>1, <1>2, <1>3, <1>4, <1>5, ApplyingApp DEF Next, Restarting

-----------------------------------------------------------------------------
(* The beans.                                                              *)

\* A step that leaves alone who holds locks, and what they have read.
LEMMA BeanAside ==
  ASSUME Shapes, BeanInv, UNCHANGED <<lock, beans, app, admin>>, mishap \subseteq mishap',
         \A s \in Sender : proc'[s].at \in {"commit", "put"}
                           => proc'[s].at = proc[s].at /\ proc'[s].read = proc[s].read
  PROVE  BeanInv'
<1>1. Holding'
  BY DEF BeanInv, Holding, OwnerOf
<1>2. FreshBeans'
  BY DEF BeanInv, FreshBeans, OwnerOf, Unless
<1>3. QED
  BY <1>1, <1>2 DEF BeanInv

\* A handler with the lock writes, or not, and is done or will ask for a stop.
LEMMA BeanWritten ==
  ASSUME Shapes, Owned, BeanInv, NEW s \in Sender, proc[s].at \in {"commit", "put"}, NEW r, Become(s, r),
         NEW b, beans' = [beans EXCEPT ![s[2]] = b] \/ UNCHANGED beans,
         UNCHANGED <<app, admin>>, mishap \subseteq mishap',
         NEW l, \/ r.at = "none" /\ lock' = [lock EXCEPT ![s[2]] = l]
                \/ r.at = "put" /\ UNCHANGED lock
  PROVE  BeanInv'
<1>1. /\ s[2] \in User /\ lock[s[2]] = s /\ s # Admin
      /\ proc'[s] = r /\ \A t \in Sender \ {s} : proc'[t] = proc[t]
      /\ \A u \in User \ {s[2]} : lock'[u] = lock[u] /\ beans'[u] = beans[u]
  BY Senders DEF BeanInv, Holding, Become, Shapes
<1>2. \A t \in Sender \ {s} : proc[t].at \in {"commit", "put"} => t[2] \in User \ {s[2]}
  BY <1>1, Senders DEF BeanInv, Holding
<1>3. admin.app # "none" => OwnerOf(admin.app) \in User \ {s[2]}
  BY <1>1 DEF BeanInv, Holding, Owned, OwnerOf, Shapes
<1>4. Holding'
  <2>1. \A t \in Sender : proc'[t].at \in {"commit", "put"} => lock'[t[2]] = t
    BY <1>1, <1>2 DEF BeanInv, Holding
  <2>2. admin.app # "none" => lock'[OwnerOf(admin.app)] = Admin
    BY <1>1, <1>3 DEF BeanInv, Holding, Shapes
  <2>3. QED
    BY <2>1, <2>2 DEF Holding, OwnerOf
<1>5. FreshBeans'
  <2>1. \A t \in Sender : {"robot"} \intersect mishap' = {} /\ proc'[t].at = "commit" => proc'[t].read = beans'[t[2]]
    BY <1>1, <1>2 DEF BeanInv, FreshBeans, Unless
  <2>2. {"robot"} \intersect mishap' = {} /\ admin.app # "none" => admin.read = beans'[OwnerOf(admin.app)]
    BY <1>1, <1>3 DEF BeanInv, FreshBeans, Unless, Shapes
  <2>3. QED
    BY <2>1, <2>2 DEF FreshBeans, OwnerOf, Unless
<1>6. QED
  BY <1>4, <1>5 DEF BeanInv

LEMMA HandleBean == ASSUME Shapes, Owned, BeanInv, NEW s \in Sender, Handle(s) \/ Failing(s) PROVE BeanInv'
<1> DEFINE u == s[2]
<1>1. u \in User /\ proc[s] \in Bills
  BY Senders DEF Shapes
<1>2. CASE Reset(s) \/ BillLost(s)
  <2>1. UNCHANGED <<lock, beans, app, admin>> /\ mishap \subseteq mishap'
    BY <1>2 DEF Reset, BillLost, Fault, app_vars
  <2>2. proc'[s].at \notin {"commit", "put"} /\ \A t \in Sender \ {s} : proc'[t] = proc[t]
    <3>1. CASE Reset(s)
      BY <1>1, <3>1 DEF Reset, Become, Shapes, Bills
    <3>2. CASE BillLost(s)
      BY <1>1, <3>2, IdleBill DEF BillLost, Become, Shapes
    <3>3. QED
      BY <1>2, <3>1, <3>2
  <2>3. QED
    BY <2>1, <2>2, BeanAside
<1>3. CASE TakeLock(s)
  <2>1. /\ lock[u] = NoOne /\ lock' = [lock EXCEPT ![u] = s]
        /\ UNCHANGED <<beans, app, admin, mishap>>
    BY <1>3 DEF TakeLock, Holder, app_vars
  <2>2. proc'[s].read = beans[u] /\ \A t \in Sender \ {s} : proc'[t] = proc[t]
    BY <1>1, <1>3 DEF TakeLock, Become, Shapes, Bills
  <2>3. \A t \in Sender \ {s} : proc[t].at \in {"commit", "put"} => t[2] # u
    BY <2>1, Senders DEF BeanInv, Holding
  <2>4. admin.app # "none" => OwnerOf(admin.app) # u
    BY <2>1 DEF BeanInv, Holding, Admin, NoOne
  <2>5. Holding'
    BY <1>1, <2>1, <2>2, <2>3, <2>4 DEF BeanInv, Holding, OwnerOf, Shapes
  <2>6. FreshBeans'
    BY <2>1, <2>2 DEF BeanInv, FreshBeans, OwnerOf, Unless
  <2>7. QED
    BY <2>5, <2>6 DEF BeanInv
<1>4. CASE Debit(s)
  <2>1. /\ proc[s].at = "commit" /\ beans' = [beans EXCEPT ![u] = After(s)]
        /\ UNCHANGED <<app, admin>> /\ mishap \subseteq mishap'
    BY <1>4 DEF Debit, Ends, Fault, NoFault, app_vars
  <2>2. CASE Become(s, [proc[s] EXCEPT !.at = "put"]) /\ UNCHANGED lock
    <3>1. [proc[s] EXCEPT !.at = "put"].at = "put"
      BY <1>1 DEF Bills
    <3>2. QED
      BY <2>1, <2>2, <3>1, BeanWritten
  <2>3. CASE Become(s, Idle) /\ lock' = [lock EXCEPT ![u] = NoOne]
    BY <2>1, <2>3, IdleBill, BeanWritten
  <2>4. QED
    BY <1>4, <2>2, <2>3 DEF Debit, Ends, Replied
<1>5. CASE DebitFails(s) \/ MailFails(s) \/ AddRequest(s)
  <2>1. /\ proc[s].at \in {"commit", "put"} /\ Become(s, Idle) /\ UNCHANGED <<beans, app, admin>>
        /\ mishap \subseteq mishap' /\ \E l : lock' = [lock EXCEPT ![u] = l]
    BY <1>5 DEF DebitFails, MailFails, AddRequest, Ends, Replied, Fault, NoFault, app_vars
  <2>2. QED
    BY <2>1, IdleBill, BeanWritten
<1>6. QED
  BY <1>2, <1>3, <1>4, <1>5 DEF Handle, Failing

LEMMA ApplyingBean == ASSUME Shapes, Owned, BeanInv, Applying PROVE BeanInv'
<1>1. UNCHANGED proc /\ mishap \subseteq mishap'
  BY DEF Applying, Apply, AgreeBegins, Agree, Reject, RobotRead, RobotGrants
<1>2. admin.app # "none" => admin.app \in App /\ OwnerOf(admin.app) \in User
  BY DEF Owned, OwnerOf, Shapes
\* An application keeps its owner.
<1>3. ASSUME UNCHANGED <<lock, beans, admin>>, admin.app # "none" => OwnerOf(admin.app)' = OwnerOf(admin.app)
      PROVE  BeanInv'
  BY <1>1, <1>3 DEF BeanInv, Holding, FreshBeans, Unless
<1>4. ASSUME NEW a \in App, NEW v PROVE \A b \in App : Decided(a, v)[b].owner = OwnerOf(b)
  BY DEF Decided, OwnerOf, Shapes
<1>5. ASSUME NEW a \in App, NEW u \in User, Apply(u, a) PROVE BeanInv'
  <2>1. /\ OwnerOf(a) = "none" /\ app' = [app EXCEPT ![a] = [owner |-> u, status |-> "Processing"]]
        /\ UNCHANGED <<lock, beans, admin>>
    BY <1>5 DEF Apply, OwnerOf
  <2>2. admin.app # "none" => admin.app # a
    BY <2>1 DEF Owned
  <2>3. QED
    BY <1>2, <1>3, <2>1, <2>2 DEF OwnerOf, Shapes
<1>6. ASSUME NEW a \in App, AgreeBegins(a) PROVE BeanInv'
  <2> DEFINE u == OwnerOf(a)
  <2>1. /\ u # "none" /\ lock[u] = NoOne /\ lock' = [lock EXCEPT ![u] = Admin]
        /\ admin' = [app |-> a, read |-> beans[u]] /\ UNCHANGED <<beans, app>>
    BY <1>6 DEF AgreeBegins
  <2>2. u \in User
    BY <2>1 DEF OwnerOf, Shapes
  <2>3. \A s \in Sender : proc[s].at \in {"commit", "put"} => s[2] # u
    BY <2>1, Senders DEF BeanInv, Holding
  <2>4. Holding'
    BY <1>1, <2>1, <2>2, <2>3, Senders DEF BeanInv, Holding, OwnerOf, Shapes
  <2>5. FreshBeans'
    BY <1>1, <2>1 DEF BeanInv, FreshBeans, OwnerOf, Unless
  <2>6. QED
    BY <2>4, <2>5 DEF BeanInv
<1>7. ASSUME NEW a \in App, Reject(a) PROVE BeanInv'
  <2>1. app' = Decided(a, "Rejected") /\ UNCHANGED <<lock, beans, admin>>
    BY <1>7 DEF Reject
  <2>2. QED
    BY <1>2, <1>3, <1>4, <2>1 DEF OwnerOf
<1>8. CASE Agree
  <2> DEFINE u == OwnerOf(admin.app)
  <2>1. /\ admin.app # "none" /\ lock' = [lock EXCEPT ![u] = NoOne]
        /\ \E b : beans' = [beans EXCEPT ![u] = b]
        /\ admin'.app = "none"
    BY <1>8 DEF Agree, Granted, AdminIdle
  <2>2. \A s \in Sender : proc[s].at \in {"commit", "put"} => s[2] # u /\ s[2] \in User
    BY <2>1, Senders DEF BeanInv, Holding
  <2>3. Holding'
    BY <1>1, <2>1, <2>2 DEF BeanInv, Holding, Shapes
  <2>4. FreshBeans'
    BY <1>1, <2>1, <2>2 DEF BeanInv, FreshBeans, Unless, Shapes
  <2>5. QED
    BY <2>3, <2>4 DEF BeanInv
<1>9. CASE RobotRead
  BY <1>3, <1>9 DEF RobotRead, OwnerOf
<1>10. CASE RobotGrants
  <2> DEFINE a == robot.app
  <2> DEFINE u == OwnerOf(robot.app)
  <2>1. /\ a # "none" /\ app' = Decided(a, "Agreed") /\ UNCHANGED <<lock, admin>>
        /\ \E b : beans' = [beans EXCEPT ![u] = b]
        /\ "robot" \notin mishap' => ~Writing(u)
    BY <1>10 DEF RobotGrants, Granted
  <2>2. a \in App
    BY <2>1 DEF Shapes
  <2>3. admin.app # "none" => OwnerOf(admin.app)' = OwnerOf(admin.app)
    BY <1>2, <1>4, <2>1, <2>2 DEF OwnerOf
  <2>4. Holding'
    BY <1>1, <2>1, <2>3 DEF BeanInv, Holding
  <2>5. \A s \in Sender : {"robot"} \intersect mishap' = {} /\ proc[s].at = "commit" => beans'[s[2]] = beans[s[2]]
    BY <2>1, Senders DEF Writing, Shapes
  <2>6. {"robot"} \intersect mishap' = {} /\ admin.app # "none" => beans'[OwnerOf(admin.app)] = beans[OwnerOf(admin.app)]
    BY <1>2, <2>1 DEF Writing, Shapes
  <2>7. FreshBeans'
    BY <1>1, <2>1, <2>3, <2>5, <2>6 DEF BeanInv, FreshBeans, Unless
  <2>8. QED
    BY <2>4, <2>7 DEF BeanInv
<1>11. QED
  BY <1>5, <1>6, <1>7, <1>8, <1>9, <1>10 DEF Applying

\* A container bills only with a sender that is idle.
LEMMA ContainerSenders ==
  ASSUME Shapes, NEW u \in User, Container(u)
  PROVE  \A s \in Sender : proc'[s] # proc[s] => proc[s].at \in {"none", "reset"} /\ proc'[s].at \in {"reset", "send"}
<1>1. CASE UNCHANGED proc
  BY <1>1
<1>2. CASE proc' = [s \in Sender |-> IF s[2] = u /\ proc[s].at = "reset"
                                     THEN [proc[s] EXCEPT !.since = @ + 1] ELSE proc[s]]
  <2>1. \A s \in Sender : proc[s].at = "reset" => [proc[s] EXCEPT !.since = @ + 1].at = "reset"
    BY DEF Shapes, Bills
  <2>2. QED
    BY <1>2, <2>1
<1>3. ASSUME NEW s \in Sender, proc[s] = Idle, NEW at \in {"reset", "send"}, NEW n,
             Become(s, Made(s, at, n))
      PROVE  \A t \in Sender : proc'[t] # proc[t] => proc[t].at \in {"none", "reset"} /\ proc'[t].at \in {"reset", "send"}
  <2>1. PICK r : r = Made(s, at, n)
    OBVIOUS
  <2>2. r.at = at
    BY <2>1, NewBill
  <2>3. Become(s, r)
    BY <1>3, <2>1
  <2>4. QED
    BY <1>3, <2>2, <2>3, IdleBill DEF Become, Shapes
<1>4. ASSUME NEW s \in Sender, Compute(s, u) 
      PROVE  \A t \in Sender : proc'[t] # proc[t] => proc[t].at \in {"none", "reset"} /\ proc'[t].at \in {"reset", "send"}
  BY <1>3, <1>4 DEF Compute
<1>5. CASE CollectorBills(u) \/ DeleteContainer(u)
  BY <1>4, <1>5, Senders DEF CollectorBills, DeleteContainer
<1>6. CASE NetBilling(u)
  BY <1>1, <1>3, <1>6, Senders DEF NetBilling
<1>9. CASE DeleteOther(u)
  BY <1>3, <1>9, Senders DEF DeleteOther
<1>7. CASE Run(u)
  BY <1>1, <1>2, <1>7 DEF Run
<1>8. QED
  BY <1>1, <1>5, <1>6, <1>7, <1>9 DEF Container, StartCheck, StartContainer, StopContainer, Traffic, NewGateway

LEMMA BeanStep == ASSUME Shapes, Owned, BeanInv, Next PROVE BeanInv'
<1>1. ASSUME NEW u \in User, Container(u) PROVE BeanInv'
  <2>1. UNCHANGED <<lock, beans, app, admin>> /\ mishap \subseteq mishap'
    BY <1>1 DEF Container, StartCheck, StartContainer, StopContainer, Run, Traffic, NewGateway,
       CollectorBills, DeleteContainer, DeleteOther, NetBilling, Compute, Fault, NoFault, app_vars
  <2>2. QED
    BY <1>1, <2>1, ContainerSenders, BeanAside
<1>2. CASE Asking
  BY <1>2, BeanAside DEF Asking, GetRequest, AskMaster, NoFault, app_vars
<1>3. CASE RestartMaster \/ \E u \in User : RestartWorker(u)
  <2>1. UNCHANGED <<lock, beans, app, admin>> /\ mishap \subseteq mishap'
    BY <1>3 DEF RestartMaster, RestartWorker, Fault, app_vars
  <2>2. \A s \in Sender : proc'[s] \in {proc[s], Idle, [proc[s] EXCEPT !.holds = "none"]}
    BY <1>3 DEF RestartMaster, RestartWorker
  <2>4. \A s \in Sender : /\ [proc[s] EXCEPT !.holds = "none"].at = proc[s].at
                          /\ [proc[s] EXCEPT !.holds = "none"].read = proc[s].read
    BY DEF Shapes, Bills
  <2>3. QED
    BY <2>1, <2>2, <2>4, IdleBill, BeanAside
<1>4. CASE RestartUser
  <2>1. /\ \A s \in Sender : proc'[s].at \notin {"commit", "put"}
        /\ admin'.app = "none"
    BY <1>4, IdleBill DEF RestartUser, AdminIdle
  <2>2. QED
    BY <2>1 DEF BeanInv, Holding, FreshBeans, Unless
<1>5. QED
  BY <1>1, <1>2, <1>3, <1>4, HandleBean, ApplyingBean DEF Next, Restarting

-----------------------------------------------------------------------------
(* The bills.                                                              *)

Paid(u) == due[u] = fresh[u] + Sent(u) + NetOpen(u)

LEMMA PaidIs == PaidOnce <=> Unless(BillCauses, \A u \in User : Paid(u))
BY DEF PaidOnce, Paid

\* Once a bill has gone wrong the accounts are closed.
LEMMA BillVoid == ASSUME BillCauses \intersect mishap' # {} PROVE BillInv'
BY DEF BillInv, Counting, PaidOnce, Unless

LEMMA BillAside ==
  ASSUME BillInv, UNCHANGED <<fresh, bytes, net_last, proc, due>>, mishap \subseteq mishap'
  PROVE  BillInv'
<1>1. Counting'
  BY DEF BillInv, Counting, Counted, Unless
<1>2. PaidOnce'
  BY DEF BillInv, PaidOnce, Sent, Bill, NetOpen, LastBilled, Unless
<1>3. QED
  BY <1>1, <1>2 DEF BillInv

\* A step that is about one user's bills.
LEMMA BillOf ==
  ASSUME Shapes, BillInv, mishap \subseteq mishap', NEW u \in User,
         \A v \in User \ {u} : /\ fresh'[v] = fresh[v] /\ bytes'[v] = bytes[v]
                               /\ net_last'[v] = net_last[v],
         BillCauses \intersect mishap' = {} => \A v \in User \ {u} : due'[v] = due[v],
         \A s \in Sender : s[2] # u => proc'[s] = proc[s],
         BillCauses \intersect mishap' = {} /\ Counted(u) /\ Paid(u) => Counted(u)' /\ Paid(u)'
  PROVE  BillInv'
<1> SUFFICES ASSUME BillCauses \intersect mishap' = {} PROVE \A v \in User : Counted(v)' /\ Paid(v)'
  BY PaidIs, BillVoid DEF BillInv, Counting, PaidOnce, Paid, Unless
<1>1. \A v \in User : Counted(v) /\ Paid(v)
  BY DEF BillInv, Counting, PaidOnce, Paid, Unless
<1>2. ASSUME NEW v \in User, v # u PROVE Counted(v)' /\ Paid(v)'
  <2>1. \A k \in {"collector", "delete", "net"} : <<k, v>> \in Sender /\ proc'[<<k, v>>] = proc[<<k, v>>]
    BY <1>2 DEF Sender
  <2>2. fresh'[v] = fresh[v] /\ bytes'[v] = bytes[v] /\ net_last'[v] = net_last[v] /\ due'[v] = due[v]
    BY <1>2
  <2>3. Counted(v)'
    BY <1>1, <2>1, <2>2 DEF Counted
  <2>4. Paid(v)'
    BY <1>1, <2>1, <2>2 DEF Paid, Sent, Bill, NetOpen, LastBilled
  <2>5. QED
    BY <2>3, <2>4
<1>3. QED
  BY <1>1, <1>2

\* What a user's account comes to, while the counters of traffic go up.
LEMMA PaidSum ==
  ASSUME Shapes, NEW u \in User, Counted(u)
  PROVE  /\ proc[<<"collector", u>>] \in Bills /\ proc[<<"delete", u>>] \in Bills /\ proc[<<"net", u>>] \in Bills
         /\ fresh[u] \in Nat /\ bytes[u] \in Nat /\ net_last[u] \in Nat /\ due[u] \in Int
         /\ LastBilled(u) = net_last[u]
<1>1. net_last[u] <= bytes[u] /\ bytes[u] \in Nat /\ net_last[u] \in Nat
  BY DEF Counted, Shapes
<1>2. QED
  BY <1>1, Senders DEF LastBilled, Shapes

LEMMA AccountIs ==
  ASSUME Shapes, NEW u \in User, NEW n \in Int, Account(u, n), BillCauses \intersect mishap = {}
  PROVE  due'[u] = due[u] + n /\ \A v \in User \ {u} : due'[v] = due[v]
BY DEF Account, Shapes

LEMMA SentNat ==
  ASSUME Shapes, NEW u \in User PROVE Sent(u) \in Nat
<1>1. proc[<<"collector", u>>] \in Bills /\ proc[<<"delete", u>>] \in Bills
  BY Senders DEF Shapes
<1>2. Bill(<<"collector", u>>) \in Nat /\ Bill(<<"delete", u>>) \in Nat
  BY <1>1 DEF Bill, Bills
<1>3. QED
  BY <1>2 DEF Sent

LEMMA RunBill == ASSUME Shapes, BillInv, NEW u \in User, Run(u) PROVE BillInv'
<1>1. UNCHANGED <<bytes, net_last, mishap>>
  BY DEF Run
<1>2. CASE UNCHANGED <<fresh, due, proc>>
  BY <1>1, <1>2, BillAside
<1>3. CASE /\ fresh' = [fresh EXCEPT ![u] = @ + 1] /\ Account(u, 1)
           /\ proc' = [s \in Sender |-> IF s[2] = u /\ proc[s].at = "reset"
                                        THEN [proc[s] EXCEPT !.since = @ + 1] ELSE proc[s]]
  <2>1. /\ fresh'[u] = fresh[u] + 1 /\ \A v \in User \ {u} : fresh'[v] = fresh[v]
        /\ \A s \in Sender : s[2] # u => proc'[s] = proc[s]
    BY <1>3 DEF Shapes
  <2>2. \A k \in {"collector", "delete", "net"} :
          LET s == <<k, u>> IN
          /\ proc'[s].at = proc[s].at /\ proc'[s].amount = proc[s].amount
          /\ proc'[s].since = IF proc[s].at = "reset" THEN proc[s].since + 1 ELSE proc[s].since
    <3>1. ASSUME NEW k \in {"collector", "delete", "net"}
          PROVE  <<k, u>> \in Sender /\ <<k, u>>[2] = u /\ proc[<<k, u>>] \in Bills
      BY Senders DEF Shapes
    <3>2. ASSUME NEW r \in Bills, NEW q, q = [r EXCEPT !.since = @ + 1]
          PROVE  q.at = r.at /\ q.amount = r.amount /\ q.since = r.since + 1
      BY <3>2 DEF Bills
    <3>3. QED
      BY <1>3, <3>1, <3>2
  <2>3. ASSUME BillCauses \intersect mishap' = {}, Counted(u), Paid(u) PROVE Counted(u)' /\ Paid(u)'
    <3>1. due'[u] = due[u] + 1
      BY <1>1, <1>3, <2>3, AccountIs
    <3>2. Counted(u)'
      BY <1>1, <2>1, <2>2, <2>3, PaidSum DEF Counted, Bills
    <3>3. Sent(u)' = Sent(u) /\ Sent(u) \in Nat
      BY <2>2, <2>3, PaidSum DEF Sent, Bill, Bills
    <3>4. NetOpen(u)' = NetOpen(u) /\ NetOpen(u) \in Int
      BY <1>1, <2>2, <2>3, PaidSum DEF NetOpen, LastBilled, Bills
    <3>5. fresh[u] \in Nat /\ due[u] \in Int
      BY DEF Shapes
    <3>6. due[u] + 1 = (fresh[u] + 1) + Sent(u) + NetOpen(u)
      BY <2>3, <3>3, <3>4, <3>5 DEF Paid
    <3>7. QED
      BY <2>1, <3>1, <3>2, <3>3, <3>4, <3>6 DEF Paid
  <2>4. BillCauses \intersect mishap' = {} => \A v \in User \ {u} : due'[v] = due[v]
    BY <1>1, <1>3, AccountIs
  <2>5. QED
    BY <1>1, <2>1, <2>3, <2>4, BillOf
<1>4. QED
  BY <1>2, <1>3 DEF Run

LEMMA TrafficBill == ASSUME Shapes, BillInv, NEW u \in User, Traffic(u) PROVE BillInv'
<1>1. /\ bytes' = [bytes EXCEPT ![u] = @ + 1] /\ Account(u, 1)
      /\ UNCHANGED <<fresh, net_last, proc, mishap>>
  BY DEF Traffic
<1>2. bytes'[u] = bytes[u] + 1 /\ \A v \in User \ {u} : bytes'[v] = bytes[v]
  BY <1>1 DEF Shapes
<1>3. ASSUME BillCauses \intersect mishap' = {}, Counted(u), Paid(u) PROVE Counted(u)' /\ Paid(u)'
  <2>1. due'[u] = due[u] + 1
    BY <1>1, <1>3, AccountIs
  <2>2. Counted(u)'
    BY <1>1, <1>2, <1>3, PaidSum DEF Counted, Bills
  <2>3. Sent(u)' = Sent(u) /\ Sent(u) \in Nat
    BY <1>1, SentNat DEF Sent, Bill
  <2>4. NetOpen(u)' = NetOpen(u) + 1 /\ NetOpen(u) \in Int
    BY <1>1, <1>2, <1>3, <2>2, PaidSum DEF NetOpen, LastBilled, Bills, Counted
  <2>5. fresh[u] \in Nat /\ due[u] \in Int
    BY DEF Shapes
  <2>6. due[u] + 1 = fresh[u] + Sent(u) + (NetOpen(u) + 1)
    BY <1>3, <2>3, <2>4, <2>5 DEF Paid
  <2>7. QED
    BY <1>1, <2>1, <2>2, <2>3, <2>4, <2>6 DEF Paid
<1>4. BillCauses \intersect mishap' = {} => \A v \in User \ {u} : due'[v] = due[v]
  BY <1>1, AccountIs
<1>5. QED
  BY <1>1, <1>2, <1>3, <1>4, BillOf

\* A bill is computed: what it is made of stays where it was.
LEMMA ComputeBill ==
  ASSUME Shapes, BillInv, NEW u \in User, NEW k \in {"collector", "delete"}, Compute(<<k, u>>, u),
         UNCHANGED <<fresh, bytes, net_last, due>>
  PROVE  BillInv'
<1> DEFINE s == <<k, u>>
<1>1. s \in Sender /\ s[2] = u
  BY Senders
<1>2. PICK r : r = Made(s, "reset", fresh[u])
  OBVIOUS
<1>3. r.at = "reset" /\ r.amount = fresh[u] /\ r.since = 0
  BY <1>2, NewBill
<1>4. /\ proc[s] = Idle /\ Become(s, r) /\ mishap \subseteq mishap'
      /\ "crossed" \notin mishap' => \A t \in Sender : t[2] = u => proc[t].at # "reset"
  BY <1>2 DEF Compute
<1>5. proc'[s] = r /\ \A t \in Sender \ {s} : proc'[t] = proc[t]
  BY <1>1, <1>4 DEF Become, Shapes
<1>6. ASSUME BillCauses \intersect mishap' = {}, Counted(u), Paid(u) PROVE Counted(u)' /\ Paid(u)'
  <2>1. \A t \in Sender : t[2] = u => proc[t].at # "reset"
    BY <1>4, <1>6 DEF BillCauses
  <2>2. /\ <<"collector", u>> \in Sender /\ <<"delete", u>> \in Sender /\ <<"net", u>> \in Sender
        /\ <<"net", u>> # s
    BY Senders
  <2>3. Counted(u)'
    BY <1>3, <1>5, <1>6, <2>1, <2>2, PaidSum DEF Counted
  <2>4. Bill(<<"collector", u>>)' = Bill(<<"collector", u>>) /\ Bill(<<"delete", u>>)' = Bill(<<"delete", u>>)
    BY <1>3, <1>4, <1>5, <2>2, IdleBill DEF Bill
  <2>5. NetOpen(u)' = NetOpen(u)
    BY <1>5, <2>2 DEF NetOpen, LastBilled
  <2>6. QED
    BY <1>6, <2>3, <2>4, <2>5 DEF Paid, Sent
<1>7. QED
  BY <1>1, <1>4, <1>5, <1>6, BillOf

LEMMA NetBill == ASSUME Shapes, BillInv, NEW u \in User, NetBilling(u) PROVE BillInv'
<1> DEFINE s == <<"net", u>>
<1>1. s \in Sender /\ s[2] = u
  BY Senders
<1>2. /\ proc[s] = Idle /\ net_last' = [net_last EXCEPT ![u] = LastBilled(u)]
      /\ UNCHANGED <<fresh, bytes, due, mishap>>
  BY DEF NetBilling
<1>3. \A v \in User \ {u} : net_last'[v] = net_last[v]
  BY <1>2 DEF Shapes
<1>4. \A t \in Sender \ {s} : proc'[t] = proc[t]
  BY <1>1 DEF NetBilling, Become, Shapes
<1>5. \/ proc'[s] = Idle
      \/ proc'[s].at = "send" /\ proc'[s].amount = bytes[u] - LastBilled(u)
  <2>1. CASE UNCHANGED proc
    BY <1>2, <2>1
  <2>2. CASE Become(s, Made(s, "send", bytes[u] - LastBilled(u)))
    <3>1. PICK r : r = Made(s, "send", bytes[u] - LastBilled(u))
      OBVIOUS
    <3>2. r.at = "send" /\ r.amount = bytes[u] - LastBilled(u)
      BY <3>1, NewBill
    <3>3. Become(s, r)
      BY <2>2, <3>1
    <3>4. QED
      BY <1>1, <3>2, <3>3 DEF Become, Shapes
  <2>3. QED
    BY <2>1, <2>2 DEF NetBilling
<1>6. ASSUME Counted(u), Paid(u) PROVE Counted(u)' /\ Paid(u)'
  <2>1. net_last'[u] = net_last[u] /\ LastBilled(u) = net_last[u] /\ LastBilled(u)' = net_last[u]
    BY <1>2, <1>6, PaidSum DEF LastBilled, Shapes
  <2>2. /\ <<"collector", u>> \in Sender \ {s} /\ <<"delete", u>> \in Sender \ {s}
    BY Senders
  <2>3. Counted(u)'
    BY <1>2, <1>4, <1>5, <1>6, <2>1, <2>2, PaidSum, IdleBill DEF Counted
  <2>4. Sent(u)' = Sent(u)
    BY <1>4, <2>2 DEF Sent, Bill
  <2>5. NetOpen(u)' = NetOpen(u)
    BY <1>2, <1>5, <2>1, IdleBill DEF NetOpen
  <2>6. QED
    BY <1>2, <1>6, <2>3, <2>4, <2>5 DEF Paid
<1>7. QED
  BY <1>1, <1>2, <1>3, <1>4, <1>6, BillOf

\* A bill goes on its way: the sender's record changes, and no other.
LEMMA BillMoves ==
  ASSUME Shapes, NEW s \in Sender, NEW r, Become(s, r)
  PROVE  proc'[s] = r /\ \A t \in Sender : t # s => proc'[t] = proc[t]
BY DEF Become, Shapes

LEMMA ResetBill == ASSUME Shapes, BillInv, NEW s \in Sender, Reset(s) PROVE BillInv'
<1> DEFINE u == s[2]
<1>1. u \in User /\ s = <<s[1], u>> /\ s[1] \in {"collector", "delete", "net"} /\ proc[s] \in Bills
  BY Senders DEF Shapes
<1>2. /\ proc[s].at = "reset" /\ fresh' = [fresh EXCEPT ![u] = proc[s].since]
      /\ UNCHANGED <<bytes, net_last, due, mishap>>
  BY DEF Reset, Rebased
<1>3. PICK r : r = [proc[s] EXCEPT !.at = "send", !.since = 0]
  OBVIOUS
<1>4. r.at = "send" /\ r.amount = proc[s].amount
  BY <1>1, <1>3 DEF Bills
<1>5. proc'[s] = r /\ \A t \in Sender : t # s => proc'[t] = proc[t]
  BY <1>3, BillMoves DEF Reset
<1>6. fresh'[u] = proc[s].since /\ \A v \in User \ {u} : fresh'[v] = fresh[v]
  BY <1>1, <1>2 DEF Shapes
<1>7. ASSUME Counted(u), Paid(u) PROVE Counted(u)' /\ Paid(u)'
  <2>1. s \in {<<"collector", u>>, <<"delete", u>>} /\ fresh[u] = proc[s].amount + proc[s].since
    BY <1>1, <1>2, <1>7 DEF Counted
  <2>2. /\ <<"collector", u>> \in Sender /\ <<"delete", u>> \in Sender /\ <<"net", u>> \in Sender
        /\ <<"net", u>> # s
    BY <1>1, <2>1, Senders
  <2>3. proc'[<<"net", u>>] = proc[<<"net", u>>]
    BY <1>5, <2>2
  <2>4. Counted(u)'
    BY <1>2, <1>4, <1>5, <1>7, <2>1, <2>2, <2>3 DEF Counted
  <2>5. NetOpen(u)' = NetOpen(u) /\ NetOpen(u) \in Int
    <3>1. NetOpen(u)' = NetOpen(u)
      BY <1>2, <2>3 DEF NetOpen, LastBilled
    <3>2. NetOpen(u) \in Int
      <4>1. /\ bytes[u] \in Nat /\ LastBilled(u) \in Nat
            /\ proc[<<"net", u>>] \in Bills /\ proc[<<"net", u>>].amount \in Nat
        BY <1>1, <1>7, PaidSum DEF Bills
      <4>2. QED
        BY <4>1 DEF NetOpen
    <3>3. QED
      BY <3>1, <3>2
  <2>6. Sent(u)' = Sent(u) + proc[s].amount
    <3>1. /\ proc[<<"collector", u>>] \in Bills /\ proc[<<"delete", u>>] \in Bills
      BY <2>2 DEF Shapes
    <3>2. CASE s = <<"collector", u>>
      <4>1. Bill(s) = 0 /\ Bill(s)' = proc[s].amount
        BY <1>2, <1>4, <1>5 DEF Bill
      <4>2. Bill(<<"delete", u>>)' = Bill(<<"delete", u>>) /\ Bill(<<"delete", u>>) \in Nat
        BY <1>5, <2>2, <3>1, <3>2 DEF Bill, Bills
      <4>3. QED
        BY <1>1, <3>2, <4>1, <4>2 DEF Sent, Bills
    <3>3. CASE s = <<"delete", u>>
      <4>1. Bill(s) = 0 /\ Bill(s)' = proc[s].amount
        BY <1>2, <1>4, <1>5 DEF Bill
      <4>2. Bill(<<"collector", u>>)' = Bill(<<"collector", u>>) /\ Bill(<<"collector", u>>) \in Nat
        BY <1>5, <2>2, <3>1, <3>3 DEF Bill, Bills
      <4>3. QED
        BY <1>1, <3>3, <4>1, <4>2 DEF Sent, Bills
    <3>4. QED
      BY <2>1, <3>2, <3>3
  <2>7. fresh[u] + Sent(u) = fresh'[u] + Sent(u)'
    BY <1>1, <1>6, <2>1, <2>6, SentNat DEF Bills
  <2>8. QED
    BY <1>2, <1>7, <2>4, <2>5, <2>7 DEF Paid
<1>8. QED
  BY <1>1, <1>2, <1>5, <1>6, <1>7, BillOf

LEMMA TakeLockBill == ASSUME Shapes, BillInv, NEW s \in Sender, TakeLock(s) PROVE BillInv'
<1> DEFINE u == s[2]
<1>1. u \in User /\ s = <<s[1], u>> /\ proc[s] \in Bills
  BY Senders DEF Shapes
<1>2. proc[s].at = "send" /\ UNCHANGED <<fresh, bytes, net_last, due, mishap>>
  BY DEF TakeLock, worker_vars
<1>3. PICK r : r = [proc[s] EXCEPT !.at = "commit", !.read = beans[u]]
  OBVIOUS
<1>4. r.at = "commit" /\ r.amount = proc[s].amount
  BY <1>1, <1>3 DEF Bills
<1>5. proc'[s] = r /\ \A t \in Sender : t # s => proc'[t] = proc[t]
  BY <1>3, BillMoves DEF TakeLock
<1>6. ASSUME Counted(u), Paid(u) PROVE Counted(u)' /\ Paid(u)'
  <2>1. \A k \in {"collector", "delete", "net"} :
          /\ <<k, u>> \in Sender
          /\ \/ proc'[<<k, u>>] = proc[<<k, u>>]
             \/ /\ proc[<<k, u>>].at = "send" /\ proc'[<<k, u>>].at = "commit"
                /\ proc'[<<k, u>>].amount = proc[<<k, u>>].amount
    BY <1>2, <1>4, <1>5, Senders
  <2>2. Counted(u)'
    BY <1>2, <1>6, <2>1 DEF Counted
  <2>3. Sent(u)' = Sent(u)
    BY <2>1 DEF Sent, Bill
  <2>4. NetOpen(u)' = NetOpen(u)
    BY <1>2, <2>1 DEF NetOpen, LastBilled
  <2>5. QED
    BY <1>2, <1>6, <2>2, <2>3, <2>4 DEF Paid
<1>7. QED
  BY <1>1, <1>2, <1>5, <1>6, BillOf

\* A bill that is debited: the amount leaves the account on both sides, also
\* when the handler still asks for a stop. Then the sender is answered.
LEMMA DebitBill ==
  ASSUME Shapes, BillInv, NEW s \in Sender, Debit(s) \/ AddRequest(s), BillCauses \intersect mishap' = {}
  PROVE  BillInv'
<1> DEFINE u == s[2]
<1> DEFINE p == proc[s]
<1>1. u \in User /\ s = <<s[1], u>> /\ s[1] \in {"collector", "delete", "net"} /\ p \in Bills
  BY Senders DEF Shapes
<1>2. UNCHANGED <<fresh, bytes>> /\ mishap \subseteq mishap'
  BY DEF Debit, AddRequest, Ends, Fault, NoFault
<1>3. p.at = "commit" \/ p.at = "put"
  BY DEF Debit, AddRequest
<1>4. "lost" \notin mishap' /\ BillCauses \intersect mishap = {}
  BY <1>2 DEF BillCauses
<1>5. /\ due'[u] = due[u] - (IF p.at = "commit" THEN p.amount ELSE 0)
      /\ \A v \in User \ {u} : due'[v] = due[v]
  <2>1. CASE Debit(s)
    <3>1. Account(u, -p.amount) /\ -p.amount \in Int /\ p.at = "commit"
      BY <1>1, <2>1 DEF Debit, Bills
    <3>2. due'[u] = due[u] + (-p.amount) /\ \A v \in User \ {u} : due'[v] = due[v]
      BY <1>1, <1>4, <3>1, AccountIs
    <3>3. due[u] \in Int /\ p.amount \in Nat
      BY <1>1 DEF Shapes, Bills
    <3>4. QED
      BY <3>1, <3>2, <3>3
  <2>2. CASE AddRequest(s)
    BY <1>1, <2>2 DEF AddRequest, Shapes
  <2>3. QED
    BY <2>1, <2>2
<1>6. /\ \A t \in Sender : t # s => proc'[t] = proc[t]
      /\ \/ /\ p.at = "commit" /\ proc'[s].at = "put" /\ proc'[s].amount = p.amount
            /\ UNCHANGED net_last
         \/ proc'[s] = Idle /\ net_last' = Answered(s)
  <2>1. CASE p.at = "commit" /\ Become(s, [p EXCEPT !.at = "put"]) /\ UNCHANGED net_last
    <3>1. PICK r : r = [p EXCEPT !.at = "put"]
      OBVIOUS
    <3>2. r.at = "put" /\ r.amount = p.amount
      BY <1>1, <3>1 DEF Bills
    <3>3. QED
      BY <2>1, <3>1, <3>2, BillMoves
  <2>2. CASE Ends(s)
    <3>1. Become(s, Idle) /\ net_last' = Answered(s)
      BY <1>4, <2>2 DEF Ends, Replied, Fault
    <3>2. QED
      BY <3>1, BillMoves
  <2>3. QED
    BY <2>1, <2>2 DEF Debit, AddRequest
<1>7. /\ \A v \in User \ {u} : net_last'[v] = net_last[v]
      /\ net_last'[u] = IF proc'[s].at # "put" /\ s[1] = "net" THEN net_last[u] + p.amount ELSE net_last[u]
  BY <1>1, <1>6, IdleBill DEF Answered, BillsTime, Shapes
<1>8. ASSUME Counted(u), Paid(u) PROVE Counted(u)' /\ Paid(u)'
  <2>1. /\ proc[<<"collector", u>>] \in Bills /\ proc[<<"delete", u>>] \in Bills /\ proc[<<"net", u>>] \in Bills
        /\ <<"collector", u>> \in Sender /\ <<"delete", u>> \in Sender /\ <<"net", u>> \in Sender
        /\ fresh[u] \in Nat /\ bytes[u] \in Nat /\ net_last[u] \in Nat /\ due[u] \in Int
        /\ LastBilled(u) = net_last[u] /\ p.amount \in Nat
    BY <1>1, <1>8, PaidSum, Senders DEF Bills
  <2>2. s[1] = "net" => net_last[u] + p.amount <= bytes[u]
    BY <1>1, <1>3, <1>8 DEF Counted
  <2>3. proc'[s].at = "none" \/ (proc'[s].at = "put" /\ proc'[s].amount = p.amount)
    BY <1>6, IdleBill
  <2>4. LastBilled(u)' = net_last'[u] /\ net_last'[u] <= bytes[u] /\ net_last'[u] \in Nat
    BY <1>2, <1>7, <1>8, <2>1, <2>2 DEF LastBilled, Counted
  <2>5. CASE s = <<"net", u>>
    <3>1. \A k \in {"collector", "delete"} : proc'[<<k, u>>] = proc[<<k, u>>]
      BY <1>6, <2>1, <2>5
    <3>2. Counted(u)'
      BY <1>2, <1>7, <1>8, <2>2, <2>3, <2>4, <2>5, <3>1 DEF Counted
    <3>3. Sent(u)' = Sent(u) /\ Sent(u) \in Nat
      <4>1. Sent(u)' = Sent(u)
        BY <3>1 DEF Sent, Bill
      <4>2. QED
        BY <1>1, <4>1, SentNat
    <3>4. NetOpen(u)' = NetOpen(u) - (IF p.at = "commit" THEN p.amount ELSE 0) /\ NetOpen(u) \in Int
      BY <1>2, <1>3, <1>7, <2>1, <2>3, <2>4, <2>5 DEF NetOpen
    <3>5. due[u] = fresh[u] + Sent(u) + NetOpen(u)
      BY <1>8 DEF Paid
    <3>6. due'[u] = fresh[u] + Sent(u) + (NetOpen(u) - (IF p.at = "commit" THEN p.amount ELSE 0))
      BY <1>5, <2>1, <3>3, <3>4, <3>5
    <3>7. QED
      BY <1>2, <3>2, <3>3, <3>4, <3>6 DEF Paid
  <2>6. CASE s \in {<<"collector", u>>, <<"delete", u>>}
    <3>1. proc'[<<"net", u>>] = proc[<<"net", u>>] /\ s[1] # "net" /\ <<"net", u>> # s
      BY <1>6, <2>1, <2>6
    <3>2. net_last'[u] = net_last[u]
      BY <1>7, <3>1
    <3>3. Counted(u)'
      BY <1>2, <1>6, <1>8, <2>1, <2>3, <2>6, <3>1, <3>2 DEF Counted
    <3>4. NetOpen(u)' = NetOpen(u) /\ NetOpen(u) \in Int
      <4>1. NetOpen(u)' = NetOpen(u)
        BY <1>2, <3>1, <3>2 DEF NetOpen, LastBilled
      <4>2. NetOpen(u) \in Int
        BY <2>1 DEF NetOpen, Bills
      <4>3. QED
        BY <4>1, <4>2
    <3>5. Bill(s) = (IF p.at = "commit" THEN p.amount ELSE 0) /\ Bill(s)' = 0 /\ Bill(s) \in Nat
      BY <1>3, <2>1, <2>3 DEF Bill
    <3>6. \A k \in {"collector", "delete"} : <<k, u>> # s => Bill(<<k, u>>)' = Bill(<<k, u>>) /\ Bill(<<k, u>>) \in Nat
      BY <1>6, <2>1 DEF Bill, Bills
    <3>7. Sent(u)' = Sent(u) - (IF p.at = "commit" THEN p.amount ELSE 0)
      BY <2>6, <3>5, <3>6 DEF Sent
    <3>8. Sent(u) \in Nat
      BY <1>1, SentNat
    <3>9. due[u] = fresh[u] + Sent(u) + NetOpen(u)
      BY <1>8 DEF Paid
    <3>10. due'[u] = fresh[u] + (Sent(u) - (IF p.at = "commit" THEN p.amount ELSE 0)) + NetOpen(u)
      BY <1>5, <2>1, <3>4, <3>8, <3>9
    <3>11. QED
      BY <1>2, <3>3, <3>4, <3>7, <3>10 DEF Paid
  <2>7. QED
    BY <1>1, <2>5, <2>6
<1>9. QED
  BY <1>1, <1>2, <1>5, <1>6, <1>7, <1>8, BillOf

\* What is left of another container is used and billed at once.
LEMMA OtherBill == ASSUME Shapes, BillInv, NEW u \in User, DeleteOther(u) PROVE BillInv'
<1> DEFINE s == <<"delete", u>>
<1>1. /\ s \in Sender /\ s[2] = u /\ <<"collector", u>> \in Sender /\ <<"net", u>> \in Sender
      /\ <<"collector", u>> # s /\ <<"net", u>> # s
  BY Senders
<1>2. PICK r : r = Made(s, "send", 1)
  OBVIOUS
<1>3. r.at = "send" /\ r.amount = 1
  BY <1>2, NewBill
<1>4. /\ proc[s] = Idle /\ Become(s, r) /\ Account(u, 1)
      /\ UNCHANGED <<fresh, bytes, net_last, mishap>>
  BY <1>2 DEF DeleteOther, worker_vars
<1>5. proc'[s] = r /\ \A t \in Sender \ {s} : proc'[t] = proc[t]
  BY <1>1, <1>4 DEF Become, Shapes
<1>6. BillCauses \intersect mishap' = {} => due'[u] = due[u] + 1 /\ \A v \in User \ {u} : due'[v] = due[v]
  BY <1>4, AccountIs
<1>7. ASSUME BillCauses \intersect mishap' = {}, Counted(u), Paid(u) PROVE Counted(u)' /\ Paid(u)'
  <2>1. Counted(u)'
    BY <1>1, <1>3, <1>4, <1>5, <1>7, IdleBill DEF Counted
  <2>2. Bill(s) = 0 /\ Bill(s)' = 1 /\ Bill(<<"collector", u>>)' = Bill(<<"collector", u>>)
    BY <1>1, <1>3, <1>4, <1>5, IdleBill DEF Bill
  <2>3. Bill(<<"collector", u>>) \in Nat
    BY <1>1 DEF Bill, Shapes, Bills
  <2>4. NetOpen(u)' = NetOpen(u) /\ NetOpen(u) \in Int
    <3>1. NetOpen(u)' = NetOpen(u)
      BY <1>1, <1>4, <1>5 DEF NetOpen, LastBilled
    <3>2. QED
      <4>1. proc[<<"net", u>>].amount \in Nat /\ bytes[u] \in Nat /\ LastBilled(u) \in Nat
        BY <1>7, PaidSum DEF Bills
      <4>2. QED
        BY <3>1, <4>1 DEF NetOpen
  <2>5. fresh[u] \in Nat /\ due[u] \in Int
    BY DEF Shapes
  <2>6. Sent(u)' = Sent(u) + 1 /\ Sent(u) \in Nat
    BY <2>2, <2>3 DEF Sent
  <2>7. due'[u] = due[u] + 1 /\ fresh'[u] = fresh[u] /\ due[u] = fresh[u] + Sent(u) + NetOpen(u)
    BY <1>4, <1>6, <1>7 DEF Paid
  <2>8. due'[u] = fresh'[u] + Sent(u)' + NetOpen(u)'
    BY <2>4, <2>5, <2>6, <2>7
  <2>9. QED
    BY <2>1, <2>8 DEF Paid
<1>8. QED
  BY <1>1, <1>4, <1>5, <1>6, <1>7, BillOf

LEMMA BillStep == ASSUME Shapes, BillInv, Next PROVE BillInv'
<1>1. ASSUME NEW s \in Sender, Handle(s) PROVE BillInv'
  BY <1>1, ResetBill, TakeLockBill, DebitBill, BillVoid DEF Handle
<1>2. ASSUME NEW s \in Sender, Failing(s) PROVE BillInv'
  BY <1>2, BillVoid DEF Failing, BillLost, DebitFails, MailFails, Fault, BillCauses
<1>3. ASSUME NEW u \in User, StartCheck(u) \/ StartContainer(u) \/ StopContainer(u) PROVE BillInv'
  BY <1>3, BillAside DEF StartCheck, StartContainer, StopContainer
<1>4. ASSUME NEW u \in User, NewGateway(u) PROVE BillInv'
  BY <1>4, BillVoid DEF NewGateway, Fault, BillCauses
<1>5. ASSUME NEW u \in User, CollectorBills(u) \/ DeleteContainer(u) PROVE BillInv'
  BY <1>5, ComputeBill DEF CollectorBills, DeleteContainer, worker_vars
<1>6. CASE Asking
  BY <1>6, BillAside DEF Asking, GetRequest, AskMaster, worker_vars, NoFault
<1>7. CASE Applying
  <2>1. UNCHANGED <<fresh, bytes, net_last, proc, due>> /\ mishap \subseteq mishap'
    BY <1>7 DEF Applying, Apply, AgreeBegins, Agree, Reject, RobotRead, RobotGrants, worker_vars
  <2>2. QED
    BY <2>1, BillAside
<1>8. CASE Restarting
  BY <1>8, BillVoid DEF Restarting, RestartWorker, RestartMaster, RestartUser, Fault, BillCauses
<1>9. QED
  BY <1>1, <1>2, <1>3, <1>4, <1>5, <1>6, <1>7, <1>8, RunBill, TrafficBill, NetBill, OtherBill DEF Next, Container

-----------------------------------------------------------------------------

LEMMA Initially == Init => IInv
<1> SUFFICES ASSUME Init PROVE IInv
  OBVIOUS
<1>1. /\ fresh = [u \in User |-> 0] /\ bytes = [u \in User |-> 0] /\ net_last = [u \in User |-> 0]
      /\ proc = [s \in Sender |-> Idle] /\ lock = [u \in User |-> NoOne]
      /\ beans = [u \in User |-> First] /\ First \in Int
      /\ due = [u \in User |-> 0] /\ grants = [a \in App |-> 0]
      /\ robot = RobotIdle /\ admin = AdminIdle
  BY BeansAssumption DEF Init
<1>2. app \in [App -> {[owner |-> "none", status |-> "none"]} \union [owner: User, status: {"Processing"}]]
  BY DEF Init
<1>3. \A a \in App : /\ app[a] \in [owner: User \union {"none"}, status: {"none", "Processing"}]
                     /\ app[a].owner = "none" => app[a].status = "none"
  BY <1>2, BeansAssumption
<1>4. Shapes
  BY <1>1, <1>2, <1>3, IdleBill DEF Shapes, RobotIdle, AdminIdle
<1>5. AppInv
  <2>1. Owned
    BY <1>1, <1>3 DEF Owned, RobotIdle, AdminIdle
  <2>2. Deciding /\ GrantedOnce
    BY <1>1, <1>3 DEF Deciding, GrantedOnce, Unless, AdminIdle
  <2>3. QED
    BY <2>1, <2>2 DEF AppInv
<1>6. BeanInv
  BY <1>1, IdleBill DEF BeanInv, Holding, FreshBeans, Unless, AdminIdle
<1>7. BillInv
  <2>1. \A u \in User : /\ fresh[u] = 0 /\ bytes[u] = 0 /\ net_last[u] = 0 /\ due[u] = 0
                          /\ proc[<<"collector", u>>] = Idle /\ proc[<<"delete", u>>] = Idle
                          /\ proc[<<"net", u>>] = Idle
    BY <1>1, Senders
  <2>2. ASSUME NEW u \in User PROVE Counted(u) /\ Paid(u)
    <3>1. Counted(u)
      BY <2>1, IdleBill DEF Counted
    <3>2. Bill(<<"collector", u>>) = 0 /\ Bill(<<"delete", u>>) = 0
      BY <2>1, IdleBill DEF Bill
    <3>3. LastBilled(u) = 0 /\ proc[<<"net", u>>].at # "put"
      BY <2>1, IdleBill DEF LastBilled
    <3>4. NetOpen(u) = 0
      <4>1. NetOpen(u) = 0 - 0 - 0
        BY <2>1, <3>3 DEF NetOpen
      <4>2. QED
        BY <4>1
    <3>5. Sent(u) = 0
      BY <3>2 DEF Sent
    <3>6. due[u] = fresh[u] + Sent(u) + NetOpen(u)
      <4>1. due[u] = 0 /\ fresh[u] = 0
        BY <2>1
      <4>2. 0 = 0 + 0 + 0
        OBVIOUS
      <4>3. QED
        BY <4>1, <4>2, <3>4, <3>5, Zenon
    <3>7. QED
      BY <3>1, <3>6 DEF Paid
  <2>3. QED
    BY <2>2, PaidIs DEF BillInv, Counting, Unless
<1>8. QED
  BY <1>4, <1>5, <1>6, <1>7 DEF IInv

LEMMA Inductive == IInv /\ [Next]_vars => IInv'
<1> SUFFICES ASSUME IInv, [Next]_vars PROVE IInv'
  OBVIOUS
<1>1. Shapes /\ Owned /\ AppInv /\ BeanInv /\ BillInv
  BY DEF IInv, AppInv
<1>2. CASE Next
  <2>1. Shapes'
    BY <1>1, <1>2, ShapesAside, ContainerShapes, HandleShapes, ApplyingShapes, RestartingShapes
       DEF Next, Asking, GetRequest, AskMaster, worker_vars, app_vars
  <2>2. QED
    BY <1>1, <1>2, <2>1, AppStep, BeanStep, BillStep DEF IInv
<1>3. CASE UNCHANGED vars
  <2>1. UNCHANGED <<fresh, bytes, net_last, proc, lock, beans, due, app_vars, mishap>>
    BY <1>3 DEF vars, worker_vars
  <2>2. Shapes' /\ AppInv' /\ BillInv'
    BY <1>1, <2>1, ShapesAside, AppAside, BillAside DEF app_vars
  <2>3. BeanInv'
    BY <1>1, <2>1, BeanAside DEF app_vars
  <2>4. QED
    BY <2>2, <2>3 DEF IInv
<1>4. QED
  BY <1>2, <1>3

\* The inductive invariant holds in every reachable state: each bill is one, and
\* each writer of beans has the lock.
THEOREM BeansCorrect == Spec => []IInv
BY Initially, Inductive, PTL DEF Spec

\* Nobody writes beans computed from beans that have changed since.
THEOREM BeansFresh == Spec => []FreshBeans
<1>1. IInv => FreshBeans
  BY DEF IInv, BeanInv
<1>2. QED
  BY <1>1, BeansCorrect, PTL

\* An application is granted once if it is agreed, and else never.
THEOREM BeansGrantedOnce == Spec => []GrantedOnce
<1>1. IInv => GrantedOnce
  BY DEF IInv, AppInv
<1>2. QED
  BY <1>1, BeansCorrect, PTL

\* What was used and is not debited is known to someone, once.
THEOREM BeansPaidOnce == Spec => []PaidOnce
<1>1. IInv => PaidOnce
  BY DEF IInv, BillInv
<1>2. QED
  BY <1>1, BeansCorrect, PTL
=============================================================================
