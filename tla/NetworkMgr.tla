----------------------------- MODULE NetworkMgr -----------------------------
(***************************************************************************)
(* The network manager of the master (src/src/master/network.py): a center *)
(* pool of address blocks, and for each user a block with a pool of its    *)
(* addresses. Everything is kept in etcd. An operation on a user's pool    *)
(* loads it into self.users, works on it there, writes it back and forgets *)
(* it; the center pool stays in memory and is written after each change.   *)
(* Only add_user and del_user take a lock, user_locks.                     *)
(*                                                                         *)
(* The callers (src/src/master/vclustermgr.py) hold a lock per user during *)
(* a request, so that there is one request of a user at a time; but the    *)
(* thread that recovers clusters on a node that came back does not take    *)
(* it. Each access to etcd is a step, and the master may be restarted      *)
(* between any two.                                                        *)
(*                                                                         *)
(* Left out: the hosts of the gateways, VLANs (commented out in the code), *)
(* and what the system pool gives out, which nobody asks for.              *)
(***************************************************************************)
EXTENDS IntervalPool, SequencesExt

CONSTANTS
  User,       \* user names
  SysLevel,   \* 32 - 27, the block the system pool takes at the start
  UserLevel,  \* the levels a user's block may have
  MaxHeld,    \* bound: addresses a user holds
  MaxRecover, \* bound: recoveries of a user's cluster
  MaxCrash    \* bound: restarts of the master

ASSUME NetworkAssumption ==
  /\ SysLevel \in Level /\ UserLevel \subseteq Level \ {0}
  /\ MaxHeld \in Nat /\ MaxRecover \in Nat /\ MaxCrash \in Nat

VARIABLES
  center,      \* self.center
  etcd_center, \* network/center
  users,       \* self.users: <<>>, or <<pool>> of a user
  etcd_users,  \* network/users/<user>, likewise; a pool has start, level and free addresses
  user_locks,  \* the users whose add_user or del_user holds the lock
  request,     \* the request of each user in progress
  recovery,    \* the thread that recovers clusters
  held,        \* the addresses of a user's containers
  crossed,     \* users a request and a recovery of whom worked on users at a time
  torn,        \* a restart cut del_user between its two writes
  used         \* counters the bounds apply to

center_vars == <<center, etcd_center>>
user_vars == <<users, etcd_users>>
ghost_vars == <<crossed, torn, used>>
vars == <<center, etcd_center, users, etcd_users, user_locks, request, recovery, held,
          crossed, torn, used>>

-----------------------------------------------------------------------------
(* Data.                                                                   *)

\* Neither the first address of the block, nor the last, nor the gateway.
InRange(p, ip) == p.start + 2 <= ip /\ ip <= p.start + 2^p.level - 2

NewPool(a, l) ==
  [start |-> a, level |-> l,
   pool |-> [i \in 1 .. (IF 2^l > 3 THEN 2^l - 3 ELSE 0) |-> a + 1 + i]]

Usable(p) == {ip \in Block(p.start, p.level) : InRange(p, ip)}

\* EnumPool.acquire: nothing, or num addresses from the end.
Acquired(p, num) ==
  LET n == Len(p.pool)
  IN IF num > n THEN <<>> ELSE Reverse(SubSeq(p.pool, n - num + 1, n))
\* Mutant: one of the addresses stays in the pool.
AfterAcquire_mutant(p, num) ==
  LET n == Len(p.pool)
  IN IF num > n THEN p ELSE [p EXCEPT !.pool = SubSeq(@, 1, n - num + 1)]
AfterAcquire(p, num) ==
  LET n == Len(p.pool)
  IN IF num > n THEN p ELSE [p EXCEPT !.pool = SubSeq(@, 1, n - num)]

\* The elements of a sequence at the places in I, in their order.
Picked(s, I) == [i \in 1 .. Cardinality(I) |-> s[SetToSortSeq(I, <)[i]]]

\* EnumPool.release: all addresses of a list or, if one is free or out of range, none.
\* Mutant: only the first of them.
AfterRelease_mutant(p, ips) ==
  IF Head(ips) \notin ToSet(p.pool) /\ InRange(p, Head(ips))
  THEN [p EXCEPT !.pool = Append(@, Head(ips))] ELSE p
AfterRelease(p, ips) ==
  IF \A ip \in ToSet(ips) : ip \notin ToSet(p.pool) /\ InRange(p, ip)
  THEN [p EXCEPT !.pool = @ \o ips] ELSE p

\* The operations of a request that work on the user's pool. get_usergw stands for all
\* that load and dump the pool as it is: get_usergw_cidr and setup_usrgw, too.
PoolOp == {"acquire_userips", "release_userips", "get_usergw"}

Idle == [op |-> "none"]

\* The thread _watchrecovering, in check_usergw; dead after an exception.
NoRecovery == [pc |-> "idle"]
DeadRecovery == [pc |-> "dead"]

Recovering(u) == recovery.pc \in {"read", "forget"} /\ recovery.user = u

-----------------------------------------------------------------------------
\* NetworkMgr in mode 'new'.
Init ==
  /\ center = Allocate(WholePool, SysLevel) /\ etcd_center = center
  /\ users = [u \in User |-> <<>>] /\ etcd_users = users
  /\ user_locks = {}
  /\ request = [u \in User |-> Idle] /\ recovery = NoRecovery
  /\ held = [u \in User |-> <<>>]
  /\ crossed = {} /\ torn = FALSE /\ used = [recover |-> 0, crash |-> 0]

\* A request of u puts pool p into self.users.
Enter(u, p) ==
  /\ users' = [users EXCEPT ![u] = <<p>>]
  /\ crossed' = IF Recovering(u) THEN crossed \cup {u} ELSE crossed

Leave(u) == users' = [users EXCEPT ![u] = <<>>]

Goto(u, pc) == request' = [request EXCEPT ![u].pc = pc]
Return(u) == request' = [request EXCEPT ![u] = Idle]

\* The step of u's request at pc, which needs self.users[u]: without it KeyError comes
\* out, and add_user and del_user give the lock back.
At(u, op, pc) == request[u].op = op /\ request[u].pc = pc
Present(u) == users[u] # <<>>

KeyError(u) ==
  /\ \/ \E op \in PoolOp, pc \in {"change", "dump", "forget"} : At(u, op, pc)
     \/ \E pc \in {"dump", "forget"} : At(u, "add_user", pc)
     \/ \E pc \in {"free", "forget"} : At(u, "del_user", pc)
  /\ ~Present(u)
  /\ Return(u)
  /\ user_locks' = user_locks \ {u}
  /\ UNCHANGED <<center_vars, user_vars, recovery, held, ghost_vars>>

LockFree == user_locks = {}

\* Mutant: the center pool is only changed in memory.
DumpCenter_mutant == UNCHANGED etcd_center
DumpCenter == etcd_center' = center

-----------------------------------------------------------------------------
(* add_user.                                                               *)

\* Under the lock a block is allocated; without one, or for a user who has one,
\* nothing changes.
AddUser(u) ==
  /\ request[u] = Idle /\ LockFree /\ etcd_users[u] = <<>>
  /\ \E l \in UserLevel :
       /\ CanServe(center, l) # {}
       /\ center' = Allocate(center, l)
       /\ request' = [request EXCEPT ![u] =
            [op |-> "add_user", pc |-> "dump_center", start |-> Allocated(center, l),
             level |-> l]]
  /\ user_locks' = user_locks \cup {u}
  /\ UNCHANGED <<etcd_center, user_vars, recovery, held, ghost_vars>>

AddDumpCenter(u) ==
  /\ At(u, "add_user", "dump_center") /\ Goto(u, "make")
  /\ DumpCenter
  /\ UNCHANGED <<center, user_vars, user_locks, recovery, held, ghost_vars>>

AddMake(u) ==
  /\ At(u, "add_user", "make") /\ Goto(u, "dump")
  /\ Enter(u, NewPool(request[u].start, request[u].level))
  /\ UNCHANGED <<center_vars, etcd_users, user_locks, recovery, held, torn, used>>

AddDump(u) ==
  /\ At(u, "add_user", "dump") /\ Present(u) /\ Goto(u, "forget")
  /\ etcd_users' = [etcd_users EXCEPT ![u] = users[u]]
  /\ UNCHANGED <<center_vars, users, user_locks, recovery, held, ghost_vars>>

AddForget(u) ==
  /\ At(u, "add_user", "forget") /\ Present(u) /\ Leave(u) /\ Return(u)
  /\ user_locks' = user_locks \ {u}
  /\ UNCHANGED <<center_vars, etcd_users, recovery, held, ghost_vars>>

-----------------------------------------------------------------------------
(* del_user, called when the user has no cluster left.                     *)

DelUser(u) ==
  /\ request[u] = Idle /\ LockFree /\ etcd_users[u] # <<>> /\ held[u] = <<>>
  /\ Enter(u, etcd_users[u][1])
  /\ request' = [request EXCEPT ![u] = [op |-> "del_user", pc |-> "free"]]
  /\ user_locks' = user_locks \cup {u}
  /\ UNCHANGED <<center_vars, etcd_users, recovery, held, torn, used>>

\* Nobody looks whether center.free refused.
DelFree(u) ==
  /\ At(u, "del_user", "free") /\ Present(u) /\ Goto(u, "dump_center")
  /\ LET p == users[u][1]
     IN center' = IF Overlap(center, p.start, p.level) THEN center
                  ELSE Free(center, p.start, p.level)
  /\ UNCHANGED <<etcd_center, user_vars, user_locks, recovery, held, ghost_vars>>

DelDumpCenter(u) ==
  /\ At(u, "del_user", "dump_center") /\ Goto(u, "deldir")
  /\ DumpCenter
  /\ UNCHANGED <<center, user_vars, user_locks, recovery, held, ghost_vars>>

DelDir(u) ==
  /\ At(u, "del_user", "deldir") /\ Goto(u, "forget")
  /\ etcd_users' = [etcd_users EXCEPT ![u] = <<>>]
  /\ UNCHANGED <<center_vars, users, user_locks, recovery, held, ghost_vars>>

DelForget(u) ==
  /\ At(u, "del_user", "forget") /\ Present(u) /\ Leave(u) /\ Return(u)
  /\ user_locks' = user_locks \ {u}
  /\ UNCHANGED <<center_vars, etcd_users, recovery, held, ghost_vars>>

-----------------------------------------------------------------------------
(* Requests that work on the user's pool.                                  *)

\* The pool is loaded. Addresses to release (of one container or of a whole cluster) are
\* no longer the caller's from now on.
LoadUser(u) ==
  /\ request[u] = Idle /\ etcd_users[u] # <<>>
  /\ Enter(u, etcd_users[u][1])
  /\ \E op \in PoolOp, num \in 0 .. MaxHeld, rel \in SUBSET DOMAIN held[u] :
       /\ op = "acquire_userips" <=> num > 0
       /\ op = "release_userips" <=> rel # {}
       /\ num + Len(held[u]) <= MaxHeld
       /\ request' = [request EXCEPT ![u] =
            [op |-> op, pc |-> "change", num |-> num, ips |-> Picked(held[u], rel)]]
       /\ held' = [held EXCEPT ![u] = Picked(@, DOMAIN @ \ rel)]
  /\ UNCHANGED <<center_vars, etcd_users, user_locks, recovery, torn, used>>

Change(u) ==
  /\ Present(u)
  /\ LET r == request[u]
         p == users[u][1]
     IN \/ /\ At(u, "acquire_userips", "change")
           /\ users' = [users EXCEPT ![u] = <<AfterAcquire(p, r.num)>>]
           /\ request' = [request EXCEPT ![u].pc = "dump", ![u].ips = Acquired(p, r.num)]
        \/ /\ At(u, "release_userips", "change")
           /\ users' = [users EXCEPT ![u] = <<AfterRelease(p, r.ips)>>]
           /\ Goto(u, "dump")
        \/ /\ At(u, "get_usergw", "change") /\ Goto(u, "dump")
           /\ UNCHANGED users
  /\ UNCHANGED <<center_vars, etcd_users, user_locks, recovery, held, ghost_vars>>

DumpUser(u) ==
  /\ request[u].op \in PoolOp /\ request[u].pc = "dump" /\ Present(u) /\ Goto(u, "forget")
  /\ etcd_users' = [etcd_users EXCEPT ![u] = users[u]]
  /\ UNCHANGED <<center_vars, users, user_locks, recovery, held, ghost_vars>>

\* The entry is deleted, and the caller told the addresses it has got.
ForgetUser(u) ==
  /\ request[u].op \in PoolOp /\ request[u].pc = "forget" /\ Present(u)
  /\ Leave(u) /\ Return(u)
  /\ held' = IF request[u].op = "acquire_userips"
             THEN [held EXCEPT ![u] = @ \o request[u].ips] ELSE held
  /\ UNCHANGED <<center_vars, etcd_users, user_locks, recovery, ghost_vars>>

-----------------------------------------------------------------------------
(* check_usergw, called by the thread that recovers clusters.              *)

CheckUserGw(u) ==
  /\ recovery.pc = "idle" /\ used.recover < MaxRecover /\ etcd_users[u] # <<>>
  /\ recovery' = [pc |-> "load", user |-> u]
  /\ used' = [used EXCEPT !.recover = @ + 1]
  /\ UNCHANGED <<center_vars, user_vars, user_locks, request, held, crossed, torn>>

\* The pool is loaded, into the entry a request may be working on.
RecoveryLoad ==
  /\ recovery.pc = "load" /\ etcd_users[recovery.user] # <<>>
  /\ users' = [users EXCEPT ![recovery.user] = etcd_users[recovery.user]]
  /\ crossed' = IF request[recovery.user] # Idle THEN crossed \cup {recovery.user}
                ELSE crossed
  /\ recovery' = [recovery EXCEPT !.pc = "read"]
  /\ UNCHANGED <<center_vars, etcd_users, user_locks, request, held, torn, used>>

RecoveryRead ==
  /\ recovery.pc = "read" /\ Present(recovery.user)
  /\ recovery' = [recovery EXCEPT !.pc = "forget"]
  /\ UNCHANGED <<center_vars, user_vars, user_locks, request, held, ghost_vars>>

RecoveryForget ==
  /\ recovery.pc = "forget" /\ Present(recovery.user)
  /\ Leave(recovery.user) /\ recovery' = NoRecovery
  /\ UNCHANGED <<center_vars, etcd_users, user_locks, request, held, ghost_vars>>

\* The user left etcd, or the entry the dictionary: nothing catches the exception.
RecoveryDies ==
  /\ \/ recovery.pc = "load" /\ etcd_users[recovery.user] = <<>>
     \/ recovery.pc \in {"read", "forget"} /\ ~Present(recovery.user)
  /\ recovery' = DeadRecovery
  /\ UNCHANGED <<center_vars, user_vars, user_locks, request, held, ghost_vars>>

-----------------------------------------------------------------------------
\* A restart in mode 'recovery': etcd, and what the callers have stored, is left.
Crash ==
  /\ used.crash < MaxCrash
  /\ used' = [used EXCEPT !.crash = @ + 1]
  /\ center' = etcd_center
  /\ users' = [u \in User |-> <<>>]
  /\ user_locks' = {}
  /\ torn' = (torn \/ \E u \in User : At(u, "del_user", "deldir"))
  /\ request' = [u \in User |-> Idle] /\ recovery' = NoRecovery
  /\ UNCHANGED <<etcd_center, etcd_users, held, crossed>>

Adding(u) == AddUser(u) \/ AddDumpCenter(u) \/ AddMake(u) \/ AddDump(u) \/ AddForget(u)
Deleting(u) ==
  DelUser(u) \/ DelFree(u) \/ DelDumpCenter(u) \/ DelDir(u) \/ DelForget(u)
Using(u) == LoadUser(u) \/ Change(u) \/ DumpUser(u) \/ ForgetUser(u)
Recovers == RecoveryLoad \/ RecoveryRead \/ RecoveryForget \/ RecoveryDies

Next ==
  \/ \E u \in User : Adding(u) \/ Deleting(u) \/ Using(u) \/ KeyError(u) \/ CheckUserGw(u)
  \/ Recovers
  \/ Crash

Spec == Init /\ [][Next]_vars

-----------------------------------------------------------------------------
(* Properties.                                                             *)

UserBlock(u) ==
  IF etcd_users[u] = <<>> THEN {} ELSE Block(etcd_users[u][1].start, etcd_users[u][1].level)

\* No two users have a block in common, and none has free or system addresses in its
\* block but while it is being deleted: whatever requests and recoveries cross and
\* wherever the master stops, unless it does so inside del_user, between the two writes.
BlocksDisjoint ==
  ~torn =>
    \A u \in User :
      /\ UserBlock(u) \cap Block(0, SysLevel) = {}
      /\ ~At(u, "del_user", "deldir") => UserBlock(u) \cap FreeAddresses(etcd_center) = {}
      /\ \A v \in User \ {u} : UserBlock(u) \cap UserBlock(v) = {}

\* An address is free once or held by one container, also after a restart in the middle
\* of an operation, unless a recovery crossed a request of the user.
AddressOnce ==
  \A u \in User \ crossed : etcd_users[u] # <<>> =>
    LET p == etcd_users[u][1]
        all == p.pool \o held[u]
    IN IsInjective(all) /\ ToSet(all) \subseteq Usable(p)

\* As long as the master does not stop and no recovery crosses a request, no block and
\* no address gets lost. And free blocks never stay unmerged, so that a request is
\* refused only if no whole block of its size is free.
NothingLost ==
  /\ used.crash = 0 /\ crossed = {} =>
       /\ user_locks = {} =>
            FreeAddresses(center) =
              Address \ (Block(0, SysLevel) \cup UNION {UserBlock(u) : u \in User})
       /\ \A u \in User : request[u] = Idle /\ etcd_users[u] # <<>> =>
            ToSet(etcd_users[u][1].pool \o held[u]) = Usable(etcd_users[u][1])
  /\ \A l \in Level \ {Width} : \A a \in center[l] : Buddy(a, l) \notin center[l]

\* The center pool in etcd is a space of aligned blocks.
Space == INSTANCE BlockSpace WITH free <- FreeAddresses(etcd_center)
CenterIsSpace == Space!Spec

=============================================================================
