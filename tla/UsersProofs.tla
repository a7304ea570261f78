----------------------------- MODULE UsersProofs -----------------------------
(***************************************************************************)
(* Proofs about Users.tla, for any threads, users, groups and bounds: the  *)
(* named locks keep the handlers apart (LocksFree), so that what a handler *)
(* is going to write comes from what is stored now (FreshCopies). Who      *)
(* changes an account (AccountKept) or looks at notifications (PairOnce)   *)
(* holds no lock: there the invariants say what a handler on its way may   *)
(* assume of the rows.                                                     *)
(*                                                                         *)
(* The steps are of a few kinds - a request begins, its handler goes on,   *)
(* replies, or raises - and there is one lemma for each kind.              *)
(***************************************************************************)
EXTENDS Users, TLAPS

Record(r) == r = [op |-> r.op, u |-> r.u, g |-> r.g, at |-> r.at, copy |-> r.copy]

\* What handlers do where, and for whom.
Coherent(r) ==
  /\ r.at = "wait" => Locked(r.op)
  /\ r.at \in {"open", "write", "open info", "write info", "read info"} => r.op \in FileOps
  /\ r.op \in UsageOps \union {"login"} => r.u \in User

Shapes ==
  /\ h = [t \in Thread |-> h[t]]
  /\ lock = [l \in Lock |-> lock[l]]
  /\ usage = [u \in User |-> usage[u]] /\ fails = [u \in User |-> fails[u]]
  /\ \A t \in Thread : Record(h[t]) /\ Coherent(h[t])

\* A handler that is past its acquire has the lock. So two that are past it
\* do not have the same one.
Holds == \A t \in Thread : Locked(h[t].op) /\ h[t].at # "wait" => lock[LockOf(h[t])] = t

\* Logins hold no lock; two of a user at a time are a mishap.
LoginsApart ==
  "together" \notin mishap =>
    \A s, t \in Thread : h[s].op = "login" /\ h[t].op = "login" /\ h[s].u = h[t].u => s = t

IInv == Shapes /\ Holds /\ LoginsApart /\ LocksFree /\ FreshCopies

-----------------------------------------------------------------------------
(* Records, requests and locks.                                            *)

\* What the changes of a handler's record come to.
LEMMA ExceptAt ==
  ASSUME NEW r, Record(r), NEW a
  PROVE  [r EXCEPT !.at = a] = [op |-> r.op, u |-> r.u, g |-> r.g, at |-> a, copy |-> r.copy]
<1> DEFINE q == [op |-> r.op, u |-> r.u, g |-> r.g, at |-> r.at, copy |-> r.copy]
<1>1. r = q
  BY DEF Record
<1>2. [q EXCEPT !.at = a] = [op |-> r.op, u |-> r.u, g |-> r.g, at |-> a, copy |-> r.copy]
  OBVIOUS
<1>3. [r EXCEPT !.at = a] = [q EXCEPT !.at = a]
  BY <1>1, Zenon
<1>4. QED
  BY <1>2, <1>3, Zenon

LEMMA ExceptAtCopy ==
  ASSUME NEW r, Record(r), NEW a, NEW c
  PROVE  [r EXCEPT !.at = a, !.copy = c] = [op |-> r.op, u |-> r.u, g |-> r.g, at |-> a, copy |-> c]
<1> DEFINE q == [op |-> r.op, u |-> r.u, g |-> r.g, at |-> r.at, copy |-> r.copy]
<1>1. r = q
  BY DEF Record
<1> DEFINE p == [op |-> r.op, u |-> r.u, g |-> r.g, at |-> a, copy |-> r.copy]
<1>2. [q EXCEPT !.at = a, !.copy = c] = [op |-> r.op, u |-> r.u, g |-> r.g, at |-> a, copy |-> c]
  <2>1. [q EXCEPT !.at = a, !.copy = c] = [[q EXCEPT !.at = a] EXCEPT !.copy = c]
    OBVIOUS
  <2>2. [q EXCEPT !.at = a] = p
    OBVIOUS
  <2>3. [p EXCEPT !.copy = c] = [op |-> r.op, u |-> r.u, g |-> r.g, at |-> a, copy |-> c]
    OBVIOUS
  <2>4. QED
    BY <2>1, <2>2, <2>3, Zenon
<1>3. [r EXCEPT !.at = a, !.copy = c] = [q EXCEPT !.at = a, !.copy = c]
  BY <1>1, Zenon
<1>4. QED
  BY <1>2, <1>3, Zenon

\* The lock of a handler is one of the locks.
LEMMA LockExists ==
  ASSUME NEW r, Coherent(r) PROVE LockOf(r) \in Lock
BY DEF Coherent, LockOf, Lock, UsageOps, FileOps, NoUser

\* Which locks there are is a matter of the operation and the user.
LEMMA SameLock ==
  ASSUME NEW r, NEW q, r.op = q.op, r.u = q.u
  PROVE  LockOf(r) = LockOf(q)
BY DEF LockOf

\* An idle thread needs no lock and has no copy.
LEMMA IdleFacts ==
  /\ Record(Idle) /\ Coherent(Idle) /\ ~Locked(Idle.op) /\ Idle.at # "wait"
  /\ Idle.op \notin FileOps /\ Idle.op \notin UsageOps /\ Idle.op # "login"
BY DEF Idle, Record, Coherent, Locked, FileOps, UsageOps, NoteOps

\* No two handlers of the files, and no two of a user's usage, are past acquire.
LEMMA Exclusion ==
  ASSUME IInv, NEW s \in Thread, NEW t \in Thread,
         h[s].at # "wait", h[t].at # "wait",
         \/ h[s].op \in FileOps /\ h[t].op \in FileOps
         \/ h[s].op \in UsageOps /\ h[t].op \in UsageOps /\ h[s].u = h[t].u
  PROVE  s = t
<1>1. Locked(h[s].op) /\ Locked(h[t].op)
  BY DEF Locked
<1>2. LockOf(h[s]) = LockOf(h[t])
  BY DEF LockOf, FileOps, UsageOps
<1>3. QED
  BY <1>1, <1>2 DEF IInv, Holds

\* A request begins.
LEMMA Started ==
  ASSUME IInv, NEW t \in Thread, NEW op, NEW u, NEW g,
         Begin(t, op, u, g), UNCHANGED <<lock, stored>>, mishap \subseteq mishap',
         op \in UsageOps \union {"login"} => u \in User,
         op = "login" /\ Busy(u, {"login"}) => "together" \in mishap'
  PROVE  IInv'
<1> DEFINE r == [op |-> op, u |-> u, g |-> g, copy |-> 0,
                 at |-> IF Locked(op) THEN "wait" ELSE "read"]
<1>1. h[t] = Idle /\ h' = [h EXCEPT ![t] = r]
  BY DEF Begin, Become
<1>2. /\ h'[t] = r
      /\ \A s \in Thread \ {t} : h'[s] = h[s]
      /\ h' = [s \in Thread |-> h'[s]]
  BY <1>1 DEF IInv, Shapes
<1>3. Record(r) /\ Coherent(r) /\ r.at \in {"wait", "read"}
  BY DEF Record, Coherent, Locked
<1>4. Shapes'
  BY <1>2, <1>3 DEF IInv, Shapes, stored
<1>5. Holds'
  <2>1. SUFFICES ASSUME NEW s \in Thread, Locked(h'[s].op), h'[s].at # "wait"
                 PROVE  lock[LockOf(h'[s])] = s
    BY DEF Holds
  <2>2. s # t
    BY <1>2, <2>1
  <2>3. QED
    BY <1>2, <2>1, <2>2 DEF IInv, Holds
<1>6. LoginsApart'
  BY <1>2 DEF IInv, LoginsApart, Busy
<1>7. LocksFree'
  BY <1>1, <1>2, IdleFacts DEF IInv, LocksFree, Unless
<1>8. FreshCopies'
  <2>1. SUFFICES ASSUME NEW s \in Thread PROVE Copies(h[s])'
    BY DEF FreshCopies
  <2>2. CASE s = t
    BY <1>2, <1>3, <2>2 DEF Copies
  <2>3. CASE s # t
    <3>1. Copies(h[s]) /\ h'[s] = h[s]
      BY <1>2, <2>3 DEF IInv, FreshCopies
    <3>2. QED
      BY <3>1 DEF Copies, Unless, stored
  <2>4. QED
    BY <2>2, <2>3
<1>9. QED
  BY <1>4, <1>5, <1>6, <1>7, <1>8 DEF IInv

\* A handler goes on; the file it has written is one that others leave alone.
LEMMA Moved ==
  ASSUME IInv, NEW t \in Thread, NEW r, Become(t, r),
         UNCHANGED <<lock, usage, fails>>, mishap \subseteq mishap',
         Record(r), Coherent(r), Copies(r)',
         r.op = h[t].op, r.u = h[t].u, r.at # "wait", h[t].at # "wait",
         file' # file => h[t].op \in FileOps
  PROVE  IInv'
<1>1. /\ h'[t] = r
      /\ \A s \in Thread \ {t} : h'[s] = h[s]
      /\ h' = [s \in Thread |-> h'[s]]
  BY DEF IInv, Shapes, Become
<1>2. Shapes'
  BY <1>1 DEF IInv, Shapes
<1>3. LockOf(r) = LockOf(h[t])
  BY SameLock
<1>4. Holds'
  BY <1>1, <1>3 DEF IInv, Holds
<1>5. LoginsApart'
  BY <1>1 DEF IInv, LoginsApart
<1>6. LocksFree'
  BY <1>1, <1>3 DEF IInv, LocksFree, Unless
<1>7. FreshCopies'
  <2>1. SUFFICES ASSUME NEW s \in Thread, s # t PROVE Copies(h[s])'
    BY <1>1 DEF FreshCopies, Copies
  <2>2. Copies(h[s]) /\ h'[s] = h[s] /\ Coherent(h[s])
    BY <1>1, <2>1 DEF IInv, FreshCopies, Shapes
  <2>3. file' = file \/ h[s].op \notin FileOps \/ h[s].at = "wait"
    BY <2>1, Exclusion
  <2>4. QED
    BY <2>2, <2>3 DEF Copies, Unless
<1>8. QED
  BY <1>2, <1>4, <1>5, <1>6, <1>7 DEF IInv

\* A handler ends with a reply, having written what is its own.
LEMMA Replied ==
  ASSUME IInv, NEW t \in Thread, Reply(t), mishap \subseteq mishap', h[t].at # "wait",
         file' # file => h[t].op \in FileOps,
         usage' = [u \in User |-> usage'[u]], fails' = [u \in User |-> fails'[u]],
         \A u \in User : usage'[u] # usage[u] => h[t].op \in UsageOps /\ h[t].u = u,
         \A u \in User : fails'[u] # fails[u] => h[t].op = "login" /\ h[t].u = u
  PROVE  IInv'
<1>1. /\ h'[t] = Idle
      /\ \A s \in Thread \ {t} : h'[s] = h[s]
      /\ h' = [s \in Thread |-> h'[s]]
  BY DEF IInv, Shapes, Reply, Become
<1>2. lock' = [l \in Lock |-> IF lock[l] = t THEN Free ELSE lock[l]]
  BY DEF Reply
<1>3. Shapes'
  BY <1>1, <1>2, IdleFacts DEF IInv, Shapes
<1>4. Holds'
  <2>1. SUFFICES ASSUME NEW s \in Thread, Locked(h'[s].op), h'[s].at # "wait"
                 PROVE  lock'[LockOf(h'[s])] = s
    BY DEF Holds
  <2>2. s # t
    BY <1>1, <2>1, IdleFacts
  <2>3. h'[s] = h[s] /\ LockOf(h[s]) \in Lock
    BY <1>1, <2>2, LockExists DEF IInv, Shapes
  <2>4. lock[LockOf(h[s])] = s
    BY <2>1, <2>3 DEF IInv, Holds
  <2>5. QED
    BY <1>2, <2>2, <2>3, <2>4
<1>5. LoginsApart'
  BY <1>1, IdleFacts DEF IInv, LoginsApart
<1>6. LocksFree'
  BY <1>1, <1>2 DEF IInv, LocksFree, Unless
<1>7. FreshCopies'
  <2>1. SUFFICES ASSUME NEW s \in Thread, s # t PROVE Copies(h[s])'
    BY <1>1, IdleFacts DEF FreshCopies, Copies
  <2>2. Copies(h[s]) /\ h'[s] = h[s] /\ Coherent(h[s])
    BY <1>1, <2>1 DEF IInv, FreshCopies, Shapes
  <2>3. file' = file \/ h[s].op \notin FileOps \/ h[s].at = "wait"
    BY <2>1, Exclusion
  <2>4. h[s].op \in UsageOps /\ h[s].at = "commit" => usage'[h[s].u] = usage[h[s].u]
    BY <2>1, <2>2, Exclusion DEF Coherent
  <2>5. /\ h[s].op = "login"
        => "together" \in mishap' \/ fails'[h[s].u] = fails[h[s].u]
    BY <2>1, <2>2 DEF Coherent, IInv, LoginsApart
  <2>6. QED
    BY <2>2, <2>3, <2>4, <2>5 DEF Copies, Unless
<1>8. QED
  BY <1>3, <1>4, <1>5, <1>6, <1>7 DEF IInv

\* A handler raises: its lock stays taken, and that is a mishap.
LEMMA Raised ==
  ASSUME IInv, NEW t \in Thread, UNCHANGED stored,
         NEW cause \in {"torn", "gone", "number", "missing", "mail", "database", "halfway"},
         Raise(t, cause)
  PROVE  IInv'
<1>1. /\ h'[t] = Idle
      /\ \A s \in Thread \ {t} : h'[s] = h[s]
      /\ h' = [s \in Thread |-> h'[s]]
  BY DEF IInv, Shapes, Raise, Become
<1>2. /\ lock' = [l \in Lock |-> IF lock[l] = t THEN Leaked ELSE lock[l]]
      /\ mishap' = mishap \union {cause}
  BY DEF Raise
<1>3. Shapes'
  BY <1>1, <1>2, IdleFacts DEF IInv, Shapes, stored
<1>4. Holds'
  <2>1. SUFFICES ASSUME NEW s \in Thread, Locked(h'[s].op), h'[s].at # "wait"
                 PROVE  lock'[LockOf(h'[s])] = s
    BY DEF Holds
  <2>2. s # t
    BY <1>1, <2>1, IdleFacts
  <2>3. h'[s] = h[s] /\ LockOf(h[s]) \in Lock
    BY <1>1, <2>2, LockExists DEF IInv, Shapes
  <2>4. lock[LockOf(h[s])] = s
    BY <2>1, <2>3 DEF IInv, Holds
  <2>5. QED
    BY <1>2, <2>2, <2>3, <2>4
<1>5. LoginsApart'
  BY <1>1, <1>2, IdleFacts DEF IInv, LoginsApart
<1>6. LocksFree'
  BY <1>2 DEF LocksFree, Unless
<1>7. FreshCopies'
  <2>1. SUFFICES ASSUME NEW s \in Thread, s # t PROVE Copies(h[s])'
    BY <1>1, IdleFacts DEF FreshCopies, Copies
  <2>2. Copies(h[s]) /\ h'[s] = h[s]
    BY <1>1, <2>1 DEF IInv, FreshCopies
  <2>3. QED
    BY <1>2, <2>2 DEF Copies, Unless, stored
<1>8. QED
  BY <1>3, <1>4, <1>5, <1>6, <1>7 DEF IInv

\* A handler gets its lock.
LEMMA Acquired ==
  ASSUME IInv, NEW t \in Thread, Acquire(t) PROVE IInv'
<1> DEFINE r == [h[t] EXCEPT !.at = "read"]
<1> DEFINE l == LockOf(h[t])
<1>1. /\ h[t].at = "wait" /\ lock[l] = Free
      /\ lock' = [lock EXCEPT ![l] = t] /\ h' = [h EXCEPT ![t] = r]
      /\ UNCHANGED <<stored, mishap>>
  BY DEF Acquire, Become
<1>2. /\ h'[t] = r
      /\ \A s \in Thread \ {t} : h'[s] = h[s]
      /\ h' = [s \in Thread |-> h'[s]]
  BY <1>1 DEF IInv, Shapes
<1>3. /\ Record(r) /\ Coherent(r) /\ r.op = h[t].op /\ r.u = h[t].u /\ r.at = "read"
      /\ Locked(r.op)
  <2>1. Record(h[t]) /\ Coherent(h[t])
    BY DEF IInv, Shapes
  <2>2. r = [op |-> h[t].op, u |-> h[t].u, g |-> h[t].g, at |-> "read", copy |-> h[t].copy]
    BY <2>1, ExceptAt, Zenon
  <2> HIDE DEF r
  <2>3. QED
    BY <1>1, <2>1, <2>2 DEF Record, Coherent
<1> HIDE DEF r
<1>4. LockOf(r) = l /\ l \in Lock
  BY <1>3, SameLock, LockExists DEF IInv, Shapes
<1>5. Shapes'
  BY <1>1, <1>2, <1>3 DEF IInv, Shapes, stored
<1>6. Holds'
  <2>1. SUFFICES ASSUME NEW s \in Thread, Locked(h'[s].op), h'[s].at # "wait"
                 PROVE  lock'[LockOf(h'[s])] = s
    BY DEF Holds
  <2>2. CASE s = t
    BY <1>1, <1>2, <1>4, <2>2 DEF IInv, Shapes
  <2>3. CASE s # t
    <3>1. h'[s] = h[s] /\ LockOf(h[s]) \in Lock
      BY <1>2, <2>3, LockExists DEF IInv, Shapes
    <3>2. lock[LockOf(h[s])] = s
      BY <2>1, <3>1 DEF IInv, Holds
    <3>3. LockOf(h[s]) # l
      BY <1>1, <3>2, UsersAssumption DEF Free
    <3>4. QED
      BY <1>1, <3>1, <3>2, <3>3 DEF IInv, Shapes
  <2>4. QED
    BY <2>2, <2>3
<1>7. LoginsApart'
  BY <1>1, <1>2, <1>3 DEF IInv, LoginsApart
<1>8. LocksFree'
  BY <1>1, <1>2, <1>3, <1>4 DEF IInv, Shapes, LocksFree, Unless
<1>9. FreshCopies'
  <2>1. SUFFICES ASSUME NEW s \in Thread PROVE Copies(h[s])'
    BY DEF FreshCopies
  <2>2. CASE s = t
    BY <1>2, <1>3, <2>2 DEF Copies
  <2>3. CASE s # t
    BY <1>1, <1>2, <2>3 DEF IInv, FreshCopies, Copies, Unless, stored
  <2>4. QED
    BY <2>2, <2>3
<1>10. QED
  BY <1>5, <1>6, <1>7, <1>8, <1>9 DEF IInv

-----------------------------------------------------------------------------
(* The steps, by kind.                                                     *)

LEMMA AskStep == ASSUME IInv, NEW t \in Thread, Ask(t) PROVE IInv'
<1>1. CASE FileRequest(t)
  BY <1>1, Started DEF FileRequest, FileOps, UsageOps
<1>2. CASE NoteRequest(t)
  BY <1>2, Started DEF NoteRequest, NoteOps, UsageOps
<1>3. ASSUME NEW u \in User, UsageRequest(t, u) PROVE IInv'
  BY <1>3, Started DEF UsageRequest, UsageOps
<1>4. ASSUME NEW u \in User, LoginRequest(t, u) PROVE IInv'
  BY <1>4, Started DEF LoginRequest
<1>5. ASSUME NEW u \in User, AccountRequest(t, u) PROVE IInv'
  BY <1>5, Started DEF AccountRequest, AccountOps, UsageOps
<1>6. ASSUME NEW u \in User, FirstLogin(t, u) PROVE IInv'
  BY <1>6, Started DEF FirstLogin, UsageOps
<1>7. ASSUME NEW u \in User, Look(t, u) PROVE IInv'
  BY <1>7, Started DEF Look, UsageOps
<1>8. QED
  BY <1>1, <1>2, <1>3, <1>4, <1>5, <1>6, <1>7 DEF Ask

\* A reply of a handler that has written nothing of what others copy.
LEMMA Answered ==
  ASSUME IInv, NEW t \in Thread, Reply(t), UNCHANGED stored, mishap \subseteq mishap',
         h[t].at # "wait"
  PROVE  IInv'
BY Replied DEF IInv, Shapes, stored

LEMMA FilesStep == ASSUME IInv, NEW t \in Thread, Files(t) PROVE IInv'
<1>1. Record(h[t]) /\ Coherent(h[t])
  BY DEF IInv, Shapes
<1>2. CASE ReadQuota(t)
  <2>1. h[t].at = "read" /\ h[t].op \in FileOps /\ UNCHANGED stored
    BY <1>2 DEF ReadQuota
  <2>2. CASE Raise(t, "torn") \/ Raise(t, "number")
    BY <2>1, <2>2, Raised
  <2>3. CASE Reply(t) /\ UNCHANGED mishap
    BY <2>1, <2>3, Answered
  <2>4. ASSUME NEW new, UNCHANGED <<lock, mishap>>,
               Become(t, [h[t] EXCEPT !.at = "open", !.copy = <<file.quota, new>>])
        PROVE  IInv'
    <3>0. PICK r : r = [h[t] EXCEPT !.at = "open", !.copy = <<file.quota, new>>]
      OBVIOUS
    <3>1. r = [op |-> h[t].op, u |-> h[t].u, g |-> h[t].g, at |-> "open",
               copy |-> <<file.quota, new>>]
      BY <1>1, <3>0, ExceptAtCopy, Zenon
    <3>2. Record(r) /\ Coherent(r)
      BY <1>1, <2>1, <3>1 DEF Record, Coherent
    <3>3. Copies(r)'
      BY <2>1, <3>1 DEF Copies, stored, UsageOps, FileOps
    <3>4. Become(t, r)
      BY <2>4, <3>0
    <3>5. QED
      BY <2>1, <2>4, <3>1, <3>2, <3>3, <3>4, Moved DEF stored
  <2>5. QED
    BY <1>2, <2>2, <2>3, <2>4 DEF ReadQuota
<1>3. CASE ReadInfo(t)
  <2>1. h[t].at \in {"read", "read info"} /\ h[t].op \in FileOps /\ UNCHANGED stored
    BY <1>3 DEF ReadInfo, At, FileOps
  <2>2. CASE Raise(t, "torn")
    BY <2>1, <2>2, Raised
  <2>3. CASE /\ UNCHANGED <<lock, mishap>>
             /\ Become(t, [h[t] EXCEPT !.at = "open info",
                                       !.copy = <<file.info, ChangedInfo(h[t], file.info)>>])
    <3> DEFINE c == <<file.info, ChangedInfo(h[t], file.info)>>
    <3>0. PICK r : r = [h[t] EXCEPT !.at = "open info", !.copy = c]
      OBVIOUS
    <3>1. c[1] = file.info
      OBVIOUS
    <3> HIDE DEF c
    <3>2. r = [op |-> h[t].op, u |-> h[t].u, g |-> h[t].g, at |-> "open info", copy |-> c]
      BY <1>1, <3>0, ExceptAtCopy, Zenon
    <3>3. Record(r) /\ Coherent(r)
      BY <1>1, <2>1, <3>2 DEF Record, Coherent
    <3>4. r.copy[1] = file'.info
      BY <2>1, <3>1, <3>2 DEF stored
    <3>5. Copies(r)'
      BY <2>1, <3>2, <3>4 DEF Copies, UsageOps, FileOps
    <3>6. Become(t, r)
      BY <2>3, <3>0 DEF c
    <3>7. QED
      BY <2>1, <2>3, <3>2, <3>3, <3>5, <3>6, Moved DEF stored
  <2>4. QED
    BY <1>3, <2>2, <2>3 DEF ReadInfo
<1>4. CASE Open(t)
  <2> DEFINE a == IF h[t].at = "open" THEN "write" ELSE "write info"
  <2>0. PICK r : r = [h[t] EXCEPT !.at = a]
    OBVIOUS
  <2>1. /\ h[t].at \in {"open", "open info"} /\ h[t].op \in FileOps
        /\ UNCHANGED <<lock, file, usage, fails, mishap>>
    BY <1>1, <1>4 DEF Open, Coherent
  <2>2. Become(t, r)
    <3>1. [h[t] EXCEPT !.at = IF @ = "open" THEN "write" ELSE "write info"] = r
      BY <2>0
    <3>2. QED
      BY <1>4, <3>1 DEF Open
  <2>3. r = [op |-> h[t].op, u |-> h[t].u, g |-> h[t].g, at |-> a, copy |-> h[t].copy]
    BY <1>1, <2>0, ExceptAt, Zenon
  <2>4. Record(r) /\ Coherent(r)
    BY <1>1, <2>1, <2>3 DEF Record, Coherent
  <2>5. Copies(h[t])
    BY DEF IInv, FreshCopies
  <2>6. Copies(r)'
    BY <2>1, <2>3, <2>5 DEF Copies, UsageOps, FileOps
  <2>7. QED
    BY <2>1, <2>2, <2>3, <2>4, <2>6, Moved
<1>5. CASE Write(t)
  <2>1. /\ h[t].at \in {"write", "write info"} /\ h[t].op \in FileOps
        /\ UNCHANGED <<usage, fails, mishap>>
    BY <1>1, <1>5 DEF Write, Coherent
  <2>2. CASE Reply(t)
    BY <2>1, <2>2, Replied DEF IInv, Shapes
  <2>3. CASE Become(t, [h[t] EXCEPT !.at = "read info", !.copy = 0]) /\ UNCHANGED lock
    <3>0. PICK r : r = [h[t] EXCEPT !.at = "read info", !.copy = 0]
      OBVIOUS
    <3>1. r = [op |-> h[t].op, u |-> h[t].u, g |-> h[t].g, at |-> "read info", copy |-> 0]
      BY <1>1, <3>0, ExceptAtCopy, Zenon
    <3>2. Record(r) /\ Coherent(r) /\ Copies(r)'
      BY <1>1, <2>1, <3>1 DEF Record, Coherent, Copies
    <3>3. Become(t, r)
      BY <2>3, <3>0
    <3>4. QED
      BY <2>1, <2>3, <3>1, <3>2, <3>3, Moved
  <2>4. QED
    BY <1>5, <2>2, <2>3 DEF Write
<1>6. QED
  BY <1>2, <1>3, <1>4, <1>5 DEF Files

LEMMA CountsStep == ASSUME IInv, NEW t \in Thread, Counts(t) PROVE IInv'
<1>1. Record(h[t]) /\ Coherent(h[t])
  BY DEF IInv, Shapes
<1>2. CASE ReadUsage(t)
  <2>1. h[t].at = "read" /\ h[t].op \in UsageOps /\ UNCHANGED stored
    BY <1>2 DEF ReadUsage
  <2>2. CASE Raise(t, "torn") \/ Raise(t, "gone") \/ Raise(t, "number")
    BY <2>1, <2>2, Raised
  <2>3. ASSUME NEW limit, UNCHANGED <<lock, mishap>>,
               Become(t, [h[t] EXCEPT !.at = "commit", !.copy = <<usage[h[t].u], limit>>])
        PROVE  IInv'
    <3>0. PICK r : r = [h[t] EXCEPT !.at = "commit", !.copy = <<usage[h[t].u], limit>>]
      OBVIOUS
    <3>1. r = [op |-> h[t].op, u |-> h[t].u, g |-> h[t].g, at |-> "commit",
               copy |-> <<usage[h[t].u], limit>>]
      BY <1>1, <3>0, ExceptAtCopy, Zenon
    <3>2. Record(r) /\ Coherent(r)
      BY <1>1, <2>1, <3>1 DEF Record, Coherent
    <3>3. Copies(r)'
      BY <2>1, <3>1 DEF Copies, stored, UsageOps, FileOps
    <3>4. Become(t, r)
      BY <2>3, <3>0
    <3>5. QED
      BY <2>1, <2>3, <3>1, <3>2, <3>3, <3>4, Moved DEF stored
  <2>4. QED
    BY <1>2, <2>2, <2>3, Zenon DEF ReadUsage
<1>3. CASE CommitUsage(t)
  <2>1. /\ h[t].at = "commit" /\ h[t].op \in UsageOps /\ Reply(t)
        /\ UNCHANGED <<file, fails, mishap>>
        /\ \E n : usage' = [usage EXCEPT ![h[t].u] = n]
    BY <1>3 DEF CommitUsage
  <2>2. /\ usage' = [u \in User |-> usage'[u]]
        /\ \A u \in User : usage'[u] # usage[u] => h[t].u = u
    BY <2>1 DEF IInv, Shapes
  <2>3. QED
    BY <2>1, <2>2, Replied DEF IInv, Shapes
<1>4. CASE ReadFailures(t)
  <2>1. h[t].at = "read" /\ h[t].op = "login" /\ UNCHANGED <<stored, mishap>>
    BY <1>4 DEF ReadFailures, At
  <2>2. CASE Reply(t)
    BY <2>1, <2>2, Answered
  <2>3. CASE /\ UNCHANGED lock
             /\ Become(t, [h[t] EXCEPT !.at = "commit", !.copy = fails[h[t].u]])
    <3>0. PICK r : r = [h[t] EXCEPT !.at = "commit", !.copy = fails[h[t].u]]
      OBVIOUS
    <3>1. r = [op |-> h[t].op, u |-> h[t].u, g |-> h[t].g, at |-> "commit",
               copy |-> fails[h[t].u]]
      BY <1>1, <3>0, ExceptAtCopy, Zenon
    <3>2. Record(r) /\ Coherent(r)
      BY <1>1, <2>1, <3>1 DEF Record, Coherent
    <3>3. Copies(r)'
      BY <2>1, <3>1 DEF Copies, Unless, stored, UsageOps, FileOps
    <3>4. Become(t, r)
      BY <2>3, <3>0
    <3>5. QED
      BY <2>1, <2>3, <3>1, <3>2, <3>3, <3>4, Moved DEF stored
  <2>4. QED
    BY <1>4, <2>2, <2>3 DEF ReadFailures
<1>5. CASE CommitLogin(t)
  <2>1. /\ h[t].at = "commit" /\ h[t].op = "login" /\ Reply(t)
        /\ UNCHANGED <<file, usage, mishap>>
        /\ \E n : fails' = [fails EXCEPT ![h[t].u] = n]
    BY <1>5 DEF CommitLogin, At
  <2>2. /\ fails' = [u \in User |-> fails'[u]]
        /\ \A u \in User : fails'[u] # fails[u] => h[t].u = u
    BY <2>1 DEF IInv, Shapes
  <2>3. QED
    BY <2>1, <2>2, Replied DEF IInv, Shapes
<1>6. QED
  BY <1>2, <1>3, <1>4, <1>5 DEF Counts

LEMMA AccountsStep == ASSUME IInv, NEW t \in Thread, Accounts(t) PROVE IInv'
<1>1. Record(h[t]) /\ Coherent(h[t])
  BY DEF IInv, Shapes
<1>2. h[t].op \in AccountOps /\ UNCHANGED stored /\ mishap \subseteq mishap'
  BY DEF Accounts, ReadAccount, DropAccount, AddAccount, CommitAccount, At, AccountOps
<1>3. h[t].op \notin FileOps \union UsageOps \union {"login"}
  BY <1>2 DEF AccountOps, FileOps, UsageOps
<1>4. h[t].at # "wait"
  BY DEF Accounts, ReadAccount, DropAccount, AddAccount, CommitAccount, At
<1>5. CASE Reply(t)
  BY <1>2, <1>4, <1>5, Answered
<1>6. ASSUME NEW at \in {"commit", "add", "drop"}, NEW c, UNCHANGED lock,
             Become(t, [h[t] EXCEPT !.at = at, !.copy = c])
      PROVE  IInv'
  <2>0. PICK r : r = [h[t] EXCEPT !.at = at, !.copy = c]
    OBVIOUS
  <2>1. r = [op |-> h[t].op, u |-> h[t].u, g |-> h[t].g, at |-> at, copy |-> c]
    BY <1>1, <2>0, ExceptAtCopy, Zenon
  <2>2. Record(r) /\ Coherent(r) /\ Copies(r)'
    BY <1>1, <1>3, <2>1 DEF Record, Coherent, Copies
  <2>3. Become(t, r)
    BY <1>6, <2>0
  <2>4. QED
    BY <1>2, <1>4, <1>6, <2>1, <2>2, <2>3, Moved DEF stored
<1>7. CASE ReadAccount(t)
  <2> DEFINE status == row[h[t].u].status
  <2>1. CASE h[t].op = "modify"
    BY <1>5, <1>6, <1>7, <2>1 DEF ReadAccount
  <2>2. CASE h[t].op # "modify" /\ status = "none"
    BY <1>5, <1>6, <1>7, <2>2 DEF ReadAccount
  <2>3. CASE h[t].op # "modify" /\ status # "none" /\ Replaceable(status)
    BY <1>5, <1>6, <1>7, <2>3 DEF ReadAccount
  <2>4. CASE h[t].op # "modify" /\ status # "none" /\ ~Replaceable(status)
    BY <1>5, <1>6, <1>7, <2>4 DEF ReadAccount
  <2>5. QED
    BY <2>1, <2>2, <2>3, <2>4
<1>8. CASE DropAccount(t)
  <2>0. PICK r : r = [h[t] EXCEPT !.at = "add"]
    OBVIOUS
  <2>1. Become(t, r) /\ UNCHANGED lock
    BY <1>8, <2>0 DEF DropAccount
  <2>2. r = [op |-> h[t].op, u |-> h[t].u, g |-> h[t].g, at |-> "add", copy |-> h[t].copy]
    BY <1>1, <2>0, ExceptAt, Zenon
  <2>3. Record(r) /\ Coherent(r) /\ Copies(r)'
    BY <1>1, <2>2 DEF Record, Coherent, Copies
  <2>4. QED
    BY <1>2, <1>4, <2>1, <2>2, <2>3, Moved DEF stored
<1>9. QED
  BY <1>5, <1>7, <1>8 DEF Accounts, AddAccount, CommitAccount

LEMMA NotesStep == ASSUME IInv, NEW t \in Thread, Notes(t) PROVE IInv'
<1>1. UNCHANGED stored /\ h[t].at # "wait"
  BY DEF Notes, CreateNote, CreateGroups, CreatePairs, ChangeNote, DeleteNote, DeletePairs, AddPair, At
<1>2. CASE Reply(t) /\ UNCHANGED mishap
  BY <1>1, <1>2, Answered
<1>3. CASE Raise(t, "mail") \/ Raise(t, "missing")
  BY <1>1, <1>3, Raised
<1>4. ASSUME NEW at \in {"groups", "pairs"}, UNCHANGED <<lock, mishap>>,
             Become(t, [h[t] EXCEPT !.at = at])
      PROVE  IInv'
  <2>0. PICK r : r = [h[t] EXCEPT !.at = at]
    OBVIOUS
  <2>1. Become(t, r)
    BY <1>4, <2>0
  <2>2. r = [op |-> h[t].op, u |-> h[t].u, g |-> h[t].g, at |-> at, copy |-> h[t].copy]
    BY <2>0, ExceptAt, Zenon DEF IInv, Shapes
  <2>3. Record(r) /\ Coherent(r) /\ Copies(r)'
    BY <2>2 DEF IInv, Shapes, Record, Coherent, Copies
  <2>4. QED
    BY <1>1, <1>4, <2>1, <2>2, <2>3, Moved DEF stored
<1>5. CASE CreateNote(t)
  BY <1>4, <1>5 DEF CreateNote
<1>6. CASE CreateGroups(t)
  BY <1>3, <1>4, <1>6 DEF CreateGroups, MailFails
<1>7. CASE CreatePairs(t) \/ DeletePairs(t) \/ AddPair(t)
  BY <1>2, <1>7 DEF CreatePairs, DeletePairs, AddPair
<1>8. CASE ChangeNote(t)
  BY <1>2, <1>3, <1>8 DEF ChangeNote, MailFails
<1>9. CASE DeleteNote(t)
  BY <1>3, <1>4, <1>9 DEF DeleteNote
<1>10. QED
  BY <1>5, <1>6, <1>7, <1>8, <1>9 DEF Notes

\* A commit that fails raises; no handler waits for its lock then.
LEMMA CommitFailsStep == ASSUME IInv, NEW t \in Thread, CommitFails(t) PROVE IInv'
BY Raised DEF CommitFails

\* A restart ends all handlers and frees all locks.
LEMMA RestartStep == ASSUME IInv, Restart PROVE IInv'
<1>1. /\ h' = [t \in Thread |-> Idle] /\ lock' = [l \in Lock |-> Free]
      /\ UNCHANGED stored
  BY DEF Restart
<1>2. Shapes'
  BY <1>1, IdleFacts DEF IInv, Shapes, stored
<1>3. Holds' /\ LoginsApart' /\ LocksFree'
  BY <1>1, IdleFacts DEF Holds, LoginsApart, LocksFree, Unless
<1>4. FreshCopies'
  BY <1>1, IdleFacts DEF FreshCopies, Copies
<1>5. QED
  BY <1>2, <1>3, <1>4 DEF IInv

-----------------------------------------------------------------------------
(* The theorems.                                                           *)

LEMMA Initially == Init => IInv
<1> SUFFICES ASSUME Init PROVE IInv
  OBVIOUS
<1>1. Shapes
  BY IdleFacts DEF Init, Shapes
<1>2. Holds /\ LoginsApart /\ LocksFree
  BY IdleFacts DEF Init, Holds, LoginsApart, LocksFree, Unless
<1>3. FreshCopies
  BY IdleFacts DEF Init, FreshCopies, Copies
<1>4. QED
  BY <1>1, <1>2, <1>3 DEF IInv

LEMMA Stutters == IInv /\ UNCHANGED vars => IInv'
<1> SUFFICES ASSUME IInv, UNCHANGED vars PROVE IInv'
  OBVIOUS
<1>1. UNCHANGED <<h, lock, file, usage, fails, mishap>>
  BY DEF vars, stored
<1>2. Shapes' /\ Holds' /\ LoginsApart' /\ LocksFree'
  BY <1>1 DEF IInv, Shapes, Holds, LoginsApart, LocksFree, Unless
<1>3. FreshCopies'
  BY <1>1 DEF IInv, FreshCopies, Copies, Unless
<1>4. QED
  BY <1>2, <1>3 DEF IInv

LEMMA Inductive == IInv /\ [Next]_vars => IInv'
<1> SUFFICES ASSUME IInv, [Next]_vars PROVE IInv'
  OBVIOUS
<1>1. ASSUME NEW t \in Thread, Ask(t) \/ Handle(t) PROVE IInv'
  BY <1>1, AskStep, Acquired, FilesStep, CountsStep, AccountsStep, NotesStep,
     CommitFailsStep DEF Handle
<1>2. CASE Restart
  BY <1>2, RestartStep
<1>3. CASE UNCHANGED vars
  BY <1>3, Stutters
<1>4. QED
  BY <1>1, <1>2, <1>3 DEF Next

\* The inductive invariant holds in every reachable state: who is past its
\* acquire has the lock, and nobody else has.
THEOREM LocksCorrect == Spec => []IInv
BY Initially, Inductive, PTL DEF Spec

\* A lock that is taken is that of a handler on its way, unless a handler raised.
THEOREM LocksSafe == Spec => []LocksFree
<1>1. IInv => LocksFree
  BY DEF IInv
<1>2. QED
  BY <1>1, LocksCorrect, PTL

\* No handler overwrites what it has not seen: the copy it will write from is
\* what is stored.
THEOREM CopiesSafe == Spec => []FreshCopies
<1>1. IInv => FreshCopies
  BY DEF IInv
<1>2. QED
  BY <1>1, LocksCorrect, PTL

-----------------------------------------------------------------------------
(* The accounts. They need no lock: what two handlers of one account could *)
(* do to each other is the mishap "crossed".                               *)

Rows == row = [u \in User |-> [status |-> row[u].status, group |-> row[u].group]]

\* Who changes an account is alone with it.
Alone ==
  /\ \A t \in Thread : h[t].op \in AccountOps => h[t].u \in User
  /\ "crossed" \notin mishap =>
       \A s, t \in Thread :
         h[s].op \in AccountOps /\ h[t].op \in AccountOps /\ h[s].u = h[t].u => s = t

\* So an account that will be replaced still waits for its owner's data.
Dropping ==
  "crossed" \notin mishap =>
    \A t \in Thread : h[t].op \in AccountOps /\ h[t].at = "drop" => row[h[t].u].status = "init"

\* And what modify has read of an account is what it is when it writes.
Committing ==
  "crossed" \notin mishap =>
    \A t \in Thread : At(t, "modify", "commit") => h[t].copy = row[h[t].u]

AccountInv == Rows /\ Alone /\ Dropping /\ Committing /\ AccountKept

\* A step that leaves the accounts alone; a handler of an account that begins
\* is alone with it.
LEMMA AccountAside ==
  ASSUME AccountInv, Shapes, NEW t \in Thread, NEW r, Become(t, r),
         UNCHANGED account_vars, mishap \subseteq mishap',
         h[t].at = "add" => row[h[t].u].status # "none" \/ "halfway" \in mishap',
         r.op \in AccountOps /\ r.at = "drop" => row[r.u].status = "init",
         r.op = "modify" /\ r.at = "commit" => r.copy = row[r.u],
         r.op \in AccountOps =>
           \/ r.op = h[t].op /\ r.u = h[t].u
           \/ r.u \in User /\ (Busy(r.u, AccountOps) => "crossed" \in mishap')
  PROVE  AccountInv'
<1>1. /\ h'[t] = r
      /\ \A s \in Thread \ {t} : h'[s] = h[s]
  BY DEF Shapes, Become
<1>2. UNCHANGED <<row, member, approved>>
  BY DEF account_vars
<1>3. Rows'
  BY <1>2 DEF AccountInv, Rows
<1>4. Alone'
  BY <1>1 DEF AccountInv, Alone, Busy
<1>5. Dropping' /\ Committing'
  BY <1>1, <1>2 DEF AccountInv, Dropping, Committing, At
<1>6. AccountKept'
  BY <1>1, <1>2 DEF AccountInv, AccountKept, Unless
<1>7. QED
  BY <1>3, <1>4, <1>5, <1>6 DEF AccountInv

\* The handlers of files, counts and notifications go on with the request they
\* have, or are done.
Places == {"read", "open", "write", "read info", "open info", "write info", "commit", "groups", "pairs"}
GoesOn(t) ==
  \E r : /\ Become(t, r)
         /\ r = Idle \/ (r.op = h[t].op /\ r.u = h[t].u /\ r.at \in Places)

LEMMA Onward ==
  ASSUME Shapes, NEW t \in Thread, Acquire(t) \/ Files(t) \/ Counts(t) \/ Notes(t)
  PROVE  GoesOn(t)
<1>1. Record(h[t])
  BY DEF Shapes
<1>2. ASSUME NEW a \in Places, Become(t, [h[t] EXCEPT !.at = a]) PROVE GoesOn(t)
  <2>1. [h[t] EXCEPT !.at = a] = [op |-> h[t].op, u |-> h[t].u, g |-> h[t].g, at |-> a, copy |-> h[t].copy]
    BY <1>1, ExceptAt, Zenon
  <2>2. QED
    BY <1>2, <2>1 DEF GoesOn
<1>3. ASSUME NEW a \in Places, NEW c,
             Become(t, [h[t] EXCEPT !.at = a, !.copy = c])
      PROVE  GoesOn(t)
  <2>1. [h[t] EXCEPT !.at = a, !.copy = c] = [op |-> h[t].op, u |-> h[t].u, g |-> h[t].g, at |-> a, copy |-> c]
    BY <1>1, ExceptAtCopy, Zenon
  <2>2. QED
    BY <1>3, <2>1 DEF GoesOn
<1>4. ASSUME Reply(t) \/ \E cause : Raise(t, cause) PROVE GoesOn(t)
  BY <1>4 DEF Reply, Raise, GoesOn
<1>5. CASE Acquire(t)
  BY <1>2, <1>5 DEF Places, Acquire
<1>6. CASE ReadQuota(t)
  BY <1>3, <1>4, <1>6 DEF Places, ReadQuota
<1>7. CASE ReadInfo(t)
  BY <1>3, <1>4, <1>7 DEF Places, ReadInfo
<1>8. CASE Open(t)
  <2> DEFINE a == IF h[t].at = "open" THEN "write" ELSE "write info"
  <2>1. [h[t] EXCEPT !.at = IF @ = "open" THEN "write" ELSE "write info"] = [h[t] EXCEPT !.at = a]
    OBVIOUS
  <2>2. Become(t, [h[t] EXCEPT !.at = a]) /\ a \in {"write", "write info"}
    BY <1>8, <2>1 DEF Open
  <2> HIDE DEF a
  <2>3. QED
    BY <1>2, <2>2 DEF Places
<1>9. CASE Write(t)
  BY <1>3, <1>4, <1>9 DEF Places, Write
<1>10. CASE ReadUsage(t)
  <2>1. CASE \E cause : Raise(t, cause)
    BY <1>4, <2>1
  <2>2. CASE \E limit : Become(t, [h[t] EXCEPT !.at = "commit", !.copy = <<usage[h[t].u], limit>>])
    BY <1>3, <2>2 DEF Places
  <2>3. QED
    BY <1>10, <2>1, <2>2, Zenon DEF ReadUsage
<1>11. CASE CommitUsage(t) \/ CommitLogin(t)
  BY <1>4, <1>11 DEF CommitUsage, CommitLogin
<1>12. CASE ReadFailures(t)
  BY <1>3, <1>4, <1>12 DEF Places, ReadFailures
<1>13. CASE CreateNote(t) \/ CreateGroups(t) \/ DeleteNote(t)
  BY <1>2, <1>4, <1>13 DEF Places, CreateNote, CreateGroups, DeleteNote, MailFails
<1>14. CASE CreatePairs(t) \/ ChangeNote(t) \/ DeletePairs(t) \/ AddPair(t)
  BY <1>4, <1>14 DEF CreatePairs, ChangeNote, DeletePairs, AddPair, MailFails
<1>15. QED
  BY <1>5, <1>6, <1>7, <1>8, <1>9, <1>10, <1>11, <1>12, <1>13, <1>14 DEF Files, Counts, Notes

LEMMA AccountAskStep ==
  ASSUME AccountInv, Shapes, NEW t \in Thread, Ask(t) PROVE AccountInv'
<1>1. ASSUME NEW op, NEW u, NEW g, Begin(t, op, u, g), UNCHANGED account_vars,
             mishap \subseteq mishap',
             op \in AccountOps => u \in User /\ (Busy(u, AccountOps) => "crossed" \in mishap')
      PROVE  AccountInv'
  <2> DEFINE r == [op |-> op, u |-> u, g |-> g, copy |-> 0,
                   at |-> IF Locked(op) THEN "wait" ELSE "read"]
  <2>1. Become(t, r) /\ h[t].at # "add"
    BY <1>1 DEF Begin, Idle
  <2>2. r.op = op /\ r.u = u /\ r.at \in {"wait", "read"}
    OBVIOUS
  <2> HIDE DEF r
  <2>3. QED
    BY <1>1, <2>1, <2>2, AccountAside
<1>2. CASE FileRequest(t)
  BY <1>1, <1>2 DEF FileRequest, FileOps, AccountOps
<1>3. CASE NoteRequest(t)
  BY <1>1, <1>3 DEF NoteRequest, NoteOps, AccountOps
<1>4. ASSUME NEW u \in User, UsageRequest(t, u) PROVE AccountInv'
  BY <1>1, <1>4 DEF UsageRequest, UsageOps, AccountOps
<1>5. ASSUME NEW u \in User, LoginRequest(t, u) PROVE AccountInv'
  BY <1>1, <1>5 DEF LoginRequest, AccountOps
<1>6. ASSUME NEW u \in User, AccountRequest(t, u) \/ FirstLogin(t, u) PROVE AccountInv'
  BY <1>1, <1>6 DEF AccountRequest, FirstLogin
<1>7. ASSUME NEW u \in User, Look(t, u) PROVE AccountInv'
  BY <1>1, <1>7 DEF Look, AccountOps
<1>8. QED
  BY <1>2, <1>3, <1>4, <1>5, <1>6, <1>7 DEF Ask

LEMMA AccountElsewhere ==
  ASSUME AccountInv, Shapes, NEW t \in Thread, Acquire(t) \/ Files(t) \/ Counts(t) \/ Notes(t)
  PROVE  AccountInv'
<1>1. PICK r : /\ Become(t, r)
               /\ \/ r = Idle
                  \/ r.op = h[t].op /\ r.u = h[t].u /\ r.at \in Places
  BY Onward DEF GoesOn
<1>2. UNCHANGED account_vars /\ mishap \subseteq mishap' /\ h[t].at # "add"
  BY DEF Acquire, Files, ReadQuota, ReadInfo, Open, Write, Counts, ReadUsage, CommitUsage,
         ReadFailures, CommitLogin, Notes, CreateNote, CreateGroups, CreatePairs, ChangeNote,
         DeleteNote, DeletePairs, AddPair, MailFails, Raise, At
<1>3. Idle.op \notin AccountOps \union {"modify"}
  BY DEF Idle, AccountOps
<1>4. h[t].op \notin AccountOps \union {"modify"}
  <2>1. Coherent(h[t])
    BY DEF Shapes
  <2>2. CASE Acquire(t)
    BY <2>1, <2>2 DEF Acquire, Coherent, Locked, FileOps, UsageOps, NoteOps, AccountOps
  <2>3. CASE Files(t) \/ Counts(t)
    BY <2>1, <2>3 DEF Files, ReadQuota, ReadInfo, Open, Write, Counts, ReadUsage, CommitUsage,
       ReadFailures, CommitLogin, At, Coherent, FileOps, UsageOps, AccountOps
  <2>4. CASE Notes(t)
    BY <2>4 DEF Notes, CreateNote, CreateGroups, CreatePairs, ChangeNote, DeleteNote, DeletePairs,
       AddPair, At, AccountOps
  <2>5. QED
    BY <2>2, <2>3, <2>4
<1>5. QED
  BY <1>1, <1>2, <1>3, <1>4, AccountAside DEF Places

\* A handler of an account that is alone with it: what it does to the account
\* leaves the others' accounts and handlers as they are.
LEMMA AccountChanged ==
  ASSUME AccountInv, Shapes, NEW t \in Thread, h[t].op \in AccountOps, NEW r, Become(t, r),
         mishap \subseteq mishap', r = Idle \/ (r.op = h[t].op /\ r.u = h[t].u /\ r.at = "add"),
         NEW new, new = [status |-> new.status, group |-> new.group],
         row' = [row EXCEPT ![h[t].u] = new],
         member' \subseteq member \union {h[t].u}, approved' \subseteq approved \union {h[t].u},
         new.status = "none" => r.at = "add",
         {"crossed", "restart", "halfway", "reset"} \intersect mishap' = {} /\ h[t].u \in approved'
           => new.status = "normal"
  PROVE  AccountInv'
<1> DEFINE u == h[t].u
<1>1. /\ h'[t] = r
      /\ \A s \in Thread \ {t} : h'[s] = h[s]
  BY DEF Shapes, Become
<1>2. u \in User /\ Idle.op \notin AccountOps /\ Idle.at # "add"
  BY DEF AccountInv, Alone, Idle, AccountOps
<1>3. /\ row' = [x \in User |-> row'[x]]
      /\ row'[u] = new
      /\ \A x \in User \ {u} : row'[x] = row[x]
  BY <1>2 DEF AccountInv, Rows
<1>4. Rows'
  <2>1. \A x \in User : row[x] = [status |-> row[x].status, group |-> row[x].group]
    BY DEF AccountInv, Rows
  <2>2. \A x \in User : row'[x] = [status |-> row'[x].status, group |-> row'[x].group]
    BY <1>2, <1>3, <2>1
  <2>3. QED
    BY <1>3, <2>2 DEF Rows
<1>5. Alone'
  BY <1>1, <1>2 DEF AccountInv, Alone
<1>6. Dropping' /\ Committing'
  BY <1>1, <1>2, <1>3 DEF AccountInv, Alone, Dropping, Committing, At, AccountOps
<1>7. AccountKept'
  <2>1. SUFFICES ASSUME {"crossed", "restart", "halfway", "reset"} \intersect mishap' = {}, NEW x \in User
                 PROVE  /\ x \in member' => \/ row'[x].status # "none"
                                            \/ \E s \in Thread : h'[s].u = x /\ h'[s].at = "add"
                        /\ x \in approved' => row'[x].status = "normal"
    BY DEF AccountKept, Unless
  <2>2. CASE x = u
    BY <1>1, <1>2, <1>3, <2>1, <2>2
  <2>3. CASE x # u
    <3>1. /\ x \in member => row[x].status # "none" \/ \E s \in Thread : h[s].u = x /\ h[s].at = "add"
          /\ x \in approved => row[x].status = "normal"
      BY <2>1 DEF AccountInv, AccountKept, Unless
    <3>2. row'[x] = row[x] /\ \A s \in Thread : h[s].u = x => h'[s] = h[s]
      BY <1>1, <1>3, <2>3
    <3>3. QED
      BY <2>3, <3>1, <3>2
  <2>4. QED
    BY <2>2, <2>3
<1>8. QED
  BY <1>4, <1>5, <1>6, <1>7 DEF AccountInv

LEMMA AccountReadStep ==
  ASSUME AccountInv, Shapes, NEW t \in Thread, ReadAccount(t) PROVE AccountInv'
<1> DEFINE status == row[h[t].u].status
<1>1. Record(h[t]) /\ h[t].op \in AccountOps /\ h[t].at = "read" /\ UNCHANGED <<account_vars, mishap>>
  BY DEF ReadAccount, Shapes
<1>2. Idle.op \notin AccountOps \union {"modify"}
  BY DEF Idle, AccountOps
<1>3. ASSUME Reply(t) PROVE AccountInv'
  BY <1>1, <1>2, <1>3, AccountAside DEF Reply
<1>4. ASSUME NEW at, NEW c, at = "drop" => status = "init", c = row[h[t].u],
             Become(t, [h[t] EXCEPT !.at = at, !.copy = c])
      PROVE  AccountInv'
  <2>0. PICK r : r = [h[t] EXCEPT !.at = at, !.copy = c]
    OBVIOUS
  <2>1. r = [op |-> h[t].op, u |-> h[t].u, g |-> h[t].g, at |-> at, copy |-> c]
    BY <1>1, <2>0, ExceptAtCopy, Zenon
  <2>2. Become(t, r)
    BY <1>4, <2>0
  <2>3. QED
    BY <1>1, <1>4, <2>1, <2>2, AccountAside
<1> DEFINE Go == \E at \in {"add", "commit"} : Become(t, [h[t] EXCEPT !.at = at, !.copy = row[h[t].u]])
<1>5. CASE h[t].op = "modify"
  <2>1. Reply(t) \/ Go
    BY <1>5 DEF ReadAccount
  <2>2. QED
    BY <1>3, <1>4, <2>1
<1>6. CASE h[t].op # "modify" /\ status = "none"
  <2>1. Reply(t) \/ Go
    BY <1>6 DEF ReadAccount, Replaceable
  <2>2. QED
    BY <1>3, <1>4, <2>1
<1>7. CASE h[t].op # "modify" /\ status # "none" /\ Replaceable(status)
  BY <1>3, <1>4, <1>7, Zenon DEF ReadAccount, Replaceable
<1>8. CASE h[t].op # "modify" /\ status # "none" /\ ~Replaceable(status)
  BY <1>3, <1>4, <1>8, Zenon DEF ReadAccount
<1>9. QED
  BY <1>5, <1>6, <1>7, <1>8

LEMMA StatusSet ==
  ASSUME NEW r, r = [status |-> r.status, group |-> r.group], NEW a
  PROVE  [r EXCEPT !.status = a] = [status |-> a, group |-> r.group]
<1> DEFINE q == [status |-> r.status, group |-> r.group]
<1>1. [q EXCEPT !.status = a] = [status |-> a, group |-> r.group]
  OBVIOUS
<1>2. [r EXCEPT !.status = a] = [q EXCEPT !.status = a]
  BY Zenon
<1>3. QED
  BY <1>1, <1>2, Zenon

LEMMA AccountWriteStep ==
  ASSUME AccountInv, Shapes, NEW t \in Thread, DropAccount(t) \/ AddAccount(t) \/ CommitAccount(t)
  PROVE  AccountInv'
<1> DEFINE u == h[t].u
<1> DEFINE excused == {"crossed", "restart", "halfway", "reset"}
<1>1. Record(h[t]) /\ h[t].op \in AccountOps /\ u \in User /\ mishap \subseteq mishap'
  BY DEF DropAccount, AddAccount, CommitAccount, At, AccountOps, Shapes, AccountInv, Alone
<1>2. row[u] = [status |-> row[u].status, group |-> row[u].group] /\ row = [row EXCEPT ![u] = row[u]]
  BY <1>1 DEF AccountInv, Rows
<1>3. Idle.op \notin AccountOps \union {"modify"}
  BY DEF Idle, AccountOps
<1>4. CASE DropAccount(t)
  <2>0. PICK r : r = [h[t] EXCEPT !.at = "add"]
    OBVIOUS
  <2>1. r = [op |-> h[t].op, u |-> h[t].u, g |-> h[t].g, at |-> "add", copy |-> h[t].copy]
    BY <1>1, <2>0, ExceptAt, Zenon
  <2>2. Become(t, r) /\ h[t].at = "drop" /\ UNCHANGED <<member, approved>>
    BY <1>4, <2>0 DEF DropAccount
  <2>3. "crossed" \notin mishap => row[u].status = "init"
    BY <1>1, <2>2 DEF AccountInv, Dropping
  <2>4. CASE row' = [row EXCEPT ![u].status = "none"]
    <3>1. PICK new : new = [row[u] EXCEPT !.status = "none"]
      OBVIOUS
    <3>2. excused \intersect mishap' = {} => u \notin approved
      BY <1>1, <2>3 DEF AccountInv, AccountKept, Unless
    <3>3. QED
      <4>1. new = [status |-> "none", group |-> row[u].group]
        BY <1>2, <3>1, StatusSet, Zenon
      <4>2. row' = [row EXCEPT ![u] = new]
        BY <2>4, <3>1
      <4>3. /\ r.op = h[t].op /\ r.u = u /\ r.at = "add"
            /\ new = [status |-> new.status, group |-> new.group] /\ new.status = "none"
            /\ member' \subseteq member \union {u} /\ approved' \subseteq approved \union {u}
            /\ excused \intersect mishap' = {} => u \notin approved'
        BY <2>1, <2>2, <3>2, <4>1
      <4>4. Become(t, r)
        BY <2>2
      <4>5. QED
        BY <1>1, <4>2, <4>3, <4>4, AccountChanged
  <2>5. CASE UNCHANGED row
    BY <1>1, <2>1, <2>2, <2>5, AccountAside DEF account_vars
  <2>6. QED
    BY <1>4, <2>4, <2>5 DEF DropAccount
<1>5. CASE AddAccount(t)
  <2>1. Become(t, Idle) /\ h[t].at = "add"
    BY <1>5 DEF AddAccount, Reply
  <2>2. CASE row[u].status # "none" /\ UNCHANGED account_vars
    BY <1>1, <1>3, <2>1, <2>2, AccountAside
  <2>3. ASSUME NEW status \in {"normal", "applying", "init"}, row[u].status = "none",
               row' = [row EXCEPT ![u] = [status |-> status, group |-> h[t].g]],
               member' = member \union {u},
               approved' = approved \/ (status = "normal" /\ approved' = approved \union {u})
        PROVE  AccountInv'
    <3>1. excused \intersect mishap' = {} => u \notin approved
      BY <1>1, <2>3 DEF AccountInv, AccountKept, Unless
    <3>2. PICK new : new = [status |-> status, group |-> h[t].g]
      OBVIOUS
    <3>3. /\ new = [status |-> new.status, group |-> new.group] /\ new.status # "none"
          /\ row' = [row EXCEPT ![u] = new]
          /\ member' \subseteq member \union {u} /\ approved' \subseteq approved \union {u}
          /\ excused \intersect mishap' = {} /\ u \in approved' => new.status = "normal"
      BY <2>3, <3>1, <3>2
    <3>4. QED
      BY <1>1, <2>1, <3>3, AccountChanged
  <2>4. QED
    BY <1>5, <2>2, <2>3 DEF AddAccount
<1>6. CASE CommitAccount(t)
  <2>1. Become(t, Idle) /\ h[t].at = "commit" /\ h[t].op = "modify" /\ UNCHANGED member
    BY <1>6 DEF CommitAccount, Reply, At
  <2>2. ASSUME NEW status, NEW group,
               row' = [row EXCEPT ![u] =
                 [status |-> Written(row[u].status, h[t].copy.status, status),
                  group |-> Written(row[u].group, h[t].copy.group, group)]],
               approved' = IF status = "normal" THEN approved \union {u} ELSE approved,
               mishap' = IF u \in approved /\ status # "normal" THEN mishap \union {"reset"} ELSE mishap,
               row[u].status # "none", status # "none"
        PROVE  AccountInv'
    <3>1. PICK new : new = [status |-> Written(row[u].status, h[t].copy.status, status),
                            group |-> Written(row[u].group, h[t].copy.group, group)]
      OBVIOUS
    <3>2. "crossed" \notin mishap => h[t].copy = row[u]
      BY <2>1 DEF AccountInv, Committing, At
    <3>3. /\ new = [status |-> new.status, group |-> new.group] /\ new.status # "none"
          /\ row' = [row EXCEPT ![u] = new]
          /\ member' \subseteq member \union {u} /\ approved' \subseteq approved \union {u}
      BY <2>1, <2>2, <3>1 DEF Written
    <3>4. excused \intersect mishap' = {} /\ u \in approved' => new.status = "normal"
      BY <2>2, <3>1, <3>2 DEF Written
    <3>5. QED
      BY <1>1, <2>1, <3>3, <3>4, AccountChanged
  <2>3. ASSUME NEW form \in [status: Status, group: {h[t].g}]
                            \union {[status |-> "normal", group |-> h[t].copy.group]}
        PROVE  form.status # "none"
    BY <2>3 DEF Status
  <2>4. CASE UNCHANGED <<row, approved>>
    BY <1>1, <1>3, <2>1, <2>4, AccountAside DEF account_vars
  <2>5. QED
    BY <1>6, <2>2, <2>3, <2>4, Zenon DEF CommitAccount
<1>7. QED
  BY <1>4, <1>5, <1>6

\* A failing commit leaves the accounts as they are; the row that was deleted
\* before is then missing.
LEMMA AccountFailsStep ==
  ASSUME AccountInv, Shapes, NEW t \in Thread, CommitFails(t) PROVE AccountInv'
<1>1. /\ Become(t, Idle) /\ UNCHANGED account_vars /\ mishap \subseteq mishap'
      /\ h[t].at = "add" => "halfway" \in mishap'
  BY DEF CommitFails, Raise
<1>2. Idle.op \notin AccountOps \union {"modify"}
  BY DEF Idle, AccountOps
<1>3. QED
  BY <1>1, <1>2, AccountAside

LEMMA AccountRestart == ASSUME AccountInv, Restart PROVE AccountInv'
<1>1. /\ \A t \in Thread : h'[t] = Idle
      /\ UNCHANGED <<row, member, approved>> /\ mishap \subseteq mishap'
      /\ "restart" \notin mishap' => \A t \in Thread : h[t].at # "add"
  BY DEF Restart, account_vars
<1>2. Rows' /\ Alone' /\ Dropping' /\ Committing'
  BY <1>1 DEF AccountInv, Rows, Alone, Dropping, Committing, At, Idle, AccountOps
<1>3. AccountKept'
  BY <1>1 DEF AccountInv, AccountKept, Unless
<1>4. QED
  BY <1>2, <1>3 DEF AccountInv

LEMMA AccountInitially == Init => AccountInv
<1> SUFFICES ASSUME Init PROVE AccountInv
  OBVIOUS
<1>1. Rows
  BY DEF Init, Rows
<1>2. Alone /\ Dropping /\ Committing
  BY DEF Init, Alone, Dropping, Committing, At, Idle, AccountOps
<1>3. AccountKept
  BY DEF Init, AccountKept, Unless
<1>4. QED
  BY <1>1, <1>2, <1>3 DEF AccountInv

LEMMA AccountInductive == AccountInv /\ Shapes /\ [Next]_vars => AccountInv'
<1> SUFFICES ASSUME AccountInv, Shapes, [Next]_vars PROVE AccountInv'
  OBVIOUS
<1>1. ASSUME NEW t \in Thread, Ask(t) \/ Handle(t) PROVE AccountInv'
  BY <1>1, AccountAskStep, AccountElsewhere, AccountReadStep, AccountWriteStep,
     AccountFailsStep DEF Handle, Accounts
<1>2. CASE UNCHANGED vars
  BY <1>2 DEF vars, account_vars, AccountInv, Rows, Alone, Dropping, Committing, At,
     AccountKept, Unless
<1>3. QED
  BY <1>1, <1>2, AccountRestart DEF Next

\* A registration that was acknowledged is not lost, and who was approved is
\* not asked to apply again, unless an administrator's form says so.
THEOREM AccountsSafe == Spec => []AccountKept
<1>1. IInv => Shapes
  BY DEF IInv
<1>2. AccountInv => AccountKept
  BY DEF AccountInv
<1>3. QED
  BY <1>1, <1>2, LocksCorrect, AccountInitially, AccountInductive, PTL DEF Spec

-----------------------------------------------------------------------------
(* The notifications. Their handlers hold a lock, the users who look do not: *)
(* a look while a notification is made or deleted is the mishap "seen".      *)

Pairs == pairs = [u \in User |-> pairs[u]] /\ \A u \in User : pairs[u] \in Nat

\* There is one notification, so one handler at most creates it.
Creating ==
  /\ \A s, t \in Thread : h[s].op = "create" /\ h[t].op = "create" => s = t
  /\ \A t \in Thread : h[t].op = "create" =>
       /\ h[t].at \in {"wait", "read"} => note = "none"
       /\ h[t].at \in {"groups", "pairs"} => note # "none"

\* A notification that is being made has no marks, and who looks is alone, at
\* one that is there and that he has no mark for.
Looking ==
  Unless({"seen", "restart", "halfway"},
         \A t \in Thread :
           /\ h[t].op = "create" /\ h[t].at \in {"groups", "pairs"} => \A u \in User : pairs[u] = 0
           /\ h[t].op = "look" =>
                /\ h[t].u \in User /\ pairs[h[t].u] = 0 /\ note # "none"
                /\ \A s \in Thread : h[s].op \notin NoteOps
                /\ \A s \in Thread : h[s].op = "look" /\ h[s].u = h[t].u => s = t)

PairInv == Pairs /\ Creating /\ Looking /\ PairOnce

\* What a second mark would be.
LEMMA Marks == ASSUME NEW n \in Nat PROVE Min({2, n + 1}) \in Nat /\ (n = 0 => Min({2, n + 1}) = 1)
BY DEF Min

\* No two handlers of notifications are past their acquire.
LEMMA NotesApart ==
  ASSUME IInv, NEW s \in Thread, NEW t \in Thread, h[s].op \in NoteOps, h[t].op \in NoteOps,
         h[s].at # "wait", h[t].at # "wait"
  PROVE  s = t
<1>1. Locked(h[s].op) /\ Locked(h[t].op)
  BY DEF Locked
<1>2. LockOf(h[s]) = LockOf(h[t])
  BY DEF LockOf, FileOps, UsageOps, NoteOps
<1>3. QED
  BY <1>1, <1>2 DEF IInv, Holds

\* A step of a handler that has nothing to do with notifications.
LEMMA PairAside ==
  ASSUME PairInv, Shapes, NEW t \in Thread, NEW r, Become(t, r), UNCHANGED <<note, pairs>>,
         mishap \subseteq mishap',
         h[t].op \notin NoteOps \union {"look"}, r.op \notin NoteOps \union {"look"}
  PROVE  PairInv'
<1>1. /\ h'[t] = r
      /\ \A s \in Thread \ {t} : h'[s] = h[s]
  BY DEF Shapes, Become
<1>2. Pairs' /\ Creating'
  BY <1>1 DEF PairInv, Pairs, Creating, NoteOps
<1>3. Looking'
  BY <1>1 DEF PairInv, Looking, Unless, NoteOps
<1>4. PairOnce'
  BY <1>1 DEF PairInv, PairOnce, Unless, NoteOps, At
<1>5. QED
  BY <1>2, <1>3, <1>4 DEF PairInv

LEMMA PairAskStep ==
  ASSUME PairInv, Shapes, NEW t \in Thread, Ask(t) PROVE PairInv'
<1> DEFINE Request(op, u, g) == [op |-> op, u |-> u, g |-> g, copy |-> 0,
                                 at |-> IF Locked(op) THEN "wait" ELSE "read"]
<1>1. ASSUME NEW op, NEW u, NEW g, Begin(t, op, u, g)
      PROVE  /\ h[t] = Idle /\ Become(t, Request(op, u, g))
             /\ h'[t] = Request(op, u, g) /\ \A s \in Thread \ {t} : h'[s] = h[s]
  BY <1>1 DEF Begin, Become, Shapes
<1>2. Idle.op \notin NoteOps \union {"look"}
  BY DEF Idle, NoteOps
<1>3. ASSUME NEW op, NEW u, NEW g, Begin(t, op, u, g), UNCHANGED note_vars,
             mishap \subseteq mishap', op \notin NoteOps \union {"look"}
      PROVE  PairInv'
  <2>1. PICK r : r = Request(op, u, g)
    OBVIOUS
  <2>2. r.op = op
    BY <2>1
  <2>3. Become(t, r) /\ h[t] = Idle
    BY <1>1, <1>3, <2>1
  <2>4. QED
    BY <1>2, <1>3, <2>2, <2>3, PairAside DEF note_vars
<1>4. CASE NoteRequest(t)
  <2>1. PICK op \in NoteOps, g \in Group \union {"all"} : Begin(t, op, NoUser, g)
    BY <1>4 DEF NoteRequest
  <2>2. /\ h[t] = Idle /\ h'[t] = Request(op, NoUser, g)
        /\ \A s \in Thread \ {t} : h'[s] = h[s]
    BY <1>1, <2>1
  <2>3. h'[t].op = op /\ h'[t].at = "wait"
    BY <2>1, <2>2 DEF Locked
  <2>4. /\ UNCHANGED <<note, pairs>> /\ mishap \subseteq mishap'
        /\ "seen" \notin mishap' => \A s \in Thread : h[s].op # "look"
        /\ op = "create" => note = "none" /\ \A s \in Thread : h[s].op # "create"
    BY <1>4, <2>3 DEF NoteRequest, note_vars
  <2>5. op # "look"
    BY DEF NoteOps
  <2> HIDE DEF Request
  <2>6. Pairs' /\ Creating'
    BY <2>2, <2>3, <2>4 DEF PairInv, Pairs, Creating
  <2>7. Looking'
    BY <2>2, <2>3, <2>4, <2>5 DEF PairInv, Looking, Unless
  <2>8. PairOnce'
    BY <1>2, <2>2, <2>3, <2>4 DEF PairInv, PairOnce, Unless, NoteOps, At
  <2>9. QED
    BY <2>6, <2>7, <2>8 DEF PairInv
<1>5. ASSUME NEW u \in User, Look(t, u) PROVE PairInv'
  <2>1. /\ h[t] = Idle /\ h'[t] = Request("look", u, NoUser)
        /\ \A s \in Thread \ {t} : h'[s] = h[s]
    BY <1>1, <1>5 DEF Look
  <2>2. h'[t].op = "look" /\ h'[t].u = u
    BY <2>1
  <2>3. /\ UNCHANGED <<note, pairs>> /\ mishap \subseteq mishap' /\ note # "none" /\ pairs[u] = 0
        /\ "seen" \notin mishap' => \A s \in Thread : h[s].op \notin NoteOps /\ ~(h[s].u = u /\ h[s].op = "look")
    BY <1>5 DEF Look, note_vars, Visible, Busy
  <2> HIDE DEF Request
  <2>4. Pairs' /\ Creating'
    BY <2>1, <2>2, <2>3 DEF PairInv, Pairs, Creating
  <2>5. Looking'
    BY <2>1, <2>2, <2>3 DEF PairInv, Looking, Unless, NoteOps
  <2>6. PairOnce'
    BY <1>2, <2>1, <2>2, <2>3 DEF PairInv, PairOnce, Unless, NoteOps, At
  <2>7. QED
    BY <2>4, <2>5, <2>6 DEF PairInv
<1> HIDE DEF Request
<1>6. CASE FileRequest(t)
  BY <1>3, <1>6 DEF FileRequest, FileOps, NoteOps
<1>7. ASSUME NEW u \in User, UsageRequest(t, u) PROVE PairInv'
  BY <1>3, <1>7 DEF UsageRequest, UsageOps, NoteOps
<1>8. ASSUME NEW u \in User, LoginRequest(t, u) PROVE PairInv'
  BY <1>3, <1>8 DEF LoginRequest, NoteOps
<1>9. ASSUME NEW u \in User, AccountRequest(t, u) \/ FirstLogin(t, u) PROVE PairInv'
  BY <1>3, <1>9 DEF AccountRequest, FirstLogin, AccountOps, NoteOps
<1>10. QED
  BY <1>4, <1>5, <1>6, <1>7, <1>8, <1>9 DEF Ask

\* The steps of the other handlers, and the one that gets the lock.
LEMMA PairElsewhere ==
  ASSUME PairInv, Shapes, NEW t \in Thread, Acquire(t) \/ Files(t) \/ Counts(t) \/ Accounts(t)
  PROVE  PairInv'
<1>1. Record(h[t]) /\ Coherent(h[t]) /\ Idle.op \notin NoteOps \union {"look"}
  BY DEF Shapes, Idle, NoteOps
<1>2. ASSUME Files(t) \/ Counts(t) PROVE PairInv'
  <2>1. PICK r : Become(t, r) /\ (r = Idle \/ r.op = h[t].op)
    BY <1>2, Onward DEF GoesOn
  <2>2. h[t].op \notin NoteOps \union {"look"}
    BY <1>1, <1>2 DEF Files, ReadQuota, ReadInfo, Open, Write, Counts, ReadUsage, CommitUsage,
       ReadFailures, CommitLogin, At, Coherent, FileOps, UsageOps, NoteOps
  <2>3. UNCHANGED <<note, pairs>> /\ mishap \subseteq mishap'
    BY <1>2 DEF Files, ReadQuota, ReadInfo, Open, Write, Counts, ReadUsage, CommitUsage,
       ReadFailures, CommitLogin, Raise, note_vars
  <2>4. QED
    BY <1>1, <2>1, <2>2, <2>3, PairAside
<1>3. ASSUME Accounts(t) PROVE PairInv'
  <2>1. h[t].op \in AccountOps /\ UNCHANGED <<note, pairs>> /\ mishap \subseteq mishap'
    BY <1>3 DEF Accounts, ReadAccount, DropAccount, AddAccount, CommitAccount, At, AccountOps, note_vars
  <2>2. ASSUME NEW a, Become(t, [h[t] EXCEPT !.at = a]) PROVE PairInv'
    <3>1. [h[t] EXCEPT !.at = a] = [op |-> h[t].op, u |-> h[t].u, g |-> h[t].g, at |-> a, copy |-> h[t].copy]
      BY <1>1, ExceptAt, Zenon
    <3>2. QED
      BY <1>1, <2>1, <2>2, <3>1, PairAside DEF AccountOps, NoteOps
  <2>3. ASSUME NEW a, NEW c, Become(t, [h[t] EXCEPT !.at = a, !.copy = c]) PROVE PairInv'
    <3>1. [h[t] EXCEPT !.at = a, !.copy = c] = [op |-> h[t].op, u |-> h[t].u, g |-> h[t].g, at |-> a, copy |-> c]
      BY <1>1, ExceptAtCopy, Zenon
    <3>2. QED
      BY <1>1, <2>1, <2>3, <3>1, PairAside DEF AccountOps, NoteOps
  <2>4. ASSUME Reply(t) PROVE PairInv'
    BY <1>1, <2>1, <2>4, PairAside DEF Reply, AccountOps, NoteOps
  <2>5. CASE ReadAccount(t)
    <3> DEFINE status == row[h[t].u].status
    <3>1. CASE h[t].op = "modify" /\ status = "none"
      BY <2>4, <2>5, <3>1, Zenon DEF ReadAccount
    <3>2. CASE h[t].op = "modify" /\ status # "none"
      BY <2>3, <2>5, <3>2, Zenon DEF ReadAccount
    <3>3. CASE h[t].op # "modify"
      <4>1. Reply(t) \/ \E a, c : Become(t, [h[t] EXCEPT !.at = a, !.copy = c])
        BY <2>5, <3>3 DEF ReadAccount, Replaceable
      <4>2. QED
        BY <2>3, <2>4, <4>1, Zenon
    <3>4. QED
      BY <3>1, <3>2, <3>3
  <2>6. QED
    BY <1>3, <2>2, <2>4, <2>5, Zenon DEF Accounts, DropAccount, AddAccount, CommitAccount
<1>4. ASSUME Acquire(t) PROVE PairInv'
  <2>0. PICK r : r = [h[t] EXCEPT !.at = "read"]
    OBVIOUS
  <2>1. r = [op |-> h[t].op, u |-> h[t].u, g |-> h[t].g, at |-> "read", copy |-> h[t].copy]
    BY <1>1, <2>0, ExceptAt, Zenon
  <2>2. r.op = h[t].op /\ r.u = h[t].u /\ r.at = "read"
    BY <2>1
  <2>3. /\ h[t].at = "wait" /\ h'[t] = r /\ \A s \in Thread \ {t} : h'[s] = h[s]
        /\ UNCHANGED <<note, pairs, mishap>>
    BY <1>4, <2>0 DEF Acquire, Become, Shapes, note_vars
  <2>4. Pairs' /\ Creating'
    BY <2>2, <2>3 DEF PairInv, Pairs, Creating
  <2>5. Looking'
    BY <2>2, <2>3 DEF PairInv, Looking, Unless
  <2>6. PairOnce'
    BY <2>2, <2>3 DEF PairInv, PairOnce, Unless, At
  <2>7. QED
    BY <2>4, <2>5, <2>6 DEF PairInv
<1>5. QED
  BY <1>2, <1>3, <1>4

\* The steps of the handlers of notifications, which hold the lock, and the
\* last one of a look.
LEMMA PairStep ==
  ASSUME IInv, PairInv, NEW t \in Thread, Notes(t) PROVE PairInv'
<1>1. Shapes /\ Record(h[t]) /\ Idle.op \notin NoteOps \union {"look"}
  BY DEF IInv, Shapes, Idle, NoteOps
<1>2. ASSUME NEW a, Become(t, [h[t] EXCEPT !.at = a])
      PROVE  h'[t].op = h[t].op /\ h'[t].u = h[t].u /\ h'[t].at = a /\ \A s \in Thread \ {t} : h'[s] = h[s]
  <2>1. [h[t] EXCEPT !.at = a] = [op |-> h[t].op, u |-> h[t].u, g |-> h[t].g, at |-> a, copy |-> h[t].copy]
    BY <1>1, ExceptAt, Zenon
  <2>2. QED
    BY <1>1, <1>2, <2>1 DEF Become, Shapes
<1>3. ASSUME Become(t, Idle) PROVE h'[t] = Idle /\ \A s \in Thread \ {t} : h'[s] = h[s]
  BY <1>1, <1>3 DEF Become, Shapes
<1>4. \A s \in Thread \ {t} : h[s].op \in NoteOps /\ h[t].op \in NoteOps /\ h[t].at # "wait" => h[s].at = "wait"
  BY NotesApart
<1>5. CASE CreateNote(t)
  <2>1. /\ h[t].op = "create" /\ h[t].at = "read" /\ note' = "open" /\ UNCHANGED <<pairs, mishap>>
        /\ h'[t].op = "create" /\ h'[t].at = "groups" /\ \A s \in Thread \ {t} : h'[s] = h[s]
    BY <1>2, <1>5 DEF CreateNote, At
  <2>2. {"seen", "restart", "halfway"} \intersect mishap = {} => \A u \in User : pairs[u] = 0
    <3>1. \A s \in Thread : ~At(s, "delete", "pairs")
      BY <1>4, <2>1 DEF At, NoteOps
    <3>2. QED
      BY <2>1, <3>1 DEF PairInv, Pairs, Creating, PairOnce, Unless
  <2>3. Pairs' /\ Creating'
    BY <2>1 DEF PairInv, Pairs, Creating
  <2>4. Looking'
    BY <2>1, <2>2 DEF PairInv, Looking, Unless, NoteOps
  <2>5. PairOnce'
    BY <2>1, <2>2 DEF PairOnce, Unless
  <2>6. QED
    BY <2>3, <2>4, <2>5 DEF PairInv
<1>6. CASE CreateGroups(t)
  <2>1. /\ h[t].op = "create" /\ h[t].at = "groups" /\ UNCHANGED <<note, pairs>> /\ mishap \subseteq mishap'
        /\ \A s \in Thread \ {t} : h'[s] = h[s]
        /\ h'[t] = Idle \/ (h'[t].op = "create" /\ h'[t].at = "pairs")
    BY <1>2, <1>3, <1>6 DEF CreateGroups, MailFails, Raise, At
  <2>2. Pairs' /\ Creating'
    BY <1>1, <2>1 DEF PairInv, Pairs, Creating, NoteOps
  <2>3. Looking'
    BY <1>1, <2>1 DEF PairInv, Looking, Unless, NoteOps
  <2>4. PairOnce'
    BY <1>1, <2>1 DEF PairInv, PairOnce, Unless, At
  <2>5. QED
    BY <2>2, <2>3, <2>4 DEF PairInv
<1>7. CASE CreatePairs(t)
  <2>1. /\ h[t].op = "create" /\ h[t].at = "pairs" /\ UNCHANGED <<note, mishap>>
        /\ h'[t] = Idle /\ \A s \in Thread \ {t} : h'[s] = h[s]
        /\ pairs' = [u \in User |-> IF u \in Receivers THEN Min({2, pairs[u] + 1}) ELSE pairs[u]]
    BY <1>3, <1>7 DEF CreatePairs, Reply, At
  <2>2. /\ pairs' = [u \in User |-> pairs'[u]]
        /\ \A u \in User : pairs'[u] = IF u \in Receivers THEN Min({2, pairs[u] + 1}) ELSE pairs[u]
    BY <2>1
  <2>3. \A u \in User : pairs'[u] \in Nat /\ (pairs[u] = 0 => pairs'[u] <= 1)
    <3>1. \A u \in User : Min({2, pairs[u] + 1}) \in Nat /\ (pairs[u] = 0 => Min({2, pairs[u] + 1}) = 1)
      <4>1. \A u \in User : pairs[u] \in Nat
        BY DEF PairInv, Pairs
      <4>2. QED
        BY <4>1, Marks, Zenon
    <3>2. \A n : n = 1 \/ n = 0 => n <= 1
      OBVIOUS
    <3>3. QED
      BY <2>2, <3>1, <3>2 DEF PairInv, Pairs
  <2>4. Pairs' /\ Creating'
    BY <1>1, <2>1, <2>2, <2>3 DEF PairInv, Pairs, Creating, NoteOps
  <2>5. Looking'
    BY <1>1, <2>1 DEF PairInv, Looking, Creating, Unless, NoteOps
  <2>6. PairOnce'
    BY <1>1, <2>1, <2>3 DEF PairInv, Looking, Creating, PairOnce, Unless
  <2>7. QED
    BY <2>4, <2>5, <2>6 DEF PairInv
<1>8. CASE ChangeNote(t)
  <2>1. /\ h[t].op = "change" /\ h[t].at = "read" /\ UNCHANGED pairs /\ mishap \subseteq mishap'
        /\ h'[t] = Idle /\ \A s \in Thread \ {t} : h'[s] = h[s]
        /\ note' = "none" <=> note = "none"
    BY <1>3, <1>8 DEF ChangeNote, MailFails, Raise, Reply, At, note_vars
  <2>2. Pairs' /\ Creating'
    BY <1>1, <2>1 DEF PairInv, Pairs, Creating, NoteOps
  <2>3. Looking'
    BY <1>1, <2>1 DEF PairInv, Looking, Unless, NoteOps
  <2>4. PairOnce'
    BY <1>1, <2>1 DEF PairInv, PairOnce, Unless, At
  <2>5. QED
    BY <2>2, <2>3, <2>4 DEF PairInv
<1>9. CASE DeleteNote(t)
  <2>1. /\ h[t].op = "delete" /\ h[t].at = "read" /\ UNCHANGED pairs /\ mishap \subseteq mishap' /\ note' = "none"
        /\ \A s \in Thread \ {t} : h'[s] = h[s]
        /\ \/ h'[t].op = "delete" /\ h'[t].at = "pairs"
           \/ h'[t] = Idle /\ UNCHANGED note
    BY <1>2, <1>3, <1>9 DEF DeleteNote, Raise, At, note_vars
  <2>2. \A s \in Thread \ {t} : h[s].op = "create" => h[s].at = "wait"
    BY <1>4, <2>1 DEF NoteOps
  <2>3. Pairs' /\ Creating'
    BY <1>1, <2>1, <2>2 DEF PairInv, Pairs, Creating, NoteOps
  <2>4. Looking'
    BY <1>1, <2>1 DEF PairInv, Looking, Unless, NoteOps
  <2>5. PairOnce'
    BY <1>1, <2>1 DEF PairInv, PairOnce, Unless, At
  <2>6. QED
    BY <2>3, <2>4, <2>5 DEF PairInv
<1>10. CASE DeletePairs(t)
  <2>1. /\ h[t].op = "delete" /\ UNCHANGED <<note, mishap>> /\ pairs' = [u \in User |-> 0]
        /\ h'[t] = Idle /\ \A s \in Thread \ {t} : h'[s] = h[s]
    BY <1>3, <1>10 DEF DeletePairs, Unpaired, Reply, At
  <2>2. Pairs' /\ Creating'
    BY <1>1, <2>1 DEF PairInv, Pairs, Creating, NoteOps
  <2>3. Looking'
    BY <1>1, <2>1 DEF PairInv, Looking, Unless, NoteOps
  <2>4. PairOnce'
    BY <2>1 DEF PairOnce, Unless
  <2>5. QED
    BY <2>2, <2>3, <2>4 DEF PairInv
<1>11. CASE AddPair(t)
  <2>1. /\ h[t].op = "look" /\ UNCHANGED <<note, mishap>>
        /\ pairs' = [pairs EXCEPT ![h[t].u] = Min({2, pairs[h[t].u] + 1})]
        /\ h'[t] = Idle /\ \A s \in Thread \ {t} : h'[s] = h[s]
    BY <1>3, <1>11 DEF AddPair, Reply, At
  <2>2. /\ pairs' = [u \in User |-> pairs'[u]]
        /\ \A u \in User : pairs'[u] = IF u = h[t].u THEN Min({2, pairs[u] + 1}) ELSE pairs[u]
    BY <2>1 DEF PairInv, Pairs
  <2>3. \A u \in User : pairs'[u] \in Nat /\ (pairs[u] = 0 => pairs'[u] <= 1)
    <3>1. \A u \in User : Min({2, pairs[u] + 1}) \in Nat /\ (pairs[u] = 0 => Min({2, pairs[u] + 1}) = 1)
      <4>1. \A u \in User : pairs[u] \in Nat
        BY DEF PairInv, Pairs
      <4>2. QED
        BY <4>1, Marks, Zenon
    <3>2. \A n : n = 1 \/ n = 0 => n <= 1
      OBVIOUS
    <3>3. QED
      BY <2>2, <3>1, <3>2 DEF PairInv, Pairs
  <2>4. Pairs' /\ Creating'
    BY <1>1, <2>1, <2>2, <2>3 DEF PairInv, Pairs, Creating, NoteOps
  <2>5. Looking'
    BY <1>1, <2>1, <2>2 DEF PairInv, Looking, Unless, NoteOps
  <2>6. PairOnce'
    BY <1>1, <2>1, <2>2, <2>3 DEF PairInv, Looking, PairOnce, Unless, At
  <2>7. QED
    BY <2>4, <2>5, <2>6 DEF PairInv
<1>12. QED
  BY <1>5, <1>6, <1>7, <1>8, <1>9, <1>10, <1>11 DEF Notes

\* A failing commit leaves the notification and the marks as they are; that
\* the marks of one that is gone stay is "halfway".
LEMMA PairFailsStep ==
  ASSUME PairInv, Shapes, NEW t \in Thread, CommitFails(t) PROVE PairInv'
<1>1. /\ h'[t] = Idle /\ \A s \in Thread \ {t} : h'[s] = h[s]
      /\ UNCHANGED <<note, pairs>> /\ mishap \subseteq mishap'
      /\ h[t].at = "pairs" => "halfway" \in mishap'
  BY DEF CommitFails, Raise, Become, Shapes, note_vars
<1>2. Idle.op \notin NoteOps \union {"look"}
  BY DEF Idle, NoteOps
<1>3. Pairs' /\ Creating'
  BY <1>1, <1>2 DEF PairInv, Pairs, Creating, NoteOps
<1>4. Looking'
  BY <1>1, <1>2 DEF PairInv, Looking, Unless, NoteOps
<1>5. PairOnce'
  BY <1>1, <1>2 DEF PairInv, PairOnce, Unless, At
<1>6. QED
  BY <1>3, <1>4, <1>5 DEF PairInv

LEMMA PairRestart == ASSUME PairInv, Restart PROVE PairInv'
<1>1. /\ \A t \in Thread : h'[t] = Idle
      /\ UNCHANGED <<note, pairs>> /\ mishap \subseteq mishap'
      /\ "restart" \notin mishap' => \A t \in Thread : h[t].at # "pairs"
  BY DEF Restart, note_vars
<1>2. Idle.op \notin NoteOps \union {"look"}
  BY DEF Idle, NoteOps
<1>3. Pairs' /\ Creating' /\ Looking'
  BY <1>1, <1>2 DEF PairInv, Pairs, Creating, Looking, Unless, NoteOps
<1>4. PairOnce'
  BY <1>1 DEF PairInv, PairOnce, Unless, At
<1>5. QED
  BY <1>3, <1>4 DEF PairInv

LEMMA PairInitially == Init => PairInv
<1> SUFFICES ASSUME Init PROVE PairInv
  OBVIOUS
<1>1. pairs = [u \in User |-> 0] /\ \A t \in Thread : h[t].op \notin NoteOps \union {"look"}
  BY DEF Init, Idle, NoteOps
<1>2. Pairs /\ Creating
  BY <1>1 DEF Pairs, Creating, NoteOps
<1>3. Looking /\ PairOnce
  BY <1>1 DEF Looking, PairOnce, Unless, NoteOps
<1>4. QED
  BY <1>2, <1>3 DEF PairInv

LEMMA PairInductive == PairInv /\ IInv /\ [Next]_vars => PairInv'
<1> SUFFICES ASSUME PairInv, IInv, [Next]_vars PROVE PairInv'
  OBVIOUS
<1>1. ASSUME NEW t \in Thread, Ask(t) \/ Handle(t) PROVE PairInv'
  BY <1>1, PairAskStep, PairElsewhere, PairStep, PairFailsStep DEF Handle, IInv
<1>2. CASE UNCHANGED vars
  BY <1>2 DEF vars, note_vars, PairInv, Pairs, Creating, Looking, PairOnce, Unless, At
<1>3. QED
  BY <1>1, <1>2, PairRestart DEF Next

\* A user has one mark for a notification at most, and none for one that is gone.
THEOREM PairsSafe == Spec => []PairOnce
<1>1. PairInv => PairOnce
  BY DEF PairInv
<1>2. QED
  BY <1>1, LocksCorrect, PairInitially, PairInductive, PTL DEF Spec
=============================================================================
