-------------------------------- MODULE Users --------------------------------
(***************************************************************************)
(* The user service of docklet, src/user/user.py: its request handlers,    *)
(* each a thread of Flask, and what they call.                             *)
(*                                                                         *)
(*   groups, quotas    userManager.groupadd and others: two JSON files     *)
(*                     that are read, changed and written as a whole       *)
(*   usage             usageInc, usageRelease, usageRecover                *)
(*   accounts          register, modify, and the failed logins of auth     *)
(*   notifications     notificationmgr.py                                  *)
(*   locks             lockmgr.py, the named locks some handlers hold      *)
(*                                                                         *)
(* A handler takes its lock, does its work and gives the lock back; there  *)
(* is no "finally", so an exception leaves the lock held. A step is what   *)
(* a handler does between two accesses to what others write. There is one  *)
(* notification. member, approved and mishap are history.                  *)
(***************************************************************************)
EXTENDS Naturals, FiniteSetsExt, SequencesExt

CONSTANTS
  Thread,
  User, Group,
  Limit,    \* values of the cpu quota
  Lockout,  \* so many failed logins are allowed, 40
  MaxEvent  \* bound: requests and restarts

ASSUME UsersAssumption ==
  /\ Limit \subseteq Nat /\ Limit # {}
  /\ {Lockout, MaxEvent} \subseteq Nat
  /\ "free" \notin Thread

VARIABLES
  h,        \* what a thread does
  lock,     \* LockMgr.locks: the holder of each
  file,     \* global/sys/quota, global/sys/quotainfo
  torn,     \* files opened for writing, and so empty, and not written yet
  usage,    \* UserUsage
  fails,    \* LoginFailMsg.failcnt
  row,      \* User: status and group
  note,     \* Notification.status, or "none"
  readers,  \* NotificationGroups
  pairs,    \* UserNotificationPair: how many a user has
  member,   \* users whose registration was acknowledged
  approved, \* users an administrator made "normal"
  mishap, used

stored == <<file, torn, usage, fails>>
account_vars == <<row, member, approved>>
note_vars == <<note, readers, pairs>>
vars == <<h, lock, stored, account_vars, note_vars, mishap, used>>

-----------------------------------------------------------------------------
(* Requests and locks.                                                     *)

Default == CHOOSE g \in Group : TRUE
NoUser == "none"
FileOps == {"groupadd", "groupdel", "groupModify", "quotaadd", "chdefault"}
UsageOps == {"usageInc", "usageRelease"} \* usageRecover does what usageRelease does
AccountOps == {"register", "activate", "useradd", "modify"}
NoteOps == {"create", "change", "delete"}
Cause == {"torn",    \* a handler read a file that was not written yet
          "gone",    \* a group was deleted that a user is in
          "number",  \* a value of a form or a quota was missing or not a number
          "database",\* a commit failed
          "halfway", \* the second of two commits failed
          "missing", \* the notification of a form did not exist
          "mail",    \* a mail could not be sent
          "together",\* two logins of a user at a time
          "crossed", \* two changes of an account at a time
          "reset",   \* modify was sent another status for an approved user
          "seen",    \* a user looked while a notification was made or deleted
          "restart"} \* the service was restarted within a change

Status == {"init", "applying", "normal", "locked"}

Free == "free"
Leaked == "leaked"
Lock == {<<"__quotafile", NoUser>>, <<"__notification", NoUser>>} \union ({"__usage"} \X User)
Idle == [op |-> "none", u |-> NoUser, g |-> NoUser, at |-> "none", copy |-> 0]
LockOf(r) == CASE r.op \in UsageOps -> <<"__usage", r.u>>
               [] r.op \in FileOps -> <<"__quotafile", NoUser>>
               [] OTHER -> <<"__notification", NoUser>>
Locked_mutant(op) == op \in (FileOps \ {"groupdel"}) \union UsageOps \union NoteOps
Locked(op) == op \in FileOps \union UsageOps \union NoteOps

Init ==
  /\ h = [t \in Thread |-> Idle] /\ lock = [l \in Lock |-> Free]
  /\ file = [quota |-> <<[name |-> Default, cpu |-> Max(Limit), more |-> FALSE]>>,
             info |-> [default |-> Default, more |-> FALSE]]
  /\ torn = {}
  /\ usage = [u \in User |-> 0] /\ fails = [u \in User |-> 0]
  /\ row \in [User -> [status: {"init", "normal"}, group: {Default}]
                      \union {[status |-> "none", group |-> Default]}]
  /\ note = "none" /\ readers = {} /\ pairs = [u \in User |-> 0]
  /\ member = {} /\ approved = {u \in User : row[u].status = "normal"}
  /\ mishap = {} /\ used = 0

Spend == used < MaxEvent /\ used' = used + 1
Become(t, r) == h' = [h EXCEPT ![t] = r]
At(t, op, at) == h[t].op = op /\ h[t].at = at

Begin(t, op, u, g) ==
  /\ h[t] = Idle /\ Spend
  /\ Become(t, [op |-> op, u |-> u, g |-> g, copy |-> 0,
                at |-> IF Locked(op) THEN "wait" ELSE "read"])

\* What is already being done for a user, of these kinds.
Busy(u, ops) == \E t \in Thread : h[t].u = u /\ h[t].op \in ops

FileRequest(t) ==
  /\ \E op \in FileOps, g \in Group : Begin(t, op, NoUser, g)
  /\ UNCHANGED <<lock, stored, account_vars, note_vars, mishap>>

\* login_required has loaded the user, with the group of that moment.
UsageRequest(t, u) ==
  /\ row[u].status = "normal" /\ \E op \in UsageOps : Begin(t, op, u, row[u].group)
  /\ UNCHANGED <<lock, stored, account_vars, note_vars, mishap>>

LoginRequest(t, u) ==
  /\ Begin(t, "login", u, NoUser)
  /\ mishap' = IF Busy(u, {"login"}) THEN mishap \union {"together"} ELSE mishap
  /\ UNCHANGED <<lock, stored, account_vars, note_vars>>

NewGroup(op, u) ==
  CASE op = "modify" -> Group
    [] op = "activate" -> {row[u].group}
    [] OTHER -> {file.info.default}

\* newuser reads the default group, unless the file is empty: then nothing
\* else happens.
AccountRequest(t, u) ==
  /\ \E op \in AccountOps :
       /\ op \in {"activate", "modify"} => row[u].status # "none"
       /\ op \in {"register", "useradd"} => "info" \notin torn
       /\ \E g \in NewGroup(op, u) : Begin(t, op, u, g)
  /\ mishap' = IF Busy(u, AccountOps) THEN mishap \union {"crossed"} ELSE mishap
  /\ UNCHANGED <<lock, stored, account_vars, note_vars>>

\* The first login with an account of another system registers it, in the
\* group that system names; the status it gives is taken to be "init".
FirstLogin(t, u) ==
  /\ row[u].status = "none" /\ "info" \notin torn
  /\ \E g \in Group : Begin(t, "register", u, g)
  /\ mishap' = IF Busy(u, AccountOps) THEN mishap \union {"crossed"} ELSE mishap
  /\ UNCHANGED <<lock, stored, account_vars, note_vars>>

NoteRequest(t) ==
  /\ \E op \in NoteOps, g \in Group \union {"all"} : Begin(t, op, NoUser, g)
  /\ h'[t].op = "create" => note = "none" /\ ~\E s \in Thread : h[s].op = "create"
  /\ mishap' = IF \E s \in Thread : h[s].op = "look" THEN mishap \union {"seen"} ELSE mishap
  /\ UNCHANGED <<lock, stored, account_vars, note_vars>>

Acquire(t) ==
  LET l == LockOf(h[t]) IN
  /\ h[t].at = "wait" /\ lock[l] = Free
  /\ lock' = [lock EXCEPT ![l] = t] /\ Become(t, [h[t] EXCEPT !.at = "read"])
  /\ UNCHANGED <<stored, account_vars, note_vars, mishap, used>>

Reply_mutant(t) == Become(t, Idle) /\ lock' = [l \in Lock |-> IF lock[l] = t /\ h[t].op # "usageInc"
                                                              THEN Free ELSE lock[l]]

\* The handler answers, and gives its lock back.
Reply(t) == Become(t, Idle) /\ lock' = [l \in Lock |-> IF lock[l] = t THEN Free ELSE lock[l]]

\* An exception: the answer is an error, and the lock stays as it is.
Raise(t, cause) ==
  /\ Become(t, Idle) /\ lock' = [l \in Lock |-> IF lock[l] = t THEN Leaked ELSE lock[l]]
  /\ mishap' = mishap \union {cause}

-----------------------------------------------------------------------------
(* Groups and quotas. A group may be there twice: the first one counts.    *)

Names(groups) == {groups[i].name : i \in DOMAIN groups}
IndexOf(groups, g) == Min({i \in DOMAIN groups : groups[i].name = g})

\* What becomes of the groups, for each form. A form that was made before a
\* quota was added does not have it.
GroupAdded(groups, g) ==
  {Append(groups, [name |-> g, cpu |-> Min(Limit), more |-> more]) : more \in {FALSE, file.info.more}}
GroupDeleted(groups, g) ==
  {IF g \in Names(groups) THEN RemoveAt(groups, IndexOf(groups, g)) ELSE groups}
GroupModified(groups, g) == {[groups EXCEPT ![IndexOf(groups, g)].cpu = q] : q \in Limit}
QuotaAdded(groups) == {[i \in DOMAIN groups |-> [groups[i] EXCEPT !.more = TRUE]]}

Changed(r, groups) ==
  CASE r.op = "groupadd" -> GroupAdded(groups, r.g)
    [] r.op = "groupdel" -> GroupDeleted(groups, r.g)
    [] r.op = "groupModify" -> GroupModified(groups, r.g)
    [] r.op = "quotaadd" -> QuotaAdded(groups)

FileOf(r) == IF r.at \in {"open", "write"} THEN "quota" ELSE "info"
ChangedInfo(r, info) == IF r.op = "chdefault" THEN [info EXCEPT !.default = r.g]
                        ELSE [info EXCEPT !.more = TRUE]

ReadQuota(t) ==
  /\ h[t].at = "read" /\ h[t].op \in FileOps \ {"chdefault"}
  /\ IF "quota" \in torn THEN Raise(t, "torn")
     ELSE IF h[t].op = "groupModify" /\ h[t].g \notin Names(file.quota)
       THEN Reply(t) /\ UNCHANGED mishap
     ELSE \/ /\ \E new \in Changed(h[t], file.quota) :
                  Become(t, [h[t] EXCEPT !.at = "open", !.copy = <<file.quota, new>>])
             /\ UNCHANGED <<lock, mishap>>
          \/ h[t].op \in {"groupadd", "groupModify"} /\ Raise(t, "number")
  /\ UNCHANGED <<stored, account_vars, note_vars, used>>

ReadInfo(t) ==
  /\ At(t, "chdefault", "read") \/ At(t, "quotaadd", "read info")
  /\ IF "info" \in torn THEN Raise(t, "torn")
     ELSE /\ Become(t, [h[t] EXCEPT !.at = "open info",
                                    !.copy = <<file.info, ChangedInfo(h[t], file.info)>>])
          /\ UNCHANGED <<lock, mishap>>
  /\ UNCHANGED <<stored, account_vars, note_vars, used>>

\* open(..., 'w') empties the file.
Open(t) ==
  /\ h[t].at \in {"open", "open info"} /\ torn' = torn \union {FileOf(h[t])}
  /\ Become(t, [h[t] EXCEPT !.at = IF @ = "open" THEN "write" ELSE "write info"])
  /\ UNCHANGED <<lock, file, usage, fails, account_vars, note_vars, mishap, used>>

Write(t) ==
  LET r == h[t]
      f == FileOf(r) IN
  /\ r.at \in {"write", "write info"}
  /\ file' = [file EXCEPT ![f] = r.copy[2]] /\ torn' = torn \ {f}
  /\ IF r.op = "quotaadd" /\ f = "quota"
       THEN Become(t, [r EXCEPT !.at = "read info", !.copy = 0]) /\ UNCHANGED lock
       ELSE Reply(t)
  /\ UNCHANGED <<usage, fails, account_vars, note_vars, mishap, used>>

-----------------------------------------------------------------------------
(* Usage, and failed logins.                                               *)

LimitOf(g) == file.quota[IndexOf(file.quota, g)].cpu

\* usageInc reads the quota of the user's group first, and then the usage. int()
\* raises on what a form, or groupModify before it, left out or did not check.
ReadUsage(t) ==
  LET r == h[t]
      Read(limit) == /\ Become(t, [r EXCEPT !.at = "commit", !.copy = <<usage[r.u], limit>>])
                     /\ UNCHANGED <<lock, mishap>> IN
  /\ r.op \in UsageOps /\ r.at = "read"
  /\ \/ Raise(t, "number")
     \/ r.op = "usageRelease" /\ Read(0)
     \/ r.op = "usageInc" /\ "quota" \in torn /\ Raise(t, "torn")
     \/ /\ r.op = "usageInc" /\ "quota" \notin torn
        /\ IF r.g \in Names(file.quota) THEN Read(LimitOf(r.g)) ELSE Raise(t, "gone")
  /\ UNCHANGED <<stored, account_vars, note_vars, used>>

\* Beyond the quota nothing is charged; below zero the usage is zero.
Increased(old, limit) == IF old < limit THEN old + 1 ELSE old
Released(old) == Max({old, 1}) - 1

CommitUsage(t) ==
  LET r == h[t] IN
  /\ r.op \in UsageOps /\ r.at = "commit"
  /\ usage' = [usage EXCEPT ![r.u] = IF r.op = "usageRelease" THEN Released(r.copy[1])
                                     ELSE Increased(r.copy[1], r.copy[2])]
  /\ Reply(t)
  /\ UNCHANGED <<file, torn, fails, account_vars, note_vars, mishap, used>>

\* After a fifth, tenth, ... failure logins are refused for a while, after
\* Lockout for good.
ReadFailures(t) ==
  LET r == h[t] IN
  /\ At(t, "login", "read")
  /\ \/ /\ fails[r.u] <= Lockout /\ UNCHANGED lock
        /\ Become(t, [r EXCEPT !.at = "commit", !.copy = fails[r.u]])
     \/ fails[r.u] > 0 /\ Reply(t)
  /\ UNCHANGED <<stored, account_vars, note_vars, mishap, used>>

\* auth_local or auth_pam: the password is right or not.
Verdict == BOOLEAN

CommitLogin(t) ==
  LET r == h[t] IN
  /\ At(t, "login", "commit")
  /\ \E success \in Verdict :
       fails' = [fails EXCEPT ![r.u] = IF ~success THEN r.copy + 1 ELSE IF r.copy = 0 THEN @ ELSE 0]
  /\ Reply(t)
  /\ UNCHANGED <<file, torn, usage, account_vars, note_vars, mishap, used>>

-----------------------------------------------------------------------------
(* Accounts.                                                               *)

\* An account is replaced only while it waits for its owner's data.
Replaceable_mutant(status) == status \in {"init", "normal"}
Replaceable(status) == status = "init"

ReadAccount(t) ==
  LET r == h[t]
      status == row[r.u].status IN
  /\ r.op \in AccountOps /\ r.at = "read"
  /\ LET Go(at) == Become(t, [r EXCEPT !.at = at, !.copy = row[r.u]]) /\ UNCHANGED lock IN
     CASE r.op = "modify" -> IF status = "none" THEN Reply(t) ELSE Go("commit")
       [] r.op # "modify" /\ status = "none" -> Go("add")
       [] r.op # "modify" /\ Replaceable(status) -> Go("drop")
       [] OTHER -> Reply(t)
  /\ UNCHANGED <<stored, account_vars, note_vars, mishap, used>>

\* The row is deleted and committed first. A row that was made anew meanwhile
\* may have the old row's id.
DropAccount(t) ==
  LET r == h[t] IN
  /\ r.op \in AccountOps /\ r.at = "drop" /\ Become(t, [r EXCEPT !.at = "add"])
  /\ \/ row' = [row EXCEPT ![r.u].status = "none"]
     \/ row[r.u] # r.copy /\ UNCHANGED row
  /\ UNCHANGED <<lock, stored, member, approved, note_vars, mishap, used>>

\* The names of users are unique: a second row is refused.
AddAccount(t) ==
  LET r == h[t]
      new == CASE r.op = "useradd" -> "normal" [] r.op = "activate" -> "applying" [] OTHER -> "init" IN
  /\ r.op \in AccountOps /\ r.at = "add" /\ Reply(t)
  /\ IF row[r.u].status # "none" THEN UNCHANGED account_vars
     ELSE /\ row' = [row EXCEPT ![r.u] = [status |-> new, group |-> r.g]]
          /\ member' = member \union {r.u}
          /\ approved' = IF r.op = "useradd" THEN approved \union {r.u} ELSE approved
  /\ UNCHANGED <<stored, note_vars, mishap, used>>

\* What differs from the row that was read is written, if the row is there. An
\* administrator activates an account, or sends a form with any status and group.
Written(old, read, new) == IF new = read THEN old ELSE new

CommitAccount(t) ==
  LET r == h[t] IN
  /\ At(t, "modify", "commit") /\ Reply(t)
  /\ \/ /\ row[r.u].status # "none"
        /\ \E form \in [status: Status, group: {r.g}]
                      \union {[status |-> "normal", group |-> r.copy.group]} :
             /\ row' = [row EXCEPT ![r.u] =
                  [status |-> Written(@.status, r.copy.status, form.status),
                   group |-> Written(@.group, r.copy.group, form.group)]]
             /\ approved' = IF form.status = "normal" THEN approved \union {r.u} ELSE approved
             /\ mishap' = IF r.u \in approved /\ form.status # "normal"
                          THEN mishap \union {"reset"} ELSE mishap
     \/ row[r.u] # r.copy /\ UNCHANGED <<row, approved, mishap>>
  /\ UNCHANGED <<stored, member, note_vars, used>>

-----------------------------------------------------------------------------
(* Notifications.                                                          *)

MailFails(t) == Raise(t, "mail")
Visible(u) == note = "open" /\ readers \intersect {row[u].group, "all"} # {}
Receivers == {u \in User : row[u].status # "none" /\ row[u].group \in readers}

CreateNote(t) ==
  /\ At(t, "create", "read") /\ note' = "open" /\ Become(t, [h[t] EXCEPT !.at = "groups"])
  /\ UNCHANGED <<lock, stored, account_vars, readers, pairs, mishap, used>>

\* The groups are committed, and then mails may be sent.
CreateGroups(t) ==
  /\ At(t, "create", "groups") /\ readers' = {h[t].g}
  /\ \/ Become(t, [h[t] EXCEPT !.at = "pairs"]) /\ UNCHANGED <<lock, mishap>>
     \/ MailFails(t)
  /\ UNCHANGED <<stored, account_vars, note, pairs, used>>

CreatePairs(t) ==
  /\ At(t, "create", "pairs") /\ Reply(t)
  /\ pairs' = [u \in User |-> IF u \in Receivers THEN Min({2, pairs[u] + 1}) ELSE pairs[u]]
  /\ UNCHANGED <<stored, account_vars, note, readers, mishap, used>>

ChangeNote(t) ==
  /\ At(t, "change", "read")
  /\ IF note = "none" THEN Raise(t, "missing") /\ UNCHANGED note_vars
     ELSE /\ note' \in {"open", "closed"} /\ readers' = {h[t].g} /\ UNCHANGED pairs
          /\ \/ Reply(t) /\ UNCHANGED mishap
             \/ MailFails(t)
  /\ UNCHANGED <<stored, account_vars, used>>

DeleteNote(t) ==
  /\ At(t, "delete", "read")
  /\ IF note = "none" THEN Raise(t, "missing") /\ UNCHANGED note_vars
     ELSE /\ note' = "none" /\ readers' = {} /\ UNCHANGED <<pairs, lock, mishap>>
          /\ Become(t, [h[t] EXCEPT !.at = "pairs"])
  /\ UNCHANGED <<stored, account_vars, used>>

Unpaired_mutant == pairs
Unpaired == [u \in User |-> 0]

DeletePairs(t) ==
  /\ At(t, "delete", "pairs") /\ pairs' = Unpaired /\ Reply(t)
  /\ UNCHANGED <<stored, account_vars, note, readers, mishap, used>>

\* query_self and query_all: a user looks at the notifications. No lock.
Look(t, u) ==
  /\ row[u].status = "normal" /\ Visible(u) /\ pairs[u] = 0 /\ Begin(t, "look", u, NoUser)
  /\ mishap' = IF Busy(u, {"look"}) \/ \E s \in Thread : h[s].op \in NoteOps
               THEN mishap \union {"seen"} ELSE mishap
  /\ UNCHANGED <<lock, stored, account_vars, note_vars>>

AddPair(t) ==
  /\ At(t, "look", "read") /\ pairs' = [pairs EXCEPT ![h[t].u] = Min({2, @ + 1})] /\ Reply(t)
  /\ UNCHANGED <<stored, account_vars, note, readers, mishap, used>>

-----------------------------------------------------------------------------

\* A commit fails: nothing of it is stored, and the handler raises. What it has
\* committed before stays: the row that was deleted, the notification without marks.
CommitFails(t) ==
  /\ \/ h[t].at \in {"commit", "drop", "add", "groups", "pairs"}
     \/ h[t].op \in NoteOps \union {"look"} /\ h[t].at = "read"
  /\ Raise(t, IF h[t].at \in {"add", "groups", "pairs"} THEN "halfway" ELSE "database")
  /\ UNCHANGED <<stored, account_vars, note_vars, used>>

\* The service stops, and starts again. A file that exists is left as it is.
Restart ==
  /\ Spend /\ h' = [t \in Thread |-> Idle] /\ lock' = [l \in Lock |-> Free]
  /\ mishap' = IF \E t \in Thread : h[t].at \in {"write", "write info", "add", "pairs", "groups"}
               THEN mishap \union {"restart"} ELSE mishap
  /\ UNCHANGED <<stored, account_vars, note_vars>>

Ask(t) == \/ FileRequest(t) \/ NoteRequest(t)
          \/ \E u \in User : \/ UsageRequest(t, u) \/ LoginRequest(t, u)
                            \/ AccountRequest(t, u) \/ FirstLogin(t, u) \/ Look(t, u)
Files(t) == ReadQuota(t) \/ ReadInfo(t) \/ Open(t) \/ Write(t)
Counts(t) == ReadUsage(t) \/ CommitUsage(t) \/ ReadFailures(t) \/ CommitLogin(t)
Accounts(t) == ReadAccount(t) \/ DropAccount(t) \/ AddAccount(t) \/ CommitAccount(t)
Notes(t) == \/ CreateNote(t) \/ CreateGroups(t) \/ CreatePairs(t) \/ ChangeNote(t)
            \/ DeleteNote(t) \/ DeletePairs(t) \/ AddPair(t)

Handle(t) == Acquire(t) \/ Files(t) \/ Counts(t) \/ Accounts(t) \/ Notes(t) \/ CommitFails(t)

Next == \/ \E t \in Thread : Ask(t) \/ Handle(t)
        \/ Restart

Spec == Init /\ [][Next]_vars

-----------------------------------------------------------------------------
(* Properties.                                                             *)

Unless(causes, P) == mishap \intersect causes # {} \/ P

\* The handlers: each way out gives the lock back, the exceptions excepted. A
\* lock is held by a handler that is on its way.
LocksFree ==
  Unless({"torn", "gone", "number", "missing", "mail", "database", "halfway"},
         \A l \in Lock : lock[l] # Free =>
           \E t \in Thread : lock[l] = t /\ Locked(h[t].op) /\ LockOf(h[t]) = l)

\* groupModify and the like, usageInc, auth: what a handler is going to write
\* comes from what is stored now: it overwrites nothing it has not seen.
Copies(r) ==
  /\ r.op \in FileOps /\ r.at \in {"open", "write"} => r.copy[1] = file.quota
  /\ r.op \in FileOps /\ r.at \in {"open info", "write info"} => r.copy[1] = file.info
  /\ r.op \in UsageOps /\ r.at = "commit" => r.copy[1] = usage[r.u]
  /\ r.op = "login" /\ r.at = "commit" => Unless({"together"}, r.copy = fails[r.u])
FreshCopies == \A t \in Thread : Copies(h[t])

\* register, modify: whose registration was acknowledged has a row, or is
\* about to get a new one, and who was approved is not asked to apply again,
\* unless the form of an administrator says so ("reset").
AccountKept ==
  Unless({"crossed", "restart", "halfway", "reset"},
         \A u \in User :
           /\ u \in member => row[u].status # "none" \/ \E t \in Thread : h[t].u = u /\ h[t].at = "add"
           /\ u \in approved => row[u].status = "normal")

\* create_notification, delete_notification, query_self_...: a user has one
\* mark for a notification, and none for one that is gone.
PairOnce ==
  Unless({"seen", "restart", "halfway"},
         \A u \in User : /\ pairs[u] <= 1
                         /\ note = "none" /\ pairs[u] > 0 => \E t \in Thread : At(t, "delete", "pairs"))
=============================================================================
