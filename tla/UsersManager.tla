---- MODULE UsersManager ----
(***************************************************************************)
(* The user accounts: UsersManager of core/src/auth/user.rs, the handlers  *)
(* of core/src/handlers/users.rs and setup.rs that call it, and users.json,*)
(* which every change rewrites.                                            *)
(*                                                                         *)
(* A handler holds the write lock of the users for its whole operation,    *)
(* so one operation is in progress at a time: it changes the map in memory,*)
(* truncates the file, hands over the new contents, and answers.           *)
(* tokio's File (external) does both on its blocking threads.  Opening the *)
(* file is awaited; the write is not: write_all returns once a thread has  *)
(* been given the data, and dropping the File neither waits nor reports.   *)
(***************************************************************************)
CONSTANTS
  Uids, Names, Perms,
  Revs,       \* what else a user has: password hash and secret, as revisions
  Slots,      \* blocking threads that may be at work on the file (a bound)
  NoUser,     \* an absent entry of the map
  Garbled,    \* file contents that do not parse
  Faults      \* may the file system fail?

User == [name : Names, perms : Perms, rev : Revs, role : {"owner", "user"}]

\* The map of users: in memory, in the file, in a pending write.
Snapshots == [Uids -> User \union {NoUser}]

ASSUME UsersAssumption ==
  /\ NoUser \notin User
  /\ Garbled \notin Snapshots
  /\ Faults \in BOOLEAN

VARIABLES
  life,      \* "up", or "down" after a crash
  users,     \* UsersManager.users
  key,       \* first_time_setup_key: "live", "taken" by a setup_owner, "none"
  op,        \* the operation that holds the write lock, or "none"
  undo,      \* the map it goes back to if it fails
  slot,      \* the thread that opens the file for it
  work,      \* Slots -> what each thread has to do
  file,      \* what users.json would be parsed into
  acked,     \* the map as of the last operation that succeeded
  history    \* subset of {"fault", "cancelled", "half", "overlap"} since startup

opVars == <<op, undo, slot>>
vars == <<life, users, key, opVars, work, file, acked, history>>

Empty == [u \in Uids |-> NoUser]

Ops == {"add", "setup", "delete", "logout", "rename", "password", "relogin", "permissions"}

\* A thread has nothing to do, truncates the file, or writes a snapshot.
Free == [job |-> "free", data |-> Empty]
Truncate == [job |-> "truncate", data |-> Empty]
Write(s) == [job |-> "write", data |-> s]
FreeSlots == {s \in Slots : work[s] = Free}
Busy == Slots \ FreeSlots

OwnerIn(s, u) == s[u] # NoUser /\ s[u].role = "owner"
HasOwner(s) == \E u \in Uids : OwnerIn(s, u)
NameFree(n) == \A u \in Uids : users[u] # NoUser => users[u].name # n

Init ==
  /\ life = "up"
  /\ users = Empty
  /\ key = "live"
  /\ op = "none"
  /\ undo = Empty
  /\ slot \in Slots
  /\ work = [s \in Slots |-> Free]
  /\ file = Empty
  /\ acked = Empty
  /\ history = {}

-----------------------------------------------------------------------------
(* Operations: change the map, then open users.json *)

Begin(o, s, new) ==
  /\ life = "up"
  /\ op = "none"
  /\ s \in FreeSlots
  /\ users' = new
  /\ undo' = users
  /\ op' = o
  /\ slot' = s
  /\ work' = [work EXCEPT ![s] = Truncate]
  /\ history' = IF Busy # {} THEN history \union {"overlap"} ELSE history
  /\ UNCHANGED <<life, file, acked>>

\* setup_owner gives the key up first and waits for the users' lock then.
TakeKey ==
  /\ life = "up"
  /\ key = "live"
  /\ key' = "taken"
  /\ UNCHANGED <<life, users, opVars, work, file, acked, history>>

NewUser(n, r, p, role) == [name |-> n, perms |-> p, rev |-> r, role |-> role]

SetupOwner(s, u, n, p, r) ==
  /\ key = "taken"
  /\ users[u] = NoUser
  /\ NameFree(n)
  /\ key' = "none"
  /\ Begin("setup", s, [users EXCEPT ![u] = NewUser(n, r, p, "owner")])

\* The name is taken, or the client has hung up: the key is gone all the same.
SetupRefused ==
  /\ key = "taken"
  /\ key' = "none"
  /\ UNCHANGED <<life, users, opVars, work, file, acked, history>>

AddUser(s, u, n, p, r) ==
  /\ HasOwner(users)
  /\ users[u] = NoUser
  /\ NameFree(n)
  /\ Begin("add", s, [users EXCEPT ![u] = NewUser(n, r, p, "user")])
  /\ UNCHANGED key

\* Mutant: an owner may delete their own account.
DeleteAnyUser(s, u) ==
  /\ HasOwner(users)
  /\ Begin("delete", s, [users EXCEPT ![u] = NoUser])
  /\ UNCHANGED key

\* Asked for by an owner, of somebody else; the user need not exist.
DeleteUser(s, u) ==
  /\ \E o \in Uids \ {u} : OwnerIn(users, o)
  /\ Begin("delete", s, [users EXCEPT ![u] = NoUser])
  /\ UNCHANGED key

Logout(s, u, r) ==
  /\ users[u] # NoUser
  /\ r # users[u].rev
  /\ Begin("logout", s, [users EXCEPT ![u] = [@ EXCEPT !.rev = r]])
  /\ UNCHANGED key

\* The new name is not compared with the others.
RenameUser(s, u, n) ==
  /\ users[u] # NoUser
  /\ Begin("rename", s, [users EXCEPT ![u] = [@ EXCEPT !.name = n]])
  /\ UNCHANGED key

ChangePassword(s, u, r) ==
  /\ users[u] # NoUser
  /\ r # users[u].rev
  /\ Begin("password", s, [users EXCEPT ![u] = [@ EXCEPT !.rev = r]])
  /\ UNCHANGED key

UpdatePermissions(s, u, p) ==
  /\ users[u] # NoUser
  /\ Begin("permissions", s, [users EXCEPT ![u] = [@ EXCEPT !.perms = p]])
  /\ UNCHANGED key

\* Mutant: a failure is reported and not undone.
OpenFailsKeeping ==
  /\ Faults
  /\ op # "none"
  /\ op' = "none"
  /\ work' = [work EXCEPT ![slot] = Free]
  /\ history' = history \union (IF op = "relogin" THEN {"fault", "half"} ELSE {"fault"})
  /\ UNCHANGED <<life, users, key, undo, slot, file, acked>>

\* write_to_file could not open the file: undo.  A delete of an unknown user
\* panics instead, which leaves the map as it was too.
OpenFails ==
  /\ Faults
  /\ op # "none"
  /\ users' = undo
  /\ op' = "none"
  /\ work' = [work EXCEPT ![slot] = Free]
  /\ history' = history \union (IF op = "relogin" THEN {"fault", "half"} ELSE {"fault"})
  /\ UNCHANGED <<life, key, undo, slot, file, acked>>

\* Mutant: the map is serialised before the change.
SucceedStale ==
  /\ op \notin {"none", "password"}
  /\ file' = Empty
  /\ work' = [work EXCEPT ![slot] = Write(undo)]
  /\ acked' = users
  /\ op' = "none"
  /\ UNCHANGED <<life, users, key, undo, slot, history>>

\* The file is open, hence empty.  The data goes to a thread, the event is sent
\* and the operation has succeeded.
Succeed ==
  /\ op \notin {"none", "password"}
  /\ file' = Empty
  /\ work' = [work EXCEPT ![slot] = Write(users)]
  /\ acked' = users
  /\ op' = "none"
  /\ UNCHANGED <<life, users, key, undo, slot, history>>

\* change_password then logs the user out, with a second write of its own.
Relogin(s, u, r) ==
  /\ op = "password"
  /\ s \in FreeSlots
  /\ users[u] # NoUser
  /\ users[u] # undo[u]
  /\ r # users[u].rev
  /\ file' = Empty
  /\ work' = [work EXCEPT ![slot] = Write(users), ![s] = Truncate]
  /\ undo' = users
  /\ users' = [users EXCEPT ![u] = [@ EXCEPT !.rev = r]]
  /\ slot' = s
  /\ op' = "relogin"
  /\ history' = history \union {"overlap"}
  /\ UNCHANGED <<life, key, acked>>

\* The client hangs up while the file is being opened and hyper drops the
\* handler: no undo, no data, no event.  The thread opens the file regardless.
Cancel ==
  /\ op # "none"
  /\ op' = "none"
  /\ history' = history \union {"cancelled"}
  /\ UNCHANGED <<life, users, key, undo, slot, work, file, acked>>

-----------------------------------------------------------------------------
(* The blocking threads, in any order *)

\* Two snapshots of the same length, whatever revisions they hold.
SameLength(a, b) ==
  \A u \in Uids :
    /\ a[u] = NoUser <=> b[u] = NoUser
    /\ a[u] # NoUser => a[u].name = b[u].name /\ a[u].perms = b[u].perms

\* Writing from the start of a file that is not empty keeps what is longer.
Overwrite(old, new) ==
  IF old = Empty \/ (old # Garbled /\ SameLength(old, new)) THEN {new} ELSE {new, Garbled}

LandWrite(s) ==
  /\ work[s].job = "write"
  /\ file' \in Overwrite(file, work[s].data)
  /\ work' = [work EXCEPT ![s] = Free]
  /\ UNCHANGED <<life, users, key, opVars, acked, history>>

\* The error of a write that nobody waits for is lost.
LoseWrite(s) ==
  /\ Faults
  /\ work[s].job = "write"
  /\ work' = [work EXCEPT ![s] = Free]
  /\ history' = history \union {"fault"}
  /\ UNCHANGED <<life, users, key, opVars, file, acked>>

LandOrphan(s) ==
  /\ work[s] = Truncate
  /\ op # "none" => s # slot
  /\ file' = Empty
  /\ work' = [work EXCEPT ![s] = Free]
  /\ UNCHANGED <<life, users, key, opVars, acked, history>>

-----------------------------------------------------------------------------
(* The process ends, at any time, and is started again *)

Crash ==
  /\ life = "up"
  /\ life' = "down"
  /\ users' = Empty
  /\ key' = "none"
  /\ op' = "none"
  /\ work' = [s \in Slots |-> Free]
  /\ acked' = Empty
  /\ history' = {}
  /\ UNCHANGED <<undo, slot, file>>

\* Mutants: a file that does not parse is taken as it is; every start makes a
\* setup key.
RestartUnparsed ==
  /\ life = "down"
  /\ life' = "up"
  /\ users' = file
  /\ acked' = file
  /\ key' = "none"
  /\ UNCHANGED <<opVars, work, file, history>>

RestartWithKey ==
  /\ life = "down"
  /\ file # Garbled
  /\ life' = "up"
  /\ users' = file
  /\ acked' = file
  /\ key' = "live"
  /\ UNCHANGED <<opVars, work, file, history>>

\* load_users; a file that does not parse ends the startup.  A setup key is made
\* when no user is an owner.
Restart ==
  /\ life = "down"
  /\ file # Garbled
  /\ life' = "up"
  /\ users' = file
  /\ acked' = file
  /\ key' = IF HasOwner(file) THEN "none" ELSE "live"
  /\ UNCHANGED <<opVars, work, file, history>>

-----------------------------------------------------------------------------

Handler(s) ==
  \E u \in Uids :
    \/ \E n \in Names, p \in Perms, r \in Revs : SetupOwner(s, u, n, p, r) \/ AddUser(s, u, n, p, r)
    \/ \E r \in Revs : Logout(s, u, r) \/ ChangePassword(s, u, r) \/ Relogin(s, u, r)
    \/ \E n \in Names : RenameUser(s, u, n)
    \/ \E p \in Perms : UpdatePermissions(s, u, p)
    \/ DeleteUser(s, u)

Next ==
  \/ TakeKey \/ SetupRefused \/ OpenFails \/ Succeed \/ Cancel \/ Crash \/ Restart
  \/ \E s \in Slots : Handler(s) \/ LandWrite(s) \/ LoseWrite(s) \/ LandOrphan(s)

Spec == Init /\ [][Next]_vars

-----------------------------------------------------------------------------
(* Properties *)

\* Type correctness of the accounts in memory and on disk (user.rs:353-675).
TypeOK ==
  /\ life \in {"up", "down"}
  /\ users \in Snapshots
  /\ key \in {"live", "taken", "none"}
  /\ op \in Ops \union {"none"}
  /\ undo \in Snapshots
  /\ slot \in Slots
  /\ work \in [Slots -> [job : {"free", "truncate", "write"}, data : Snapshots]]
  /\ file \in Snapshots \union {Garbled}
  /\ acked \in Snapshots
  /\ history \subseteq {"fault", "cancelled", "half", "overlap"}

\* Whatever order setups, crashes, restarts and stray writes come in, there is
\* never more than one owner account (setup.rs:24-40, lib.rs:490-505).
SingleOwner == \A u, v \in Uids : OwnerIn(users, u) /\ OwnerIn(users, v) => u = v

\* A failed operation leaves no trace in memory: between operations the map is
\* what the last success made it, unless a handler was dropped half-way or a
\* password change could not finish its logout (user.rs:431-675).
MemoryIsAcknowledged ==
  op = "none" /\ history \intersect {"cancelled", "half"} = {} => users = acked

\* Once its threads are at rest the file holds the acknowledged users, provided no
\* write failed, none was dropped and no two were in progress together
\* (user.rs:411-427).
SettledFileIsAcknowledged ==
  life = "up" /\ op = "none" /\ Busy = {} /\ history = {} => file = acked

\* While Lodestone runs nobody takes the owner's account away, the failure of the
\* setup that creates it apart (users.rs:74-79, user.rs:459-487).
OwnerIsKept ==
  [][\A u \in Uids :
       OwnerIn(users, u) /\ life' = "up" /\ op # "setup" => OwnerIn(users', u)]_vars

\* What test_persistent asserts (user.rs:862): a user whose creation succeeded is
\* found when the file is loaded, here once all writes have landed undisturbed.
SuccessIsDurable ==
  life = "up" /\ op = "none" /\ Busy = {} /\ history \subseteq {"overlap"} => file = acked

\* The refusal of add_user (user.rs:432-436): no two users have one name.
NamesAreUnique ==
  \A u, v \in Uids :
    users[u] # NoUser /\ users[v] # NoUser /\ users[u].name = users[v].name => u = v
====
