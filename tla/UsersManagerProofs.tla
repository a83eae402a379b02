---- MODULE UsersManagerProofs ----
(***************************************************************************)
(* Proofs about UsersManager, for any number of accounts and threads.      *)
(*                                                                         *)
(* SingleOwner is not inductive by itself: a failure goes back to an       *)
(* earlier map and a restart to whatever write landed last, so the         *)
(* invariant says of EVERY copy of the map that it has one owner at most,  *)
(* and of the setup key that it is not given out while a copy has one.     *)
(***************************************************************************)
EXTENDS UsersManager, TLAPS

OneOwner(s) == \A u, v \in Uids : OwnerIn(s, u) /\ OwnerIn(s, v) => u = v

\* No copy of the map has two owners.
OwnerInv ==
  /\ OneOwner(users)
  /\ OneOwner(undo)
  /\ \A t \in Slots : OneOwner(work[t].data)
  /\ file # Garbled => OneOwner(file)

\* A setup can still succeed only while there is no owner to fall back to.
KeyInv ==
  key # "none" =>
    /\ ~HasOwner(users)
    /\ op # "none" => ~HasOwner(undo)

\* Undoing an operation takes no owner away, unless it made one.
UndoInv ==
  op \notin {"none", "setup"} =>
    \A u \in Uids : OwnerIn(users, u) => OwnerIn(undo, u)

DownInv ==
  life = "down" =>
    /\ op = "none"
    /\ users = Empty
    /\ \A t \in Slots : work[t] = Free

Clean == history \intersect {"cancelled", "half"} = {}

\* What memory falls back to was acknowledged.
MemoryInv ==
  Clean =>
    /\ op = "none" => users = acked
    /\ op \notin {"none", "relogin"} => undo = acked

\* Undisturbed, one thread at most is at work, and it has the acknowledged map.
FileInv ==
  life = "up" /\ history = {} =>
    IF op # "none"
    THEN work[slot] = Truncate /\ \A t \in Slots \ {slot} : work[t] = Free
    ELSE \/ file = acked /\ \A t \in Slots : work[t] = Free
         \/ /\ file = Empty
            /\ \E s \in Slots : work[s] = Write(acked) /\ \A t \in Slots \ {s} : work[t] = Free

IInv == TypeOK /\ OwnerInv /\ KeyInv /\ UndoInv /\ DownInv /\ MemoryInv /\ FileInv

-----------------------------------------------------------------------------
(* Snapshots *)

\* Storing a user, or removing one, gives a map of users again (user.rs:437, 473).
LEMMA StoreIsSnapshot ==
  ASSUME NEW s \in Snapshots, NEW u \in Uids, NEW v \in User \union {NoUser}
  PROVE  [s EXCEPT ![u] = v] \in Snapshots
  BY DEF Snapshots

\* The empty map has no owner, so it has one at most.
LEMMA EmptyFacts == Empty \in Snapshots /\ ~HasOwner(Empty) /\ OneOwner(Empty)
  BY DEF Empty, Snapshots, HasOwner, OwnerIn, OneOwner

\* The records a thread may have to do (user.rs:411-427).
LEMMA WorkFacts ==
  ASSUME NEW s \in Snapshots
  PROVE  /\ Free \in [job : {"free", "truncate", "write"}, data : Snapshots]
         /\ Truncate \in [job : {"free", "truncate", "write"}, data : Snapshots]
         /\ Write(s) \in [job : {"free", "truncate", "write"}, data : Snapshots]
         /\ Free.data = Empty /\ Truncate.data = Empty /\ Write(s).data = s
         /\ Free.job = "free" /\ Truncate.job = "truncate" /\ Write(s).job = "write"
  BY EmptyFacts DEF Free, Truncate, Write

\* A change of an account's other fields leaves its role (user.rs:497, 540, 611, 652).
LEMMA RoleKept ==
  ASSUME NEW s \in Snapshots, NEW u \in Uids, s[u] # NoUser,
         NEW w \in User, w.role = s[u].role, NEW v \in Uids
  PROVE  OwnerIn([s EXCEPT ![u] = w], v) <=> OwnerIn(s, v)
  BY UsersAssumption DEF Snapshots, OwnerIn

-----------------------------------------------------------------------------
(* One lemma for what every handler does first *)

\* Any operation that makes no second owner may begin (user.rs:411-675).
LEMMA BeginStep ==
  ASSUME IInv, NEW o \in Ops \ {"relogin"}, NEW s \in Slots, NEW new \in Snapshots,
         Begin(o, s, new), key' \in {"live", "taken", "none"},
         key' # "none" => ~HasOwner(users) /\ ~HasOwner(new),
         OneOwner(new),
         o # "setup" => \A u \in Uids : OwnerIn(new, u) => OwnerIn(users, u)
  PROVE  IInv'
<1> USE DEF IInv, Begin
<1>1. TypeOK'
  BY WorkFacts, EmptyFacts DEF TypeOK, Ops
<1>2. OwnerInv'
  <2>1. \A t \in Slots : work'[t] \in {work[t], Truncate}
    BY DEF TypeOK
  <2>2. OneOwner(Truncate.data)
    BY WorkFacts, EmptyFacts
  <2>3. OneOwner(users)' /\ OneOwner(undo)' /\ (file # Garbled => OneOwner(file))'
    BY DEF OwnerInv, OneOwner, OwnerIn
  <2>4. \A t \in Slots : OneOwner(work[t].data)'
    BY <2>1, <2>2 DEF OwnerInv, OneOwner, OwnerIn
  <2> QED
    BY <2>3, <2>4 DEF OwnerInv
<1>3. KeyInv' /\ UndoInv' /\ DownInv'
  BY DEF KeyInv, UndoInv, DownInv, HasOwner, OwnerIn, Ops
<1>4. MemoryInv'
  BY DEF MemoryInv, Clean, Ops
<1>5. FileInv'
  <2> SUFFICES ASSUME history' = {} PROVE FileInv'
    BY DEF FileInv
  <2>1. Busy = {} /\ history = {}
    OBVIOUS
  <2>2. \A t \in Slots : work[t] = Free
    BY <2>1 DEF Busy, FreeSlots
  <2> QED
    BY <2>2 DEF FileInv, TypeOK, Ops
<1> QED
  BY <1>1, <1>2, <1>3, <1>4, <1>5

\* In particular, one that changes an account's other fields (user.rs:489-675).
LEMMA TouchStep ==
  ASSUME IInv, NEW o \in Ops \ {"relogin", "setup"}, NEW s \in Slots,
         NEW u \in Uids, users[u] # NoUser, NEW w \in User, w.role = users[u].role,
         Begin(o, s, [users EXCEPT ![u] = w]), UNCHANGED key
  PROVE  IInv'
<1> DEFINE new == [users EXCEPT ![u] = w]
<1>1. users \in Snapshots /\ new \in Snapshots
  BY StoreIsSnapshot DEF IInv, TypeOK
<1>2. \A v \in Uids : OwnerIn(new, v) <=> OwnerIn(users, v)
  BY <1>1, RoleKept
<1> HIDE DEF new
<1>3. OneOwner(new) /\ (HasOwner(new) <=> HasOwner(users))
  BY <1>2 DEF IInv, OwnerInv, OneOwner, HasOwner
<1>4. key' \in {"live", "taken", "none"} /\ (key' # "none" => ~HasOwner(users))
  BY DEF IInv, TypeOK, KeyInv
<1>5. Begin(o, s, new)
  BY DEF new
<1> QED
  BY <1>1, <1>2, <1>3, <1>4, <1>5, BeginStep

-----------------------------------------------------------------------------
(* The actions *)

\* The manager as lib.rs:478 creates it, before anything is loaded.
LEMMA InitHolds == Init => IInv
  BY EmptyFacts, WorkFacts, UsersAssumption
  DEF Init, IInv, TypeOK, OwnerInv, KeyInv, UndoInv, DownInv, MemoryInv, FileInv, Ops

\* The operations that handlers begin (user.rs:431-675, setup.rs:19-55).
LEMMA HandlerStep ==
  ASSUME IInv, NEW s \in Slots, NEW u \in Uids
  PROVE  /\ \A n \in Names, p \in Perms, r \in Revs :
              SetupOwner(s, u, n, p, r) \/ AddUser(s, u, n, p, r) => IInv'
         /\ \A r \in Revs : Logout(s, u, r) \/ ChangePassword(s, u, r) => IInv'
         /\ \A n \in Names : RenameUser(s, u, n) => IInv'
         /\ \A p \in Perms : UpdatePermissions(s, u, p) => IInv'
         /\ DeleteUser(s, u) => IInv'
<1>0. users \in Snapshots /\ (users[u] # NoUser => users[u] \in User) /\ OneOwner(users)
  BY DEF IInv, TypeOK, OwnerInv, Snapshots
<1>1. ASSUME NEW n \in Names, NEW p \in Perms, NEW r \in Revs, SetupOwner(s, u, n, p, r)
      PROVE  IInv'
  <2> DEFINE new == [users EXCEPT ![u] = NewUser(n, r, p, "owner")]
  <2>1. ~HasOwner(users)
    BY <1>1 DEF SetupOwner, IInv, KeyInv
  <2>2. new \in Snapshots
    BY <1>0, StoreIsSnapshot DEF NewUser, User
  <2>3. OneOwner(new)
    BY <1>0, <2>1 DEF OneOwner, HasOwner, OwnerIn, Snapshots
  <2>4. Begin("setup", s, new) /\ key' = "none"
    BY <1>1 DEF SetupOwner
  <2> HIDE DEF new
  <2>5. "setup" \in Ops \ {"relogin"}
    BY DEF Ops
  <2> QED
    BY <2>2, <2>3, <2>4, <2>5, BeginStep
<1>2. ASSUME NEW n \in Names, NEW p \in Perms, NEW r \in Revs, AddUser(s, u, n, p, r)
      PROVE  IInv'
  <2> DEFINE new == [users EXCEPT ![u] = NewUser(n, r, p, "user")]
  <2>1. key' = "none"
    BY <1>2 DEF AddUser, IInv, KeyInv
  <2>2. new \in Snapshots
    BY <1>0, StoreIsSnapshot DEF NewUser, User
  <2>3. \A v \in Uids : OwnerIn(new, v) => OwnerIn(users, v)
    BY <1>0 DEF OwnerIn, Snapshots, NewUser
  <2>4. Begin("add", s, new)
    BY <1>2 DEF AddUser
  <2> HIDE DEF new
  <2>5. OneOwner(new)
    BY <1>0, <2>3 DEF OneOwner
  <2>6. "add" \in Ops \ {"relogin"}
    BY DEF Ops
  <2> QED
    BY <2>1, <2>2, <2>3, <2>4, <2>5, <2>6, BeginStep
<1>3. ASSUME NEW r \in Revs, Logout(s, u, r) \/ ChangePassword(s, u, r)
      PROVE  IInv'
  <2> DEFINE w == [users[u] EXCEPT !.rev = r]
  <2>1. w \in User /\ w.role = users[u].role
    BY <1>0, <1>3 DEF Logout, ChangePassword, User
  <2>2. \E o \in Ops \ {"relogin", "setup"} : Begin(o, s, [users EXCEPT ![u] = w])
    BY <1>3 DEF Logout, ChangePassword, Ops
  <2> QED
    BY <1>3, <2>1, <2>2, TouchStep DEF Logout, ChangePassword
<1>4. ASSUME NEW n \in Names, RenameUser(s, u, n)
      PROVE  IInv'
  <2> DEFINE w == [users[u] EXCEPT !.name = n]
  <2>1. w \in User /\ w.role = users[u].role
    BY <1>0, <1>4 DEF RenameUser, User
  <2>2. "rename" \in Ops \ {"relogin", "setup"} /\ Begin("rename", s, [users EXCEPT ![u] = w])
    BY <1>4 DEF RenameUser, Ops
  <2> QED
    BY <1>4, <2>1, <2>2, TouchStep DEF RenameUser
<1>5. ASSUME NEW p \in Perms, UpdatePermissions(s, u, p)
      PROVE  IInv'
  <2> DEFINE w == [users[u] EXCEPT !.perms = p]
  <2>1. w \in User /\ w.role = users[u].role
    BY <1>0, <1>5 DEF UpdatePermissions, User
  <2>2. "permissions" \in Ops \ {"relogin", "setup"} /\ Begin("permissions", s, [users EXCEPT ![u] = w])
    BY <1>5 DEF UpdatePermissions, Ops
  <2> QED
    BY <1>5, <2>1, <2>2, TouchStep DEF UpdatePermissions
<1>6. ASSUME DeleteUser(s, u)
      PROVE  IInv'
  <2> DEFINE new == [users EXCEPT ![u] = NoUser]
  <2>1. key' = "none"
    BY <1>6 DEF DeleteUser, IInv, TypeOK, KeyInv, HasOwner
  <2>2. new \in Snapshots
    BY <1>0, StoreIsSnapshot
  <2>3. \A v \in Uids : OwnerIn(new, v) => OwnerIn(users, v)
    BY <1>0 DEF OwnerIn, Snapshots
  <2>4. Begin("delete", s, new)
    BY <1>6 DEF DeleteUser
  <2> HIDE DEF new
  <2>5. OneOwner(new)
    BY <1>0, <2>3 DEF OneOwner
  <2>6. "delete" \in Ops \ {"relogin"}
    BY DEF Ops
  <2> QED
    BY <2>1, <2>2, <2>3, <2>4, <2>5, <2>6, BeginStep
<1> QED
  BY <1>1, <1>2, <1>3, <1>4, <1>5, <1>6

\* The second half of a password change (user.rs:617-618).
LEMMA ReloginStep ==
  ASSUME IInv, NEW s \in Slots, NEW u \in Uids, NEW r \in Revs, Relogin(s, u, r)
  PROVE  IInv'
<1> DEFINE w == [users[u] EXCEPT !.rev = r]
<1>0. users \in Snapshots /\ users[u] \in User /\ OneOwner(users)
  <2>1. users \in Snapshots /\ undo \in Snapshots /\ OneOwner(users)
    BY DEF IInv, TypeOK, OwnerInv
  <2>2. \A v \in Uids : OwnerIn(users, v) => OwnerIn(undo, v)
    BY DEF IInv, UndoInv, Relogin
  <2>3. users[u] # NoUser
    BY DEF Relogin
  <2> QED
    BY <2>1, <2>3 DEF Snapshots
<1>1. w \in User /\ w.role = users[u].role /\ users[u] # NoUser
  BY <1>0, UsersAssumption DEF User
<1>2. users' = [users EXCEPT ![u] = w] /\ users' \in Snapshots
  BY <1>0, <1>1, StoreIsSnapshot DEF Relogin
<1>3. \A v \in Uids : OwnerIn(users', v) <=> OwnerIn(users, v)
  BY <1>0, <1>1, <1>2, RoleKept
<1> HIDE DEF w
<1>4. \A t \in Slots : work'[t] \in {work[t], Truncate, Write(users)}
  BY DEF Relogin, IInv, TypeOK
<1>5. TypeOK'
  BY <1>0, <1>2, WorkFacts, EmptyFacts DEF IInv, TypeOK, Relogin, Ops
<1>6. OwnerInv'
  <2>1. OneOwner(users)' /\ OneOwner(undo)' /\ (file # Garbled => OneOwner(file))'
    BY <1>0, <1>3, EmptyFacts DEF Relogin, OneOwner, OwnerIn
  <2>2. OneOwner(Truncate.data) /\ OneOwner(Write(users).data)
    BY <1>0, WorkFacts, EmptyFacts
  <2>3. \A t \in Slots : OneOwner(work[t].data)'
    BY <1>4, <2>2 DEF IInv, OwnerInv, OneOwner, OwnerIn
  <2> QED
    BY <2>1, <2>3 DEF OwnerInv
<1>7. KeyInv' /\ UndoInv'
  BY <1>3 DEF IInv, KeyInv, UndoInv, Relogin, HasOwner, OwnerIn
<1>8. DownInv' /\ MemoryInv' /\ FileInv'
  BY DEF IInv, DownInv, MemoryInv, Clean, FileInv, Relogin
<1> QED
  BY <1>5, <1>6, <1>7, <1>8 DEF IInv

\* Failures, hang-ups and successes (user.rs:411-427 and every `undo` branch).
LEMMA EndStep ==
  ASSUME IInv
  PROVE  /\ TakeKey => IInv'
         /\ SetupRefused => IInv'
         /\ OpenFails => IInv'
         /\ Succeed => IInv'
         /\ Cancel => IInv'
<1> USE DEF IInv
<1>1. ASSUME TakeKey PROVE IInv'
  BY <1>1 DEF TakeKey, opVars, TypeOK, OwnerInv, KeyInv, UndoInv, DownInv, MemoryInv, Clean,
              FileInv, OneOwner, OwnerIn, HasOwner
<1>2. ASSUME SetupRefused PROVE IInv'
  BY <1>2 DEF SetupRefused, opVars, TypeOK, OwnerInv, KeyInv, UndoInv, DownInv, MemoryInv,
              Clean, FileInv, OneOwner, OwnerIn, HasOwner
<1>3. ASSUME OpenFails PROVE IInv'
  <2>1. TypeOK'
    BY <1>3, WorkFacts, EmptyFacts DEF OpenFails, TypeOK
  <2>2. OwnerInv'
    <3>1. \A t \in Slots : work'[t] \in {work[t], Free}
      BY <1>3 DEF OpenFails, TypeOK
    <3>2. OneOwner(Free.data)
      BY WorkFacts, EmptyFacts
    <3>3. OneOwner(users)' /\ OneOwner(undo)' /\ (file # Garbled => OneOwner(file))'
      BY <1>3 DEF OpenFails, OwnerInv, OneOwner, OwnerIn
    <3>4. \A t \in Slots : OneOwner(work[t].data)'
      BY <3>1, <3>2 DEF OwnerInv, OneOwner, OwnerIn
    <3> QED
      BY <3>3, <3>4 DEF OwnerInv
  <2>3. KeyInv' /\ UndoInv' /\ DownInv' /\ FileInv'
    BY <1>3 DEF OpenFails, KeyInv, UndoInv, DownInv, FileInv, HasOwner, OwnerIn
  <2>4. MemoryInv'
    BY <1>3 DEF OpenFails, MemoryInv, Clean
  <2> QED
    BY <2>1, <2>2, <2>3, <2>4
<1>4. ASSUME Succeed PROVE IInv'
  <2>1. TypeOK'
    BY <1>4, WorkFacts, EmptyFacts DEF Succeed, TypeOK
  <2>2. OwnerInv'
    <3>1. \A t \in Slots : work'[t] \in {work[t], Write(users)}
      BY <1>4 DEF Succeed, TypeOK
    <3>2. OneOwner(Write(users).data)
      BY WorkFacts DEF OwnerInv, TypeOK
    <3>3. OneOwner(users)' /\ OneOwner(undo)' /\ (file # Garbled => OneOwner(file))'
      BY <1>4, EmptyFacts DEF Succeed, OwnerInv, OneOwner, OwnerIn
    <3>4. \A t \in Slots : OneOwner(work[t].data)'
      BY <3>1, <3>2 DEF OwnerInv, OneOwner, OwnerIn
    <3> QED
      BY <3>3, <3>4 DEF OwnerInv
  <2>3. KeyInv' /\ UndoInv' /\ DownInv' /\ MemoryInv'
    BY <1>4 DEF Succeed, KeyInv, UndoInv, DownInv, MemoryInv, Clean, HasOwner, OwnerIn
  <2>4. FileInv'
    BY <1>4 DEF Succeed, FileInv, TypeOK
  <2> QED
    BY <2>1, <2>2, <2>3, <2>4
<1>5. ASSUME Cancel PROVE IInv'
  BY <1>5 DEF Cancel, TypeOK, OwnerInv, KeyInv, UndoInv, DownInv, MemoryInv, Clean,
              FileInv, OneOwner, OwnerIn, HasOwner
<1> QED
  BY <1>1, <1>2, <1>3, <1>4, <1>5

\* The blocking threads (external: tokio's File) and the end of the process.
LEMMA OutsideStep ==
  ASSUME IInv
  PROVE  /\ \A s \in Slots : LandWrite(s) \/ LoseWrite(s) \/ LandOrphan(s) => IInv'
         /\ Crash => IInv'
         /\ Restart => IInv'
<1> USE DEF IInv
<1>0. ASSUME NEW s \in Slots, work' = [work EXCEPT ![s] = Free],
             file' \in {file, work[s].data, Empty, Garbled},
             history' = history \/ history' # {},
             UNCHANGED <<life, users, key, opVars, acked>>,
             history' \intersect {"cancelled", "half"} = history \intersect {"cancelled", "half"},
             history' \subseteq history \union {"fault"},
             FileInv'
      PROVE  IInv'
  <2>1. TypeOK'
    BY <1>0, WorkFacts, EmptyFacts DEF TypeOK, opVars
  <2>2. OwnerInv'
    <3>1. \A t \in Slots : work'[t] \in {work[t], Free}
      BY <1>0 DEF TypeOK
    <3>2. OneOwner(Free.data)
      BY WorkFacts, EmptyFacts
    <3>3. (file # Garbled => OneOwner(file))'
      BY <1>0, EmptyFacts DEF OwnerInv, OneOwner, OwnerIn
    <3>4. \A t \in Slots : OneOwner(work[t].data)'
      BY <3>1, <3>2 DEF OwnerInv, OneOwner, OwnerIn
    <3> QED
      BY <1>0, <3>3, <3>4 DEF OwnerInv, OneOwner, OwnerIn, opVars
  <2>3. KeyInv' /\ UndoInv' /\ DownInv' /\ MemoryInv'
    BY <1>0 DEF KeyInv, UndoInv, DownInv, MemoryInv, Clean, HasOwner, OwnerIn, opVars, TypeOK
  <2> QED
    BY <1>0, <2>1, <2>2, <2>3
<1>1. ASSUME NEW s \in Slots, LandWrite(s) PROVE IInv'
  <2>1. file' \in {work[s].data, Garbled}
    BY <1>1 DEF LandWrite, Overwrite
  <2>2. file = Empty => file' = work[s].data
    BY <1>1 DEF LandWrite, Overwrite
  <2>3. FileInv'
    BY <1>1, <2>2, WorkFacts DEF LandWrite, FileInv, TypeOK, opVars
  <2> QED
    BY <1>0, <1>1, <2>1, <2>3 DEF LandWrite
<1>2. ASSUME NEW s \in Slots, LoseWrite(s) PROVE IInv'
  <2>1. FileInv'
    BY <1>2 DEF LoseWrite, FileInv
  <2> QED
    BY <1>0, <1>2, <2>1 DEF LoseWrite
<1>3. ASSUME NEW s \in Slots, LandOrphan(s) PROVE IInv'
  <2>1. FileInv'
    BY <1>3, WorkFacts DEF LandOrphan, FileInv, TypeOK, opVars
  <2> QED
    BY <1>0, <1>3, <2>1 DEF LandOrphan
<1>4. ASSUME Crash PROVE IInv'
  <2>1. work' \in [Slots -> {Free}] /\ OneOwner(Free.data)
    BY <1>4, WorkFacts, EmptyFacts DEF Crash
  <2>2. TypeOK' /\ OwnerInv'
    <3>1. TypeOK'
      BY <1>4, <2>1, WorkFacts, EmptyFacts DEF Crash, TypeOK
    <3>2. OneOwner(users)' /\ OneOwner(undo)' /\ (file # Garbled => OneOwner(file))'
      BY <1>4, EmptyFacts DEF Crash, OwnerInv, OneOwner, OwnerIn
    <3>3. \A t \in Slots : OneOwner(work[t].data)'
      BY <2>1 DEF OneOwner, OwnerIn
    <3> QED
      BY <3>1, <3>2, <3>3 DEF OwnerInv
  <2> QED
    BY <1>4, <2>1, <2>2 DEF Crash, KeyInv, UndoInv, DownInv, MemoryInv, FileInv
<1>5. ASSUME Restart PROVE IInv'
  <2>1. file \in Snapshots /\ OneOwner(file) /\ op = "none" /\ \A t \in Slots : work[t] = Free
    BY <1>5 DEF Restart, TypeOK, OwnerInv, DownInv
  <2>2. TypeOK' /\ OwnerInv'
    BY <1>5, <2>1 DEF Restart, opVars, TypeOK, OwnerInv, OneOwner, OwnerIn
  <2> QED
    BY <1>5, <2>1, <2>2
    DEF Restart, opVars, KeyInv, UndoInv, DownInv, MemoryInv, FileInv, HasOwner, OwnerIn
<1> QED
  BY <1>1, <1>2, <1>3, <1>4, <1>5

-----------------------------------------------------------------------------
(* Theorems *)

\* IInv holds in every state of the accounts.
THEOREM Inductive == Spec => []IInv
<1>1. IInv /\ [Next]_vars => IInv'
  <2> SUFFICES ASSUME IInv, [Next]_vars PROVE IInv'
    OBVIOUS
  <2>1. ASSUME NEW s \in Slots, Handler(s) PROVE IInv'
    BY <2>1, HandlerStep, ReloginStep DEF Handler
  <2>2. CASE TakeKey \/ SetupRefused \/ OpenFails \/ Succeed \/ Cancel
    BY <2>2, EndStep
  <2>3. ASSUME NEW s \in Slots, LandWrite(s) \/ LoseWrite(s) \/ LandOrphan(s) PROVE IInv'
    BY <2>3, OutsideStep
  <2>4. CASE Crash \/ Restart
    BY <2>4, OutsideStep
  <2>5. CASE UNCHANGED vars
    BY <2>5 DEF vars, opVars, IInv, TypeOK, OwnerInv, KeyInv, UndoInv, DownInv, MemoryInv,
                Clean, FileInv, OneOwner, OwnerIn, HasOwner, Busy, FreeSlots
  <2> QED
    BY <2>1, <2>2, <2>3, <2>4, <2>5 DEF Next
<1> QED
  BY <1>1, InitHolds, PTL DEF Spec

\* The accounts in memory and in the file have their types (user.rs:353-675).
THEOREM TypeCorrect == Spec => []TypeOK
<1>1. IInv => TypeOK
  BY DEF IInv
<1> QED
  BY <1>1, Inductive, PTL

\* One owner at most, whatever fails, crashes or overlaps (setup.rs:24-40).
THEOREM OwnerIsUnique == Spec => []SingleOwner
<1>1. IInv => SingleOwner
  BY DEF IInv, OwnerInv, OneOwner, SingleOwner
<1> QED
  BY <1>1, Inductive, PTL

\* What a handler undoes it undoes to what was acknowledged (user.rs:431-675).
THEOREM UndoIsExact == Spec => []MemoryIsAcknowledged
<1>1. IInv => MemoryIsAcknowledged
  BY DEF IInv, MemoryInv, Clean, MemoryIsAcknowledged
<1> QED
  BY <1>1, Inductive, PTL

\* Undisturbed writes leave the acknowledged users in users.json (user.rs:411-427).
THEOREM QuietFileIsCurrent == Spec => []SettledFileIsAcknowledged
<1>1. IInv => SettledFileIsAcknowledged
  <2> SUFFICES ASSUME IInv, life = "up", op = "none", Busy = {}, history = {} PROVE file = acked
    BY DEF SettledFileIsAcknowledged
  <2>1. \A t \in Slots : work[t] = Free
    BY DEF Busy, FreeSlots
  <2> QED
    BY <2>1, WorkFacts DEF IInv, FileInv, TypeOK
<1> QED
  BY <1>1, Inductive, PTL

\* No step but the undoing of its own setup removes an owner (user.rs:459-487).
THEOREM OwnerStays == Spec => OwnerIsKept
<1> DEFINE Kept == \A u \in Uids :
             OwnerIn(users, u) /\ life' = "up" /\ op # "setup" => OwnerIn(users', u)
<1>1. IInv /\ [Next]_vars => [Kept]_vars
  <2> SUFFICES ASSUME IInv, Next, NEW v \in Uids, OwnerIn(users, v), life' = "up", op # "setup"
               PROVE  OwnerIn(users', v)
    OBVIOUS
  <2>0. users \in Snapshots
    BY DEF IInv, TypeOK
  <2>1. ASSUME NEW s \in Slots, Handler(s) PROVE OwnerIn(users', v)
    <3> PICK u \in Uids :
          \/ \E n \in Names, p \in Perms, r \in Revs : SetupOwner(s, u, n, p, r) \/ AddUser(s, u, n, p, r)
          \/ \E r \in Revs : Logout(s, u, r) \/ ChangePassword(s, u, r) \/ Relogin(s, u, r)
          \/ \E n \in Names : RenameUser(s, u, n)
          \/ \E p \in Perms : UpdatePermissions(s, u, p)
          \/ DeleteUser(s, u)
      BY <2>1 DEF Handler
    <3>1. ASSUME NEW n \in Names, NEW p \in Perms, NEW r \in Revs,
                 SetupOwner(s, u, n, p, r) \/ AddUser(s, u, n, p, r)
          PROVE  OwnerIn(users', v)
      BY <2>0, <3>1 DEF SetupOwner, AddUser, Begin, OwnerIn, Snapshots
    <3>2. ASSUME NEW r \in Revs, Logout(s, u, r) \/ ChangePassword(s, u, r) \/ Relogin(s, u, r)
          PROVE  OwnerIn(users', v)
      <4> DEFINE w == [users[u] EXCEPT !.rev = r]
      <4>1. users[u] \in User /\ users[u] # NoUser /\ users' = [users EXCEPT ![u] = w]
        BY <2>0, <3>2 DEF Logout, ChangePassword, Relogin, Begin, Snapshots
      <4>2. w \in User /\ w.role = users[u].role
        BY <4>1 DEF User
      <4> QED
        BY <2>0, <4>1, <4>2, RoleKept
    <3>3. ASSUME NEW n \in Names, RenameUser(s, u, n) PROVE OwnerIn(users', v)
      <4> DEFINE w == [users[u] EXCEPT !.name = n]
      <4>1. users[u] \in User /\ users[u] # NoUser /\ users' = [users EXCEPT ![u] = w]
        BY <2>0, <3>3 DEF RenameUser, Begin, Snapshots
      <4>2. w \in User /\ w.role = users[u].role
        BY <4>1 DEF User
      <4> QED
        BY <2>0, <4>1, <4>2, RoleKept
    <3>4. ASSUME NEW p \in Perms, UpdatePermissions(s, u, p) PROVE OwnerIn(users', v)
      <4> DEFINE w == [users[u] EXCEPT !.perms = p]
      <4>1. users[u] \in User /\ users[u] # NoUser /\ users' = [users EXCEPT ![u] = w]
        BY <2>0, <3>4 DEF UpdatePermissions, Begin, Snapshots
      <4>2. w \in User /\ w.role = users[u].role
        BY <4>1 DEF User
      <4> QED
        BY <2>0, <4>1, <4>2, RoleKept
    <3>5. ASSUME DeleteUser(s, u) PROVE OwnerIn(users', v)
      <4>1. v # u
        BY <3>5 DEF DeleteUser, IInv, OwnerInv, OneOwner
      <4> QED
        BY <2>0, <3>5, <4>1 DEF DeleteUser, Begin, OwnerIn, Snapshots
    <3> QED
      BY <3>1, <3>2, <3>3, <3>4, <3>5
  <2>2. CASE OpenFails
    BY <2>2 DEF OpenFails, IInv, UndoInv, TypeOK, Ops
  <2>3. CASE TakeKey \/ SetupRefused \/ Succeed \/ Cancel
    BY <2>3 DEF TakeKey, SetupRefused, Succeed, Cancel
  <2>4. ASSUME NEW s \in Slots, LandWrite(s) \/ LoseWrite(s) \/ LandOrphan(s)
        PROVE  OwnerIn(users', v)
    BY <2>4 DEF LandWrite, LoseWrite, LandOrphan
  <2>5. CASE Crash \/ Restart
    BY <2>5, EmptyFacts DEF Crash, Restart, IInv, DownInv, HasOwner
  <2> QED
    BY <2>1, <2>2, <2>3, <2>4, <2>5 DEF Next
<1> QED
  BY <1>1, Inductive, PTL DEF Spec, OwnerIsKept
====
