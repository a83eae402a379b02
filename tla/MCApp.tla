---- MODULE MCApp ----
(***************************************************************************)
(* The registry of instances, the event broadcaster, the procedure bridge  *)
(* of a generic instance and the operations on files, side by side: they   *)
(* share no variable that another one reads, so a behavior steps one of    *)
(* them and leaves the others where they started.  The subject also says   *)
(* which of the parts that do not touch each other are looked at together. *)
(***************************************************************************)
EXTENDS InstanceRegistry, EventBroadcast, ProcedureBridge, FileTransfers, TLC

CONSTANTS t1, t2, t3, c1, c2

VARIABLE subject   \* the parts a behavior is about

allVars == <<regVars, evVars, brVars, fsVars, subject>>

Symmetry == Permutations(Ids) \union Permutations(Ports) \union Permutations(Shards)

MCTransfers == {t1, t2, t3}
MCCallers   == {c1, c2}

MCWanted == EventKinds \ {"update"}

Subjects == {{"generic", "ports", "rights"}, {"servers"}, {"servers", "one"},
             {"records"}, {"events"}, {"console"}, {"waiter"}, {"bridge"}, {"files", "two"}, {"files"}}

About(part) == part \in subject

\* Ports and shards differ only where it matters.
Init ==
  /\ RegInit
  /\ EvInit
  /\ BrInit
  /\ FsInit
  /\ subject \in Subjects
  /\ About("ports") \/ \A i, j \in Ids : port[i] = port[j]
  /\ About("servers") \/ \A i, j \in Ids : shard[i] = shard[j]

\* What macros, restarts and saves do to an instance does not depend on others:
\* they refer to no shard and lock nothing they share.
Alone(i) == About("one") => \A j \in Ids \ {i} : kind[j] = "none"

InstanceStep(i) ==
  \/ /\ About("generic") \/ About("servers")
     /\ \/ CreateMinecraft(i) \/ Mark(i)
        \/ MakeFiles(i) \/ FindJre(i) \/ InstallJre(i) \/ GetJar(i) \/ WriteNewConfig(i)
        \/ RestoreNew(i) \/ CleanUp(i) \/ AddPort(i) \/ Grant(i) \/ Insert(i)
        \/ DeletionStep(i)
  \/ About("generic") /\ (CreateGeneric(i) \/ Bootstrap(i) \/ Remark(i))
  \/ About("servers") /\ (BeginStart(i) \/ EndStart(i))
  \/ About("one") /\ (Stops(i) \/ RestartStarts(i) \/ MacroHolds(i) \/ MacroStarts(i)
                        \/ BeginSave(i) \/ EndSave(i) \/ EditProperties(i))
  \/ About("ports") /\ \E p \in Ports : ChangePort(i, p)
  \/ About("rights") /\ ChangeRights(i)

RegistryStep ==
  \/ \E i \in Ids : Alone(i) /\ InstanceStep(i)
  \/ About("servers") /\ (BeginShutdown \/ StopAll)
  \/ (About("generic") \/ About("servers")) /\ (Ends \/ StartUp)

EventParts == {"records", "waiter"} \union Streams

\* No more kinds of events than the part tells apart.
Told == {"console", "state"}
          \union (IF About("records") THEN {"update"} ELSE {"end"})
          \union (IF About("events") \/ About("console") THEN {"logout"} ELSE {})

EventStep ==
  \/ subject \subseteq EventParts /\ \E k \in Told : Send(k)
  \/ About("records") /\ (SubscribeBuffer \/ SubscribeStore \/ BufferLags \/ BufferEvent
                            \/ StoreLags \/ StoreEvent)
  \/ (About("events") \/ About("console")) /\ (ChangeView \/ DeleteViewer)
  \/ \E s \in subject \intersect Streams :
       OpenStream(s) \/ StreamEvent(s) \/ StreamLags(s) \/ ClientMessage(s) \/ ClientLeaves(s)
  \/ About("waiter") /\ (Call \/ WaiterEvent \/ WaitAgain \/ WaiterPanics)

\* Callers are alike: between them they call all there is.
BridgeStep ==
  /\ About("bridge")
  /\ BrNext
  /\ procedure'[c1] \in {"own", "get"}
  /\ procedure'[c2] \in {"own", "ask", "act"}

\* Two transfers of any form, named by their turn to begin; or an upload into an
\* instance that meets two others.
Meeting == {"none", "zip", "move"}

Turns(t) ==
  CASE t = t1 -> TRUE
    [] t = t2 -> stage[t1] # "idle"
    [] t = t3 -> stage[t2] # "idle" /\ ~About("two")

FileStep ==
  /\ About("files")
  /\ \E t \in Transfers : Turns(t) /\ FsStep(t)
  /\ About("two") \/ (form'[t1] = "upload" /\ {form'[t2], form'[t3]} \subseteq Meeting)
  /\ \A t \in Transfers : target'[t] <= 2 /\ source'[t] <= 1

Next ==
  /\ UNCHANGED subject
  /\ \/ RegistryStep /\ UNCHANGED <<evVars, brVars, fsVars>>
     \/ EventStep /\ UNCHANGED <<regVars, brVars, fsVars>>
     \/ BridgeStep /\ UNCHANGED <<regVars, evVars, fsVars>>
     \/ FileStep /\ UNCHANGED <<regVars, evVars, brVars>>

Spec == Init /\ [][Next]_allVars
====
