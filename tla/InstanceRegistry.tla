---- MODULE InstanceRegistry ----
(***************************************************************************)
(* The registry of instances, their directories, the allocated ports and   *)
(* the rights of the user who creates them: creation, deletion and starts  *)
(* (core/src/handlers/instance.rs, instance_server.rs), start-up and       *)
(* shutdown (core/src/lib.rs), with hang-ups, crashes and restarts.        *)
(*                                                                         *)
(* The registry is a DashMap: a handler that holds a reference into it     *)
(* across an await keeps the shard locked for reading, and insert and      *)
(* remove block their thread until it is let go.                           *)
(*                                                                         *)
(* A setup that is not valid, or that lacks a setting and panics in        *)
(* construct_setup_config, changes nothing and is left out.  Of a server   *)
(* only whether it is stopped is kept; InstanceServer has the rest.  Of    *)
(* its settings only that they are saved, and that the files they are in   *)
(* can be read at start-up; MinecraftSettings has the rest.                *)
(***************************************************************************)
EXTENDS Naturals, FiniteSets

CONSTANTS
  Ids,     \* the uuids instances are created with, each of them once
  Ports,   \* the ports a setup may ask for; nothing keeps two from being equal
  Shards   \* the shards of the registry

VARIABLES
  kind,       \* of the instance: "none" until it is created
  files,      \* what its directory holds that start-up looks for: see Contents
  port,       \* its port
  shard,      \* the shard its uuid hashes to
  registered, \* AppState.instances
  server,     \* the state of the instance: "Stopped" or "Running"
  restarting, \* instances whose detached restart has stopped and not yet started
  starting,   \* instances a start handler holds a reference to
  held,       \* instances a macro has cloned out of the registry, to start them
  saving,     \* Minecraft instances whose configuration is being written
  creation,   \* where the creation of each instance is
  deletion,   \* where the deletion of each instance is
  allocated,  \* PortManager.allocated_ports
  portLock,   \* who holds the mutex of the port manager across awaits
  jre,        \* is the runtime all of them use in the directory they share?
  rights,     \* the instances the requester may use, in UsersManager
  copied,     \* the rights each creation copied when it was asked for
  phase,      \* of the program: "up", "closing", "exiting" or "down"
  announced,  \* instances whose creation was announced as a success
  gone,       \* instances whose marker, or whole directory, was deleted
  cut,        \* instances a deletion or a creation left halfway
  revived,    \* instances a restart or a macro started after they left the registry
  mixed,      \* ports two instances had when one was deleted, or that changed
  raced,      \* rights have changed while a creation held a copy
  meant       \* the rights everybody meant the requester to have

regVars == <<kind, files, port, shard, registered, server, restarting, starting, held,
             saving, creation, deletion, allocated, portLock, jre, rights, copied, phase,
             announced, gone, cut, revived, mixed, raced, meant>>
serverVars == <<server, restarting, starting, held, saving, revived>>
portVars   == <<port, allocated, portLock, mixed>>
rightVars  == <<rights, copied, raced, meant>>

NoOne == "no_one"

ASSUME RegistryAssumption == NoOne \notin Ids

\* What start-up asks for, ...
Whole == {"dir", "marker", "config"}

\* ... and what keeps it from an instance that has it: a configuration that was
\* truncated and not written, and a server.properties that cannot be read.
Contents == Whole \union {"torn", "garbled"}

Minecraft(i) == kind[i] = "minecraft"

\* Handlers that hold a reference into the shard.
Readers(s) == {j \in starting : shard[j] = s}

RegInit ==
  /\ kind = [i \in Ids |-> "none"]
  /\ files = [i \in Ids |-> {}]
  /\ port \in [Ids -> Ports]
  /\ shard \in [Ids -> Shards]
  /\ registered = {}
  /\ server = [i \in Ids |-> "Stopped"]
  /\ restarting = {}
  /\ starting = {}
  /\ held = {}
  /\ saving = {}
  /\ creation = [i \in Ids |-> "idle"]
  /\ deletion = [i \in Ids |-> "idle"]
  /\ allocated = {}
  /\ portLock = NoOne
  /\ jre = FALSE
  /\ rights = {}
  /\ copied = [i \in Ids |-> {}]
  /\ phase = "up"
  /\ announced = {}
  /\ gone = {}
  /\ cut = {}
  /\ revived = {}
  /\ mixed = {}
  /\ raced = FALSE
  /\ meant = {}

-----------------------------------------------------------------------------
(* Creation *)

Creates(i, from, to) ==
  /\ phase # "down"
  /\ creation[i] = from
  /\ creation' = [creation EXCEPT ![i] = to]

\* A step of the creation's task that works, or that fails it.
Builds(i, from, to) == Creates(i, from, to) \/ Creates(i, from, "failed")

\* The handler: the requester's permissions are copied, the directory made.
CreateMinecraft(i) ==
  /\ phase = "up"
  /\ kind[i] = "none"
  /\ Creates(i, "idle", "mark")
  /\ kind' = [kind EXCEPT ![i] = "minecraft"]
  /\ files' = [files EXCEPT ![i] = {"dir"}]
  /\ copied' = [copied EXCEPT ![i] = rights]
  /\ UNCHANGED <<shard, registered, serverVars, deletion, portVars, jre, rights, raced,
                 meant, phase, announced, gone, cut>>

CreateGeneric(i) ==
  /\ phase = "up"
  /\ kind[i] = "none"
  /\ Creates(i, "idle", "bootstrap")
  /\ kind' = [kind EXCEPT ![i] = "generic"]
  /\ files' = [files EXCEPT ![i] = {"dir"}]
  /\ UNCHANGED <<shard, registered, serverVars, deletion, portVars, jre, rightVars,
                 phase, announced, gone, cut>>

\* .lodestone_config is written and the task spawned; or the write fails, or the
\* requester hangs up, and what was made so far stays.
Mark(i) ==
  /\ \/ /\ Creates(i, "mark", "files")
        /\ files' = [files EXCEPT ![i] = @ \union {"marker"}]
     \/ /\ Creates(i, "mark", "idle")
        /\ \E marker \in SUBSET {"marker"} :
             files' = [files EXCEPT ![i] = @ \union marker]
  /\ UNCHANGED <<kind, shard, registered, serverVars, deletion, portVars, jre, rightVars,
                 phase, announced, gone, cut>>

\* MinecraftInstance::new, steps 1 to 3.
MakeFiles(i) ==
  /\ Builds(i, "files", "jre")
  /\ UNCHANGED <<kind, files, shard, registered, serverVars, deletion, portVars, jre,
                 rightVars, phase, announced, gone, cut>>

FindJre(i) ==
  /\ Creates(i, "jre", IF jre THEN "jar" ELSE "unpack") \/ Creates(i, "jre", "failed")
  /\ UNCHANGED <<kind, files, shard, registered, serverVars, deletion, portVars, jre,
                 rightVars, phase, announced, gone, cut>>

\* The archive is unpacked beside and renamed: onto a directory that another
\* creation has put there meanwhile the rename fails.
InstallJre(i) ==
  /\ \/ /\ ~jre
        /\ Creates(i, "unpack", "jar")
        /\ jre' = TRUE
     \/ /\ Creates(i, "unpack", "failed")
        /\ UNCHANGED jre
  /\ UNCHANGED <<kind, files, shard, registered, serverVars, deletion, portVars,
                 rightVars, phase, announced, gone, cut>>

GetJar(i) ==
  /\ Builds(i, "jar", "config")
  /\ UNCHANGED <<kind, files, shard, registered, serverVars, deletion, portVars, jre,
                 rightVars, phase, announced, gone, cut>>

\* Step 4: the configuration is written, and the instance restored from it.
WriteNewConfig(i) ==
  /\ \/ /\ Creates(i, "config", "restore")
        /\ files' = [files EXCEPT ![i] = @ \union {"config"}]
     \/ /\ Creates(i, "config", "failed")
        /\ UNCHANGED files
  /\ UNCHANGED <<kind, shard, registered, serverVars, deletion, portVars, jre, rightVars,
                 phase, announced, gone, cut>>

\* GenericInstance::new: run.ts and .lodestone_config ...
Bootstrap(i) ==
  /\ \/ /\ Creates(i, "bootstrap", "restore")
        /\ files' = [files EXCEPT ![i] = Whole]
     \/ /\ Creates(i, "bootstrap", "failed")
        /\ UNCHANGED files
  /\ UNCHANGED <<kind, shard, registered, serverVars, deletion, portVars, jre, rightVars,
                 phase, announced, gone, cut>>

\* ... and the core macro, which has to detach and to answer SetupInstance; the
\* success is announced before anything else is done with the instance.
RestoreNew(i) ==
  /\ \/ /\ Creates(i, "restore", IF Minecraft(i) THEN "port" ELSE "remark")
        /\ announced' = announced \union {i}
     \/ /\ Creates(i, "restore", "failed")
        /\ UNCHANGED announced
  /\ UNCHANGED <<kind, files, shard, registered, serverVars, deletion, portVars, jre,
                 rightVars, phase, gone, cut>>

\* A creation that failed removes the directory, or panics if it cannot.
CleanUp(i) ==
  /\ Creates(i, "failed", "idle")
  /\ \/ /\ files' = [files EXCEPT ![i] = {}]
        /\ gone' = gone \union {i}
     \/ UNCHANGED <<files, gone>>
  /\ UNCHANGED <<kind, shard, registered, serverVars, deletion, portVars, jre, rightVars,
                 phase, announced, cut>>

\* The guard of the port manager's mutex lives to the end of the task.
AddPort(i) ==
  /\ Creates(i, "port", "grant")
  /\ portLock = NoOne
  /\ portLock' = i
  /\ allocated' = allocated \union {port[i]}
  /\ UNCHANGED <<kind, files, port, shard, registered, serverVars, deletion, jre, mixed,
                 rightVars, phase, announced, gone, cut>>

Copies(i) == {j \in Ids \ {i} : Minecraft(j) /\ creation[j] # "idle"}

\* Mutant: the rights copied are forgotten.
GrantOnly(i) ==
  /\ Creates(i, "grant", "insert")
  /\ \/ /\ rights' = {i}
        /\ meant' = meant \union {i}
        /\ raced' = (raced \/ Copies(i) # {})
     \/ UNCHANGED <<rights, meant, raced>>
  /\ UNCHANGED <<kind, files, shard, registered, serverVars, deletion, portVars, jre,
                 copied, phase, announced, gone, cut>>

\* update_permissions replaces what the requester has by the copy and the new
\* instance; that it fails is ignored.
Grant(i) ==
  /\ Creates(i, "grant", "insert")
  /\ \/ /\ rights' = copied[i] \union {i}
        /\ meant' = meant \union {i}
        /\ raced' = (raced \/ Copies(i) # {})
     \/ UNCHANGED <<rights, meant, raced>>
  /\ UNCHANGED <<kind, files, shard, registered, serverVars, deletion, portVars, jre,
                 copied, phase, announced, gone, cut>>

\* create_generic_instance writes .lodestone_config once more and panics if it
\* cannot: the file is torn and the instance dropped.
Remark(i) ==
  /\ \/ /\ Creates(i, "remark", "insert")
        /\ UNCHANGED <<files, cut>>
     \/ /\ Creates(i, "remark", "idle")
        /\ files' = [files EXCEPT ![i] = @ \ {"marker"}]
        /\ cut' = cut \union {i}
  /\ UNCHANGED <<kind, shard, registered, serverVars, deletion, portVars, jre, rightVars,
                 phase, announced, gone>>

Insert(i) ==
  /\ Creates(i, "insert", "idle")
  /\ Readers(shard[i]) = {}
  /\ registered' = registered \union {i}
  /\ portLock' = IF portLock = i THEN NoOne ELSE portLock
  /\ UNCHANGED <<kind, files, port, shard, serverVars, deletion, allocated, jre, mixed,
                 rightVars, phase, announced, gone, cut>>

-----------------------------------------------------------------------------
(* Deletion *)

Deletes(i, from, to) ==
  /\ phase = "up"
  /\ deletion[i] = from
  /\ deletion' = [deletion EXCEPT ![i] = to]

\* Mutant: the port manager is locked before the instance is taken out.
DeleteLocking(i) ==
  /\ Deletes(i, "idle", "take")
  /\ i \in registered
  /\ portLock = NoOne
  /\ portLock' = i
  /\ UNCHANGED <<kind, files, port, shard, registered, serverVars, creation, allocated,
                 mixed, jre, rightVars, phase, announced, gone, cut>>

Delete(i) ==
  /\ Deletes(i, "idle", "take")
  /\ i \in registered
  /\ UNCHANGED <<kind, files, shard, registered, serverVars, creation, portVars, jre,
                 rightVars, phase, announced, gone, cut>>

\* The instance is taken out of the registry (a second request for it does not
\* find it, and is left out), ...
Take(i) ==
  /\ Deletes(i, "take", "check")
  /\ Readers(shard[i]) = {}
  /\ registered' = registered \ {i}
  /\ UNCHANGED <<kind, files, shard, serverVars, creation, portVars, jre, rightVars,
                 phase, announced, gone, cut>>

\* Mutant: the state is not looked at.
CheckNothing(i) ==
  /\ Deletes(i, "check", "unmark")
  /\ UNCHANGED <<kind, files, shard, registered, serverVars, creation, portVars, jre,
                 rightVars, phase, announced, gone, cut>>

\* ... its state looked at, and put back if it is not stopped; a generic instance
\* whose core macro does not tell its state counts as stopped.
CheckStopped(i) ==
  /\ \/ /\ server[i] = "Stopped" \/ ~Minecraft(i)
        /\ Deletes(i, "check", "unmark")
        /\ UNCHANGED registered
     \/ /\ server[i] # "Stopped"
        /\ Deletes(i, "check", "idle")
        /\ Readers(shard[i]) = {}
        /\ registered' = registered \union {i}
  /\ UNCHANGED <<kind, files, shard, serverVars, creation, portVars, jre, rightVars,
                 phase, announced, gone, cut>>

\* Mutant: an instance whose marker stays is not put back.
UnmarkAndForget(i) ==
  /\ \/ /\ Deletes(i, "unmark", "free")
        /\ files' = [files EXCEPT ![i] = @ \ {"marker"}]
        /\ gone' = gone \union {i}
     \/ /\ Deletes(i, "unmark", "idle")
        /\ UNCHANGED <<files, gone>>
  /\ UNCHANGED <<kind, shard, registered, serverVars, creation, portVars, jre, rightVars,
                 phase, announced, cut>>

\* .lodestone_config is removed first; if it cannot be, the instance stays.
Unmark(i) ==
  /\ \/ /\ Deletes(i, "unmark", "free")
        /\ files' = [files EXCEPT ![i] = @ \ {"marker"}]
        /\ gone' = gone \union {i}
        /\ UNCHANGED registered
     \/ /\ Deletes(i, "unmark", "idle")
        /\ Readers(shard[i]) = {}
        /\ registered' = registered \union {i}
        /\ UNCHANGED <<files, gone>>
  /\ UNCHANGED <<kind, shard, serverVars, creation, portVars, jre, rightVars,
                 phase, announced, cut>>

\* Instances that have put their port in the set, or will put it back.
Owners ==
  registered \union {i \in Ids : deletion[i] \in {"check", "unmark", "free", "freeing"}}
             \union {i \in Ids : creation[i] \in {"grant", "insert"}}

\* The port manager is locked, and the instance asked for its port: of a generic
\* one, that asks the core macro, which may take its time or not answer at all.
LockPorts(i) ==
  /\ Deletes(i, "free", "freeing")
  /\ portLock = NoOne
  /\ portLock' = i
  /\ UNCHANGED <<kind, files, port, shard, registered, serverVars, creation, allocated,
                 mixed, jre, rightVars, phase, announced, gone, cut>>

\* Mutant: the port is kept.
KeepPort(i) ==
  /\ Deletes(i, "freeing", IF Minecraft(i) THEN "remove" ELSE "destruct")
  /\ portLock' = NoOne
  /\ UNCHANGED <<kind, files, port, allocated, mixed, shard, registered, serverVars, creation,
                 jre, rightVars, phase, announced, gone, cut>>

\* The port is given back, whoever else has the same.
FreePort(i) ==
  /\ Deletes(i, "freeing", IF Minecraft(i) THEN "remove" ELSE "destruct")
  /\ portLock' = NoOne
  /\ allocated' = allocated \ {port[i]}
  /\ mixed' = mixed \union {p \in {port[i]} : \E j \in Owners \ {i} : port[j] = p}
  /\ UNCHANGED <<kind, files, port, shard, registered, serverVars, creation, jre,
                 rightVars, phase, announced, gone, cut>>

\* The core macro of a generic instance answers DestructInstance, or it does not
\* and the handler waits for ever.
Destruct(i) ==
  /\ Deletes(i, "destruct", "remove")
  /\ UNCHANGED <<kind, files, shard, registered, serverVars, creation, portVars, jre,
                 rightVars, phase, announced, gone, cut>>

RemoveDir(i) ==
  /\ Deletes(i, "remove", "idle")
  /\ \E left \in SUBSET files[i] : files' = [files EXCEPT ![i] = left]
  /\ UNCHANGED <<kind, shard, registered, serverVars, creation, portVars, jre, rightVars,
                 phase, announced, gone, cut>>

\* The requester hangs up and the handler's future is dropped, the instance with
\* it and the lock it has; the removal it waits for is carried out or not.
DropDeletion(i) ==
  /\ deletion[i] # "idle"
  /\ Deletes(i, deletion[i], "idle")
  /\ cut' = IF deletion[i] = "take" THEN cut ELSE cut \union {i}
  /\ \E done \in BOOLEAN :
       LET lost == IF ~done THEN {}
                   ELSE IF deletion[i] = "unmark" THEN {"marker"}
                   ELSE IF deletion[i] = "remove" THEN Contents ELSE {}
       IN /\ files' = [files EXCEPT ![i] = @ \ lost]
          /\ gone' = IF "marker" \in lost THEN gone \union {i} ELSE gone
  /\ portLock' = IF portLock = i THEN NoOne ELSE portLock
  /\ UNCHANGED <<kind, port, allocated, mixed, shard, registered, serverVars, creation, jre,
                 rightVars, phase, announced>>

-----------------------------------------------------------------------------
(* Starts, stops, saves and changes of port and of rights *)

\* start_instance takes a reference into the registry, and waits for the mutex
\* of the port manager with it.
BeginStart(i) ==
  /\ phase = "up"
  /\ i \in registered \ starting
  /\ starting' = starting \union {i}
  /\ UNCHANGED <<kind, files, shard, registered, server, restarting, held, saving, revived,
                 creation, deletion, portVars, jre, rightVars, phase, announced, gone, cut>>

\* The start itself works or fails, or the port is in use, or the requester has
\* hung up before.
EndStart(i) ==
  /\ i \in starting
  /\ starting' = starting \ {i}
  /\ \/ UNCHANGED server
     \/ /\ portLock = NoOne
        /\ server' = [server EXCEPT ![i] = "Running"]
  /\ UNCHANGED <<kind, files, shard, registered, restarting, held, saving, revived, creation,
                 deletion, portVars, jre, rightVars, phase, announced, gone, cut>>

\* A macro's start_instance clones the instance out of the registry and refers to
\* its shard no more; ...
MacroHolds(i) ==
  /\ phase # "down"
  /\ i \in registered
  /\ held' = held \union {i}
  /\ UNCHANGED <<kind, files, shard, registered, server, restarting, starting, saving,
                 revived, creation, deletion, portVars, jre, rightVars, phase, announced,
                 gone, cut>>

\* ... it starts what it has, registered or not, if the directory is there, and
\* asks nobody about the port.  Another macro may have it still.
MacroStarts(i) ==
  /\ phase # "down"
  /\ i \in held
  /\ held' \in {held, held \ {i}}
  /\ \/ /\ "dir" \in files[i]
        /\ server' = [server EXCEPT ![i] = "Running"]
        /\ revived' = revived \union ({i} \ registered)
     \/ UNCHANGED <<server, revived>>
  /\ UNCHANGED <<kind, files, shard, registered, restarting, starting, saving, creation,
                 deletion, portVars, jre, rightVars, phase, announced, gone, cut>>

\* A server is stopped, or exits; a restart, asked for by a requester or by a
\* macro, does the same and goes on in a task of its own ...
Stops(i) ==
  /\ phase # "down"
  /\ server[i] = "Running"
  /\ server' = [server EXCEPT ![i] = "Stopped"]
  /\ restarting' \in {restarting} \union
       (IF i \in held \/ (i \in registered /\ phase = "up")
        THEN {restarting \union {i}} ELSE {})
  /\ UNCHANGED <<kind, files, shard, registered, starting, held, saving, revived, creation,
                 deletion, portVars, jre, rightVars, phase, announced, gone, cut>>

\* ... which has the instance, registered or not, and starts it if its
\* directory is there.
RestartStarts(i) ==
  /\ phase # "down"
  /\ i \in restarting
  /\ restarting' = restarting \ {i}
  /\ \/ /\ "dir" \in files[i]
        /\ server' = [server EXCEPT ![i] = "Running"]
        /\ revived' = revived \union ({i} \ registered)
     \/ UNCHANGED <<server, revived>>
  /\ UNCHANGED <<kind, files, shard, registered, starting, held, saving, creation, deletion,
                 portVars, jre, rightVars, phase, announced, gone, cut>>

\* Every change of a setting, and every start, saves the whole configuration:
\* fs::write truncates the file first, ...
BeginSave(i) ==
  /\ phase # "down"
  /\ Minecraft(i)
  /\ i \in registered \union held \union restarting \/ server[i] = "Running"
  /\ "dir" \in files[i]
  /\ saving' = saving \union {i}
  /\ files' = [files EXCEPT ![i] = (@ \ {"config"}) \union {"torn"}]
  /\ UNCHANGED <<kind, shard, registered, server, restarting, starting, held, revived,
                 creation, deletion, portVars, jre, rightVars, phase, announced, gone, cut>>

\* ... and then writes it, in a thread that goes on when the requester has hung
\* up.  It fails, or two of them overlap and the file stays torn.
EndSave(i) ==
  /\ phase # "down"
  /\ i \in saving
  /\ saving' = saving \ {i}
  /\ \/ /\ "torn" \in files[i]
        /\ files' = [files EXCEPT ![i] = (@ \ {"torn"}) \union {"config"}]
     \/ UNCHANGED files
  /\ UNCHANGED <<kind, shard, registered, server, restarting, starting, held, revived,
                 creation, deletion, portVars, jre, rightVars, phase, announced, gone, cut>>

\* server.properties is written, by a setting, the server or somebody who edits it
\* (while the program is down, too): it ends up with or without a line that has
\* no '='.
EditProperties(i) ==
  /\ Minecraft(i)
  /\ i \in announced
  /\ i \in registered \/ phase = "down"
  /\ "dir" \in files[i]
  /\ \/ files' = [files EXCEPT ![i] = @ \union {"garbled"}]
     \/ files' = [files EXCEPT ![i] = @ \ {"garbled"}]
  /\ UNCHANGED <<kind, shard, registered, serverVars, creation, deletion, portVars, jre,
                 rightVars, phase, announced, gone, cut>>

\* set_port, or a change of server-port, leaves the port manager as it is; that it
\* is saved is BeginSave.
\* Bound: one change between two restarts.
ChangePort(i, p) ==
  /\ phase = "up"
  /\ i \in registered
  /\ mixed = {}
  /\ p # port[i]
  /\ port' = [port EXCEPT ![i] = p]
  /\ mixed' = {p, port[i]}
  /\ UNCHANGED <<kind, files, shard, registered, serverVars, creation, deletion, allocated,
                 portLock, jre, rightVars, phase, announced, gone, cut>>

\* An administrator grants the requester an instance, or takes it away.
ChangeRights(i) ==
  /\ phase = "up"
  /\ i \in registered
  /\ rights' = IF i \in rights THEN rights \ {i} ELSE rights \union {i}
  /\ meant' = rights'
  /\ raced' = (raced \/ Copies(i) # {})
  /\ UNCHANGED <<kind, files, shard, registered, serverVars, creation, deletion, portVars,
                 jre, copied, phase, announced, gone, cut>>

-----------------------------------------------------------------------------
(* The program: shutdown, crash and start-up *)

\* The web server is shut down first; the futures of its handlers have been
\* dropped by then (DropDeletion, Mark).
BeginShutdown ==
  /\ phase = "up"
  /\ \A i \in Ids : deletion[i] = "idle" /\ creation[i] # "mark"
  /\ phase' = "closing"
  /\ starting' = {}
  /\ UNCHANGED <<kind, files, shard, registered, server, restarting, held, saving, revived,
                 creation, deletion, portVars, jre, rightVars, announced, gone, cut>>

\* What has been started is told to stop, and nobody waits for it.
StopAll ==
  /\ phase = "closing"
  /\ phase' = "exiting"
  /\ server' = [i \in Ids |-> IF i \in registered THEN "Stopped" ELSE server[i]]
  /\ UNCHANGED <<kind, files, shard, registered, restarting, starting, held, saving, revived,
                 creation, deletion, portVars, jre, rightVars, announced, gone, cut>>

\* exit(0), or a crash at any time: tasks and memory are gone, files stay as they
\* are, torn ones too.
Ends ==
  /\ phase # "down"
  /\ phase' = "down"
  /\ registered' = {}
  /\ restarting' = {}
  /\ starting' = {}
  /\ held' = {}
  /\ saving' = {}
  /\ creation' = [i \in Ids |-> "idle"]
  /\ deletion' = [i \in Ids |-> "idle"]
  /\ copied' = [i \in Ids |-> {}]
  /\ allocated' = {}
  /\ portLock' = NoOne
  /\ UNCHANGED <<kind, files, port, shard, server, revived, jre, rights, raced, meant,
                 announced, gone, cut, mixed>>

\* Mutant: the marker is not asked for.
RestorableUnmarked(i) == "config" \in files[i] /\ "garbled" \notin files[i]

\* restore_instances skips a directory whose marker, configuration or
\* server.properties cannot be read.
Restorable(i) == {"marker", "config"} \subseteq files[i] /\ "garbled" \notin files[i]

\* A generic instance also needs its core macro, which may fail.  Ports are
\* allocated to whatever was restored.
StartUp ==
  /\ phase = "down"
  /\ phase' = "up"
  /\ \E failing \in SUBSET {i \in Ids : kind[i] = "generic"} :
       registered' = {i \in Ids : Restorable(i)} \ failing
  /\ allocated' = {port[i] : i \in registered'}
  /\ server' = [i \in Ids |-> "Stopped"]
  /\ cut' = {}
  /\ revived' = {}
  /\ mixed' = {}
  /\ UNCHANGED <<kind, files, port, shard, restarting, starting, held, saving, creation,
                 deletion, portLock, jre, rightVars, announced, gone>>

CreationStep(i) ==
  \/ CreateMinecraft(i) \/ CreateGeneric(i) \/ Mark(i)
  \/ MakeFiles(i) \/ FindJre(i) \/ InstallJre(i) \/ GetJar(i) \/ WriteNewConfig(i)
  \/ Bootstrap(i) \/ RestoreNew(i) \/ CleanUp(i)
  \/ AddPort(i) \/ Grant(i) \/ Remark(i) \/ Insert(i)

DeletionStep(i) ==
  \/ Delete(i) \/ Take(i) \/ CheckStopped(i) \/ Unmark(i) \/ LockPorts(i) \/ FreePort(i)
  \/ Destruct(i) \/ RemoveDir(i) \/ DropDeletion(i)

UseStep(i) ==
  \/ BeginStart(i) \/ EndStart(i) \/ MacroHolds(i) \/ MacroStarts(i)
  \/ Stops(i) \/ RestartStarts(i)
  \/ BeginSave(i) \/ EndSave(i) \/ EditProperties(i)
  \/ \E p \in Ports : ChangePort(i, p)
  \/ ChangeRights(i)

RegNext ==
  \/ \E i \in Ids : CreationStep(i) \/ DeletionStep(i) \/ UseStep(i)
  \/ BeginShutdown \/ StopAll \/ Ends \/ StartUp

RegSpec == RegInit /\ [][RegNext]_regVars

-----------------------------------------------------------------------------
(* Properties *)

CreationStages == {"idle", "mark", "files", "jre", "unpack", "jar", "config",
                   "bootstrap", "restore", "failed", "port", "grant", "remark", "insert"}

DeletionStages ==
  {"idle", "take", "check", "unmark", "free", "freeing", "destruct", "remove"}

RegTypeOK ==
  /\ kind \in [Ids -> {"none", "minecraft", "generic"}]
  /\ files \in [Ids -> SUBSET Contents]
  /\ port \in [Ids -> Ports]
  /\ shard \in [Ids -> Shards]
  /\ server \in [Ids -> {"Stopped", "Running"}]
  /\ creation \in [Ids -> CreationStages]
  /\ deletion \in [Ids -> DeletionStages]
  /\ copied \in [Ids -> SUBSET Ids]
  /\ registered \in SUBSET Ids /\ restarting \in SUBSET Ids /\ starting \in SUBSET Ids
  /\ held \in SUBSET Ids /\ saving \in SUBSET Ids
  /\ rights \in SUBSET Ids /\ meant \in SUBSET Ids
  /\ announced \in SUBSET Ids /\ gone \in SUBSET Ids
  /\ cut \in SUBSET Ids /\ revived \in SUBSET Ids
  /\ allocated \in SUBSET Ports /\ mixed \in SUBSET Ports
  /\ portLock \in Ids \union {NoOne}
  /\ phase \in {"up", "closing", "exiting", "down"}
  /\ jre \in BOOLEAN /\ raced \in BOOLEAN

\* A Minecraft instance that was announced as created and that nobody has
\* deleted is in the registry, or about to be put there, before and after any
\* crash: creation writes all that start-up looks for before it announces, and
\* deletion puts back what it does not delete.  What it is lost by is a save that
\* truncates its configuration and is cut short by a crash, or fails; a
\* server.properties that cannot be read; and, until the next start, a deletion
\* whose requester hung up.
CreatedIsKept ==
  \A i \in announced \ (gone \union cut) :
    (Minecraft(i) /\ phase # "down" /\ deletion[i] \notin {"check", "unmark"})
      => \/ i \in registered
         \/ creation[i] \in {"port", "grant", "insert"}
         \/ {"torn", "garbled"} \intersect files[i] # {}

\* An instance whose marker was deleted never comes back, not even when the
\* program ends before its directory is removed; and no Minecraft server of it
\* runs unless a restart or a macro had the instance when it was taken out of the
\* registry, and started it afterwards (delete_instance looks at the state first
\* and removes the marker first).
DeletedStaysGone ==
  \A i \in gone :
    /\ i \notin registered
    /\ "marker" \notin files[i]
    /\ (Minecraft(i) /\ server[i] = "Running" /\ phase # "down") => i \in revived

\* The port manager knows the ports of the Minecraft instances, and no others
\* but those of generic ones it saw at start-up: of every port that was not
\* changed by its instance and not shared by one that was deleted, and but for
\* deletions whose requester hung up.
PortsAreOwned ==
  phase # "down" =>
    \A p \in Ports \ mixed :
      /\ \A i \in registered : (Minecraft(i) /\ port[i] = p) => p \in allocated
      /\ p \in allocated => \E i \in Owners \union cut : port[i] = p

\* The requester has the rights that were meant: what a creation copied before
\* it began is written back minutes later, and undoes nothing unless rights
\* changed in between, by an administrator or by another creation.
RightsAreKept == ~raced => rights = meant

\* A creation, or a deletion, that has locked the port manager waits for its
\* shard of the registry, and a start that refers to the shard waits for the
\* port manager: that can happen only when two instances share a shard.
NoLockCycle ==
  (\A i, j \in Ids : i # j => shard[i] # shard[j]) =>
    \A i \in Ids :
      (portLock = i /\ (creation[i] = "insert" \/ deletion[i] = "take"))
        => Readers(shard[i]) = {}
====
